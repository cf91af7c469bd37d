------------------------- MODULE ResetNetworkProofs -------------------------
(***************************************************************************)
(* Proofs about the reset network, for every value of the constants that  *)
(* satisfies ConstAssumption.                                               *)
(***************************************************************************)
EXTENDS ResetNetwork, TLAPS

(***************************************************************************)
(* The reset-key decoder.  WarmBoot's bitwise do_reset accepts exactly the *)
(* bytes 0b101011xx: the byte with its two low bits dropped is 0x2B.       *)
(***************************************************************************)
LEMMA PowersOfTwo ==
  /\ 2^2 = 4 /\ 2^3 = 8 /\ 2^4 = 16 /\ 2^5 = 32 /\ 2^6 = 64 /\ 2^7 = 128
BY SMT

(* The do_reset decoder of WarmBoot accepts exactly the reference key      *)
(* 0xAC with its two low bits ignored, for every byte written to ctrl.     *)
LEMMA KeyDecode ==
  ASSUME NEW v \in 0..255
  PROVE  DoReset(v) <=> KeyRef(v)
BY PowersOfTwo, SMT DEF DoReset, KeyRef, Bit

(* The reset value 0 of reboot.ctrl is not the reset key. *)
LEMMA ZeroIsNoKey == ~DoReset(0)
BY PowersOfTwo, SMT DEF DoReset, Bit

-----------------------------------------------------------------------------
(* Every step keeps the CSRs, the MMCM and the synchronizer within their   *)
(* types.                                                                   *)
LEMMA TypeStep == TypeOK /\ [Next]_vars => TypeOK'
<1>. USE ConstAssumption
<1> SUFFICES ASSUME TypeOK, [Next]_vars PROVE TypeOK'
  OBVIOUS
<1>1. CASE ResetCycle
  BY <1>1 DEF ResetCycle, Edge, TypeOK, PowerReset
<1>2. ASSUME NEW v \in CtrlWrites, WriteCtrl(v) PROVE TypeOK'
  BY <1>2 DEF WriteCtrl, Edge, TypeOK
<1>3. ASSUME NEW a \in Addrs, WriteAddr(a) PROVE TypeOK'
  BY <1>3 DEF WriteAddr, Edge, TypeOK
<1>4. ASSUME NEW v \in PowerWrites, WritePower(v) PROVE TypeOK'
  BY <1>4 DEF WritePower, Edge, TypeOK
<1>5. CASE MmcmLock
  BY <1>5 DEF MmcmLock, TypeOK
<1>6. CASE PllLoseLock
  <2>1. glitches' \in 0..MaxGlitches
    BY <1>6 DEF PllLoseLock, TypeOK
  <2>2. pll_locked' \in BOOLEAN /\ rst_meta' \in BOOLEAN /\ sys_rst' \in BOOLEAN
    BY <1>6, Zenon DEF PllLoseLock
  <2>3. QED
    BY <1>6, <2>1, <2>2 DEF PllLoseLock, TypeOK
<1>7. CASE UNCHANGED vars
  BY <1>7 DEF vars, TypeOK
<1>8. QED
  BY <1>1, <1>2, <1>3, <1>4, <1>5, <1>6, <1>7 DEF Next

(* Power-on satisfies the type invariant. *)
LEMMA TypeInit == Init => TypeOK
<1> SUFFICES ASSUME Init PROVE TypeOK
  OBVIOUS
<1>1. ctrl \in 0..255 /\ power \in 0..255 /\ glitches \in 0..MaxGlitches
  BY ConstAssumption DEF Init, PowerReset
<1>2. pll_locked \in BOOLEAN /\ rst_meta \in BOOLEAN /\ sys_rst \in BOOLEAN
  BY Zenon DEF Init
<1>3. addr \in Addrs /\ boot_vec \in Addrs /\ req_addr \in Addrs \cup {NoReq}
  BY ConstAssumption DEF Init
<1>4. QED
  BY <1>1, <1>2, <1>3 DEF TypeOK

(* The CSRs, the MMCM and the reset synchronizer stay within their types.  *)
THEOREM TypeCorrect == Spec => []TypeOK
BY TypeInit, TypeStep, PTL DEF Spec

-----------------------------------------------------------------------------
(***************************************************************************)
(* The inductive invariant behind KeyIsExact and ResetOnlyByKey.  The CPU  *)
(* runs only when the MMCM is locked and the synchronizer is clear, and a  *)
(* locked MMCM never has the key in ctrl: every edge that stores a key     *)
(* drops LOCKED before the next edge.                                       *)
(***************************************************************************)
Running == ~sys_rst => pll_locked /\ ~rst_meta
LockedNoKey == pll_locked => ~DoReset(ctrl)

IInv == TypeOK /\ Running /\ LockedNoKey

(* Power-on satisfies the invariant: the MMCM is unlocked and ctrl is 0. *)
LEMMA IInvInit == Init => IInv
BY ConstAssumption, TypeInit, ZeroIsNoKey DEF Init, IInv, Running, LockedNoKey

(* Every step of the network keeps the invariant. *)
LEMMA IInvStep == IInv /\ [Next]_vars => IInv'
<1>. USE ConstAssumption
<1> SUFFICES ASSUME IInv, [Next]_vars PROVE IInv'
  OBVIOUS
<1>0. TypeOK'
  BY TypeStep DEF IInv
<1>1. CASE ResetCycle
  BY <1>0, <1>1, ZeroIsNoKey DEF ResetCycle, Edge, IInv, Running, LockedNoKey
<1>2. ASSUME NEW v \in CtrlWrites, WriteCtrl(v) PROVE IInv'
  BY <1>0, <1>2 DEF WriteCtrl, Edge, IInv, Running, LockedNoKey
<1>3. ASSUME NEW a \in Addrs, WriteAddr(a) PROVE IInv'
  BY <1>0, <1>3 DEF WriteAddr, Edge, IInv, Running, LockedNoKey
<1>4. ASSUME NEW v \in PowerWrites, WritePower(v) PROVE IInv'
  BY <1>0, <1>4 DEF WritePower, Edge, IInv, Running, LockedNoKey
<1>5. CASE MmcmLock
  BY <1>0, <1>5 DEF MmcmLock, IInv, Running, LockedNoKey
<1>6. CASE PllLoseLock
  BY <1>0, <1>6 DEF PllLoseLock, IInv, Running, LockedNoKey
<1>7. CASE UNCHANGED vars
  BY <1>0, <1>7 DEF vars, IInv, Running, LockedNoKey
<1>8. QED
  BY <1>1, <1>2, <1>3, <1>4, <1>5, <1>6, <1>7 DEF Next

(* The invariant holds in every state of every behaviour. *)
LEMMA IInvInductive == Spec => []IInv
BY IInvInit, IInvStep, PTL DEF Spec

(* Whatever software writes to reboot.ctrl, the CPU never executes while   *)
(* ctrl holds the reset key.                                                *)
THEOREM KeyIsExactThm == Spec => []KeyIsExact
<1>1. IInv => KeyIsExact
  <2> SUFFICES ASSUME IInv, ~sys_rst PROVE ~KeyRef(ctrl)
    BY DEF KeyIsExact
  <2>1. ~DoReset(ctrl)
    BY DEF IInv, Running, LockedNoKey
  <2>2. QED
    BY <2>1, KeyDecode DEF IInv, TypeOK
<1>2. QED
  BY <1>1, IInvInductive, PTL

(* The system is reset only by a write of the reset key or a lock loss.    *)
THEOREM ResetOnlyByKeyThm == Spec => ResetOnlyByKey
<1>. USE ConstAssumption
<1>1. IInv /\ [Next]_vars
        => [pll_locked /\ ~pll_locked' => KeyRef(ctrl') \/ glitches' = glitches + 1]_vars
  <2> SUFFICES ASSUME IInv, [Next]_vars, pll_locked, ~pll_locked'
               PROVE  KeyRef(ctrl') \/ glitches' = glitches + 1
    OBVIOUS
  <2>1. CASE ResetCycle
    BY <2>1, ZeroIsNoKey DEF ResetCycle, Edge
  <2>2. ASSUME NEW v \in CtrlWrites, WriteCtrl(v) PROVE KeyRef(ctrl')
    <3>1. DoReset(v)
      BY <2>2 DEF WriteCtrl, Edge
    <3>2. QED
      BY <2>2, <3>1, KeyDecode DEF WriteCtrl
  <2>3. ASSUME NEW a \in Addrs, WriteAddr(a) PROVE FALSE
    BY <2>3 DEF WriteAddr, Edge, IInv, LockedNoKey
  <2>4. ASSUME NEW v \in PowerWrites, WritePower(v) PROVE FALSE
    BY <2>4 DEF WritePower, Edge, IInv, LockedNoKey
  <2>5. CASE MmcmLock
    BY <2>5 DEF MmcmLock
  <2>6. CASE PllLoseLock
    BY <2>6 DEF PllLoseLock
  <2>7. CASE UNCHANGED vars
    BY <2>7 DEF vars
  <2>8. QED
    BY <2>1, <2>2, <2>3, <2>4, <2>5, <2>6, <2>7 DEF Next
<1>2. QED
  BY <1>1, IInvInductive, PTL DEF Spec, ResetOnlyByKey

(* The CPU leaves reset only with every CSR at its reset value and the     *)
(* external SRAM out of isolation.                                          *)
THEOREM CleanBootThm == Spec => CleanBoot
<1>1. [Next]_vars
        => [sys_rst /\ ~sys_rst' =>
              /\ ctrl' = 0 /\ addr' = ResetVector /\ power' = PowerReset
              /\ PwrS0']_vars
  <2> SUFFICES ASSUME [Next]_vars, sys_rst, ~sys_rst'
               PROVE  /\ ctrl' = 0 /\ addr' = ResetVector /\ power' = PowerReset
                      /\ PwrS0'
    OBVIOUS
  <2>1. CASE ResetCycle
    BY <2>1, PowersOfTwo DEF ResetCycle, PwrS0, Bit, PowerReset
  <2>2. CASE \E v \in CtrlWrites : WriteCtrl(v)
    BY <2>2 DEF WriteCtrl
  <2>3. CASE \E a \in Addrs : WriteAddr(a)
    BY <2>3 DEF WriteAddr
  <2>4. CASE \E v \in PowerWrites : WritePower(v)
    BY <2>4 DEF WritePower
  <2>5. CASE MmcmLock \/ PllLoseLock
    BY <2>5 DEF MmcmLock, PllLoseLock
  <2>6. CASE UNCHANGED vars
    BY <2>6 DEF vars
  <2>7. QED
    BY <2>1, <2>2, <2>3, <2>4, <2>5, <2>6 DEF Next
<1>2. QED
  BY <1>1, PTL DEF Spec, CleanBoot
-----------------------------------------------------------------------------
(***************************************************************************)
(* The refinement of WarmReboot.  The reset is released on the edge after *)
(* the one that cleared the synchronizer's first stage, and that earlier  *)
(* edge was a reset edge, which put addr at its reset value: so the CPU   *)
(* loads its PC from a reset addr on the edge that releases it.           *)
(***************************************************************************)
AddrAtRelease == sys_rst /\ ~rst_meta => addr = ResetVector

RInv == IInv /\ AddrAtRelease

(* Power-on holds both synchronizer stages high. *)
LEMMA RInvInit == Init => RInv
BY IInvInit DEF Init, RInv, AddrAtRelease

(* Every step keeps addr reset until the reset is released. *)
LEMMA RInvStep == RInv /\ [Next]_vars => RInv'
<1> SUFFICES ASSUME RInv, [Next]_vars PROVE RInv'
  OBVIOUS
<1>1. IInv'
  BY IInvStep DEF RInv
<1>2. AddrAtRelease'
  <2>1. CASE ResetCycle
    BY <2>1 DEF ResetCycle, AddrAtRelease
  <2>2. CASE \E v \in CtrlWrites : WriteCtrl(v)
    BY <2>2 DEF WriteCtrl, Edge, RInv, IInv, Running, AddrAtRelease
  <2>3. CASE \E a \in Addrs : WriteAddr(a)
    BY <2>3 DEF WriteAddr, Edge, RInv, IInv, Running, AddrAtRelease
  <2>4. CASE \E v \in PowerWrites : WritePower(v)
    BY <2>4 DEF WritePower, Edge, RInv, IInv, Running, AddrAtRelease
  <2>5. CASE MmcmLock
    BY <2>5 DEF MmcmLock, RInv, AddrAtRelease
  <2>6. CASE PllLoseLock
    BY <2>6 DEF PllLoseLock, AddrAtRelease
  <2>7. CASE UNCHANGED vars
    BY <2>7 DEF vars, RInv, AddrAtRelease
  <2>8. QED
    BY <2>1, <2>2, <2>3, <2>4, <2>5, <2>6, <2>7 DEF Next
<1>3. QED
  BY <1>1, <1>2 DEF RInv

(* A step that leaves the sys domain in reset is invisible to the CPU. *)
LEMMA InResetStutters ==
  ASSUME sys_rst, sys_rst'
  PROVE  UNCHANGED WB!avars
BY DEF WB!avars

(* A step of the network maps to a step of WarmReboot or to a stutter. *)
LEMMA StepRefines == RInv /\ [Next]_vars => [WB!Next]_WB!avars
<1>. USE ConstAssumption
<1> SUFFICES ASSUME RInv, [Next]_vars PROVE [WB!Next]_WB!avars
  OBVIOUS
<1>0. TypeOK /\ Running /\ LockedNoKey /\ AddrAtRelease
  BY DEF RInv, IInv
<1>1. CASE ResetCycle
  <2>1. CASE sys_rst'
    BY <1>1, <2>1, InResetStutters DEF ResetCycle
  <2>2. CASE ~sys_rst'
    <3>1. ~rst_meta
      BY <1>1, <2>2 DEF ResetCycle, Edge
    <3>2. addr = ResetVector
      BY <1>0, <1>1, <3>1 DEF ResetCycle, AddrAtRelease
    <3>3. WB!Boot
      BY <1>1, <2>2, <3>2 DEF ResetCycle, WB!Boot
    <3>4. QED
      BY <3>3 DEF WB!Next
  <2>3. QED
    BY <2>1, <2>2
<1>2. ASSUME NEW v \in CtrlWrites, WriteCtrl(v) PROVE [WB!Next]_WB!avars
  <2>1. v \in 0..255 /\ ~sys_rst
    BY <1>2 DEF WriteCtrl
  <2>2. CASE DoReset(v)
    <3>1. WB!IsKey(v)
      BY <2>1, <2>2, KeyDecode DEF KeyRef, WB!IsKey
    <3>2. sys_rst'
      BY <1>2, <2>2 DEF WriteCtrl, Edge
    <3>3. WB!GoDown
      BY <2>1, <3>2 DEF WB!GoDown, WB!AtReset
    <3>4. QED
      BY <2>1, <3>1, <3>3 DEF WB!WriteCtrl, WB!Next
  <2>3. CASE ~DoReset(v)
    <3>1. ~WB!IsKey(v)
      BY <2>1, <2>3, KeyDecode DEF KeyRef, WB!IsKey
    <3>2. ~sys_rst'
      BY <1>0, <1>2, <2>1, <2>3 DEF WriteCtrl, Edge, Running
    <3>3. WB!WriteCtrl(v)
      BY <1>2, <2>1, <3>1, <3>2 DEF WriteCtrl, WB!WriteCtrl
    <3>4. QED
      BY <3>3 DEF WB!Next
  <2>4. QED
    BY <2>2, <2>3
<1>3. ASSUME NEW a \in Addrs, WriteAddr(a) PROVE [WB!Next]_WB!avars
  <2>1. ~sys_rst /\ ~sys_rst'
    BY <1>0, <1>3 DEF WriteAddr, Edge, Running, LockedNoKey
  <2>2. WB!WriteAddr(a)
    BY <1>3, <2>1 DEF WriteAddr, WB!WriteAddr
  <2>3. QED
    BY <2>2 DEF WB!Next
<1>4. ASSUME NEW v \in PowerWrites, WritePower(v) PROVE [WB!Next]_WB!avars
  <2>1. ~sys_rst /\ ~sys_rst'
    BY <1>0, <1>4 DEF WritePower, Edge, Running, LockedNoKey
  <2>2. WB!WritePower(v)
    BY <1>4, <2>1 DEF WritePower, WB!WritePower
  <2>3. QED
    BY <2>2 DEF WB!Next
<1>5. CASE MmcmLock
  <2>1. sys_rst /\ sys_rst'
    BY <1>0, <1>5 DEF MmcmLock, Running
  <2>2. QED
    BY <2>1, InResetStutters
<1>6. CASE PllLoseLock
  <2>1. CASE sys_rst
    BY <1>6, <2>1, InResetStutters DEF PllLoseLock
  <2>2. CASE ~sys_rst
    <3>1. WB!GoDown
      BY <1>6, <2>2 DEF PllLoseLock, WB!GoDown, WB!AtReset
    <3>2. QED
      BY <3>1 DEF WB!LoseClock, WB!Next
  <2>3. QED
    BY <2>1, <2>2
<1>7. CASE UNCHANGED vars
  BY <1>7 DEF vars, WB!avars
<1>8. QED
  BY <1>1, <1>2, <1>3, <1>4, <1>5, <1>6, <1>7 DEF Next

(* For every set of addresses and of written values, and whether or not    *)
(* the MMCM stops its clocks in reset, the CPU's view of the reset network *)
(* is a warm reboot: it goes down only on a write of the key or a lock    *)
(* loss, and comes up with every CSR at its reset value and its PC at the *)
(* build-time reset vector.  The fairness half of WarmReboot (every reset *)
(* ends) needs a running clock and is checked by TLC.                      *)
THEOREM RefinesWarmReboot == Spec => WB!Init /\ [][WB!Next]_WB!avars
<1>1. Init => WB!Init
  BY DEF Init, WB!Init, WB!AtReset
<1>2. QED
  BY <1>1, RInvInit, RInvStep, StepRefines, PTL DEF Spec

(* The CPU runs from the build-time reset vector. *)
BootVecFixed == ~sys_rst => boot_vec = ResetVector

(* Every step keeps the CPU's start address at the build-time vector. *)
LEMMA BootVecStep == RInv /\ BootVecFixed /\ [Next]_vars => BootVecFixed'
<1> SUFFICES ASSUME RInv, BootVecFixed, [Next]_vars, ~sys_rst'
             PROVE  boot_vec' = ResetVector
  BY DEF BootVecFixed
<1>1. CASE ResetCycle
  <2>1. ~rst_meta
    BY <1>1 DEF ResetCycle, Edge
  <2>2. QED
    BY <1>1, <2>1 DEF ResetCycle, RInv, AddrAtRelease
<1>2. CASE ~ResetCycle
  <2>1. ~sys_rst /\ UNCHANGED boot_vec
    BY <1>2 DEF Next, WriteCtrl, WriteAddr, WritePower, MmcmLock, PllLoseLock, vars
  <2>2. QED
    BY <2>1 DEF BootVecFixed
<1>3. QED
  BY <1>1, <1>2

(* For every set of addresses software may write to reboot.addr, the CPU  *)
(* only ever starts at the build-time reset vector: reboot.addr is reset  *)
(* by the reboot it is meant to direct, so a warm reboot never honours it *)
(* (the reboot_vector run shows one such behaviour; this holds for all).   *)
THEOREM BootsAtResetVector == Spec => [](~sys_rst => boot_vec = ResetVector)
<1>1. Init => BootVecFixed
  BY DEF Init, BootVecFixed
<1>2. Spec => [](RInv /\ BootVecFixed)
  BY <1>1, RInvInit, RInvStep, BootVecStep, PTL DEF Spec
<1>3. QED
  BY <1>2, PTL DEF BootVecFixed

=============================================================================
