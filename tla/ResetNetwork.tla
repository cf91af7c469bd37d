---------------------------- MODULE ResetNetwork ----------------------------
(***************************************************************************)
(* The reset network of the betrusted SoC (src/betrusted-soc.py):          *)
(*                                                                         *)
(*  - WarmBoot: the 8-bit `ctrl` CSR whose bit pattern 0b101011xx drives   *)
(*    `do_reset` combinationally, and the 32-bit `addr` CSR wired to the   *)
(*    CPU's externalResetVector;                                           *)
(*  - CRG: `do_reset` is the MMCM's RST input; the MMCM's LOCKED output    *)
(*    feeds an AsyncResetSynchronizer (asynchronous assert, two-stage      *)
(*    synchronous release) that drives the sys clock domain's reset;       *)
(*  - BtPower: the 8-bit `power` CSR, whose state[0] bit drives pwr_s0     *)
(*    gated by the sys reset (SRAM isolation during reset);                *)
(*  - the CPU, which loads its PC from externalResetVector while in reset  *)
(*    and issues CSR writes while out of reset.                            *)
(*                                                                         *)
(* One step of the CPU side is one edge of the sys clock; the MMCM locking *)
(* and losing lock are steps of their own.  Every CSR of the sys domain    *)
(* has a synchronous reset (Migen `sync`), so it only takes its reset      *)
(* value on an edge of the sys clock while the domain's reset is high.     *)
(***************************************************************************)
EXTENDS Naturals

CONSTANTS
  Addrs,             \* addresses software may write to reboot.addr
  ResetVector,       \* cpu_reset_address: the build-time default of addr
  NoReq,             \* no warm reboot requested (history only)
  CtrlWrites,        \* values software may write to reboot.ctrl
  PowerWrites,       \* values software may write to power
  MaxGlitches,       \* bound on losses of PLL lock not caused by RST
  ClockStopsInReset  \* does the MMCM stop its output clocks while RST is high?

ASSUME ConstAssumption ==
  /\ ResetVector \in Addrs
  /\ NoReq \notin Addrs
  /\ CtrlWrites \subseteq 0..255
  /\ PowerWrites \subseteq 0..255
  /\ MaxGlitches \in Nat
  /\ ClockStopsInReset \in BOOLEAN

VARIABLES
  ctrl,        \* reboot.ctrl.storage (8 bits)
  addr,        \* reboot.addr.storage
  power,       \* power.storage (8 bits: audio, self, ec_snoop, state[2], noisebias, noise[2])
  pll_locked,  \* MMCME2_ADV LOCKED output
  rst_meta,    \* first flip-flop of AsyncResetSynchronizer(cd_sys, ...)
  sys_rst,     \* second flip-flop: the reset of the sys clock domain (CPU and CSRs)
  boot_vec,    \* the CPU's PC as loaded from externalResetVector during reset
  req_addr,    \* history: addr at the time the last warm reboot was requested
  glitches     \* number of lock losses so far (bounded by MaxGlitches)

vars == <<ctrl, addr, power, pll_locked, rst_meta, sys_rst, boot_vec, req_addr, glitches>>

(* Bit i of the non-negative integer v. *)
Bit(v, i) == (v \div 2^i) % 2

(* Mutant of DoReset: the key compared as the whole byte 0xAC. *)
MutDoResetExactByte(c) == c = 172

(* Mutant of DoReset: the ~storage[4] term dropped. *)
MutDoResetNoBit4(c) ==
  /\ Bit(c, 2) = 1 /\ Bit(c, 3) = 1
  /\ Bit(c, 5) = 1 /\ Bit(c, 6) = 0 /\ Bit(c, 7) = 1

(* WarmBoot.do_reset: storage[2] & storage[3] & ~storage[4] & storage[5]  *)
(* & ~storage[6] & storage[7].                                              *)
DoReset(c) ==
  /\ Bit(c, 2) = 1 /\ Bit(c, 3) = 1 /\ Bit(c, 4) = 0
  /\ Bit(c, 5) = 1 /\ Bit(c, 6) = 0 /\ Bit(c, 7) = 1

(* Reset value of the power CSR: field self (bit 1) = 1, state (bits 3-4)  *)
(* = 0b01; all other fields 0.                                              *)
PowerReset == 2 + 8

(* pads.pwr_s0: state[0] & ~ResetSignal(); TRUE means the external SRAM is *)
(* out of isolation.                                                        *)
PwrS0 == Bit(power, 3) = 1 /\ ~sys_rst

(* The sys clock has edges unless the MMCM is held in reset by do_reset    *)
(* and stops its outputs while in reset.                                    *)
ClockRuns == ~(ClockStopsInReset /\ DoReset(ctrl))

(* Mutant of Edge: the synchronizer's first stage fed 1 instead of 0, so   *)
(* the reset is never released.                                             *)
MutEdgeStuckMeta(c) ==
  /\ ClockRuns
  /\ pll_locked' = (pll_locked /\ ~DoReset(c))
  /\ rst_meta' = TRUE
  /\ sys_rst' = (rst_meta \/ ~pll_locked')

(* Mutant of Edge: a one-stage synchronizer, releasing the reset on the   *)
(* first edge after LOCKED rises.                                           *)
MutEdgeOneStage(c) ==
  /\ ClockRuns
  /\ pll_locked' = (pll_locked /\ ~DoReset(c))
  /\ rst_meta' = ~pll_locked'
  /\ sys_rst' = ~pll_locked'

(***************************************************************************)
(* The reset network across one edge of the sys clock, where c is the      *)
(* value of ctrl after the edge.  At the edge the synchronizer shifts      *)
(* (rst_meta <- ~locked, sys_rst <- rst_meta).  After it, do_reset follows *)
(* ctrl combinationally into the MMCM's RST, LOCKED drops at once, and the *)
(* synchronizer's asynchronous preset raises both stages before the next   *)
(* edge.                                                                    *)
(***************************************************************************)
Edge(c) ==
  /\ ClockRuns
  /\ pll_locked' = (pll_locked /\ ~DoReset(c))
  /\ rst_meta' = ~pll_locked'
  /\ sys_rst' = (rst_meta \/ ~pll_locked')

(* An edge while the sys domain is in reset: every CSR takes its reset     *)
(* value and the CPU reloads its PC from externalResetVector (= addr).     *)
ResetCycle ==
  /\ sys_rst
  /\ Edge(0)
  /\ ctrl' = 0
  /\ addr' = ResetVector
  /\ power' = PowerReset
  /\ boot_vec' = addr
  /\ req_addr' = IF sys_rst' THEN req_addr ELSE NoReq
  /\ UNCHANGED glitches

(* The CPU writes v to reboot.ctrl. *)
WriteCtrl(v) ==
  /\ ~sys_rst
  /\ Edge(v)
  /\ ctrl' = v
  /\ req_addr' = IF DoReset(v) THEN addr ELSE req_addr
  /\ UNCHANGED <<addr, power, boot_vec, glitches>>

(* The CPU writes a to reboot.addr. *)
WriteAddr(a) ==
  /\ ~sys_rst
  /\ Edge(ctrl)
  /\ addr' = a
  /\ UNCHANGED <<ctrl, power, boot_vec, req_addr, glitches>>

(* Mutant of WritePower: the fields packed one bit too high, overflowing   *)
(* the 8-bit register.                                                     *)
MutWritePowerShifted(v) ==
  /\ ~sys_rst
  /\ Edge(ctrl)
  /\ power' = 2 * v
  /\ UNCHANGED <<ctrl, addr, boot_vec, req_addr, glitches>>

(* The CPU writes v to power. *)
WritePower(v) ==
  /\ ~sys_rst
  /\ Edge(ctrl)
  /\ power' = v
  /\ UNCHANGED <<ctrl, addr, boot_vec, req_addr, glitches>>

(* Mutant of MmcmLock: the sys reset released directly by LOCKED, without *)
(* the synchronizer's clocked release.                                      *)
MutMmcmLockAsyncRelease ==
  /\ ~pll_locked
  /\ ~DoReset(ctrl)
  /\ pll_locked' = TRUE
  /\ rst_meta' = FALSE
  /\ sys_rst' = FALSE
  /\ UNCHANGED <<ctrl, addr, power, boot_vec, req_addr, glitches>>

(* The MMCM acquires lock once RST is low. *)
MmcmLock ==
  /\ ~pll_locked
  /\ ~DoReset(ctrl)
  /\ pll_locked' = TRUE
  /\ UNCHANGED <<ctrl, addr, power, rst_meta, sys_rst, boot_vec, req_addr, glitches>>

(* The MMCM loses lock on its own (input clock disturbance); LOCKED low    *)
(* presets the reset synchronizer asynchronously.                           *)
PllLoseLock ==
  /\ pll_locked
  /\ glitches < MaxGlitches
  /\ pll_locked' = FALSE
  /\ rst_meta' = TRUE
  /\ sys_rst' = TRUE
  /\ glitches' = glitches + 1
  /\ UNCHANGED <<ctrl, addr, power, boot_vec, req_addr>>

(* Power-on: the FPGA configures every register to its reset value, the    *)
(* synchronizer flip-flops to 1, and the MMCM starts unlocked.             *)
Init ==
  /\ ctrl = 0
  /\ addr = ResetVector
  /\ power = PowerReset
  /\ pll_locked = FALSE
  /\ rst_meta = TRUE
  /\ sys_rst = TRUE
  /\ boot_vec = ResetVector
  /\ req_addr = NoReq
  /\ glitches = 0

Next ==
  \/ ResetCycle
  \/ \E v \in CtrlWrites : WriteCtrl(v)
  \/ \E a \in Addrs : WriteAddr(a)
  \/ \E v \in PowerWrites : WritePower(v)
  \/ MmcmLock
  \/ PllLoseLock

(* The sys clock is free-running whenever it runs at all, and the MMCM     *)
(* locks within its lock time once RST is released; the CPU's writes and   *)
(* lock losses are not required to happen.                                  *)
Fairness == WF_vars(ResetCycle) /\ WF_vars(MmcmLock)

Spec == Init /\ [][Next]_vars /\ Fairness

(* The reset network seen from the CPU: while the sys domain is in reset  *)
(* the CPU sees nothing of ctrl, addr, power or its PC, which the reset   *)
(* edges are about to put at their reset values; once out of reset it    *)
(* sees the CSRs themselves.                                                *)
WB == INSTANCE WarmReboot WITH
        running <- ~sys_rst,
        ctrl <- IF sys_rst THEN 0 ELSE ctrl,
        addr <- IF sys_rst THEN ResetVector ELSE addr,
        power <- IF sys_rst THEN PowerReset ELSE power,
        boot_vec <- IF sys_rst THEN ResetVector ELSE boot_vec,
        PowerInit <- PowerReset

-----------------------------------------------------------------------------
TypeOK ==
  /\ ctrl \in 0..255
  /\ addr \in Addrs
  /\ power \in 0..255
  /\ pll_locked \in BOOLEAN
  /\ rst_meta \in BOOLEAN
  /\ sys_rst \in BOOLEAN
  /\ boot_vec \in Addrs
  /\ req_addr \in Addrs \cup {NoReq}
  /\ glitches \in 0..MaxGlitches

(* The reference reading of the "Reset Key" comment: the key is 0xAC with  *)
(* the two low bits ignored (0b101011xx).                                   *)
KeyRef(v) == v \div 4 = 43

(* Whatever software writes to reboot.ctrl, the CPU never executes an      *)
(* instruction while ctrl holds the reset key: a key write resets the      *)
(* system before the next clock edge.                                       *)
KeyIsExact == ~sys_rst => ~KeyRef(ctrl)

(* The MMCM is reset, and with it the system, only by a write of the reset *)
(* key to reboot.ctrl or by a loss of lock; no other ctrl value resets it. *)
ResetOnlyByKey ==
  [][pll_locked /\ ~pll_locked' => KeyRef(ctrl') \/ glitches' = glitches + 1]_vars

(* The CPU leaves reset only on a clock edge that reset every CSR: on its  *)
(* first instruction ctrl, addr and power hold their reset values and the  *)
(* external SRAM is already out of isolation (pwr_s0 high).                 *)
CleanBoot ==
  [][sys_rst /\ ~sys_rst' =>
       /\ ctrl' = 0 /\ addr' = ResetVector /\ power' = PowerReset
       /\ PwrS0']_vars

(* Every reset (power-on, warm reboot, loss of lock) ends: the CPU runs    *)
(* again.                                                                   *)
ResetEnds == sys_rst ~> ~sys_rst

(* The spec's warm reboot: after software writes addr and then the key,    *)
(* the CPU starts at that address.                                          *)
RebootVectorHonoured ==
  [][sys_rst /\ ~sys_rst' /\ req_addr \in Addrs => boot_vec' = req_addr]_vars

(* The reset network implements the CPU's view of a warm reboot: only a   *)
(* key write or a lock loss takes the CPU down, it comes back with every   *)
(* CSR at its reset value and at the build-time reset vector, and every    *)
(* reset ends.                                                              *)
ImplementsWarmReboot == WB!Spec

=============================================================================
