--------------------------- MODULE ClockPortProofs ---------------------------
(***************************************************************************)
(* Proofs about the clock reconfiguration port, for every set of DRP       *)
(* addresses and data words and every DRDY latency that PortAssumption     *)
(* allows.                                                                  *)
(***************************************************************************)
EXTENDS ClockPort, TLAPS

(* The DRP CSRs, the MMCM's DRP and the driver keep their types. *)
LEMMA TypeInit == Init => TypeOK
<1> SUFFICES ASSUME Init PROVE TypeOK
  OBVIOUS
<1>1. drdy \in BOOLEAN /\ pulse \in BOOLEAN /\ issued \in BOOLEAN
  BY Zenon DEF Init
<1>2. /\ adr \in DrpAddrs /\ dat_w \in DrpData /\ busy \in 0..Latency
      /\ op \in Requests /\ regs \in [DrpAddrs -> DrpData] /\ do_out \in DrpData
      /\ cstate \in {"idle", "wait"} /\ creq \in Requests
  BY PortAssumption DEF Init
<1>3. QED
  BY <1>1, <1>2 DEF TypeOK

(* One step of the strobe s, of either kind, keeps the MMCM's part typed. *)
LEMMA EdgeType ==
  ASSUME TypeOK,
         NEW s \in {NoStrobe} \cup {Strobe(k) : k \in {"read", "write"}},
         Edge(s)
  PROVE  /\ drdy' \in BOOLEAN /\ busy' \in 0..Latency /\ pulse' \in BOOLEAN
         /\ op' \in Requests /\ regs' \in [DrpAddrs -> DrpData]
         /\ do_out' \in DrpData
<1>. USE PortAssumption
<1>1. drdy' \in BOOLEAN /\ pulse' \in BOOLEAN
  BY Zenon DEF Edge, DrdyStep, MmcmStep, Completes, TypeOK
<1>2. busy' \in 0..Latency
  BY DEF Edge, MmcmStep, TypeOK, NoStrobe, Strobe
<1>3. op' \in Requests
  BY DEF Edge, MmcmStep, TypeOK, NoStrobe, Strobe, Requests
<1>4. regs' \in [DrpAddrs -> DrpData] /\ do_out' \in DrpData
  BY DEF Edge, MmcmStep, TypeOK, Requests, Completes
<1>5. QED
  BY <1>1, <1>2, <1>3, <1>4

(* Every step keeps the DRP CSRs, the MMCM and the driver typed. *)
LEMMA TypeStep == TypeOK /\ [Next]_vars => TypeOK'
<1> SUFFICES ASSUME TypeOK, [Next]_vars PROVE TypeOK'
  OBVIOUS
<1>. DEFINE Strobes == {NoStrobe} \cup {Strobe(k) : k \in {"read", "write"}}
<1>0. NoStrobe \in Strobes
  OBVIOUS
<1>1. CASE Cycle
  BY <1>0, <1>1, EdgeType DEF Cycle, TypeOK
<1>2. ASSUME NEW a \in DrpAddrs, WriteAdr(a) PROVE TypeOK'
  BY <1>0, <1>2, EdgeType DEF WriteAdr, TypeOK
<1>3. ASSUME NEW d \in DrpData, WriteDatW(d) PROVE TypeOK'
  BY <1>0, <1>3, EdgeType DEF WriteDatW, TypeOK
<1>4. ASSUME NEW k \in {"read", "write"}, Request(k) PROVE TypeOK'
  <2>1. Strobe(k) \in Strobes
    OBVIOUS
  <2>2. creq' \in Requests
    BY <1>4 DEF Request, Strobe, TypeOK, Requests
  <2>3. QED
    BY <1>4, <2>1, <2>2, EdgeType DEF Request, TypeOK
<1>5. CASE Collect
  BY <1>0, <1>5, EdgeType DEF Collect, TypeOK
<1>6. CASE UNCHANGED vars
  BY <1>6 DEF vars, TypeOK
<1>7. QED
  BY <1>1, <1>2, <1>3, <1>4, <1>5, <1>6 DEF Next

(* The DRP port's state stays within its types in every behaviour. *)
THEOREM TypeCorrect == Spec => []TypeOK
BY TypeInit, TypeStep, PTL DEF Spec

-----------------------------------------------------------------------------
(***************************************************************************)
(* The handshake invariant.  The MMCM is busy, or shows its DRDY pulse,    *)
(* only while the driver waits, and then ready is low; ready high means    *)
(* the MMCM is idle; before the first request nothing is in flight.  It    *)
(* holds whatever the MMCM does with DO after the DRDY cycle.               *)
(***************************************************************************)
BusyWaits == busy > 0 => ~pulse /\ ~drdy /\ cstate = "wait"
PulseWaits == pulse => busy = 0 /\ ~drdy /\ cstate = "wait"
ReadyIdle == drdy => busy = 0 /\ ~pulse
FirstIdle == ~issued => busy = 0 /\ ~pulse /\ cstate = "idle"

CtlInv == TypeOK /\ BusyWaits /\ PulseWaits /\ ReadyIdle /\ FirstIdle

(* After configuration the MMCM is idle and no request has been issued. *)
LEMMA CtlInit == Init => CtlInv
BY TypeInit DEF Init, CtlInv, BusyWaits, PulseWaits, ReadyIdle, FirstIdle

(* What a cycle without a strobe does to the MMCM and to mmcm_drdy. *)
LEMMA QuietFacts ==
  ASSUME TypeOK, Edge(NoStrobe)
  PROVE  /\ busy' = IF busy > 0 THEN busy - 1 ELSE 0
         /\ pulse' = (busy = 1)
         /\ op' = op
         /\ drdy' = (pulse \/ drdy)
         /\ busy # 1 => regs' = regs
         /\ busy = 1 /\ op.kind = "write" => regs' = [regs EXCEPT ![op.adr] = op.dat]
         /\ busy = 1 /\ op.kind = "read" => do_out' = regs[op.adr] /\ regs' = regs
         /\ DoHolds /\ busy # 1 => do_out' = do_out
         /\ DoHolds /\ op.kind = "write" => do_out' = do_out
<1>1. busy' = IF busy > 0 THEN busy - 1 ELSE 0
  BY DEF Edge, MmcmStep, NoStrobe
<1>2. pulse' = (busy = 1) /\ op' = op
  BY DEF Edge, MmcmStep, NoStrobe, Completes
<1>3. drdy' = (pulse \/ drdy)
  BY Zenon DEF Edge, DrdyStep, NoStrobe, TypeOK
<1>4. /\ busy # 1 => regs' = regs
      /\ busy = 1 /\ op.kind = "write" => regs' = [regs EXCEPT ![op.adr] = op.dat]
      /\ busy = 1 /\ op.kind = "read" => do_out' = regs[op.adr] /\ regs' = regs
      /\ DoHolds /\ busy # 1 => do_out' = do_out
      /\ DoHolds /\ op.kind = "write" => do_out' = do_out
  BY DEF Edge, MmcmStep, NoStrobe, Completes
<1>5. QED
  BY <1>1, <1>2, <1>3, <1>4

(* What a strobe does: the countdown restarts, DRDY and ready drop, and    *)
(* with an MMCM that holds DO nothing else of the MMCM changes.            *)
LEMMA StrobeFacts ==
  ASSUME TypeOK, NEW k \in {"read", "write"}, Edge(Strobe(k))
  PROVE  /\ busy' = Latency /\ ~pulse' /\ ~drdy'
         /\ op' = Strobe(k).req
         /\ regs' = regs
         /\ DoHolds => do_out' = do_out
<1>1. busy' = Latency /\ op' = Strobe(k).req /\ regs' = regs
  BY DEF Edge, MmcmStep, Strobe, Completes
<1>2. ~pulse' /\ ~drdy'
  BY Zenon DEF Edge, MmcmStep, DrdyStep, Strobe, Completes
<1>3. DoHolds => do_out' = do_out
  BY DEF Edge, MmcmStep, Strobe, Completes
<1>4. QED
  BY <1>1, <1>2, <1>3

(* A cycle without a strobe in which the driver keeps its state keeps the  *)
(* handshake invariant.                                                     *)
LEMMA QuietCtl ==
  ASSUME CtlInv, TypeOK', Edge(NoStrobe), cstate' = cstate, issued' = issued
  PROVE  CtlInv'
<1>. USE PortAssumption
<1>0. /\ busy' = IF busy > 0 THEN busy - 1 ELSE 0
      /\ pulse' = (busy = 1)
      /\ drdy' = (pulse \/ drdy)
  BY QuietFacts DEF CtlInv
<1>1. BusyWaits'
  BY <1>0 DEF CtlInv, TypeOK, BusyWaits
<1>2. PulseWaits'
  BY <1>0 DEF CtlInv, TypeOK, BusyWaits, PulseWaits
<1>3. ReadyIdle'
  BY <1>0 DEF CtlInv, TypeOK, PulseWaits, ReadyIdle
<1>4. FirstIdle'
  BY <1>0 DEF CtlInv, TypeOK, FirstIdle
<1>5. QED
  BY <1>1, <1>2, <1>3, <1>4 DEF CtlInv

(* Every step of the port and of a driver that follows the handshake keeps *)
(* the handshake invariant.                                                 *)
LEMMA CtlStep == CtlInv /\ [Next]_vars => CtlInv'
<1>. USE PortAssumption
<1> SUFFICES ASSUME CtlInv, [Next]_vars PROVE CtlInv'
  OBVIOUS
<1>0. TypeOK'
  BY TypeStep DEF CtlInv
<1>1. CASE Cycle
  BY <1>0, <1>1, QuietCtl DEF Cycle
<1>2. ASSUME NEW a \in DrpAddrs, WriteAdr(a) PROVE CtlInv'
  BY <1>0, <1>2, QuietCtl DEF WriteAdr
<1>3. ASSUME NEW d \in DrpData, WriteDatW(d) PROVE CtlInv'
  BY <1>0, <1>3, QuietCtl DEF WriteDatW
<1>4. ASSUME NEW k \in {"read", "write"}, Request(k) PROVE CtlInv'
  <2>1. busy' = Latency /\ ~pulse' /\ ~drdy' /\ cstate' = "wait" /\ issued'
    BY <1>4, StrobeFacts DEF Request, CtlInv
  <2>2. QED
    BY <1>0, <2>1 DEF CtlInv, BusyWaits, PulseWaits, ReadyIdle, FirstIdle
<1>5. CASE Collect
  <2>1. busy = 0 /\ ~pulse /\ issued
    BY <1>5 DEF Collect, CtlInv, ReadyIdle, FirstIdle, TypeOK
  <2>2. busy' = 0 /\ pulse' = (busy = 1) /\ drdy' = (pulse \/ drdy)
    BY <1>5, <2>1, QuietFacts DEF Collect, CtlInv
  <2>3. busy # 1
    BY <2>1
  <2>4. ~pulse' /\ drdy' /\ issued'
    BY Zenon, <1>5, <2>1, <2>2, <2>3 DEF Collect
  <2>5. QED
    BY <1>0, <2>2, <2>4 DEF CtlInv, BusyWaits, PulseWaits, ReadyIdle, FirstIdle
<1>6. CASE UNCHANGED vars
  BY <1>6 DEF vars, CtlInv, TypeOK, BusyWaits, PulseWaits, ReadyIdle, FirstIdle
<1>7. QED
  BY <1>1, <1>2, <1>3, <1>4, <1>5, <1>6 DEF Next

(* A driver that follows the handshake on mmcm_drdy never strobes DEN      *)
(* while the MMCM is busy or pulsing DRDY, for every latency, whether or   *)
(* not it polls before its first request and whatever the MMCM does with   *)
(* DO: the CSRs themselves do not prevent a second strobe.                 *)
THEOREM NoStrobeWhileBusyThm == Spec => NoStrobeWhileBusy
<1>1. Spec => []CtlInv
  BY CtlInit, CtlStep, PTL DEF Spec
<1>2. CtlInv /\ (\E k \in {"read", "write"} : Request(k)) => busy = 0 /\ ~pulse
  BY DEF CtlInv, Request, CanIssue, ReadyIdle, FirstIdle
<1>3. QED
  BY <1>1, <1>2, PTL DEF NoStrobeWhileBusy

-----------------------------------------------------------------------------
(***************************************************************************)
(* The inductive invariant behind ReadyMeansDone and the refinement: on    *)
(* top of the handshake invariant, while the driver waits the MMCM's       *)
(* latched request is the driver's, and once the countdown is over that    *)
(* request has been performed.                                              *)
(***************************************************************************)
Done(r) == IF r.kind = "read" THEN do_out = regs[r.adr] ELSE regs[r.adr] = r.dat

OpIsRequest == cstate = "wait" => op = creq
DoneWhenIdle == cstate = "wait" /\ busy = 0 => Done(creq)

IInv == CtlInv /\ OpIsRequest /\ DoneWhenIdle

(* After configuration the driver has nothing pending. *)
LEMMA IInvInit == Init => IInv
BY CtlInit DEF Init, IInv, OpIsRequest, DoneWhenIdle

(* With an MMCM that holds DO, every step of the port and driver keeps    *)
(* the invariant.                                                          *)
LEMMA IInvStep == DoHolds /\ IInv /\ [Next]_vars => IInv'
<1>. USE PortAssumption
<1> SUFFICES ASSUME DoHolds, IInv, [Next]_vars PROVE IInv'
  OBVIOUS
<1>0. CtlInv' /\ TypeOK'
  BY CtlStep DEF IInv, CtlInv
<1>. DEFINE Quiet == /\ Edge(NoStrobe) /\ cstate' = cstate /\ creq' = creq
<1>1. ASSUME Quiet PROVE IInv'
  <2>0. /\ busy' = IF busy > 0 THEN busy - 1 ELSE 0
        /\ op' = op
        /\ busy # 1 => regs' = regs
        /\ busy = 1 /\ op.kind = "write" => regs' = [regs EXCEPT ![op.adr] = op.dat]
        /\ busy = 1 /\ op.kind = "read" => do_out' = regs[op.adr] /\ regs' = regs
        /\ busy # 1 => do_out' = do_out
    BY <1>1, QuietFacts DEF IInv, CtlInv
  <2>1. OpIsRequest'
    BY <1>1, <2>0 DEF IInv, OpIsRequest
  <2>2. DoneWhenIdle'
    <3> SUFFICES ASSUME cstate = "wait", busy' = 0 PROVE Done(creq)'
      BY <1>1 DEF DoneWhenIdle
    <3>1. op = creq /\ op \in Requests
      BY DEF IInv, OpIsRequest, CtlInv, TypeOK
    <3>2. CASE busy = 1
      BY <1>1, <2>0, <3>1, <3>2 DEF Done, IInv, CtlInv, TypeOK, Requests
    <3>3. CASE busy = 0
      BY <1>1, <2>0, <3>1, <3>3 DEF Done, IInv, DoneWhenIdle
    <3>4. QED
      BY <2>0, <3>2, <3>3 DEF IInv, CtlInv, TypeOK
  <2>3. QED
    BY <1>0, <2>1, <2>2 DEF IInv
<1>2. CASE Cycle
  BY <1>1, <1>2 DEF Cycle
<1>3. ASSUME NEW a \in DrpAddrs, WriteAdr(a) PROVE IInv'
  BY <1>1, <1>3 DEF WriteAdr
<1>4. ASSUME NEW d \in DrpData, WriteDatW(d) PROVE IInv'
  BY <1>1, <1>4 DEF WriteDatW
<1>5. ASSUME NEW k \in {"read", "write"}, Request(k) PROVE IInv'
  <2>1. busy' = Latency /\ op' = Strobe(k).req /\ creq' = Strobe(k).req
    BY <1>5, StrobeFacts DEF Request, IInv, CtlInv
  <2>2. QED
    BY <1>0, <2>1 DEF IInv, OpIsRequest, DoneWhenIdle
<1>6. CASE Collect
  BY <1>0, <1>6 DEF Collect, IInv, OpIsRequest, DoneWhenIdle
<1>7. CASE UNCHANGED vars
  BY <1>7 DEF vars, IInv, CtlInv, TypeOK, BusyWaits, PulseWaits, ReadyIdle, FirstIdle,
              OpIsRequest, DoneWhenIdle, Done
<1>8. QED
  BY <1>2, <1>3, <1>4, <1>5, <1>6, <1>7 DEF Next

(* If the MMCM holds DO after its DRDY cycle, a driver that follows the   *)
(* handshake and sees mmcm_drdy high finds its request done: the DRP       *)
(* register it wrote holds its data, or mmcm_dat_r is the register it      *)
(* read.  This holds for every latency and whether or not the driver polls *)
(* before its first request.                                                *)
THEOREM ReadyMeansDoneThm ==
  ASSUME DoHolds
  PROVE  Spec => []ReadyMeansDone
<1>1. IInv => ReadyMeansDone
  BY DEF IInv, CtlInv, ReadyMeansDone, ReadyIdle, DoneWhenIdle, Done
<1>2. Spec => []IInv
  BY IInvInit, IInvStep, PTL DEF Spec
<1>3. QED
  BY <1>1, <1>2, PTL


-----------------------------------------------------------------------------
(* A cycle without a strobe in which the driver keeps its state is the     *)
(* register file performing the request, when the countdown ends on it,   *)
(* and a stutter of the register file otherwise.                           *)
LEMMA QuietRefines ==
  ASSUME DoHolds, IInv, Edge(NoStrobe), cstate' = cstate, creq' = creq
  PROVE  [DRP!Next]_DRP!avars
<1>. USE PortAssumption
<1>0. /\ busy' = IF busy > 0 THEN busy - 1 ELSE 0
      /\ op' = op
      /\ busy # 1 => regs' = regs
      /\ busy = 1 /\ op.kind = "write" => regs' = [regs EXCEPT ![op.adr] = op.dat]
      /\ busy = 1 /\ op.kind = "read" => do_out' = regs[op.adr] /\ regs' = regs
      /\ busy # 1 => do_out' = do_out
      /\ op.kind = "write" => do_out' = do_out
  BY QuietFacts DEF IInv, CtlInv
<1>1. CASE busy = 1
  <2>1. cstate = "wait" /\ op = creq /\ creq \in Requests
    BY <1>1 DEF IInv, CtlInv, BusyWaits, OpIsRequest, TypeOK
  <2>2. busy' = 0
    BY <1>0, <1>1
  <2>3. DRP!Perform
    BY <1>0, <1>1, <2>1, <2>2 DEF DRP!Perform, Requests
  <2>4. QED
    BY <2>3 DEF DRP!Next
<1>2. CASE busy # 1
  <2>1. busy \in Nat
    BY DEF IInv, CtlInv, TypeOK
  <2>2. (busy' = 0) = (busy = 0)
    BY <1>0, <1>2, <2>1
  <2>3. QED
    BY <1>0, <1>2, <2>2 DEF DRP!avars
<1>3. QED
  BY <1>1, <1>2

(* With an MMCM that holds DO, the DRP CSRs, the MMCM and a driver that    *)
(* follows the handshake implement the atomic register file: every step   *)
(* of theirs is a step of the register file (a request issued, performed  *)
(* or returned) or leaves it unchanged.  Only the safety part is proved;  *)
(* that the fairness of the sys clock and the driver gives the register   *)
(* file's fairness is checked by TLC.                                      *)
THEOREM RefinesRegisterFile ==
  ASSUME DoHolds
  PROVE  Spec => DRP!Init /\ [][DRP!Next]_DRP!avars
<1>. USE PortAssumption
<1>1. Init => DRP!Init
  <2> SUFFICES ASSUME Init PROVE DRP!Init
    OBVIOUS
  <2>1. cstate # "wait"
    BY DEF Init
  <2>2. (cstate = "wait" /\ busy = 0) = FALSE
    BY Zenon, <2>1
  <2>3. QED
    BY <2>2 DEF Init, DRP!Init, DRP!Requests, Requests
<1>2. IInv /\ [Next]_vars => [DRP!Next]_DRP!avars
  <2> SUFFICES ASSUME IInv, [Next]_vars PROVE [DRP!Next]_DRP!avars
    OBVIOUS
  <2>1. CASE Cycle
    BY <2>1, QuietRefines DEF Cycle
  <2>2. ASSUME NEW a \in DrpAddrs, WriteAdr(a) PROVE [DRP!Next]_DRP!avars
    BY <2>2, QuietRefines DEF WriteAdr
  <2>3. ASSUME NEW d \in DrpData, WriteDatW(d) PROVE [DRP!Next]_DRP!avars
    BY <2>3, QuietRefines DEF WriteDatW
  <2>4. ASSUME NEW k \in {"read", "write"}, Request(k) PROVE [DRP!Next]_DRP!avars
    <3>1. busy' = Latency /\ regs' = regs /\ do_out' = do_out
      BY <2>4, StrobeFacts DEF Request, IInv, CtlInv
    <3>2. creq' \in Requests /\ cstate = "idle" /\ cstate' = "wait"
      BY <2>4 DEF Request, Strobe, Requests, IInv, CtlInv, TypeOK
    <3>3. DRP!Issue(creq')
      BY <3>1, <3>2 DEF DRP!Issue
    <3>4. QED
      BY <3>2, <3>3 DEF DRP!Next, DRP!Requests, Requests
  <2>5. CASE Collect
    <3>1. busy = 0 /\ cstate = "wait" /\ cstate' = "idle" /\ creq' = creq
      BY <2>5 DEF Collect, IInv, CtlInv, ReadyIdle
    <3>2. regs' = regs /\ do_out' = do_out
      BY <2>5, <3>1, QuietFacts DEF Collect, IInv, CtlInv
    <3>3. DRP!Return
      BY <3>1, <3>2 DEF DRP!Return
    <3>4. QED
      BY <3>3 DEF DRP!Next
  <2>6. CASE UNCHANGED vars
    BY <2>6 DEF vars, DRP!avars
  <2>7. QED
    BY <2>1, <2>2, <2>3, <2>4, <2>5, <2>6 DEF Next
<1>3. Spec => []IInv
  BY IInvInit, IInvStep, PTL DEF Spec
<1>4. QED
  BY <1>1, <1>2, <1>3, PTL DEF Spec

=============================================================================
