------------------------------ MODULE GpioProofs ------------------------------
(***************************************************************************)
(* Proofs about BtGpio, for every set of pads and every set of values      *)
(* software writes to output and drive.  The synchronizer facts come from  *)
(* EventManagerProofs, instantiated with the pads as the event sources.     *)
(***************************************************************************)
EXTENDS Gpio, TLAPS

EMP == INSTANCE EventManagerProofs WITH Sources <- Pins, Policy <- GpioPolicy

(* The GPIO event sources satisfy the EventManager's assumption: every pin *)
(* has an edge policy.                                                      *)
LEMMA PolicyOK == GpioPolicy \in [Pins -> {"rise", "fall"}]
BY DEF GpioPolicy

(* Gpio's own EventManager instance and the one the lemmas are about are   *)
(* the same module with the same substitution: their operators agree.      *)
LEMMA SameEM ==
  /\ EM!Init <=> EMP!Init
  /\ EM!TypeOK <=> EMP!TypeOK
  /\ EM!TypeOK' <=> EMP!TypeOK'
  /\ \A clr, en, new : EM!Step(clr, en, new) <=> EMP!Step(clr, en, new)
  /\ \A p : EM!RawToggle(p) <=> EMP!RawToggle(p)
BY DEF EM!Init, EMP!Init, EM!TypeOK, EMP!TypeOK, EM!Step, EMP!Step,
       EM!RawToggle, EMP!RawToggle, EM!SyncStage, EMP!SyncStage,
       EM!Unsettled, EMP!Unsettled, EM!Detect, EMP!Detect, EM!Edges, EMP!Edges,
       EM!PostEdgeHigh, EMP!PostEdgeHigh, EM!OwedNext, EMP!OwedNext,
       EM!PolicyEdge, EMP!PolicyEdge, EM!Settled, EMP!Settled, EM!OwedCap, EMP!OwedCap

(* A driven pad is at the level output gives it. *)
DrivenRaw == \A p \in drive : p \in raw <=> p \in output

GInv == TypeOK /\ EMP!SInv /\ DrivenRaw

(* The tristate pads are a set of pads, driven ones at their output value. *)
LEMMA PadLevelFacts ==
  ASSUME NEW o \in SUBSET Pins, NEW d \in SUBSET Pins, NEW e \in SUBSET Pins
  PROVE  /\ PadLevel(o, d, e) \in SUBSET Pins
         /\ \A p \in d : p \in PadLevel(o, d, e) <=> p \in o
BY DEF PadLevel

(* After configuration no pad is driven, and the EventManager is at reset. *)
LEMMA GInitLemma == Init => GInv
<1> SUFFICES ASSUME Init PROVE GInv
  OBVIOUS
<1>1. EM!Init
  BY DEF Init
<1>2. EMP!SInv
  BY <1>1, PolicyOK, SameEM, EMP!SInvInit
<1>3. EM!TypeOK
  BY <1>2, SameEM DEF EMP!SInv
<1>4. TypeOK
  BY <1>3 DEF Init, TypeOK, EM!TypeOK
<1>5. QED
  BY <1>2, <1>4 DEF GInv, DrivenRaw, Init

(* A clock edge on which software writes output o, drive d, the clear     *)
(* mask clr and the enable value en keeps the invariant.                   *)
LEMMA PadEdgeStep ==
  ASSUME GInv,
         NEW o \in SUBSET Pins, NEW d \in SUBSET Pins,
         NEW clr \in SUBSET Pins, NEW en \in SUBSET Pins,
         PadEdge(o, d, clr, en), polreq' \subseteq Pins
  PROVE  GInv'
<1>1. PadLevel(o, d, ext) \in SUBSET Pins
      /\ \A p \in d : p \in PadLevel(o, d, ext) <=> p \in o
  BY PadLevelFacts DEF GInv, TypeOK
<1>2. EM!Step(clr, en, PadLevel(o, d, ext))
  BY DEF PadEdge
<1>3. EMP!TypeOK'
  BY <1>1, <1>2, PolicyOK, SameEM, EMP!StepType DEF GInv, TypeOK
<1>4. EMP!SInv'
  BY <1>2, <1>3, PolicyOK, SameEM, EMP!StepSync DEF GInv
<1>5. TypeOK'
  BY <1>1, <1>3, SameEM DEF PadEdge, GInv, TypeOK
<1>6. DrivenRaw'
  <2>1. raw' = PadLevel(o, d, ext) /\ drive' = d /\ output' = o
    BY <1>2 DEF PadEdge, EM!Step
  <2>2. QED
    BY <1>1, <2>1 DEF DrivenRaw
<1>7. QED
  BY <1>4, <1>5, <1>6 DEF GInv

(* The board changing pad p: a driven pad keeps its level, an undriven one *)
(* follows the board, and the synchronizer invariant is kept.              *)
LEMMA ExtToggleStep ==
  ASSUME GInv, NEW p \in Pins, ExtToggle(p)
  PROVE  GInv'
<1>1. CASE p \in drive
  <2>1. UNCHANGED emvars /\ UNCHANGED <<output, drive>>
    BY <1>1 DEF ExtToggle
  <2>2. TypeOK'
    BY <2>1 DEF ExtToggle, GInv, TypeOK, EM!TypeOK, emvars
  <2>3. EMP!SInv'
    BY <2>1 DEF GInv, EMP!SInv, EMP!TypeOK, EMP!MetaSettled, EMP!SyncSettled, emvars
  <2>4. DrivenRaw'
    BY <2>1 DEF GInv, DrivenRaw, emvars
  <2>5. QED
    BY <2>2, <2>3, <2>4 DEF GInv
<1>2. CASE p \notin drive
  <2>1. EM!RawToggle(p) /\ UNCHANGED <<output, drive>>
    BY <1>2 DEF ExtToggle
  <2>2. EMP!TypeOK'
    BY <2>1, PolicyOK, SameEM, EMP!ToggleType DEF GInv, TypeOK
  <2>3. EMP!SInv'
    BY <2>1, <2>2, PolicyOK, SameEM, EMP!ToggleSync DEF GInv
  <2>4. EM!TypeOK'
    BY <2>2, SameEM
  <2>7. TypeOK'
    BY <2>1, <2>4 DEF ExtToggle, GInv, TypeOK, EM!TypeOK
  <2>5. DrivenRaw'
    <3>1. \A q \in Pins \ {p} : q \in raw' <=> q \in raw
      BY <2>1 DEF EM!RawToggle
    <3>2. QED
      BY <1>2, <2>1, <3>1 DEF GInv, DrivenRaw, TypeOK
  <2>6. QED
    BY <2>3, <2>7, <2>5 DEF GInv
<1>3. QED
  BY <1>1, <1>2

(* Every step of the GPIO block keeps the invariant. *)
LEMMA GInvStep == GInv /\ [Next]_vars => GInv'
<1> SUFFICES ASSUME GInv, [Next]_vars PROVE GInv'
  OBVIOUS
<1>. USE GpioAssumption
<1>0. /\ output \in SUBSET Pins /\ drive \in SUBSET Pins
      /\ enable \in SUBSET Pins /\ {} \in SUBSET Pins /\ polreq \subseteq Pins
  BY DEF GInv, TypeOK, EM!TypeOK
<1>1. CASE Cycle
  BY <1>0, <1>1, PadEdgeStep DEF Cycle
<1>2. ASSUME NEW m \in SUBSET Pins, ClearPending(m) PROVE GInv'
  BY <1>0, <1>2, PadEdgeStep DEF ClearPending
<1>3. ASSUME NEW e \in SUBSET Pins, WriteEnable(e) PROVE GInv'
  BY <1>0, <1>3, PadEdgeStep DEF WriteEnable
<1>4. ASSUME NEW o \in OutputWrites, WriteOutput(o) PROVE GInv'
  BY <1>0, <1>4, PadEdgeStep DEF WriteOutput
<1>5. ASSUME NEW d \in DriveWrites, WriteDrive(d) PROVE GInv'
  BY <1>0, <1>5, PadEdgeStep DEF WriteDrive
<1>6. ASSUME NEW v \in SUBSET Pins, WriteIntpol(v) PROVE GInv'
  BY <1>0, <1>6, PadEdgeStep DEF WriteIntpol
<1>7. ASSUME NEW p \in Pins, ExtToggle(p) PROVE GInv'
  BY <1>7, ExtToggleStep
<1>8. CASE UNCHANGED vars
  BY <1>8 DEF vars, emvars, GInv, TypeOK, EM!TypeOK, DrivenRaw,
              EMP!SInv, EMP!TypeOK, EMP!MetaSettled, EMP!SyncSettled
<1>9. QED
  BY <1>1, <1>2, <1>3, <1>4, <1>5, <1>6, <1>7, <1>8 DEF Next

(* For every set of pads and of written values, a driven pad reads back    *)
(* the value software drives onto it once output and drive have been      *)
(* stable for the synchronizer's settle time, whatever the board does on  *)
(* the other pads.                                                         *)
THEOREM DrivenPinReadsBackThm == Spec => []DrivenPinReadsBack
<1>1. GInv => DrivenPinReadsBack
  BY DEF GInv, TypeOK, EMP!SInv, EMP!SyncSettled, DrivenRaw, DrivenPinReadsBack,
         EM!Settled
<1>2. QED
  BY <1>1, GInitLemma, GInvStep, PTL DEF Spec

(* The GPIO CSRs, the pads and the EventManager of the pins keep their     *)
(* types for every set of pads and of values software writes.              *)
THEOREM TypeCorrect == Spec => []TypeOK
<1>1. GInv => TypeOK
  BY DEF GInv
<1>2. QED
  BY <1>1, GInitLemma, GInvStep, PTL DEF Spec

=============================================================================
