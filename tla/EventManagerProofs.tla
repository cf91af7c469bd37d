-------------------------- MODULE EventManagerProofs --------------------------
(***************************************************************************)
(* Proofs about an EventManager fed by MultiReg synchronizers, for every   *)
(* set of sources and every edge policy that PolicyAssumption allows.      *)
(***************************************************************************)
EXTENDS EventManager, TLAPS

(* The synchronizer stages, the event CSRs and the counters keep their    *)
(* types after configuration.                                              *)
LEMMA TypeInit == Init => TypeOK
BY DEF Init, TypeOK, Settled, OwedCap

(* One clock edge with a clear mask, an enable value and new pin levels   *)
(* that are sets of sources keeps every variable typed.                    *)
LEMMA StepType ==
  ASSUME TypeOK,
         NEW clr \in SUBSET Sources, NEW en \in SUBSET Sources,
         NEW new \in SUBSET Sources,
         Step(clr, en, new)
  PROVE  TypeOK'
<1>1. meta' \subseteq Sources /\ sync' \subseteq Sources
  BY DEF Step, SyncStage, Unsettled, TypeOK
<1>2. pending' \subseteq Sources /\ prev' \subseteq Sources
  BY DEF Step, Detect, Edges, TypeOK
<1>3. age' \in [Sources -> 0..Settled]
  BY DEF Step, TypeOK, Settled
<1>4. owed' \in [Sources -> 0..OwedCap]
  BY DEF Step, OwedNext, TypeOK, OwedCap
<1>5. QED
  BY <1>1, <1>2, <1>3, <1>4 DEF Step, TypeOK

(* The board changing one pin keeps every variable typed. *)
LEMMA ToggleType ==
  ASSUME TypeOK, NEW s \in Sources, RawToggle(s)
  PROVE  TypeOK'
<1>1. raw' \subseteq Sources
  BY DEF RawToggle, TypeOK
<1>2. age' \in [Sources -> 0..Settled]
  BY DEF RawToggle, TypeOK, Settled
<1>3. owed' \in [Sources -> 0..OwedCap]
  <2>1. CASE PolicyEdge(s, raw') /\ owed[s] < OwedCap
    BY <2>1 DEF RawToggle, TypeOK, OwedCap
  <2>2. CASE ~(PolicyEdge(s, raw') /\ owed[s] < OwedCap)
    BY <2>2 DEF RawToggle, TypeOK
  <2>3. QED
    BY <2>1, <2>2
<1>4. QED
  BY <1>1, <1>2, <1>3 DEF RawToggle, TypeOK

(* Every step keeps the EventManager and its synchronizers typed. *)
LEMMA TypeStep == TypeOK /\ [Next]_vars => TypeOK'
<1> SUFFICES ASSUME TypeOK, [Next]_vars PROVE TypeOK'
  OBVIOUS
<1>0. raw \in SUBSET Sources /\ enable \in SUBSET Sources /\ {} \in SUBSET Sources
  BY DEF TypeOK
<1>1. CASE Cycle
  BY <1>0, <1>1, StepType DEF Cycle, Tick
<1>2. ASSUME NEW m \in SUBSET Sources, ClearPending(m) PROVE TypeOK'
  BY <1>0, <1>2, StepType DEF ClearPending, Tick
<1>3. ASSUME NEW e \in SUBSET Sources, WriteEnable(e) PROVE TypeOK'
  BY <1>0, <1>3, StepType DEF WriteEnable, Tick
<1>4. ASSUME NEW s \in Sources, RawToggle(s) PROVE TypeOK'
  BY <1>4, ToggleType
<1>5. CASE UNCHANGED vars
  BY <1>5 DEF vars, TypeOK
<1>6. QED
  BY <1>1, <1>2, <1>3, <1>4, <1>5 DEF Next

(* The EventManager's state stays within its types in every behaviour. *)
THEOREM TypeCorrect == Spec => []TypeOK
BY TypeInit, TypeStep, PTL DEF Spec

-----------------------------------------------------------------------------
(***************************************************************************)
(* The inductive invariant behind SyncLatency.  A pin that has held its   *)
(* level for two clock edges was sampled settled by the first MultiReg    *)
(* stage on the second of them; after a third the second stage holds that *)
(* sample too.  The first stage's sample of a pin that changed less than  *)
(* one period before the edge is unconstrained.                            *)
(***************************************************************************)
MetaSettled == \A s \in Sources : age[s] >= 2 => (s \in meta <=> s \in raw)
SyncSettled == \A s \in Sources : age[s] >= 3 => (s \in sync <=> s \in raw)

SInv == TypeOK /\ MetaSettled /\ SyncSettled

(* After configuration every pin has age 1: nothing is claimed yet. *)
LEMMA SInvInit == Init => SInv
BY TypeInit DEF Init, SInv, MetaSettled, SyncSettled

(* What one clock edge does to the age and the two stages of pin s. *)
LEMMA StepSyncFacts ==
  ASSUME TypeOK, NEW clr, NEW en, NEW new, Step(clr, en, new), NEW s \in Sources
  PROVE  /\ (s \in new) # (s \in raw) => age'[s] = 0
         /\ (s \in new) = (s \in raw) =>
              age'[s] = IF age[s] < 3 THEN age[s] + 1 ELSE age[s]
         /\ age[s] >= 1 => (s \in meta' <=> s \in raw)
         /\ sync' = meta
         /\ raw' = new
<1>1. /\ (s \in new) # (s \in raw) => age'[s] = 0
      /\ (s \in new) = (s \in raw) =>
           age'[s] = IF age[s] < 3 THEN age[s] + 1 ELSE age[s]
  BY DEF Step, Settled
<1>2. age[s] >= 1 => (s \in meta' <=> s \in raw)
  BY DEF Step, SyncStage, Unsettled, TypeOK
<1>3. QED
  BY <1>1, <1>2 DEF Step, SyncStage

(* One clock edge, whatever it writes and whatever the pins do after it,   *)
(* keeps both stages settled where the invariant says so.                  *)
LEMMA StepSync ==
  ASSUME SInv, TypeOK', NEW clr, NEW en, NEW new, Step(clr, en, new)
  PROVE  SInv'
<1>1. MetaSettled'
  <2> SUFFICES ASSUME NEW s \in Sources, age'[s] >= 2 PROVE (s \in meta' <=> s \in raw')
    BY DEF MetaSettled
  <2>1. (s \in new) = (s \in raw) /\ age[s] >= 1
    BY StepSyncFacts DEF SInv, TypeOK
  <2>2. QED
    BY <2>1, StepSyncFacts DEF SInv
<1>2. SyncSettled'
  <2> SUFFICES ASSUME NEW s \in Sources, age'[s] >= 3 PROVE (s \in sync' <=> s \in raw')
    BY DEF SyncSettled
  <2>1. (s \in new) = (s \in raw) /\ age[s] >= 2
    BY StepSyncFacts DEF SInv, TypeOK
  <2>2. QED
    BY <2>1, StepSyncFacts DEF SInv, MetaSettled
<1>3. QED
  BY <1>1, <1>2 DEF SInv

(* The board changing pin s restarts the age of s and leaves every other  *)
(* pin and both stages alone.                                               *)
LEMMA ToggleSync ==
  ASSUME SInv, TypeOK', NEW s \in Sources, RawToggle(s)
  PROVE  SInv'
<1>1. \A t \in Sources \ {s} : age'[t] = age[t] /\ (t \in raw' <=> t \in raw)
  BY DEF RawToggle, SInv, TypeOK
<1>2. age'[s] = 0 /\ meta' = meta /\ sync' = sync
  BY DEF RawToggle, SInv, TypeOK
<1>3. QED
  BY <1>1, <1>2 DEF SInv, MetaSettled, SyncSettled

(* Every step keeps the synchronizer invariant. *)
LEMMA SInvStep == SInv /\ [Next]_vars => SInv'
<1> SUFFICES ASSUME SInv, [Next]_vars PROVE SInv'
  OBVIOUS
<1>0. TypeOK'
  BY TypeStep DEF SInv
<1>1. CASE Cycle
  BY <1>0, <1>1, StepSync DEF Cycle, Tick
<1>2. ASSUME NEW m \in SUBSET Sources, ClearPending(m) PROVE SInv'
  BY <1>0, <1>2, StepSync DEF ClearPending, Tick
<1>3. ASSUME NEW e \in SUBSET Sources, WriteEnable(e) PROVE SInv'
  BY <1>0, <1>3, StepSync DEF WriteEnable, Tick
<1>4. ASSUME NEW s \in Sources, RawToggle(s) PROVE SInv'
  BY <1>0, <1>4, ToggleSync
<1>5. CASE UNCHANGED vars
  BY <1>5 DEF vars, SInv, TypeOK, MetaSettled, SyncSettled
<1>6. QED
  BY <1>1, <1>2, <1>3, <1>4, <1>5 DEF Next

(* Whatever level a metastable first stage resolves to, an event source    *)
(* sees a pin at its level once the pin has held it for Settled clock      *)
(* edges: the two-stage MultiReg adds at most one period of uncertainty.   *)
THEOREM SyncLatencyThm == Spec => []SyncLatency
<1>1. SInv => SyncLatency
  BY DEF SInv, SyncSettled, SyncLatency, Settled
<1>2. QED
  BY <1>1, SInvInit, SInvStep, PTL DEF Spec

-----------------------------------------------------------------------------
(***************************************************************************)
(* The inductive invariant behind NoSpuriousEvent.  Seen from source s, a  *)
(* stage is "at the post-edge level" (Hi) when it holds the level an edge  *)
(* of the policy of s leads to.  Owing(s) counts the policy edges still    *)
(* travelling down prev <- sync <- meta <- pin: one between the detector  *)
(* and the trigger, one between the trigger and the first stage, and one  *)
(* between the first stage and the pin.  While the pin is unsettled the   *)
(* first stage may next sample either level, so the last term then counts *)
(* an edge whenever the next sample could create one.  The history owed   *)
(* never falls below that count.                                           *)
(***************************************************************************)
Hi(s, X) == (s \in X) <=> PostEdgeHigh(s)

B(b) == IF b THEN 1 ELSE 0

PinTerm(a, r, m) == B(IF a = 0 THEN r \/ ~m ELSE r /\ ~m)

Owing(s) ==
  B(Hi(s, sync) /\ ~Hi(s, prev)) + B(Hi(s, meta) /\ ~Hi(s, sync))
  + PinTerm(age[s], Hi(s, raw), Hi(s, meta))

OwedInv == \A s \in Sources : owed[s] >= Owing(s)

OInv == TypeOK /\ OwedInv

(* The count after the pin changes from level r to ~r: a change to the     *)
(* post-edge level is an edge, and is added to owed below the cap.         *)
LEMMA ToggleCount ==
  ASSUME NEW p \in BOOLEAN, NEW y \in BOOLEAN, NEW m \in BOOLEAN,
         NEW r \in BOOLEAN, NEW a \in 0..Settled, NEW o \in 0..OwedCap,
         o >= B(y /\ ~p) + B(m /\ ~y) + PinTerm(a, r, m)
  PROVE  (IF ~r /\ o < OwedCap THEN o + 1 ELSE o)
           >= B(y /\ ~p) + B(m /\ ~y) + PinTerm(0, ~r, m)
BY DEF B, PinTerm, Settled, OwedCap

(* One clock edge without a pin change keeps owed above the count of s. *)
LEMMA TickOwed ==
  ASSUME OInv, NEW clr, NEW en, Tick(clr, en), NEW s \in Sources
  PROVE  owed'[s] >= Owing(s)'
<1>. USE PolicyAssumption
<1>1. Step(clr, en, raw)
  BY DEF Tick
<1>2. raw' = raw /\ sync' = meta /\ prev' = sync
  BY <1>1 DEF Step, SyncStage, Detect
<1>3. age'[s] \in 1..Settled
  BY <1>1 DEF Step, OInv, TypeOK, Settled
<1>4. age[s] # 0 => (Hi(s, meta') <=> Hi(s, raw))
  <2>1. age[s] >= 1 => (s \in meta' <=> s \in raw)
    BY <1>1, StepSyncFacts DEF OInv
  <2>2. QED
    BY <2>1 DEF OInv, TypeOK, Hi, Settled
<1>5. (s \in Edges) <=> (Hi(s, sync) /\ ~Hi(s, prev))
  BY Zenon DEF Edges, Hi, PostEdgeHigh
<1>6. owed'[s] = IF s \in Edges /\ 0 < owed[s] /\ owed[s] < OwedCap
                   THEN owed[s] - 1 ELSE owed[s]
  BY <1>1 DEF Step, OwedNext, PolicyEdge
<1>7. Owing(s)' = B(Hi(s, meta) /\ ~Hi(s, sync)) + B(Hi(s, meta') /\ ~Hi(s, meta))
                  + PinTerm(age'[s], Hi(s, raw), Hi(s, meta'))
  BY <1>2 DEF Owing, Hi
<1>8. owed[s] >= Owing(s)
  BY DEF OInv, OwedInv
<1>9. \A X \in {prev, sync, meta, raw, meta'} : Hi(s, X) \in BOOLEAN
  BY DEF Hi
<1>10. age[s] \in 0..Settled /\ owed[s] \in 0..OwedCap
  BY DEF OInv, TypeOK
<1>11. owed'[s] = IF Hi(s, sync) /\ ~Hi(s, prev) /\ 0 < owed[s] /\ owed[s] < OwedCap
                   THEN owed[s] - 1 ELSE owed[s]
  BY <1>5, <1>6
<1>12. (IF Hi(s, sync) /\ ~Hi(s, prev) /\ 0 < owed[s] /\ owed[s] < OwedCap
         THEN owed[s] - 1 ELSE owed[s])
       >= B(Hi(s, meta) /\ ~Hi(s, sync)) + B(Hi(s, meta') /\ ~Hi(s, meta))
          + PinTerm(age'[s], Hi(s, raw), Hi(s, meta'))
  BY <1>3, <1>4, <1>8, <1>9, <1>10 DEF Owing, B, PinTerm, Settled, OwedCap
<1>13. QED
  BY <1>7, <1>11, <1>12

(* The board changing pin t keeps owed above the count of every source. *)
LEMMA ToggleOwed ==
  ASSUME OInv, NEW t \in Sources, RawToggle(t), NEW s \in Sources
  PROVE  owed'[s] >= Owing(s)'
<1>. USE PolicyAssumption
<1>1. CASE s # t
  <2>1. owed'[s] = owed[s] /\ age'[s] = age[s] /\ (s \in raw' <=> s \in raw)
    BY <1>1 DEF RawToggle, OInv, TypeOK
  <2>2. Owing(s)' = Owing(s)
    BY <2>1 DEF RawToggle, Owing, Hi
  <2>3. QED
    BY <2>1, <2>2 DEF OInv, OwedInv
<1>2. CASE s = t
  <2>1. age'[s] = 0 /\ (s \in raw' <=> ~(s \in raw))
    BY <1>2 DEF RawToggle, OInv, TypeOK
  <2>2. PolicyEdge(s, raw') <=> ~Hi(s, raw)
    BY <2>1 DEF PolicyEdge, Hi, PostEdgeHigh
  <2>3. owed'[s] = IF ~Hi(s, raw) /\ owed[s] < OwedCap THEN owed[s] + 1 ELSE owed[s]
    BY <1>2, <2>2 DEF RawToggle, OInv, TypeOK
  <2>4. Owing(s)' = B(Hi(s, sync) /\ ~Hi(s, prev)) + B(Hi(s, meta) /\ ~Hi(s, sync))
                    + PinTerm(0, ~Hi(s, raw), Hi(s, meta))
    <3>1. (Hi(s, raw') <=> ~Hi(s, raw)) /\ UNCHANGED <<meta, sync, prev>>
      BY <1>2, <2>1, Zenon DEF RawToggle, Hi, PostEdgeHigh
    <3>2. QED
      BY <2>1, <3>1 DEF Owing, B, PinTerm
  <2>5. owed[s] >= B(Hi(s, sync) /\ ~Hi(s, prev)) + B(Hi(s, meta) /\ ~Hi(s, sync))
                    + PinTerm(age[s], Hi(s, raw), Hi(s, meta))
    BY DEF OInv, OwedInv, Owing
  <2>6. \A X \in {prev, sync, meta, raw} : Hi(s, X) \in BOOLEAN
    BY DEF Hi
  <2>7. age[s] \in 0..Settled /\ owed[s] \in 0..OwedCap
    BY DEF OInv, TypeOK
  <2>8. QED
    BY <2>3, <2>4, <2>5, <2>6, <2>7, ToggleCount
<1>3. QED
  BY <1>1, <1>2

(* At configuration every stage is 0, and a pin already high counts as a  *)
(* rising edge still owed to its detector.                                  *)
LEMMA OInit == Init => OInv
<1> SUFFICES ASSUME Init PROVE OInv
  OBVIOUS
<1>. USE PolicyAssumption
<1>1. TypeOK
  BY TypeInit
<1>2. ASSUME NEW s \in Sources PROVE owed[s] >= Owing(s)
  <2>1. Owing(s) = B(Hi(s, raw) /\ ~Hi(s, meta))
    BY DEF Init, Owing, PinTerm, B
  <2>2. QED
    BY <2>1 DEF Init, Hi, B, PostEdgeHigh
<1>3. QED
  BY <1>1, <1>2 DEF OInv, OwedInv

(* Every step keeps owed above the count of every source. *)
LEMMA OInvStep == OInv /\ [Next]_vars => OInv'
<1> SUFFICES ASSUME OInv, [Next]_vars PROVE OInv'
  OBVIOUS
<1>1. TypeOK'
  BY TypeStep DEF OInv
<1>2. ASSUME NEW clr, NEW en, Tick(clr, en) PROVE OwedInv'
  BY <1>2, TickOwed DEF OwedInv
<1>3. ASSUME NEW t \in Sources, RawToggle(t) PROVE OwedInv'
  BY <1>3, ToggleOwed DEF OwedInv
<1>4. ASSUME UNCHANGED vars PROVE OwedInv'
  BY <1>4 DEF vars, OInv, OwedInv, Owing, Hi, PinTerm
<1>5. OwedInv'
  BY <1>2, <1>3, <1>4 DEF Next, Cycle, ClearPending, WriteEnable
<1>6. QED
  BY <1>1, <1>5 DEF OInv

(* A flag becomes pending only on a clock edge whose detector sees an edge *)
(* of the source's policy on the trigger, and such an edge is one the      *)
(* count, and so owed, includes.                                            *)
LEMMA NewPendingOwed ==
  ASSUME OInv, [Next]_vars, NEW s \in Sources, s \notin pending, s \in pending'
  PROVE  owed[s] > 0
<1>. USE PolicyAssumption
<1>1. s \in Edges
  <2>1. ASSUME NEW clr, NEW en, Tick(clr, en) PROVE s \in Edges
    BY <2>1 DEF Tick, Step, Detect
  <2>2. ASSUME NEW t \in Sources, RawToggle(t) PROVE FALSE
    BY <2>2 DEF RawToggle
  <2>3. QED
    BY <2>1, <2>2 DEF Next, Cycle, ClearPending, WriteEnable, vars
<1>2. Hi(s, sync) /\ ~Hi(s, prev)
  BY <1>1, Zenon DEF Edges, Hi, PostEdgeHigh
<1>3. Owing(s) >= 1
  BY <1>2 DEF Owing, B, PinTerm
<1>4. QED
  BY <1>3 DEF OInv, OwedInv, Owing, B, PinTerm, TypeOK, OwedCap

(* For every set of sources and every edge policy, an event source raises *)
(* its pending flag only for an edge of its policy that the pin really     *)
(* made: a metastable first-stage sample, a level held high across a      *)
(* clear of pending, or an edge of the other polarity never raises one.    *)
THEOREM NoSpuriousEventThm == Spec => NoSpuriousEvent
<1>1. OInv /\ [Next]_vars =>
        [\A s \in Sources : s \notin pending /\ s \in pending' => owed[s] > 0]_vars
  BY NewPendingOwed
<1>2. QED
  BY <1>1, OInit, OInvStep, PTL DEF Spec, NoSpuriousEvent

=============================================================================
