---------------------------- MODULE EventManager ----------------------------
(***************************************************************************)
(* One LiteX EventManager of the SoC together with the MultiReg            *)
(* synchronizers that feed its triggers (BtEvents in src/betrusted-soc.py: *)
(* com_int, an EventSourcePulse on the synchronized com_irq pin, and       *)
(* rtc_int, an EventSourceProcess on the synchronized rtc_irq pin).        *)
(*                                                                         *)
(* Every step but RawToggle is one edge of the sys clock, on which the     *)
(* synchronizer stages shift, the edge detectors compare the synchronized  *)
(* trigger with its previous sample, and the CPU may write the pending     *)
(* (write-1-to-clear) or enable CSR.  RawToggle is the board changing an   *)
(* interrupt pin, asynchronously to the sys clock.                         *)
(*                                                                         *)
(* The event sources themselves are LiteX library code; their behaviour    *)
(* (edge policy, pending flag, enable mask, OR-ed interrupt) is taken from *)
(* the spec, section 4.2.                                                   *)
(***************************************************************************)
EXTENDS Naturals

CONSTANTS
  Sources,  \* the event sources of this EventManager
  Policy    \* Policy[s]: "rise" (EventSourcePulse) or "fall" (EventSourceProcess)

ASSUME PolicyAssumption == Policy \in [Sources -> {"rise", "fall"}]

(* A pin that changed less than one clock period ago may be sampled at     *)
(* either level; after Settled edges the synchronized copy has caught up.  *)
Settled == 3

(* Cap of the history count below; a count at the cap stays there.  Three *)
(* covers the edges that fit in the two synchronizer stages and the        *)
(* detector at once.                                                        *)
OwedCap == 3

VARIABLES
  raw,      \* pins at the high level (asynchronous board signals)
  meta,     \* first MultiReg stage: sources sampled high
  sync,     \* second MultiReg stage, the trigger: sources synchronized high
  prev,     \* edge detectors' previous trigger sample
  pending,  \* pending flags
  enable,   \* enable mask
  age,      \* age[s]: sys clock edges since pin s last changed, capped at Settled
  owed      \* history: owed[s], policy edges of pin s not yet seen by its detector

vars == <<raw, meta, sync, prev, pending, enable, age, owed>>

PostEdgeHigh(s) == Policy[s] = "rise"

(* Pins that changed since the previous edge of the sys clock. *)
Unsettled == {s \in Sources : age[s] = 0}

(* Mutant of Edges: every source detects rising edges, as if rtc_int were *)
(* an EventSourcePulse.                                                     *)
MutEdgesAllRise == sync \ prev

(* The edges the detectors see on this clock edge: a rising trigger for    *)
(* an EventSourcePulse, a falling one for an EventSourceProcess.            *)
Edges ==
  {s \in sync \ prev : PostEdgeHigh(s)} \cup {s \in prev \ sync : ~PostEdgeHigh(s)}

(* Mutant of SyncStage: a pin may be sampled at its old level however long *)
(* ago it changed (a synchronizer that can miss a settled level).           *)
MutSyncStageAnyAge ==
  /\ \E x \in SUBSET Sources : meta' = (raw \cap meta) \cup (x \cap (raw \cup meta))
  /\ sync' = meta

(* MultiReg(pin, trigger): the first stage samples the pin (an unsettled   *)
(* pin may resolve to either level), the second stage copies the first.    *)
SyncStage ==
  /\ \E x \in SUBSET Unsettled : meta' = (raw \ Unsettled) \cup x
  /\ sync' = meta

(* Mutant of Detect: a clear in the same cycle as an edge wins over it. *)
MutDetectClearWins(clr) ==
  /\ pending' = (pending \cup Edges) \ clr
  /\ prev' = sync

(* The event sources on a clock edge, with clr the mask written to the     *)
(* pending CSR in that cycle: a detected edge sets the flag, and wins over *)
(* a clear of the same cycle.                                               *)
Detect(clr) ==
  /\ pending' = (pending \ clr) \cup Edges
  /\ prev' = sync

(* Pin s goes from its level in raw to its level in new, and that is an    *)
(* edge of the policy of s.                                                 *)
PolicyEdge(s, new) == (s \in raw) # (s \in new) /\ (s \in new) = PostEdgeHigh(s)

(* The history count of s after this edge's detection and the pin change  *)
(* to new: one less for an edge the detector saw, one more for a new pin   *)
(* edge; a count at the cap stays there.                                    *)
OwedNext(s, new) ==
  LET o == IF s \in Edges /\ 0 < owed[s] /\ owed[s] < OwedCap THEN owed[s] - 1
           ELSE owed[s]
  IN  IF PolicyEdge(s, new) /\ o < OwedCap THEN o + 1 ELSE o

(* Mutant of Step: the settle count incremented without saturating. *)
MutStepNoCap(clr, en, new) ==
  /\ SyncStage
  /\ Detect(clr)
  /\ enable' = en
  /\ raw' = new
  /\ age' = [s \in Sources |-> IF (s \in new) # (s \in raw) THEN 0 ELSE age[s] + 1]
  /\ owed' = [s \in Sources |-> OwedNext(s, new)]

(* One edge of the sys clock, after which the pins driven by the SoC take *)
(* the levels new (pins nobody drives from the SoC keep their level).      *)
Step(clr, en, new) ==
  /\ SyncStage
  /\ Detect(clr)
  /\ enable' = en
  /\ raw' = new
  /\ age' = [s \in Sources |->
               IF (s \in new) # (s \in raw) THEN 0
               ELSE IF age[s] < Settled THEN age[s] + 1 ELSE age[s]]
  /\ owed' = [s \in Sources |-> OwedNext(s, new)]

(* One edge of the sys clock with no pin driven by it. *)
Tick(clr, en) == Step(clr, en, raw)

(* A clock edge without a CSR write. *)
Cycle == Tick({}, enable)

(* The CPU writes mask m to the pending CSR (write 1 to clear). *)
ClearPending(m) == m # {} /\ Tick(m, enable)

(* The CPU writes the enable CSR. *)
WriteEnable(e) == e # enable /\ Tick({}, e)

(* The board changes pin s. *)
RawToggle(s) ==
  /\ raw' = IF s \in raw THEN raw \ {s} ELSE raw \cup {s}
  /\ age' = [age EXCEPT ![s] = 0]
  /\ owed' = IF PolicyEdge(s, raw') /\ owed[s] < OwedCap
               THEN [owed EXCEPT ![s] = @ + 1] ELSE owed
  /\ UNCHANGED <<meta, sync, prev, pending, enable>>

(* The aggregated interrupt line: some enabled source is pending. *)
Irq == pending \cap enable # {}

(* Configuration: the pins are at any level and stable (the first sample  *)
(* is definite: age 1), every register is 0.  A pin already high looks to  *)
(* a rising-edge source like an edge from the register's initial 0.        *)
Init ==
  /\ raw \in SUBSET Sources
  /\ meta = {}
  /\ sync = {}
  /\ prev = {}
  /\ pending = {}
  /\ enable = {}
  /\ age = [s \in Sources |-> 1]
  /\ owed = [s \in Sources |-> IF s \in raw /\ PostEdgeHigh(s) THEN 1 ELSE 0]

Next ==
  \/ Cycle
  \/ \E m \in SUBSET Sources : ClearPending(m)
  \/ \E e \in SUBSET Sources : WriteEnable(e)
  \/ \E s \in Sources : RawToggle(s)

Spec == Init /\ [][Next]_vars /\ WF_vars(Cycle)

-----------------------------------------------------------------------------
TypeOK ==
  /\ raw \subseteq Sources
  /\ meta \subseteq Sources
  /\ sync \subseteq Sources
  /\ prev \subseteq Sources
  /\ pending \subseteq Sources
  /\ enable \subseteq Sources
  /\ age \in [Sources -> 0..Settled]
  /\ owed \in [Sources -> 0..OwedCap]

(* A pending flag is raised only for a policy edge the pin really made:    *)
(* no metastable sample, no level held high across a clear, and no edge of *)
(* the other polarity raises an event.                                      *)
NoSpuriousEvent ==
  [][\A s \in Sources : s \notin pending /\ s \in pending' => owed[s] > 0]_vars

(* The synchronized trigger is never more than one clock period late: a    *)
(* pin that has held its level for Settled clock edges is seen at that     *)
(* level by the event source.                                               *)
SyncLatency == \A s \in Sources : age[s] = Settled => (s \in sync <=> s \in raw)

(* Pin s has made an edge of its policy and held the new level for        *)
(* Settled clock edges, and the edge detector has not yet seen it.         *)
Landed(s) ==
  /\ age[s] = Settled
  /\ (s \in raw) = PostEdgeHigh(s)
  /\ (s \in prev) # PostEdgeHigh(s)

(* An edge of its policy that a pin holds for the synchronizer's settle    *)
(* time raises the event, whatever software writes to the pending CSR in  *)
(* the meantime: a clear in the cycle the edge is detected must not eat   *)
(* it (the spec: no event is silently dropped between two polls).          *)
EdgeDelivered == \A s \in Sources : Landed(s) ~> s \in pending

=============================================================================
