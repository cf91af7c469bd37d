--------------------------- MODULE DrpRegisterFile ---------------------------
(***************************************************************************)
(* What the clock reconfiguration port of the CRG promises the software    *)
(* that drives it: the MMCM's DRP registers behave as an atomic register   *)
(* file.  The driver issues one read or write at a time; the register file *)
(* performs it in a single step at some later point; the driver then sees  *)
(* the request as finished, and a read's result stays where it was put     *)
(* until the next request.  Nothing here knows about DEN, DRDY, the        *)
(* latency of the MMCM or the sticky ready bit: ClockPort, which does, is  *)
(* shown to implement this module.                                          *)
(***************************************************************************)
CONSTANTS
  DrpAddrs,  \* register addresses
  DrpData    \* register contents

VARIABLES
  regs,    \* the register file
  rdata,   \* the result of the last read
  cstate,  \* the driver: "idle", or "wait" while its request is in progress
  creq,    \* the request in progress, or the last one
  done     \* has the request in progress been performed?

avars == <<regs, rdata, cstate, creq, done>>

Requests == [kind : {"read", "write"}, adr : DrpAddrs, dat : DrpData]

Init ==
  /\ regs \in [DrpAddrs -> DrpData]
  /\ rdata \in DrpData
  /\ cstate = "idle"
  /\ creq \in Requests
  /\ done = FALSE

(* The idle driver issues request r. *)
Issue(r) ==
  /\ cstate = "idle"
  /\ cstate' = "wait"
  /\ creq' = r
  /\ UNCHANGED <<regs, rdata, done>>

(* The register file performs the request in progress, all at once. *)
Perform ==
  /\ cstate = "wait"
  /\ ~done
  /\ done' = TRUE
  /\ IF creq.kind = "write"
       THEN regs' = [regs EXCEPT ![creq.adr] = creq.dat] /\ UNCHANGED rdata
       ELSE rdata' = regs[creq.adr] /\ UNCHANGED regs
  /\ UNCHANGED <<cstate, creq>>

(* The driver learns that its request has been performed. *)
Return ==
  /\ cstate = "wait"
  /\ done
  /\ cstate' = "idle"
  /\ done' = FALSE
  /\ UNCHANGED <<regs, rdata, creq>>

Next == (\E r \in Requests : Issue(r)) \/ Perform \/ Return

(* A request in progress is eventually performed, and the driver learns of *)
(* it; the driver need not issue any request.                              *)
Spec == Init /\ [][Next]_avars /\ WF_avars(Perform) /\ WF_avars(Return)

=============================================================================
