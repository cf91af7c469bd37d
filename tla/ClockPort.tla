----------------------------- MODULE ClockPort -----------------------------
(***************************************************************************)
(* The clock reconfiguration port of the CRG (src/betrusted-soc.py): the   *)
(* CSRs mmcm_adr, mmcm_dat_w, mmcm_read, mmcm_write, mmcm_drdy and         *)
(* mmcm_dat_r wired to the dynamic reconfiguration port (DRP) of the       *)
(* MMCME2_ADV, and the software driver that uses them.                     *)
(*                                                                         *)
(* Every step is one edge of the sys clock (which is also DCLK).  On it    *)
(* the CPU makes at most one CSR access; a write of mmcm_read or mmcm_write *)
(* pulses its `re` strobe, which is DEN (and DWE) for that cycle.  The     *)
(* MMCM answers a request Latency cycles later with a one-cycle DRDY pulse, *)
(* which the sync logic turns into the sticky mmcm_drdy status bit.         *)
(*                                                                         *)
(* The driver is not in the repository; it follows the handshake the spec  *)
(* describes: write the address (and data), strobe, poll ready, read back.  *)
(***************************************************************************)
EXTENDS Naturals

CONSTANTS
  DrpAddrs,   \* DRP register addresses (DADDR values) software uses
  DrpData,    \* 16-bit DRP data words, abstracted to a few values
  Latency,    \* DCLK cycles from DEN to DRDY
  DoHolds,    \* does the MMCM hold DO after the DRDY cycle?
  PollFirst   \* does the driver poll ready before its first request too?

ASSUME PortAssumption ==
  /\ DrpAddrs # {} /\ DrpData # {}
  /\ Latency \in Nat \ {0}
  /\ DoHolds \in BOOLEAN /\ PollFirst \in BOOLEAN

VARIABLES
  adr,      \* mmcm_adr.storage, drives DADDR
  dat_w,    \* mmcm_dat_w.storage, drives DI
  drdy,     \* mmcm_drdy.status
  busy,     \* MMCM: DCLK cycles until the outstanding request completes (0: idle)
  pulse,    \* MMCM: the DRDY output during the current cycle
  op,       \* MMCM: the outstanding request, latched at DEN
  regs,     \* MMCM: its DRP register file
  do_out,   \* MMCM: the DO output, which is mmcm_dat_r.status
  cstate,   \* driver: "idle" or "wait" (a request issued, ready not yet seen)
  creq,     \* driver: the request it issued last
  issued    \* driver: has it issued any request yet?

vars == <<adr, dat_w, drdy, busy, pulse, op, regs, do_out, cstate, creq, issued>>

Requests == [kind : {"read", "write"}, adr : DrpAddrs, dat : DrpData]

(* The strobe of this cycle: DEN = mmcm_read.re | mmcm_write.re, DWE =     *)
(* mmcm_write.re, with DADDR and DI the current storage of the CSRs.        *)
NoStrobe == [den |-> FALSE]
Strobe(k) == [den |-> TRUE, req |-> [kind |-> k, adr |-> adr, dat |-> dat_w]]

(* The request completes on this edge. *)
Completes(s) == ~s.den /\ busy = 1

(* Mutant of MmcmStep: the countdown decremented without stopping at 0. *)
MutMmcmStepNoFloor(s) ==
  /\ busy' = IF s.den THEN Latency ELSE busy - 1
  /\ pulse' = Completes(s)
  /\ op' = IF s.den THEN s.req ELSE op
  /\ regs' = IF Completes(s) /\ op.kind = "write"
               THEN [regs EXCEPT ![op.adr] = op.dat] ELSE regs
  /\ IF Completes(s) /\ op.kind = "read" THEN do_out' = regs[op.adr]
     ELSE IF DoHolds THEN do_out' = do_out
     ELSE do_out' \in DrpData

(* The MMCM's DRP across one DCLK edge with strobe s: a request starts     *)
(* the countdown; the last count performs it and raises DRDY for one       *)
(* cycle.  DO carries the read data from then on, or is undefined after    *)
(* the DRDY cycle when the MMCM does not hold it.                           *)
MmcmStep(s) ==
  /\ busy' = IF s.den THEN Latency ELSE IF busy > 0 THEN busy - 1 ELSE 0
  /\ pulse' = Completes(s)
  /\ op' = IF s.den THEN s.req ELSE op
  /\ regs' = IF Completes(s) /\ op.kind = "write"
               THEN [regs EXCEPT ![op.adr] = op.dat] ELSE regs
  /\ IF Completes(s) /\ op.kind = "read" THEN do_out' = regs[op.adr]
     ELSE IF DoHolds THEN do_out' = do_out
     ELSE do_out' \in DrpData

(* Mutant of DrdyStep: the clear on a new strobe dropped. *)
MutDrdyNoClear(s) == drdy' = (drdy \/ pulse)

(* Mutant of DrdyStep: the DRDY pulse never sampled. *)
MutDrdyNoSet(s) == drdy' = (drdy /\ ~s.den)

(* self.sync: If(read.re | write.re, drdy <= 0).Elif(mmcm_drdy, drdy <= 1). *)
DrdyStep(s) == drdy' = IF s.den THEN FALSE ELSE IF pulse THEN TRUE ELSE drdy

(* One sys clock edge with strobe s. *)
Edge(s) == MmcmStep(s) /\ DrdyStep(s)

(* The driver may start a request: ready is high, or this is its first     *)
(* request and it does not poll before the first one.                      *)
CanIssue == drdy \/ (~PollFirst /\ ~issued)

(* A cycle without a DRP CSR write. *)
Cycle ==
  /\ Edge(NoStrobe)
  /\ UNCHANGED <<adr, dat_w, cstate, creq, issued>>

(* The idle driver writes a to mmcm_adr. *)
WriteAdr(a) ==
  /\ cstate = "idle"
  /\ Edge(NoStrobe)
  /\ adr' = a
  /\ UNCHANGED <<dat_w, cstate, creq, issued>>

(* The idle driver writes d to mmcm_dat_w. *)
WriteDatW(d) ==
  /\ cstate = "idle"
  /\ Edge(NoStrobe)
  /\ dat_w' = d
  /\ UNCHANGED <<adr, cstate, creq, issued>>

(* The driver writes mmcm_read (k = "read") or mmcm_write (k = "write"). *)
Request(k) ==
  /\ cstate = "idle"
  /\ CanIssue
  /\ Edge(Strobe(k))
  /\ cstate' = "wait"
  /\ creq' = Strobe(k).req
  /\ issued' = TRUE
  /\ UNCHANGED <<adr, dat_w>>

(* Mutant of Collect: the driver reads mmcm_dat_r without polling ready. *)
MutCollectNoPoll ==
  /\ cstate = "wait"
  /\ Edge(NoStrobe)
  /\ cstate' = "idle"
  /\ UNCHANGED <<adr, dat_w, creq, issued>>

(* The waiting driver, having seen ready, reads mmcm_dat_r. *)
Collect ==
  /\ cstate = "wait"
  /\ drdy
  /\ Edge(NoStrobe)
  /\ cstate' = "idle"
  /\ UNCHANGED <<adr, dat_w, creq, issued>>

(* Configuration: the CSRs at their reset values (mmcm_drdy is a           *)
(* CSRStatus() and resets to 0), the MMCM idle with whatever its DRP       *)
(* registers were configured to.                                            *)
Init ==
  /\ adr \in DrpAddrs
  /\ dat_w \in DrpData
  /\ drdy = FALSE
  /\ busy = 0
  /\ pulse = FALSE
  /\ op \in Requests
  /\ regs \in [DrpAddrs -> DrpData]
  /\ do_out \in DrpData
  /\ cstate = "idle"
  /\ creq \in Requests
  /\ issued = FALSE

Next ==
  \/ Cycle
  \/ \E a \in DrpAddrs : WriteAdr(a)
  \/ \E d \in DrpData : WriteDatW(d)
  \/ \E k \in {"read", "write"} : Request(k)
  \/ Collect

(* The sys clock is free-running; the driver keeps using the port: it      *)
(* starts a request whenever it may and collects the result once ready.    *)
Fairness ==
  /\ WF_vars(Cycle)
  /\ WF_vars(\E k \in {"read", "write"} : Request(k))
  /\ WF_vars(Collect)

Spec == Init /\ [][Next]_vars /\ Fairness

(* The abstract register file: its registers are the MMCM's, a read's     *)
(* result is DO (mmcm_dat_r), and a request counts as performed once the   *)
(* MMCM's countdown is over.                                                *)
DRP == INSTANCE DrpRegisterFile
         WITH rdata <- do_out, done <- (cstate = "wait" /\ busy = 0)

-----------------------------------------------------------------------------
TypeOK ==
  /\ adr \in DrpAddrs
  /\ dat_w \in DrpData
  /\ drdy \in BOOLEAN
  /\ busy \in 0..Latency
  /\ pulse \in BOOLEAN
  /\ op \in Requests
  /\ regs \in [DrpAddrs -> DrpData]
  /\ do_out \in DrpData
  /\ cstate \in {"idle", "wait"}
  /\ creq \in Requests
  /\ issued \in BOOLEAN

(* A driver that sees mmcm_drdy high after its request finds the request   *)
(* done: the DRP register it wrote holds its data, or mmcm_dat_r holds the *)
(* register it read.                                                        *)
ReadyMeansDone ==
  cstate = "wait" /\ drdy =>
    IF creq.kind = "read" THEN do_out = regs[creq.adr]
                          ELSE regs[creq.adr] = creq.dat

(* Every request the driver issues is answered: mmcm_drdy comes back.      *)
RequestCompletes == cstate = "wait" ~> cstate = "idle"

(* A driver that wants the port gets to issue a request. *)
RequestIssued == <>issued

(* The DRP caller contract (spec, clock reconfiguration port): DEN is      *)
(* mmcm_read.re | mmcm_write.re and nothing in the CRG blocks a second     *)
(* strobe, so the driver must never strobe while the MMCM still works on   *)
(* its previous request or shows its DRDY pulse.  Following the handshake  *)
(* on the sticky mmcm_drdy bit is enough for that.                          *)
NoStrobeWhileBusy ==
  [][(\E k \in {"read", "write"} : Request(k)) => busy = 0 /\ ~pulse]_vars

(* The DRP CSRs, the MMCM and a driver that follows the handshake          *)
(* implement an atomic register file: every read or write the driver       *)
(* issues takes effect in one step before mmcm_drdy tells it so, and a     *)
(* read's result is in mmcm_dat_r from then until the next request.        *)
ImplementsRegisterFile == DRP!Spec

=============================================================================
