-------------------------------- MODULE Gpio --------------------------------
(***************************************************************************)
(* BtGpio (src/betrusted-soc.py): the output, drive, input, intena and     *)
(* intpol CSRs, the tristate pads, the MultiReg synchronizer of the input  *)
(* word and an EventManager with one EventSourcePulse per pin, triggered   *)
(* by input.status[i] ^ intpol.status[i].                                   *)
(*                                                                         *)
(* A pad is at output[i] while drive[i] is set and at the level the board  *)
(* gives it otherwise.  The event part is the EventManager module with the *)
(* pins as its sources; its raw pin set is the pad levels.  intena and     *)
(* intpol are CSRStatus registers nothing drives: they read their reset    *)
(* value 0 and ignore bus writes, so every trigger is the synchronized     *)
(* input itself and every pin interrupts on a rising edge.                 *)
(***************************************************************************)
EXTENDS Naturals

CONSTANTS
  Pins,          \* the GPIO pads
  OutputWrites,  \* values software writes to output (sets of pins at 1)
  DriveWrites    \* values software writes to drive

ASSUME GpioAssumption ==
  /\ OutputWrites \subseteq SUBSET Pins
  /\ DriveWrites \subseteq SUBSET Pins

VARIABLES
  output,   \* output.storage
  drive,    \* drive.storage (gpio_oe)
  ext,      \* pins the board pulls high when the SoC does not drive them
  polreq,   \* history: pins software asked to interrupt on a falling edge
  held,     \* history: the words that have been on the pads or in the registers
  raw, meta, sync, prev, pending, enable, age, owed  \* the EventManager's

emvars == <<raw, meta, sync, prev, pending, enable, age, owed>>
vars == <<output, drive, ext, polreq, held, emvars>>

(* intpol.status: a CSRStatus nothing drives holds its reset value 0. *)
IntpolReset == {}

(* Every pin is an EventSourcePulse on input.status[i] ^ intpol.status[i]; *)
(* with intpol at 0 the trigger is the synchronized input and the event is *)
(* its rising edge.                                                         *)
GpioPolicy == [p \in Pins |-> IF p \in IntpolReset THEN "fall" ELSE "rise"]

EM == INSTANCE EventManager WITH Sources <- Pins, Policy <- GpioPolicy

(* Mutant of PadLevel: the tristate's oe not connected to drive. *)
MutPadLevelNoOe(o, d, e) == e

(* The pad levels: TSTriple per pin, o = output, oe = drive. *)
PadLevel(o, d, e) == (o \cap d) \cup (e \ d)

(* The sys clock edge on which the CPU writes output o and drive d; the    *)
(* pads take their new levels after the edge.                              *)
PadEdge(o, d, clr, en) ==
  /\ EM!Step(clr, en, PadLevel(o, d, ext))
  /\ output' = o
  /\ drive' = d
  /\ held' = held \cup {PadLevel(o, d, ext)}
  /\ UNCHANGED ext

(* A cycle without a GPIO CSR write. *)
Cycle == PadEdge(output, drive, {}, enable) /\ UNCHANGED polreq

(* The CPU writes mask m to the pending CSR (write 1 to clear). *)
ClearPending(m) == m # {} /\ PadEdge(output, drive, m, enable) /\ UNCHANGED polreq

(* The CPU writes the event enable CSR. *)
WriteEnable(e) == e # enable /\ PadEdge(output, drive, {}, e) /\ UNCHANGED polreq

(* The CPU writes o to output. *)
WriteOutput(o) == o # output /\ PadEdge(o, drive, {}, enable) /\ UNCHANGED polreq

(* The CPU writes d to drive. *)
WriteDrive(d) == d # drive /\ PadEdge(output, d, {}, enable) /\ UNCHANGED polreq

(* The CPU writes v to intpol, a status register: the bus write is         *)
(* ignored and intpol.status stays 0.                                       *)
WriteIntpol(v) ==
  /\ v # polreq
  /\ PadEdge(output, drive, {}, enable)
  /\ polreq' = v

(* The board changes the level it puts on pin p; an undriven pad follows. *)
ExtToggle(p) ==
  /\ ext' = IF p \in ext THEN ext \ {p} ELSE ext \cup {p}
  /\ IF p \in drive THEN UNCHANGED emvars ELSE EM!RawToggle(p)
  /\ held' = held \cup {raw'}
  /\ UNCHANGED <<output, drive, polreq>>

(* Configuration: CSRs at reset (output and drive 0, so no pad driven),    *)
(* the board's levels settled.                                              *)
Init ==
  /\ output = {}
  /\ drive = {}
  /\ ext \in SUBSET Pins
  /\ polreq = {}
  /\ EM!Init
  /\ raw = ext
  /\ held = {raw, sync}

Next ==
  \/ Cycle
  \/ \E m \in SUBSET Pins : ClearPending(m)
  \/ \E e \in SUBSET Pins : WriteEnable(e)
  \/ \E o \in OutputWrites : WriteOutput(o)
  \/ \E d \in DriveWrites : WriteDrive(d)
  \/ \E v \in SUBSET Pins : WriteIntpol(v)
  \/ \E p \in Pins : ExtToggle(p)

Spec == Init /\ [][Next]_vars

-----------------------------------------------------------------------------
TypeOK ==
  /\ output \subseteq Pins
  /\ drive \subseteq Pins
  /\ ext \subseteq Pins
  /\ polreq \subseteq Pins
  /\ held \subseteq SUBSET Pins
  /\ EM!TypeOK

(* A driven pin reads back what software drives onto it: once output and *)
(* drive have been stable for the synchronizer's settle time, input.status *)
(* shows the output value of every driven pin.                              *)
DrivenPinReadsBack ==
  \A p \in drive : age[p] = EM!Settled => (p \in sync <=> p \in output)

(* The spec (section 3) says a synchronized value is never torn: the       *)
(* input word software reads is a word that was on the pins.               *)
WordNotTorn == sync \in held

(* The intpol description: when a bit is 1, falling edges cause            *)
(* interrupts, otherwise rising edges.  So a rising edge of the input of a *)
(* pin software set to falling-edge raises no event.                        *)
PolarityHonoured ==
  [][\A p \in polreq : p \in sync \ prev /\ p \notin pending => p \notin pending']_vars

=============================================================================
