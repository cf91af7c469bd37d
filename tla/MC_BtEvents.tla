---------------------------- MODULE MC_BtEvents ----------------------------
(* BtEvents: com_int is an EventSourcePulse (rising edge) on the           *)
(* synchronized com_irq pin, rtc_int an EventSourceProcess (falling edge)  *)
(* on the synchronized rtc_irq pin.                                         *)
EXTENDS EventManager

CONSTANTS com_int, rtc_int

MC_Sources == {com_int, rtc_int}
MC_Policy == [s \in MC_Sources |-> IF s = com_int THEN "rise" ELSE "fall"]

(* What the specification's event policy asks of each source, stated apart *)
(* from Policy: com_int is a RisingPulse source, rtc_int a FallingLatched  *)
(* one (the comments at the class choices in BtEvents).                     *)
SpecRising(s) == s = com_int

=============================================================================
