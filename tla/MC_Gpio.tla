------------------------------- MODULE MC_Gpio -------------------------------
(* BtGpio with one or two pads; software may write any output and drive   *)
(* word.  Every property but the torn word is about a single pin, which    *)
(* one pad shows; a torn word takes two.                                    *)
EXTENDS Gpio

CONSTANTS g0, g1

MC_OnePin == {g0}
MC_TwoPins == {g0, g1}
MC_OneWrites == SUBSET MC_OnePin
MC_TwoWrites == SUBSET MC_TwoPins
=============================================================================
