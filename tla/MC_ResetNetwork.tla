-------------------------- MODULE MC_ResetNetwork --------------------------
(* Model-checking instance of ResetNetwork: every 8-bit value may be       *)
(* written to reboot.ctrl; power takes its reset value, all-zero (SRAM     *)
(* isolated, self power released), the two "on" states and every field set.                *)
EXTENDS ResetNetwork

MC_CtrlWrites == 0..255
MC_PowerWrites == {0, PowerReset, 2 + 16, 2 + 24, 255}
=============================================================================
