---------------------------- MODULE MC_ClockPort ----------------------------
(* The clock reconfiguration port with two DRP registers and two data     *)
(* words, and a DRDY latency of two DCLK cycles.                            *)
EXTENDS ClockPort

CONSTANTS a1, a2, d0, d1

MC_DrpAddrs == {a1, a2}
MC_DrpData == {d0, d1}
=============================================================================
