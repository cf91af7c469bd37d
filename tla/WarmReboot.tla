----------------------------- MODULE WarmReboot -----------------------------
(***************************************************************************)
(* What the reset network of the SoC promises the software on the CPU.    *)
(* The CPU either runs or is held in reset.  While it runs it writes the  *)
(* reboot and power CSRs; writing the reset key 0b101011xx to reboot.ctrl *)
(* reboots it, and so may a loss of the clock, but no other write does.   *)
(* While the CPU is in reset its CSRs are at their reset values, and it   *)
(* leaves reset with them there.  Nothing here knows about the MMCM, its  *)
(* LOCKED output or the reset synchronizer: ResetNetwork, which does, is  *)
(* shown to implement this module.                                          *)
(***************************************************************************)
EXTENDS Naturals

CONSTANTS
  Addrs,        \* values of reboot.addr
  ResetVector,  \* the reset value of reboot.addr
  CtrlWrites,   \* values software writes to reboot.ctrl
  PowerWrites,  \* values software writes to power
  PowerInit     \* the reset value of power

VARIABLES
  running,   \* is the CPU out of reset?
  ctrl,      \* reboot.ctrl as the CPU sees it
  addr,      \* reboot.addr
  power,     \* the power CSR
  boot_vec   \* the address the CPU started at

avars == <<running, ctrl, addr, power, boot_vec>>

(* The "Reset Key" comment: 0xAC with the two low bits ignored. *)
IsKey(v) == v \div 4 = 43

(* Every CSR at its reset value, and the CPU about to start at ResetVector. *)
AtReset ==
  /\ ctrl = 0
  /\ addr = ResetVector
  /\ power = PowerInit
  /\ boot_vec = ResetVector

Init == ~running /\ AtReset

(* The system goes into reset, and every CSR with it. *)
GoDown ==
  /\ running
  /\ running' = FALSE
  /\ AtReset'

(* The CPU writes v to reboot.ctrl: the reset key reboots, any other value *)
(* is stored.                                                               *)
WriteCtrl(v) ==
  /\ running
  /\ IF IsKey(v) THEN GoDown
     ELSE ctrl' = v /\ UNCHANGED <<running, addr, power, boot_vec>>

(* The CPU writes a to reboot.addr. *)
WriteAddr(a) ==
  /\ running
  /\ addr' = a
  /\ UNCHANGED <<running, ctrl, power, boot_vec>>

(* The CPU writes v to power. *)
WritePower(v) ==
  /\ running
  /\ power' = v
  /\ UNCHANGED <<running, ctrl, addr, boot_vec>>

(* The clock is lost, which resets the system like the key. *)
LoseClock == GoDown

(* The CPU leaves reset, with every CSR where the reset put it. *)
Boot ==
  /\ ~running
  /\ running' = TRUE
  /\ UNCHANGED <<ctrl, addr, power, boot_vec>>

Next ==
  \/ \E v \in CtrlWrites : WriteCtrl(v)
  \/ \E a \in Addrs : WriteAddr(a)
  \/ \E v \in PowerWrites : WritePower(v)
  \/ LoseClock
  \/ Boot

(* Every reset ends; software need not write anything. *)
Spec == Init /\ [][Next]_avars /\ WF_avars(Boot)

=============================================================================
