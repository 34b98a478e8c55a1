------------------------------ MODULE Machine ------------------------------
(***************************************************************************)
(* A machine from its start to the kernel monitor: Boot brings the CPUs    *)
(* up, and once programs run the kernel serves the console of Console.     *)
(* The CPU that holds the kernel lock in a trap is the one that does; when *)
(* it has entered the monitor it does not leave it, and the others wait.   *)
(***************************************************************************)
EXTENDS Boot, Console

ASSUME ConsoleOfMachines ==
  \A m \in Machines :
    /\ m.strokes \in [left : Nat, keys : SUBSET Key, ups : SUBSET Key, chars : SUBSET Char]
    /\ m.lengths \in [Prog -> Nat]

vars == <<bootVars, consoleVars>>

Init == BootInit /\ ConsoleInit(machine.strokes, machine.lengths)

(* A CPU leaves the kernel when it is at nothing there; one in the monitor *)
(* would need the monitor to return.                                       *)
Computes(c) ==
  /\ CpuStep(c) /\ ((mode = "user" /\ Free) \/ lock' = lock)
  /\ UNCHANGED consoleVars

Interrupted(c) == Trap(c) /\ UNCHANGED consoleVars

Serves ==
  /\ lock # None /\ pc[lock] = "kernel"
  /\ InKernel
  /\ UNCHANGED bootVars

(* A program prints into its buffer while some CPU runs programs.          *)
Prints(p) ==
  /\ \E c \in CPU : pc[c] = "user"
  /\ Putch(p)
  /\ UNCHANGED bootVars

Typed == envs /\ Arrives /\ UNCHANGED bootVars

Next ==
  \/ \E c \in CPU : Computes(c) \/ Interrupted(c)
  \/ Serves
  \/ \E p \in Prog : Prints(p)
  \/ Typed

Spec == Init /\ [][Next]_vars /\ \A c \in CPU : WF_vars(Computes(c))

(* What the variables of both hold.                                        *)
TypeOK == BootTypeOK /\ ConsoleTypeOK
=============================================================================
