----------------------------- MODULE MCEnvSched -----------------------------
(* Small machines for EnvSched, and the programs that run on them.         *)
EXTENDS EnvSched

(* Everything the library and the programs of user/ do, but the breakpoint *)
(* that stops the machine in the monitor.                                  *)
LibraryPrograms == ProperUses \ {"breakpoint"}

(* The same with all the calls that the kernel does not refuse.            *)
AllPrograms == ProperUses \cup CarelessUses

(* Programs that never exit: parents, children that compute until their    *)
(* parents destroy them (user/spin.c).                                     *)
SpinPrograms == {"exofork", "start", "destroy"}

(* One program each for the calls whose comments claim more than they do.  *)
SpinAndYield == {"exofork", "start", "destroy", "yield"}
DestroyTwice == {"exofork", "start", "destroy", "destroy_zombie"}

=============================================================================
