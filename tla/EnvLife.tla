------------------------------ MODULE EnvLife ------------------------------
(***************************************************************************)
(* What JOS promises about the life of its environments, without saying    *)
(* who is chosen to run, how the table is kept or which calls there are:   *)
(*                                                                         *)
(*   - an environment is created from a free slot, ready or stopped;       *)
(*   - a processor takes up only a ready environment, and the one it       *)
(*     executes is not ready for the others;                               *)
(*   - it is the processor that executes an environment that ends its run, *)
(*     at most to mark it dying does another one reach in;                 *)
(*   - a stopped environment runs again only after it was made ready.      *)
(*                                                                         *)
(* A dying environment is normally freed by its processor, but it may also *)
(* slip away: stay dying with nobody to free it, or stop like a live one.  *)
(***************************************************************************)
CONSTANTS CPUs, Slots,
          NoEnv        \* the processor executes no environment

VARIABLES state,       \* the life of each slot
          on           \* the environment each processor executes

vars == <<state, on>>

Init ==
  /\ state = [e \in Slots |-> "FREE"]
  /\ on = [c \in CPUs |-> NoEnv]

Create(e, how) ==
  /\ state[e] = "FREE"
  /\ how \in {"RUNNABLE", "NOT_RUNNABLE"}
  /\ state' = [state EXCEPT ![e] = how]
  /\ UNCHANGED on

Ready(e) ==
  /\ state[e] = "NOT_RUNNABLE"
  /\ state' = [state EXCEPT ![e] = "RUNNABLE"]
  /\ UNCHANGED on

(* How an environment can leave the processor that executes it.            *)
After(e) == IF state[e] = "RUNNING" THEN {"RUNNABLE", "NOT_RUNNABLE", "FREE"}
                                    ELSE {"FREE", "DYING", "NOT_RUNNABLE"}

TakeUp(c, f) ==
  /\ on[c] = NoEnv
  /\ state[f] = "RUNNABLE"
  /\ state' = [state EXCEPT ![f] = "RUNNING"]
  /\ on' = [on EXCEPT ![c] = f]

Change(c, how, f) ==
  /\ on[c] # NoEnv
  /\ how \in After(on[c])
  /\ state[f] = "RUNNABLE"
  /\ state' = [state EXCEPT ![on[c]] = how, ![f] = "RUNNING"]
  /\ on' = [on EXCEPT ![c] = f]

(* The processor stops for good, in the monitor or halted, and leaves its  *)
(* environment in any of these ways or as it is.                           *)
Stop(c) ==
  /\ on[c] # NoEnv
  /\ \/ UNCHANGED state
     \/ \E how \in After(on[c]) : state' = [state EXCEPT ![on[c]] = how]
  /\ on' = [on EXCEPT ![c] = NoEnv]

(* An environment destroyed by another one.                                *)
Kill(e) ==
  /\ \/ state[e] = "RUNNING" /\ state' = [state EXCEPT ![e] = "DYING"]
     \/ /\ state[e] \in {"RUNNABLE", "NOT_RUNNABLE"}
        /\ state' = [state EXCEPT ![e] = "FREE"]
  /\ UNCHANGED on

Lives == {"RUNNABLE", "NOT_RUNNABLE", "FREE", "DYING"}

Next ==
  \/ \E e \in Slots : Ready(e) \/ Kill(e) \/ \E how \in Lives : Create(e, how)
  \/ \E c \in CPUs : \/ Stop(c)
                     \/ \E f \in Slots : TakeUp(c, f) \/ \E how \in Lives : Change(c, how, f)

Spec == Init /\ [][Next]_vars

=============================================================================
