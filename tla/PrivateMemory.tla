--------------------------- MODULE PrivateMemory ---------------------------
(***************************************************************************)
(* What fork() promises: every environment has a memory of its own.  A     *)
(* child starts with a copy of its parent's memory as it was at the fork,  *)
(* nobody else's writes ever show, and every write a program sets out to   *)
(* do is done as the program meant it.                                     *)
(***************************************************************************)
CONSTANTS Env, Page, Val, Initial, First, None

VARIABLES alive,   \* environments that exist
          todo,    \* what each is about to do
          val      \* the memory of each

vars == <<alive, todo, val>>

Write == [op : {"write"}, page : Page, val : Val]
Todo  == Write \cup [op : {"run", "fork", "asleep"}] \cup [op : {"forked"}, child : Env]

Blank == [p \in Page |-> Initial]

TypeOK ==
  /\ alive \subseteq Env
  /\ todo \in [Env -> Todo \cup {None}]
  /\ val \in [Env -> [Page -> Val]]

Init ==
  /\ alive = {First}
  /\ todo = [e \in Env |-> IF e = First THEN [op |-> "run"] ELSE None]
  /\ val = [e \in Env |-> Blank]

Doing(e, op) == e \in alive /\ todo[e].op = op

Decide(e, next) ==
  /\ Doing(e, "run")
  /\ todo' = [todo EXCEPT ![e] = next]
  /\ UNCHANGED <<alive, val>>

DoWrite(e) ==
  /\ Doing(e, "write")
  /\ val' = [val EXCEPT ![e][todo[e].page] = todo[e].val]
  /\ todo' = [todo EXCEPT ![e] = [op |-> "run"]]
  /\ UNCHANGED alive

Fork(e, c) ==
  /\ Doing(e, "fork") /\ c \notin alive
  /\ alive' = alive \cup {c}
  /\ val' = [val EXCEPT ![c] = val[e]]
  /\ todo' = [todo EXCEPT ![e] = [op |-> "forked", child |-> c], ![c] = [op |-> "asleep"]]

(* fork() returns in the parent, and the child may run.                    *)
Return(e) ==
  /\ Doing(e, "forked")
  /\ todo' = [todo EXCEPT ![e] = [op |-> "run"], ![todo[e].child] = [op |-> "run"]]
  /\ UNCHANGED <<alive, val>>

(* A fork() that does not return leaves no child.                          *)
Gone(e) == {e} \cup IF Doing(e, "forked") THEN {todo[e].child} ELSE {}

Stop(e) ==
  /\ e \in alive
  /\ alive' = alive \ Gone(e)
  /\ todo' = [x \in Env |-> IF x \in Gone(e) THEN None ELSE todo[x]]
  /\ val' = [x \in Env |-> IF x \in Gone(e) THEN Blank ELSE val[x]]

Next ==
  \E e \in Env :
    \/ \E next \in Write \cup [op : {"fork"}] : Decide(e, next)
    \/ DoWrite(e) \/ Return(e) \/ Stop(e)
    \/ \E c \in Env \ {e} : Fork(e, c)

Spec == Init /\ [][Next]_vars
=============================================================================
