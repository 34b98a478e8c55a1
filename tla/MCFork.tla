------------------------------- MODULE MCFork -------------------------------
(* A small instance of Fork.                                               *)
EXTENDS Fork, TLC

CONSTANTS e1, e2, e3, data, stack, text, pftemp, xpage

Order     == <<text, pftemp, data, stack, xpage>>
WriteData == [page : {data, text}, val : {1}]
Others    == {k .. 9 : k \in {4, 6, 8, 10}}
Symmetry  == Permutations(Env \ {First})

(* Which frame a page got and what a free one holds make no difference:    *)
(* what counts is who has which page, and with whom.                       *)
Sharers(f) == {ep \in Env \X Mapping : map[ep[1]][ep[2]] # None /\ map[ep[1]][ep[2]].frame = f}
Seen(e, p) ==
  IF map[e][p] = None THEN None
  ELSE <<Sharers(map[e][p].frame), map[e][p].perm, mem[map[e][p].frame]>>
View == <<status, [e \in Env |-> [p \in Mapping |-> Seen(e, p)]], upcall, cpu, xstack, taken, forks>>
=============================================================================
