------------------------------ MODULE MCMemory ------------------------------
(* A small machine for Memory: pages are numbers, page 0 is page 0.        *)
EXTENDS Memory, TLC

CONSTANTS e1, e2, c1, c2

Pages       == 0 .. 8
FreeAtBoot  == <<3, 4, 5, 6, 7, 8>>
OneRootPage == << <<0, 0>> >>
UpperPage   == {<<0, 1>>}
UserPerms   == {{"P", "U"}, {"P", "U", "W"}}

(* The view of a state.  Which page is which makes no difference to the    *)
(* program, but for the reserved ones, nor which environment and which     *)
(* CPU.  A mapped page is the first entry that maps it; that tables,       *)
(* directories and free pages are none of these, and are all different, is *)
(* seen from how many pages there are of all kinds.  What a TLB has is     *)
(* nothing, what the page table has, or an error.  Of two environments the *)
(* parent comes first, or the one that lives; of two CPUs the one that     *)
(* executes the first environment, or the one that executes any.           *)
FirstEnv == IF parent[e1] = e2 \/ status[e1] = "FREE" THEN e2 ELSE e1
FirstCpu == IF curenv[c2] = FirstEnv \/ curenv[c1] = None THEN c2 ELSE c1

Cached(c) ==
  LET entry == tlb[c][<<0, 1>>] IN
  IF entry = Empty THEN "nothing"
  ELSE IF curenv[c] # None /\ entry = EntryAt(mem, curenv[c], <<0, 1>>) THEN "fresh"
  ELSE "stale"

Seen(es, cs) ==
  LET number  == [e \in {es[1], es[2], None} |-> IF e = None THEN 0 ELSE IF e = es[1] THEN 1 ELSE 2]
      entries == <<EntryAt(mem, es[1], <<0, 0>>), EntryAt(mem, es[1], <<0, 1>>),
                   EntryAt(mem, es[2], <<0, 0>>), EntryAt(mem, es[2], <<0, 1>>)>>
      mapped(i) == IF entries[i].page \in Reserved THEN entries[i].page
                   ELSE Cardinality(Reserved) + CHOOSE k \in 1 .. 4 : entries[k].page = entries[i].page
      tables  == <<mem.dir[es[1]], mem.dir[es[2]], mem.pde[es[1]][0], mem.pde[es[2]][0]>>
      kinds   == {tables[i] : i \in 1 .. 4} \cup {entries[i].page : i \in 1 .. 4} \cup Reserved
                   \cup {mem.free[i] : i \in DOMAIN mem.free}
  IN <<mapped(1), mapped(2), mapped(3), mapped(4),
       [i \in 1 .. 4 |-> <<entries[i].perm, mem.ref[entries[i].page]>>],
       [i \in 1 .. 4 |-> IF tables[i] = None THEN 0 ELSE mem.ref[tables[i]]],
       [f \in Reserved |-> mem.ref[f]],
       Len(mem.free), Cardinality(kinds), Cardinality({f \in Frame : mem.ref[f] = 0}),
       status[es[1]], status[es[2]], recv[es[1]], recv[es[2]],
       number[parent[es[1]]], number[parent[es[2]]],
       number[curenv[cs[1]]], number[curenv[cs[2]]], Cached(cs[1]), Cached(cs[2]),
       IF "env" \in DOMAIN kernel THEN [kernel EXCEPT !.env = number[@]] ELSE kernel>>

View ==
  Seen(IF FirstEnv = e1 THEN <<e1, e2>> ELSE <<e2, e1>>, IF FirstCpu = c1 THEN <<c1, c2>> ELSE <<c2, c1>>)
=============================================================================
