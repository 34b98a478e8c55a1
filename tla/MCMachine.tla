----------------------------- MODULE MCMachine -----------------------------
(* Small machines: for their memory, for their processors, for what is     *)
(* typed at the monitor, for the keys that are held down, and for what     *)
(* programs print.                                                         *)
EXTENDS Machine, TLC

CONSTANTS prog1, prog2

proc(boot) == [type |-> "proc", boot |-> boot]
other      == [type |-> "other", boot |-> FALSE]
unknown    == [type |-> "unknown", boot |-> FALSE]

Plain(code) == [code |-> code, ext |-> FALSE]
RightCtl    == [code |-> "ctl", ext |-> TRUE]
Silent      == [left |-> 0, keys |-> {}, ups |-> {}, chars |-> {}]
Quiet       == prog1 :> 0 @@ prog2 :> 0

Minimal ==
  [basemem |-> 12, extmem |-> 1, taken |-> 1, tables |-> 1, images |-> 1,
   table |-> None, traps |-> 1, strokes |-> Silent, lengths |-> Quiet]

Memories   == {[Minimal EXCEPT !.basemem = b, !.extmem = x, !.tables = t, !.images = i] :
                 b \in {12, 13}, x \in {1, 3}, t \in 0 .. 1, i \in 0 .. 3}
Tables     == { <<proc(TRUE)>>, <<proc(TRUE), other, proc(FALSE)>>,
                <<proc(TRUE), proc(FALSE), proc(FALSE)>>,
                <<proc(TRUE), proc(FALSE), other, proc(FALSE), proc(FALSE)>>,
                <<proc(TRUE), proc(FALSE), unknown, proc(FALSE)>> }
Processors == {[Minimal EXCEPT !.table = t, !.traps = 3] : t \in Tables}
Typist(n, codes, chars) ==
  [Minimal EXCEPT !.strokes = [left |-> n, keys |-> {Plain(k) : k \in codes}, ups |-> {}, chars |-> chars]]
Typists    == {Typist(5, {"a", "space", "bs", "enter"}, {"DEL"}), Typist(6, {"a", "space", "enter"}, {})}
Modifiers  == {Plain("shift"), Plain("ctl"), RightCtl}
Holders    == {[Minimal EXCEPT !.strokes = [left |-> 5, keys |-> Modifiers \cup {Plain("a"), Plain("caps")},
                                            ups |-> Modifiers, chars |-> {}]]}
Printers   == {[Minimal EXCEPT !.table = <<proc(TRUE), proc(FALSE)>>, !.lengths = (prog1 :> n @@ prog2 :> m), !.traps = 4] :
                 n \in {2, 3}, m \in {1, 2}}

AllMachines == Memories \cup Processors \cup Typists \cup Holders \cup Printers
=============================================================================
