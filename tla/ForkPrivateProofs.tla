-------------------------- MODULE ForkPrivateProofs --------------------------
(***************************************************************************)
(* fork() and the copy-on-write handler implement PrivateMemory, for any   *)
(* number of environments, pages and programs.                             *)
(***************************************************************************)
EXTENDS ForkProofs

(* An environment that runs has all the pages of its program.              *)
Whole == \A e \in Env : status[e] = "RUNNABLE" => \A p \in Page : map[e][p] # None

(* How many turns of the loop have mapped their page in the child.         *)
Turns(e) == IF Eip(e) = "dup_child" THEN Regs(e).pn - 1 ELSE Regs(e).pn

(* The child has the pages that the loop has come past, and no others.     *)
Copied ==
  \A e, c \in Env : Making(e, c) =>
    \A n \in 1 .. LastPage : PageOrder[n] \in Page =>
      (map[c][PageOrder[n]] # None <=> n <= Turns(e))

(* What the program sees of a page.                                        *)
Content(e, p) == mem[map[e][p].frame].prog

(* The copy in PFTEMP is still what the page holds.                        *)
Filled ==
  \A e \in Env : status[e] = "RUNNABLE" /\ cpu[e].pc = "remap"
    => Content(e, PFTEMP) = Content(e, FaultPage(e))

PrivateInv == ForkInv /\ Whole /\ Copied /\ Filled
-----------------------------------------------------------------------------
(* What the environments are doing, and what they see.                     *)
LEMMA ProgramRegs ==
  ASSUME ForkInv, NEW e \in Env, status[e] = "RUNNABLE"
  PROVE  /\ ~Asleep(e) /\ Eip(e) \in ProgramPcs /\ RegsFit(Eip(e), Regs(e))
         /\ Forking(e) <=> Eip(e) \in ForkPcs
<1>1. Types /\ LocalInv /\ ChildInv
  BY DEF ForkInv
<1>2. ~Asleep(e)
  BY <1>1 DEF Asleep, ChildInv
<1>3. Eip(e) \in ProgramPcs /\ RegsFit(Eip(e), Regs(e))
  <2>1. CASE InHandler(e)
    <3>1. ProgramFrame(e)
      BY <1>1, <2>1, HandlerFacts DEF Handling
    <3>2. Eip(e) = Saved(e, utf_eip) /\ Regs(e) = Saved(e, utf_regs)
      BY <2>1 DEF Eip, Regs, Saved
    <3>3. QED
      BY <3>1, <3>2 DEF ProgramFrame, Storing, ProgramPcs
  <2>2. CASE ~InHandler(e)
    BY <1>1, <2>2, ProgramFacts DEF InProgram, Eip, Regs
  <2>3. QED
    BY <2>1, <2>2
<1>4. Forking(e) <=> Eip(e) \in ForkPcs
  BY <1>3 DEF Forking, ProgramPcs, ForkPcs
<1>5. QED
  BY <1>2, <1>3, <1>4

LEMMA TodoTypes ==
  /\ [op |-> "run"] \in Private!Todo /\ [op |-> "run"] # None
  /\ [op |-> "fork"] \in Private!Todo /\ [op |-> "fork"] # None
  /\ [op |-> "asleep"] \in Private!Todo /\ [op |-> "asleep"] # None
  /\ \A p \in Page, v \in Val : /\ [op |-> "write", page |-> p, val |-> v] \in Private!Write
                               /\ [op |-> "write", page |-> p, val |-> v] # None
  /\ \A c \in Env : [op |-> "forked", child |-> c] \in Private!Todo
                    /\ [op |-> "forked", child |-> c] # None
BY TodoAssumption DEF Private!Todo, Private!Write

(* What an environment does, by its status and by what its program is at.  *)
Doing(e) ==
  /\ Asleep(e) => TodoOf(e) = [op |-> "asleep"]
  /\ status[e] = "RUNNABLE" =>
       /\ ~Asleep(e)
       /\ Eip(e) = "run" => TodoOf(e) = [op |-> "run"]
       /\ Eip(e) = "store" =>
            /\ TodoOf(e) = [op |-> "write", page |-> Regs(e).page, val |-> Regs(e).val]
            /\ Regs(e).page \in Page /\ Regs(e).val \in Val
       /\ Eip(e) \in {"set_handler", "exofork"} => TodoOf(e) = [op |-> "fork"]
       /\ Eip(e) \in ForkPcs => /\ TodoOf(e) = [op |-> "forked", child |-> Regs(e).child]
                               /\ Regs(e).child \in Env /\ Making(e, Regs(e).child)
  /\ TodoOf(e) # None <=> Asleep(e) \/ status[e] = "RUNNABLE"

(* What it sees at page p.                                                 *)
Seeing(e, p) ==
  /\ status[e] = "RUNNABLE" => ValueOf(e, p) = Content(e, p)
  /\ \A d \in Env : Making(d, e) =>
       ValueOf(e, p) = IF map[e][p] = None THEN Content(d, p) ELSE Content(e, p)
  /\ TodoOf(e) = None => ValueOf(e, p) = Initial

AllRight == \A e \in Env : Doing(e) /\ \A p \in Page : Seeing(e, p)

LEMMA DoingRight ==
  ASSUME ForkInv, NEW e \in Env
  PROVE  Doing(e)
<1>1. Asleep(e) => TodoOf(e) = [op |-> "asleep"]
  BY DEF TodoOf
<1>2. ASSUME status[e] = "RUNNABLE"
      PROVE  /\ ~Asleep(e)
             /\ Eip(e) = "run" => TodoOf(e) = [op |-> "run"]
             /\ Eip(e) = "store" =>
                  /\ TodoOf(e) = [op |-> "write", page |-> Regs(e).page, val |-> Regs(e).val]
                  /\ Regs(e).page \in Page /\ Regs(e).val \in Val
             /\ Eip(e) \in {"set_handler", "exofork"} => TodoOf(e) = [op |-> "fork"]
             /\ Eip(e) \in ForkPcs => /\ TodoOf(e) = [op |-> "forked", child |-> Regs(e).child]
                                     /\ Regs(e).child \in Env /\ Making(e, Regs(e).child)
             /\ TodoOf(e) # None
  <2>1. /\ ~Asleep(e) /\ Eip(e) \in ProgramPcs /\ RegsFit(Eip(e), Regs(e))
        /\ Forking(e) <=> Eip(e) \in ForkPcs
    BY <1>2, ProgramRegs
  <2>2. Eip(e) = "run" => TodoOf(e) = [op |-> "run"]
    BY <1>2, <2>1 DEF TodoOf
  <2>3. ASSUME Eip(e) = "store"
        PROVE  /\ TodoOf(e) = [op |-> "write", page |-> Regs(e).page, val |-> Regs(e).val]
               /\ Regs(e).page \in Page /\ Regs(e).val \in Val
    <3>1. Regs(e) \in Writes
      BY <2>1, <2>3 DEF RegsFit
    <3>2. QED
      BY <1>2, <2>1, <2>3, <3>1, SizeAssumption DEF TodoOf
  <2>4. Eip(e) \in {"set_handler", "exofork"} => TodoOf(e) = [op |-> "fork"]
    BY <1>2, <2>1 DEF TodoOf, ForkPcs
  <2>5. ASSUME Eip(e) \in ForkPcs
        PROVE  /\ TodoOf(e) = [op |-> "forked", child |-> Regs(e).child]
               /\ Regs(e).child \in Env /\ Making(e, Regs(e).child)
    <3>1. Regs(e) \in ForkRegs
      BY <2>1, <2>5 DEF RegsFit
    <3>2. Regs(e).child \in Env
      BY <3>1 DEF ForkRegs
    <3>3. Eip(e) # "run" /\ Eip(e) # "store"
      BY <2>5 DEF ForkPcs
    <3>4. QED
      BY <1>2, <2>1, <2>5, <3>2, <3>3 DEF TodoOf, Making
  <2>6. TodoOf(e) # None
    <3>1. Eip(e) \in {"run", "store", "set_handler", "exofork"} \cup ForkPcs
      BY <2>1 DEF ProgramPcs, ForkPcs
    <3>2. QED
      BY <2>2, <2>3, <2>4, <2>5, <3>1, TodoTypes
  <2>7. QED
    BY <2>1, <2>2, <2>3, <2>4, <2>5, <2>6
<1>3. TodoOf(e) # None <=> Asleep(e) \/ status[e] = "RUNNABLE"
  BY <1>1, <1>2, TodoTypes DEF TodoOf
<1>4. QED
  BY <1>1, <1>2, <1>3 DEF Doing

LEMMA SeeingRight ==
  ASSUME ForkInv, NEW e \in Env, NEW p \in Page
  PROVE  Seeing(e, p)
<1>1. status[e] = "RUNNABLE" => ValueOf(e, p) = Content(e, p)
  BY DoingRight DEF Doing, ValueOf, Owner, Content
<1>2. ASSUME NEW d \in Env, Making(d, e)
      PROVE  ValueOf(e, p) = IF map[e][p] = None THEN Content(d, p) ELSE Content(e, p)
  <2>1. Asleep(e) /\ TodoOf(e) # None
    BY <1>2, DoingRight DEF Doing, Asleep
  <2>2. Making(Maker(e), e) /\ Maker(e) \in Env
    BY <1>2 DEF Maker
  <2>3. Maker(e) = d
    BY <1>2, <2>2 DEF ForkInv, ChildInv
  <2>4. QED
    BY <2>1, <2>3 DEF ValueOf, Owner, Content
<1>3. TodoOf(e) = None => ValueOf(e, p) = Initial
  BY DEF ValueOf
<1>4. QED
  BY <1>1, <1>2, <1>3 DEF Seeing

LEMMA Right == ForkInv => AllRight
BY DoingRight, SeeingRight DEF AllRight

LEMMA NextRight == ForkInv' => AllRight'
BY Right, PTL
-----------------------------------------------------------------------------
(* Nothing changes for the programs.                                       *)
LEMMA PrivateStutter ==
  ASSUME \A x \in Env : TodoOf(x)' = TodoOf(x),
         \A x \in Env, p \in Page : ValueOf(x, p)' = ValueOf(x, p)
  PROVE  UNCHANGED Private!vars
BY DEF Private!vars

(* What a step may do to the contents of the pages, stores of programs     *)
(* apart: the handler fills its own PFTEMP, the kernel clears a new page.  *)
ProgKept(e) ==
  \A f \in Frame :
    \/ mem'[f].prog = mem[f].prog
    \/ status[e] = "RUNNABLE" /\ cpu[e].pc = "copy" /\ f = map[e][PFTEMP].frame
    \/ HasFree /\ f = NewFrame

LEMMA ContentKept ==
  ASSUME ForkInv, NEW e \in Env, ProgKept(e), NEW x \in Env, NEW p \in Page, map[x][p] # None
  PROVE  mem'[map[x][p].frame].prog = mem[map[x][p].frame].prog
<1>1. map[x][p].frame \in Frame /\ p \in Mapping /\ p # PFTEMP
  BY PageFacts, PteTypes DEF ForkInv
<1>2. ~(status[e] = "RUNNABLE" /\ cpu[e].pc = "copy" /\ map[x][p].frame = map[e][PFTEMP].frame)
  BY <1>1 DEF ForkInv, PftempOwn
<1>3. ~(HasFree /\ map[x][p].frame = NewFrame)
  BY <1>1, NewFrameFacts
<1>4. QED
  BY <1>1, <1>2, <1>3 DEF ProgKept

(* A store of a program goes to a page that no other environment sees.     *)
ProgStores(e, q) ==
  /\ status[e] = "RUNNABLE" /\ cpu[e].pc = "store" /\ Writable(e, q)
  /\ \A f \in Frame : f # map[e][q].frame => mem'[f].prog = mem[f].prog

LEMMA OthersKept ==
  ASSUME ForkInv, NEW e \in Env, NEW q \in Page, ProgStores(e, q),
         NEW x \in Env \ {e}, NEW p \in Page, map[x][p] # None
  PROVE  mem'[map[x][p].frame].prog = mem[map[x][p].frame].prog
<1>1. map[x][p].frame \in Frame
  BY PageFacts, PteTypes DEF ForkInv
<1>2. map[e][q] # None /\ Eip(e) = "store"
  BY DEF ProgStores, Writable, Eip, InHandler
<1>3. map[x][p].frame # map[e][q].frame
  BY <1>2 DEF ForkInv, SharedPagesProtected, ProgStores
<1>4. QED
  BY <1>1, <1>3 DEF ProgStores

LEMMA FilledKept ==
  ASSUME ForkInv, Filled, NEW e \in Env,
         ProgKept(e) \/ \E q \in Page : ProgStores(e, q),
         \A x \in Env : status'[x] = "RUNNABLE" /\ cpu'[x].pc = "remap" => x = e \/ SameEnv(x),
         status'[e] = "RUNNABLE" /\ cpu'[e].pc = "remap"
           => (Content(e, PFTEMP) = Content(e, FaultPage(e)))'
  PROVE  Filled'
<1> SUFFICES ASSUME NEW x \in Env, status'[x] = "RUNNABLE", cpu'[x].pc = "remap", x # e
             PROVE  (Content(x, PFTEMP) = Content(x, FaultPage(x)))'
  BY DEF Filled
<1>1. SameEnv(x)
  OBVIOUS
<1>2. /\ status[x] = "RUNNABLE" /\ cpu[x].pc = "remap" /\ map'[x] = map[x]
      /\ FaultPage(x)' = FaultPage(x)
  BY <1>1 DEF SameEnv, FaultPage, Utf
<1>3. Content(x, PFTEMP) = Content(x, FaultPage(x))
  BY <1>2 DEF Filled
<1>4. InHandler(x)
  BY <1>2 DEF InHandler
<1> DEFINE p == FaultPage(x)
<1>5. p \in Page /\ map[x][p] # None
  BY <1>2, <1>4, HandlerFacts DEF ForkInv, Prepared
<1>6. /\ map[x][PFTEMP] # None
      /\ \A c \in Env, q \in Mapping :
           map[c][q] # None /\ map[c][q].frame = map[x][PFTEMP].frame => c = x /\ q = PFTEMP
  BY <1>2 DEF ForkInv, PftempOwn, Writable
<1>7. map[x][PFTEMP].frame \in Frame
  BY <1>6, PageFacts, PteTypes DEF ForkInv
<1> HIDE DEF p
<1>8. CASE ProgKept(e)
  <2>1. mem'[map[x][p].frame].prog = mem[map[x][p].frame].prog
    BY <1>5, <1>8, ContentKept
  <2>2. ~(status[e] = "RUNNABLE" /\ cpu[e].pc = "copy" /\ map[x][PFTEMP].frame = map[e][PFTEMP].frame)
    BY <1>6, PageFacts DEF ForkInv, PftempOwn
  <2>3. ~(HasFree /\ map[x][PFTEMP].frame = NewFrame)
    BY <1>6, NewFrameFacts, PageFacts
  <2>4. mem'[map[x][PFTEMP].frame].prog = mem[map[x][PFTEMP].frame].prog
    BY <1>7, <1>8, <2>2, <2>3 DEF ProgKept
  <2>5. QED
    BY <1>2, <1>3, <2>1, <2>4 DEF Content, p
<1>9. CASE \E q \in Page : ProgStores(e, q)
  <2>1. PICK q \in Page : ProgStores(e, q)
    BY <1>9
  <2>2. mem'[map[x][p].frame].prog = mem[map[x][p].frame].prog
    BY <1>5, <2>1, OthersKept
  <2>3. map[e][q] # None
    BY <2>1 DEF ProgStores, Writable
  <2>4. map[x][PFTEMP].frame # map[e][q].frame
    BY <1>6, <2>3, PageFacts
  <2>5. mem'[map[x][PFTEMP].frame].prog = mem[map[x][PFTEMP].frame].prog
    BY <1>7, <2>1, <2>4 DEF ProgStores
  <2>6. QED
    BY <1>2, <1>3, <2>2, <2>5 DEF Content, p
<1>10. QED
  BY <1>8, <1>9

LEMMA WholeKept ==
  ASSUME Whole,
         \A x \in Env : status'[x] = "RUNNABLE" =>
           status[x] = "RUNNABLE" /\ \A p \in Page : map[x][p] # None => map'[x][p] # None
  PROVE  Whole'
BY DEF Whole

LEMMA CopiedKept ==
  ASSUME Copied,
         \A x, d \in Env : Making(x, d)' =>
           /\ Making(x, d) /\ Turns(x)' = Turns(x)
           /\ \A p \in Page : map'[d][p] # None <=> map[d][p] # None
  PROVE  Copied'
BY DEF Copied

LEMMA SameTurns ==
  ASSUME NEW x \in Env, SameProgram(x)
  PROVE  Turns(x)' = Turns(x)
BY DEF SameProgram, Turns

(* A step that no program sees: the pages keep their contents, and those   *)
(* that a child gets have the contents of its parent's.                    *)
Silent ==
  /\ status' = status
  /\ \A x, c \in Env : Making(x, c)' = Making(x, c)
  /\ \A x \in Env : TodoOf(x)' = TodoOf(x)
  /\ \A x \in Env, p \in Page : map[x][p] # None =>
       map'[x][p] # None /\ Content(x, p)' = Content(x, p)
  /\ \A x \in Env, p \in Page : map[x][p] = None /\ map'[x][p] # None =>
       \E d \in Env : Making(d, x) /\ Content(x, p)' = Content(d, p)

LEMMA SilentValues ==
  ASSUME ForkInv, Whole, ForkInv', Silent
  PROVE  UNCHANGED Private!vars
<1>1. AllRight /\ AllRight'
  BY Right, NextRight
<1>2. ASSUME NEW x \in Env, NEW p \in Page PROVE ValueOf(x, p)' = ValueOf(x, p)
  <2>1. Doing(x) /\ Doing(x)' /\ Seeing(x, p) /\ Seeing(x, p)'
    BY <1>1 DEF AllRight
  <2>2. CASE status[x] = "RUNNABLE"
    <3>1. map[x][p] # None
      BY <2>2 DEF Whole
    <3>2. Content(x, p)' = Content(x, p) /\ status'[x] = "RUNNABLE"
      BY <2>2, <3>1 DEF Silent
    <3>3. QED
      BY <2>1, <2>2, <3>2 DEF Seeing
  <2>3. ASSUME NEW d \in Env, Making(d, x) PROVE ValueOf(x, p)' = ValueOf(x, p)
    <3>1. map[d][p] # None
      BY <2>3 DEF Whole, Making, Forking
    <3>2. Content(d, p)' = Content(d, p) /\ Making(d, x)'
      BY <2>3, <3>1 DEF Silent
    <3>3. /\ ValueOf(x, p) = IF map[x][p] = None THEN Content(d, p) ELSE Content(x, p)
          /\ ValueOf(x, p)' = IF map'[x][p] = None THEN Content(d, p)' ELSE Content(x, p)'
      BY <2>1, <2>3, <3>2 DEF Seeing
    <3>4. CASE map[x][p] # None
      BY <3>3, <3>4 DEF Silent
    <3>5. CASE map[x][p] = None /\ map'[x][p] # None
      <4>1. PICK b \in Env : Making(b, x) /\ Content(x, p)' = Content(b, p)
        BY <3>5 DEF Silent
      <4>2. b = d
        BY <2>3, <4>1 DEF ForkInv, ChildInv
      <4>3. QED
        BY <3>3, <3>5, <4>1, <4>2
    <3>6. CASE map[x][p] = None /\ map'[x][p] = None
      BY <3>2, <3>3, <3>6
    <3>7. QED
      BY <3>4, <3>5, <3>6
  <2>4. CASE status[x] # "RUNNABLE" /\ ~Asleep(x)
    <3>1. TodoOf(x) = None /\ TodoOf(x)' = None
      BY <2>1, <2>4 DEF Doing, Silent
    <3>2. QED
      BY <2>1, <3>1 DEF Seeing
  <2>5. QED
    BY <2>2, <2>3, <2>4 DEF Asleep
<1>3. QED
  BY <1>2, PrivateStutter DEF Silent

LEMMA TodoKept ==
  ASSUME NEW x \in Env, status'[x] = status[x], Asleep(x)' = Asleep(x), SameProgram(x)
  PROVE  TodoOf(x)' = TodoOf(x)
BY DEF TodoOf, Forking, SameProgram
-----------------------------------------------------------------------------
(* The handler.                                                            *)
LEMMA HandlerSilent ==
  ASSUME PrivateInv, ForkInv', NEW e \in Env, status[e] = "RUNNABLE", status' = status,
         \A x \in Env : SameProgram(x), \A x, c \in Env : Making(x, c)' = Making(x, c),
         \A x \in Env \ {e} : SameEnv(x), ProgKept(e),
         \A p \in Page : map'[e][p] # None /\ Content(e, p)' = Content(e, p),
         cpu'[e].pc = "remap" => (Content(e, PFTEMP) = Content(e, FaultPage(e)))'
  PROVE  PrivateInv' /\ UNCHANGED Private!vars
<1>1. ForkInv /\ Whole /\ Copied /\ Filled
  BY DEF PrivateInv
<1>2. ASSUME NEW x \in Env, NEW p \in Page, map[x][p] # None
      PROVE  map'[x][p] # None /\ Content(x, p)' = Content(x, p)
  <2>1. CASE x = e
    BY <2>1
  <2>2. CASE x # e
    BY <1>1, <1>2, <2>2, ContentKept DEF SameEnv, Content
  <2>3. QED
    BY <2>1, <2>2
<1>3. \A x \in Env, p \in Page : map[x][p] = None => map'[x][p] = None
  BY <1>1 DEF SameEnv, Whole
<1>4. \A x \in Env : Asleep(x)' = Asleep(x)
  BY DEF Asleep
<1>5. \A x \in Env : TodoOf(x)' = TodoOf(x)
  BY <1>4, TodoKept
<1>6. Silent
  BY <1>2, <1>3, <1>5 DEF Silent
<1>7. UNCHANGED Private!vars
  BY <1>1, <1>6, SilentValues
<1>8. Whole'
  BY <1>1, <1>2, WholeKept
<1>9. Copied'
  BY <1>1, <1>2, <1>3, SameTurns, CopiedKept
<1>10. Filled'
  BY <1>1, FilledKept
<1>11. QED
  BY <1>7, <1>8, <1>9, <1>10 DEF PrivateInv

(* Steps of the handler that leave the page tables alone.                  *)
LEMMA SameMapSilent ==
  ASSUME PrivateInv, ForkInv', NEW e \in Env, status[e] = "RUNNABLE", status' = status,
         map' = map, Local(e)', SameProgram(e), \A x \in Env \ {e} : SameEnv(x), ProgKept(e),
         cpu'[e].pc # "end_upcall",
         cpu'[e].pc = "remap" => (Content(e, PFTEMP) = Content(e, FaultPage(e)))'
  PROVE  PrivateInv' /\ UNCHANGED Private!vars
<1>1. ForkInv /\ Whole
  BY DEF PrivateInv
<1>2. /\ \A x \in Env : SameProgram(x)
      /\ \A x, c \in Env : Making(x, c)' = Making(x, c)
  BY <1>1, HandlerKeeps
<1>3. \A p \in Page : map'[e][p] # None /\ Content(e, p)' = Content(e, p)
  BY <1>1, ContentKept DEF Whole, Content
<1>4. QED
  BY <1>2, <1>3, HandlerSilent

LEMMA PageFaultPrivate ==
  ASSUME PrivateInv, NEW e \in Env, PageFault(e)
  PROVE  PrivateInv' /\ UNCHANGED Private!vars
<1>1. ForkInv /\ Types /\ LocalInv /\ ForkInv'
  BY PageFaultInv DEF PrivateInv, ForkInv
<1>2. /\ status[e] = "RUNNABLE" /\ status' = status /\ map' = map /\ mem' = mem
      /\ cpu' = [cpu EXCEPT ![e] = [pc |-> "pftemp", esp |-> FrameTop(cpu[e].esp) - UTF, regs |-> None]]
  BY DEF PageFault, Faults
<1>3. cpu'[e].pc = "pftemp"
  BY <1>1, <1>2 DEF Types
<1>4. Local(e)' /\ SameProgram(e) /\ \A x \in Env \ {e} : SameEnv(x)
  BY <1>1, PageFaultStep
<1>5. ProgKept(e)
  BY <1>2 DEF ProgKept
<1>6. QED
  BY <1>1, <1>2, <1>3, <1>4, <1>5, SameMapSilent

LEMMA PftempPrivate ==
  ASSUME PrivateInv, NEW e \in Env, PftempFirst(e) \/ PftempAgain(e)
  PROVE  PrivateInv' /\ UNCHANGED Private!vars
<1>1. ForkInv /\ Types /\ LocalInv /\ ForkInv' /\ Whole
  BY PftempInv DEF PrivateInv, ForkInv
<1>2. PICK pc \in {"pftemp_again", "copy"} :
        /\ Jump(e, pc) /\ status[e] = "RUNNABLE" /\ status' = status
        /\ \/ HasFree /\ SysPageAlloc(e, PFTEMP)
           \/ UNCHANGED <<map, mem>>
  BY DEF PftempFirst, PftempAgain, At
<1>3. pc \in Pcs
  BY DEF Pcs, HandlerPcs
<1>4. cpu'[e].pc = pc
  BY <1>1, <1>2, <1>3, JumpPc
<1>5. Local(e)' /\ SameProgram(e) /\ \A x \in Env \ {e} : SameEnv(x)
  BY <1>1, PftempStep
<1>6. /\ \A x \in Env : SameProgram(x)
      /\ \A x, c \in Env : Making(x, c)' = Making(x, c)
  BY <1>1, <1>2, <1>4, <1>5, HandlerKeeps
<1>7. ProgKept(e) /\ \A p \in Page : map'[e][p] = map[e][p]
  <2>1. CASE HasFree /\ SysPageAlloc(e, PFTEMP)
    <3>1. Allocate(e, PFTEMP) /\ mem' = Zero(mem) /\ mem \in [Frame -> [prog : Val, lib : Lib]]
      BY <1>1, <2>1 DEF SysPageAlloc, Types
    <3>2. \A f \in Frame \ {NewFrame} : mem'[f] = mem[f]
      BY <2>1, <3>1, ZeroOf
    <3>3. \A q \in Mapping \ {PFTEMP} : map'[e][q] = map[e][q]
      BY <1>1, <2>1, <3>1, AllocateOf, PageFacts
    <3>4. QED
      BY <2>1, <3>2, <3>3, PageFacts DEF ProgKept
  <2>2. CASE UNCHANGED <<map, mem>>
    BY <2>2 DEF ProgKept
  <2>3. QED
    BY <1>2, <2>1, <2>2
<1>8. \A p \in Page : map'[e][p] # None /\ Content(e, p)' = Content(e, p)
  BY <1>1, <1>2, <1>7, ContentKept DEF Whole, Content
<1>9. QED
  BY <1>1, <1>2, <1>4, <1>5, <1>6, <1>7, <1>8, HandlerSilent

LEMMA CopyPrivate ==
  ASSUME PrivateInv, NEW e \in Env, Copy(e)
  PROVE  PrivateInv' /\ UNCHANGED Private!vars
<1>1. ForkInv /\ Types /\ LocalInv /\ PftempOwn /\ ForkInv'
  BY CopyInv DEF PrivateInv, ForkInv
<1>2. /\ status[e] = "RUNNABLE" /\ cpu[e].pc = "copy" /\ Jump(e, "remap")
      /\ mem' = [mem EXCEPT ![map[e][PFTEMP].frame] = mem[map[e][FaultPage(e)].frame]]
      /\ UNCHANGED <<status, map, upcall, xstack, taken, forks>>
  BY DEF Copy, At
<1>3. /\ cpu' \in [Env -> Cpu]
      /\ cpu'[e] = [pc |-> "remap", esp |-> cpu[e].esp, regs |-> cpu[e].regs]
  BY <1>1, <1>2, JumpOf DEF Pcs, HandlerPcs
<1>4. Local(e)' /\ SameProgram(e) /\ \A x \in Env \ {e} : SameEnv(x)
  BY <1>1, CopyStep
<1>5. map[e][PFTEMP].frame \in Frame
  BY <1>1, <1>2, PteTypes, PageFacts DEF PftempOwn, Writable
<1>6. ProgKept(e)
  BY <1>1, <1>2, <1>5 DEF ProgKept, Types
<1>7. FaultPage(e)' = FaultPage(e)
  BY <1>2, <1>3 DEF FaultPage, Utf
<1>8. FaultPage(e) \in Page /\ map[e][FaultPage(e)] # None
  BY <1>1, <1>2, HandlerFacts DEF Prepared, InHandler
<1>9. mem'[map[e][FaultPage(e)].frame].prog = mem[map[e][FaultPage(e)].frame].prog
  BY <1>1, <1>6, <1>8, ContentKept
<1>10. mem'[map[e][PFTEMP].frame] = mem[map[e][FaultPage(e)].frame]
  BY <1>1, <1>2, <1>5 DEF Types
<1>11. (Content(e, PFTEMP) = Content(e, FaultPage(e)))'
  BY <1>2, <1>7, <1>9, <1>10 DEF Content
<1>12. QED
  BY <1>1, <1>2, <1>3, <1>4, <1>6, <1>11, SameMapSilent

LEMMA RemapPrivate ==
  ASSUME PrivateInv, NEW e \in Env, Remap(e)
  PROVE  PrivateInv' /\ UNCHANGED Private!vars
<1>1. ForkInv /\ Types /\ LocalInv /\ PftempOwn /\ ForkInv' /\ Whole /\ Filled
  BY RemapInv DEF PrivateInv, ForkInv
<1>2. /\ status[e] = "RUNNABLE" /\ cpu[e].pc = "remap" /\ Jump(e, "push_eip")
      /\ status' = status /\ mem' = mem
  BY DEF Remap, At
<1>3. cpu'[e].pc = "push_eip"
  BY <1>1, <1>2, JumpPc DEF Pcs, HandlerPcs
<1>4. /\ Local(e)' /\ SameProgram(e) /\ \A x \in Env \ {e} : SameEnv(x)
      /\ map'[e][FaultPage(e)] = [frame |-> map[e][PFTEMP].frame, perm |-> {"W"}]
      /\ map'[e][FaultPage(e)] # None
      /\ \A q \in Mapping \ {FaultPage(e)} : map'[e][q] = map[e][q]
  BY <1>1, RemapStep
<1>5. /\ \A x \in Env : SameProgram(x)
      /\ \A x, c \in Env : Making(x, c)' = Making(x, c)
  BY <1>1, <1>2, <1>3, <1>4, HandlerKeeps
<1>6. ProgKept(e)
  BY <1>2 DEF ProgKept
<1>7. ASSUME NEW p \in Page PROVE map'[e][p] # None /\ Content(e, p)' = Content(e, p)
  <2>1. CASE p = FaultPage(e)
    <3>1. Content(e, p)' = Content(e, PFTEMP)
      BY <1>2, <1>4, <2>1 DEF Content
    <3>2. Content(e, PFTEMP) = Content(e, FaultPage(e))
      BY <1>1, <1>2 DEF Filled
    <3>3. QED
      BY <1>4, <2>1, <3>1, <3>2
  <2>2. CASE p # FaultPage(e)
    BY <1>1, <1>2, <1>4, <2>2, PageFacts DEF Whole, Content
  <2>3. QED
    BY <2>1, <2>2
<1>8. QED
  BY <1>1, <1>2, <1>3, <1>4, <1>5, <1>6, <1>7, HandlerSilent

LEMMA PushEipPrivate ==
  ASSUME PrivateInv, NEW e \in Env, PushEip(e)
  PROVE  PrivateInv' /\ UNCHANGED Private!vars
<1>1. ForkInv /\ Types /\ LocalInv /\ ForkInv'
  BY PushEipInv DEF PrivateInv, ForkInv
<1>2. status[e] = "RUNNABLE" /\ Jump(e, "restore") /\ UNCHANGED <<status, map>>
  BY DEF PushEip, At
<1>3. cpu'[e].pc = "restore"
  BY <1>1, <1>2, JumpPc DEF Pcs, HandlerPcs
<1>4. /\ Local(e)' /\ SameProgram(e) /\ \A x \in Env \ {e} : SameEnv(x)
      /\ \/ mem' = mem
         \/ /\ Writable(e, Stack)
            /\ mem' = [mem EXCEPT ![map[e][Stack].frame].lib = Saved(e, utf_eip)]
  BY <1>1, PushEipStep
<1>5. ProgKept(e)
  BY <1>1, <1>4 DEF ProgKept, Types
<1>6. QED
  BY <1>1, <1>2, <1>3, <1>4, <1>5, SameMapSilent

LEMMA RestorePrivate ==
  ASSUME PrivateInv, NEW e \in Env, Restore(e)
  PROVE  PrivateInv' /\ UNCHANGED Private!vars
<1>1. ForkInv /\ Types /\ LocalInv /\ ChildInv /\ SharedPagesProtected /\ PftempOwn /\ EipPushed
      /\ ForkInv'
  BY RestoreInv DEF PrivateInv, ForkInv
<1>2. status[e] = "RUNNABLE" /\ UNCHANGED <<status, map, mem>>
  BY DEF Restore, At
<1>3. /\ Local(e)' /\ SameProgram(e) /\ \A x \in Env \ {e} : SameEnv(x)
      /\ cpu'[e].pc \in Storing \cup {"push_eip"}
  BY <1>1, RestoreStep
<1>4. cpu'[e].pc \notin {"end_upcall", "remap"}
  BY <1>3 DEF Storing
<1>5. ProgKept(e)
  BY <1>2 DEF ProgKept
<1>6. QED
  BY <1>1, <1>2, <1>3, <1>4, <1>5, SameMapSilent
-----------------------------------------------------------------------------
(* The loop of fork().                                                     *)
LEMMA OrderOnce ==
  /\ \A n, m \in 1 .. LastPage : PageOrder[n] = PageOrder[m] => n = m
  /\ \A p \in Page : \E n \in 1 .. LastPage : PageOrder[n] = p
<1>1. Len(PageOrder) \in Nat /\ DOMAIN PageOrder = 1 .. Len(PageOrder)
  BY PageAssumption
<1>2. \A n, m \in 1 .. LastPage : PageOrder[n] = PageOrder[m] => n = m
  <2>1. \A n \in 1 .. LastPage : n \in DOMAIN PageOrder
    BY <1>1 DEF LastPage
  <2>2. QED
    BY <2>1, PageAssumption
<1>3. ASSUME NEW p \in Page PROVE \E n \in 1 .. LastPage : PageOrder[n] = p
  <2>1. PICK n \in DOMAIN PageOrder : PageOrder[n] = p
    BY PageAssumption
  <2>2. PageOrder[Len(PageOrder)] = XStack /\ p # XStack
    BY PageAssumption
  <2>3. n # Len(PageOrder)
    BY <2>1, <2>2
  <2>4. n \in 1 .. LastPage
    BY <1>1, <2>3 DEF LastPage
  <2>5. QED
    BY <2>1, <2>4
<1>4. QED
  BY <1>2, <1>3

(* The child gets the page of this turn, or the turn has come past it.     *)
Passes(e, c) ==
  \/ /\ Turns(e)' = Turns(e)
     /\ \A p \in Page : map'[c][p] # None <=> map[c][p] # None
  \/ /\ Turns(e) \in Nat /\ Turns(e)' = Turns(e) + 1 /\ Turns(e)' \in 1 .. LastPage
     /\ PageOrder[Turns(e)'] \in Page => map'[c][PageOrder[Turns(e)']] # None
     /\ \A p \in Page : p # PageOrder[Turns(e)'] => (map'[c][p] # None <=> map[c][p] # None)

LEMMA CopiedTurn ==
  ASSUME Copied, ChildInv, NEW e \in Env, NEW c \in Env, Turn(e, c), Passes(e, c),
         \A x, d \in Env : Making(x, d)' = Making(x, d),
         \A x \in Env \ {e, c} : SameProgram(x),
         \A x \in Env \ {e, c} : map'[x] = map[x]
  PROVE  Copied'
<1> SUFFICES ASSUME NEW x \in Env, NEW d \in Env, Making(x, d),
                    NEW n \in 1 .. LastPage, PageOrder[n] \in Page
             PROVE  map'[d][PageOrder[n]] # None <=> n <= Turns(x)'
  BY DEF Copied
<1>1. map[d][PageOrder[n]] # None <=> n <= Turns(x)
  BY DEF Copied
<1>2. Making(e, c) /\ c # e /\ status[e] = "RUNNABLE" /\ status[c] = "NOT_RUNNABLE"
  BY DEF Turn
<1>3. status[d] = "NOT_RUNNABLE" /\ status[x] = "RUNNABLE"
  BY DEF ChildInv, Making, Forking
<1>4. CASE x = e
  <2>1. d = c
    BY <1>2, <1>4 DEF Making
  <2>2. CASE /\ Turns(e)' = Turns(e)
             /\ \A p \in Page : map'[c][p] # None <=> map[c][p] # None
    BY <1>1, <1>4, <2>1, <2>2
  <2>3. CASE /\ Turns(e) \in Nat /\ Turns(e)' = Turns(e) + 1 /\ Turns(e)' \in 1 .. LastPage
             /\ PageOrder[Turns(e)'] \in Page => map'[c][PageOrder[Turns(e)']] # None
             /\ \A p \in Page : p # PageOrder[Turns(e)'] => (map'[c][p] # None <=> map[c][p] # None)
    <3>1. PICK k : k = Turns(e)'
      OBVIOUS
    <3>2. PICK j : j = Turns(e)
      OBVIOUS
    <3>3. j \in Nat /\ k = j + 1
      BY <2>3, <3>1, <3>2
    <3>4. CASE n = k
      BY <1>4, <2>1, <2>3, <3>1, <3>3, <3>4
    <3>5. CASE n # k
      <4>1. PageOrder[n] # PageOrder[k]
        BY <2>3, <3>1, <3>5, OrderOnce
      <4>2. map'[c][PageOrder[n]] # None <=> map[c][PageOrder[n]] # None
        BY <2>3, <3>1, <4>1
      <4>3. n <= j <=> n <= k
        BY <3>3, <3>5, OrderFacts
      <4>4. QED
        BY <1>1, <1>4, <2>1, <3>1, <3>2, <4>2, <4>3
    <3>6. QED
      BY <3>4, <3>5
  <2>4. QED
    BY <2>2, <2>3 DEF Passes
<1>5. CASE x # e
  <2>1. d # c /\ d # e /\ x # c
    BY <1>2, <1>3, <1>5 DEF ChildInv
  <2>2. Turns(x)' = Turns(x)
    BY <1>5, <2>1, SameTurns
  <2>3. QED
    BY <1>1, <2>1, <2>2
<1>6. QED
  BY <1>4, <1>5

LEMMA TurnSilent ==
  ASSUME PrivateInv, ForkInv', NEW e \in Env, NEW c \in Env, Turn(e, c), LibWrites(e), ProgKept(e),
         Eip(e)' = "end_upcall" => Writable(c, XStack)', Passes(e, c),
         \A x \in Env, p \in Page : map[x][p] # None =>
           map'[x][p] # None /\ map'[x][p].frame = map[x][p].frame,
         \A x \in Env, p \in Page : map[x][p] = None /\ map'[x][p] # None =>
           x = c /\ map'[x][p].frame = map[e][p].frame
  PROVE  PrivateInv' /\ UNCHANGED Private!vars
<1>1. ForkInv /\ Whole /\ Copied /\ Filled /\ ChildInv
  BY DEF PrivateInv, ForkInv
<1>2. /\ \A x, d \in Env : Making(x, d)' = Making(x, d)
      /\ \A x \in Env \ {e, c} : SameProgram(x)
  BY <1>1, TurnKeeps
<1>3. /\ \A x \in Env \ {e, c} : SameEnv(x)
      /\ c # e /\ Making(e, c) /\ status[e] = "RUNNABLE" /\ status' = status
      /\ status[c] = "NOT_RUNNABLE" /\ cpu'[e].pc \in ForkPcs
      /\ Eip(e)' \in ForkPcs /\ Regs(e)'.child = c
  BY DEF Turn
<1>4. \A x \in Env : Asleep(x)' = Asleep(x)
  BY <1>2 DEF Asleep
<1>5. AllRight /\ AllRight'
  BY <1>1, Right, NextRight
<1>6. ASSUME NEW x \in Env PROVE TodoOf(x)' = TodoOf(x)
  <2>1. Doing(x) /\ Doing(x)'
    BY <1>5 DEF AllRight
  <2>2. CASE x = e
    <3>1. Forking(e) /\ Regs(e).child = c
      BY <1>3 DEF Making
    <3>2. Eip(e) \in ForkPcs
      BY <1>1, <1>3, <3>1, ProgramRegs
    <3>3. TodoOf(e) = [op |-> "forked", child |-> c]
      BY <1>3, <2>1, <2>2, <3>1, <3>2 DEF Doing
    <3>4. TodoOf(e)' = [op |-> "forked", child |-> c]
      BY <1>3, <2>1, <2>2 DEF Doing
    <3>5. QED
      BY <2>2, <3>3, <3>4
  <2>3. CASE x = c
    <3>1. Asleep(c)
      BY <1>3 DEF Asleep
    <3>2. QED
      BY <1>4, <2>1, <2>3, <3>1 DEF Doing
  <2>4. CASE x # e /\ x # c
    BY <1>2, <1>3, <1>4, <2>4, TodoKept
  <2>5. QED
    BY <2>2, <2>3, <2>4
<1>7. ASSUME NEW x \in Env, NEW p \in Page, map[x][p] # None
      PROVE  map'[x][p] # None /\ Content(x, p)' = Content(x, p)
  BY <1>1, <1>7, ContentKept DEF Content
<1>8. ASSUME NEW x \in Env, NEW p \in Page, map[x][p] = None, map'[x][p] # None
      PROVE  Making(e, x) /\ Content(x, p)' = Content(e, p)
  <2>1. map[e][p] # None
    BY <1>1, <1>3 DEF Whole
  <2>2. mem'[map[e][p].frame].prog = mem[map[e][p].frame].prog
    BY <1>1, <2>1, ContentKept
  <2>3. QED
    BY <1>3, <1>8, <2>2 DEF Content
<1>9. Silent
  BY <1>2, <1>3, <1>6, <1>7, <1>8 DEF Silent
<1>10. UNCHANGED Private!vars
  BY <1>1, <1>9, SilentValues
<1>11. Whole'
  BY <1>1, <1>3, <1>7, WholeKept
<1>12. Copied'
  BY <1>1, <1>2, <1>3, CopiedTurn DEF SameEnv
<1>13. Filled'
  <2>1. cpu'[e].pc # "remap"
    BY <1>3 DEF ForkPcs
  <2>2. \A x \in Env : status'[x] = "RUNNABLE" /\ cpu'[x].pc = "remap" => x = e \/ SameEnv(x)
    BY <1>3
  <2>3. QED
    BY <1>1, <2>1, <2>2, FilledKept
<1>14. QED
  BY <1>10, <1>11, <1>12, <1>13 DEF PrivateInv

LEMMA PushedKept ==
  ASSUME ForkInv, NEW e \in Env, Writable(e, Stack), mem' = Pushed(e)
  PROVE  ProgKept(e) /\ LibWrites(e)
BY PushedOf, PushedWrites DEF ForkInv, ProgKept

(* The end of a turn: the next page, or the last.                          *)
LEMMA NextTurns ==
  ASSUME Types, NEW e \in Env, NEW c \in Env, cpu[e].regs \in ForkRegs, NextPage(e), Turn(e, c)
  PROVE  Turns(e)' = cpu[e].regs.pn /\ cpu[e].regs.pn \in 1 .. LastPage
<1>1. cpu[e].regs.pn \in 1 .. LastPage
  BY DEF ForkRegs
<1>2. \/ cpu'[e].pc = "end_alloc" /\ cpu'[e].regs.pn = cpu[e].regs.pn
      \/ cpu'[e].pc = "dup_child" /\ cpu'[e].regs.pn = cpu[e].regs.pn + 1
  BY NextPageOf
<1>3. Eip(e)' = cpu'[e].pc /\ Regs(e)' = cpu'[e].regs
  BY DEF Turn
<1>4. QED
  BY <1>1, <1>2, <1>3, OrderFacts DEF Turns

LEMMA DupNothingPrivate ==
  ASSUME PrivateInv, NEW e \in Env, NEW c \in Env, c = Child(e), DupNothing(e)
  PROVE  PrivateInv' /\ UNCHANGED Private!vars
<1>1. ForkInv /\ Types /\ LocalInv /\ ChildInv /\ Whole /\ ForkInv'
  BY EndTurnInv DEF PrivateInv, ForkInv
<1>2. /\ Turn(e, c) /\ Eip(e)' \in {"dup_child", "end_alloc"}
      /\ map' = map /\ mem' = Pushed(e) /\ Writable(e, Stack)
  BY <1>1, DupNothingStep
<1>3. At(e, "dup_child") /\ NextPage(e) /\ map[e][Pn(e)] = None /\ "dup_child" \in ForkPcs
  BY DEF DupNothing, Calls, ForkPcs
<1>4. status[e] = "RUNNABLE" /\ Eip(e) = "dup_child" /\ Regs(e) = cpu[e].regs /\ cpu[e].regs \in ForkRegs
  BY <1>1, <1>3, LoopFacts
<1>5. Turns(e)' = cpu[e].regs.pn /\ cpu[e].regs.pn \in 1 .. LastPage
  BY <1>1, <1>2, <1>3, <1>4, NextTurns
<1>6. Turns(e) = cpu[e].regs.pn - 1
  BY <1>4 DEF Turns
<1>7. PageOrder[Turns(e)'] \notin Page
  BY <1>1, <1>3, <1>4, <1>5 DEF Whole, Pn
<1>8. Turns(e) \in Nat /\ Turns(e)' = Turns(e) + 1 /\ Turns(e)' \in 1 .. LastPage
  BY <1>5, <1>6, OrderFacts
<1>9. Passes(e, c)
  BY <1>2, <1>7, <1>8 DEF Passes
<1>10. ProgKept(e) /\ LibWrites(e)
  BY <1>1, <1>2, PushedKept
<1>11. QED
  BY <1>1, <1>2, <1>9, <1>10, TurnSilent

LEMMA EndPrivate ==
  ASSUME PrivateInv, NEW e \in Env, NEW c \in Env, c = Child(e), EndAlloc(e) \/ EndUpcall(e)
  PROVE  PrivateInv' /\ UNCHANGED Private!vars
<1>1. ForkInv /\ Types /\ LocalInv /\ ChildInv /\ ForkInv'
  BY EndTurnInv DEF PrivateInv, ForkInv
<1>2. /\ Turn(e, c) /\ LibWrites(e)
      /\ Eip(e)' = "end_upcall" => Writable(c, XStack)'
      /\ \A x \in Env, q \in Mapping :
           \/ map'[x][q] = map[x][q]
           \/ q = XStack /\ HasFree /\ map'[x][q].frame = NewFrame
  BY <1>1, EndTurnFacts
<1>3. ProgKept(e) /\ Turns(e)' = Turns(e)
  <2>1. CASE EndAlloc(e)
    <3>1. /\ Eip(e)' = "end_upcall" /\ Regs(e)' = Regs(e)
          /\ HasFree /\ mem' = Zero(Pushed(e)) /\ Writable(e, Stack)
      BY <1>1, <2>1, EndAllocStep
    <3>2. Pushed(e) \in [Frame -> [prog : Val, lib : Lib]]
          /\ \A f \in Frame : Pushed(e)[f].prog = mem[f].prog
      BY <1>1, <3>1, PushedOf DEF MemType
    <3>3. \A f \in Frame \ {NewFrame} : mem'[f] = Pushed(e)[f]
      BY <3>1, <3>2, ZeroOf
    <3>4. Eip(e) = "end_alloc"
      BY <2>1 DEF EndAlloc, Calls, At, Eip, InHandler
    <3>5. QED
      BY <3>1, <3>2, <3>3, <3>4 DEF ProgKept, Turns
  <2>2. CASE EndUpcall(e)
    <3>1. Eip(e)' = "end_start" /\ Regs(e)' = Regs(e) /\ mem' = mem
      BY <1>1, <2>2, EndUpcallStep
    <3>2. Eip(e) = "end_upcall"
      BY <2>2 DEF EndUpcall, At, Eip, InHandler
    <3>3. QED
      BY <3>1, <3>2 DEF ProgKept, Turns
  <2>3. QED
    BY <2>1, <2>2
<1>4. \A x \in Env, p \in Page : map'[x][p] = map[x][p]
  BY <1>2, PageFacts
<1>5. Passes(e, c)
  BY <1>3, <1>4 DEF Passes
<1>6. QED
  BY <1>1, <1>2, <1>3, <1>4, <1>5, TurnSilent

(* Who gets the page and what the turn is, in duppage() of a page that is  *)
(* there.                                                                  *)
LEMMA DupPasses ==
  ASSUME PrivateInv, NEW e \in Env, NEW c \in Env, c = Child(e),
         DupReadOnly(e) \/ DupChild(e) \/ DupOwn(e)
  PROVE  /\ Passes(e, c) /\ mem' = Pushed(e) /\ Writable(e, Stack)
         /\ \A x \in Env, p \in Page : map[x][p] # None =>
              map'[x][p] # None /\ map'[x][p].frame = map[x][p].frame
         /\ \A x \in Env, p \in Page : map[x][p] = None /\ map'[x][p] # None =>
              x = c /\ map'[x][p].frame = map[e][p].frame
<1>1. ForkInv /\ Types /\ LocalInv /\ ChildInv /\ Whole /\ Copied
  BY DEF PrivateInv, ForkInv
<1>2. ASSUME NEW perm, Turn(e, c), Eip(e) = "dup_child", Regs(e) = cpu[e].regs,
             Given(e, c, Pn(e), perm), Turns(e)' = cpu[e].regs.pn, cpu[e].regs.pn \in 1 .. LastPage
      PROVE  /\ Passes(e, c)
             /\ \A x \in Env, p \in Page : map[x][p] # None =>
                  map'[x][p] # None /\ map'[x][p].frame = map[x][p].frame
             /\ \A x \in Env, p \in Page : map[x][p] = None /\ map'[x][p] # None =>
                  x = c /\ map'[x][p].frame = map[e][p].frame
  <2>1. PICK k : k = cpu[e].regs.pn
    OBVIOUS
  <2>2. k \in 1 .. LastPage /\ Turns(e)' = k /\ Turns(e) = k - 1 /\ Pn(e) = PageOrder[k]
    BY <1>2, <2>1 DEF Turns, Pn
  <2>3. Turns(e) \in Nat /\ Turns(e)' = Turns(e) + 1 /\ ~(k <= Turns(e))
    BY <2>2, OrderFacts
  <2>4. /\ map'[c][PageOrder[k]].frame = map[e][PageOrder[k]].frame /\ map'[c][PageOrder[k]] # None
        /\ \A q \in Mapping \ {PageOrder[k]} : map'[c][q] = map[c][q]
        /\ \A x \in Env \ {c} : map'[x] = map[x]
    BY <1>2, <2>2 DEF Given
  <2>5. Passes(e, c)
    BY <2>2, <2>3, <2>4, PageFacts DEF Passes
  <2>6. Making(e, c)
    BY <1>2 DEF Turn
  <2>7. PageOrder[k] \in Page => map[c][PageOrder[k]] = None
    BY <1>1, <2>2, <2>3, <2>6 DEF Copied
  <2>8. QED
    BY <2>4, <2>5, <2>7, PageFacts
<1>3. CASE DupReadOnly(e)
  <2>1. /\ Turn(e, c) /\ Given(e, c, Pn(e), {}) /\ Eip(e) = "dup_child" /\ Regs(e) = cpu[e].regs
        /\ mem' = Pushed(e) /\ Writable(e, Stack)
    BY <1>1, <1>3, DupReadOnlyStep
  <2>2. At(e, "dup_child") /\ NextPage(e) /\ "dup_child" \in ForkPcs
    BY <1>3 DEF DupReadOnly, Calls, ForkPcs
  <2>3. cpu[e].regs \in ForkRegs
    BY <1>1, <2>2, LoopFacts
  <2>4. Turns(e)' = cpu[e].regs.pn /\ cpu[e].regs.pn \in 1 .. LastPage
    BY <1>1, <2>1, <2>2, <2>3, NextTurns
  <2>5. QED
    BY <1>2, <2>1, <2>4
<1>4. CASE DupChild(e)
  <2>1. /\ Turn(e, c) /\ Given(e, c, Pn(e), {"COW"}) /\ Eip(e) = "dup_child" /\ Regs(e) = cpu[e].regs
        /\ Eip(e)' = "dup_own" /\ Regs(e)' = cpu[e].regs
        /\ mem' = Pushed(e) /\ Writable(e, Stack)
    BY <1>1, <1>4, DupChildStep
  <2>2. At(e, "dup_child") /\ "dup_child" \in ForkPcs
    BY <1>4 DEF DupChild, Calls, ForkPcs
  <2>3. cpu[e].regs \in ForkRegs
    BY <1>1, <2>2, LoopFacts
  <2>4. Turns(e)' = cpu[e].regs.pn /\ cpu[e].regs.pn \in 1 .. LastPage
    BY <2>1, <2>3 DEF Turns, ForkRegs
  <2>5. QED
    BY <1>2, <2>1, <2>4
<1>5. CASE DupOwn(e)
  <2>1. /\ Turn(e, c) /\ Given(e, e, Pn(e), {"COW"}) /\ Eip(e) = "dup_own" /\ Regs(e) = cpu[e].regs
        /\ map[e][Pn(e)] # None /\ mem' = Pushed(e) /\ Writable(e, Stack)
    BY <1>1, <1>5, DupOwnStep
  <2>2. At(e, "dup_own") /\ NextPage(e) /\ "dup_own" \in ForkPcs
    BY <1>5 DEF DupOwn, Calls, ForkPcs
  <2>3. cpu[e].regs \in ForkRegs
    BY <1>1, <2>2, LoopFacts
  <2>4. Turns(e)' = cpu[e].regs.pn
    BY <1>1, <2>1, <2>2, <2>3, NextTurns
  <2>5. Turns(e)' = Turns(e)
    BY <2>1, <2>4 DEF Turns
  <2>6. c # e
    BY <2>1 DEF Turn
  <2>7. Passes(e, c)
    BY <2>1, <2>5, <2>6 DEF Passes, Given
  <2>8. \A x \in Env, p \in Mapping :
          \/ map'[x][p] = map[x][p]
          \/ x = e /\ p = Pn(e) /\ map'[x][p].frame = map[x][p].frame /\ map'[x][p] # None
    BY <2>1 DEF Given
  <2>9. QED
    BY <2>1, <2>7, <2>8, PageFacts
<1>6. QED
  BY <1>3, <1>4, <1>5

LEMMA DupPrivate ==
  ASSUME PrivateInv, NEW e \in Env, NEW c \in Env, c = Child(e),
         DupReadOnly(e) \/ DupChild(e) \/ DupOwn(e)
  PROVE  PrivateInv' /\ UNCHANGED Private!vars
<1>1. ForkInv /\ ForkInv'
  BY DupInv DEF PrivateInv
<1>2. Turn(e, c) /\ Eip(e)' # "end_upcall"
  BY <1>1, DupFacts
<1>3. /\ Passes(e, c) /\ mem' = Pushed(e) /\ Writable(e, Stack)
      /\ \A x \in Env, p \in Page : map[x][p] # None =>
           map'[x][p] # None /\ map'[x][p].frame = map[x][p].frame
      /\ \A x \in Env, p \in Page : map[x][p] = None /\ map'[x][p] # None =>
           x = c /\ map'[x][p].frame = map[e][p].frame
  BY DupPasses
<1>4. ProgKept(e) /\ LibWrites(e)
  BY <1>1, <1>3, PushedKept
<1>5. QED
  BY <1>1, <1>2, <1>3, <1>4, TurnSilent
-----------------------------------------------------------------------------
(* Steps that a program sees.                                              *)

(* An environment that neither steps nor is a child of the one that does.  *)
LEMMA OtherKept ==
  ASSUME ForkInv, Whole, ForkInv', NEW e \in Env, NEW x \in Env \ {e}, SameEnv(x), ~Making(e, x),
         \A d \in Env : Making(d, x)' = Making(d, x), \A d \in Env : Making(d, x) => SameEnv(d),
         \A y \in Env \ {e}, p \in Page : map[y][p] # None =>
           mem'[map[y][p].frame].prog = mem[map[y][p].frame].prog
  PROVE  TodoOf(x)' = TodoOf(x) /\ \A p \in Page : ValueOf(x, p)' = ValueOf(x, p)
<1>1. Doing(x) /\ Doing(x)' /\ \A p \in Page : Seeing(x, p) /\ Seeing(x, p)'
  BY Right, NextRight DEF AllRight
<1>2. status'[x] = status[x] /\ map'[x] = map[x] /\ Asleep(x)' = Asleep(x) /\ SameProgram(x)
  BY SameEnvProgram DEF SameEnv, Asleep
<1>3. TodoOf(x)' = TodoOf(x)
  BY <1>2, TodoKept
<1>4. ASSUME NEW p \in Page PROVE ValueOf(x, p)' = ValueOf(x, p)
  <2>1. map[x][p] # None => Content(x, p)' = Content(x, p)
    BY <1>2 DEF Content
  <2>2. CASE status[x] = "RUNNABLE"
    BY <1>1, <1>2, <2>1, <2>2 DEF Seeing, Whole
  <2>3. ASSUME NEW d \in Env, Making(d, x) PROVE ValueOf(x, p)' = ValueOf(x, p)
    <3>1. d # e /\ map'[d] = map[d] /\ Making(d, x)'
      BY <2>3 DEF SameEnv
    <3>2. map[d][p] # None
      BY <2>3 DEF Whole, Making, Forking
    <3>3. Content(d, p)' = Content(d, p)
      BY <3>1, <3>2 DEF Content
    <3>4. /\ ValueOf(x, p) = IF map[x][p] = None THEN Content(d, p) ELSE Content(x, p)
          /\ ValueOf(x, p)' = IF map'[x][p] = None THEN Content(d, p)' ELSE Content(x, p)'
      BY <1>1, <2>3, <3>1 DEF Seeing
    <3>5. QED
      BY <1>2, <2>1, <3>3, <3>4
  <2>4. CASE status[x] # "RUNNABLE" /\ ~Asleep(x)
    <3>1. TodoOf(x) = None
      BY <1>1, <2>4 DEF Doing
    <3>2. QED
      BY <1>1, <1>3, <3>1 DEF Seeing
  <2>5. QED
    BY <2>2, <2>3, <2>4 DEF Asleep
<1>5. QED
  BY <1>3, <1>4

LEMMA QuietKeeps ==
  ASSUME PrivateInv, NEW e \in Env, Quiet(e),
         \A y \in Env \ {e}, p \in Page : map[y][p] # None =>
           mem'[map[y][p].frame].prog = mem[map[y][p].frame].prog
  PROVE  /\ ForkInv' /\ Whole' /\ Copied'
         /\ \A x \in Env \ {e} :
              TodoOf(x)' = TodoOf(x) /\ \A p \in Page : ValueOf(x, p)' = ValueOf(x, p)
         /\ \A p \in Page : /\ map'[e][p] = map[e][p] /\ map[e][p] # None
                            /\ ValueOf(e, p) = Content(e, p) /\ ValueOf(e, p)' = Content(e, p)'
         /\ Doing(e) /\ Doing(e)' /\ status[e] = "RUNNABLE" /\ status'[e] = "RUNNABLE"
         /\ \A x \in Env \ {e} : SameEnv(x)
         /\ cpu'[e].pc # "remap"
<1>1. ForkInv /\ Types /\ LocalInv /\ ChildInv /\ Whole /\ Copied /\ ForkInv'
  BY QuietInv DEF PrivateInv, ForkInv
<1>2. /\ status'[e] = "RUNNABLE" /\ status[e] = "RUNNABLE"
      /\ ~Forking(e) /\ ~Forking(e)' /\ ~InHandler(e)'
      /\ \A x \in Env \ {e} : SameEnv(x)
      /\ \A p \in Mapping \ {XStack} : map'[e][p] = map[e][p]
  BY <1>1, QuietStep
<1>3. \A x \in Env, p \in Page : map'[x][p] = map[x][p]
  BY <1>2, PageFacts DEF SameEnv
<1>4. \A c \in Env : ~Making(e, c) /\ ~Making(e, c)'
  BY <1>2 DEF Making
<1>5. \A x \in Env \ {e} : SameProgram(x)
  BY <1>2, SameEnvProgram
<1>6. \A x, c \in Env : Making(x, c)' = Making(x, c)
  BY <1>2, <1>4, <1>5 DEF SameEnv, SameProgram, Making, Forking
<1>7. Whole'
  BY <1>1, <1>2, <1>3, WholeKept DEF SameEnv
<1>8. Copied'
  BY <1>1, <1>3, <1>4, <1>5, <1>6, SameTurns, CopiedKept
<1>9. \A x \in Env \ {e} :
        TodoOf(x)' = TodoOf(x) /\ \A p \in Page : ValueOf(x, p)' = ValueOf(x, p)
  BY <1>1, <1>2, <1>4, <1>6, OtherKept
<1>10. Doing(e) /\ Doing(e)' /\ \A p \in Page : Seeing(e, p) /\ Seeing(e, p)'
  BY <1>1, Right, NextRight DEF AllRight
<1>11. \A p \in Page : ValueOf(e, p) = Content(e, p) /\ ValueOf(e, p)' = Content(e, p)'
  BY <1>2, <1>10 DEF Seeing
<1>12. cpu'[e].pc # "remap"
  BY <1>2 DEF InHandler
<1>13. QED
  BY <1>1, <1>2, <1>3, <1>7, <1>8, <1>9, <1>10, <1>11, <1>12 DEF Whole

(* What the actions of PrivateMemory say of each environment.              *)
LEMMA PrivateDecide ==
  ASSUME NEW e \in Env, NEW next \in Private!Write \cup [op : {"fork"}],
         TodoOf(e) = [op |-> "run"], TodoOf(e)' = next,
         \A x \in Env \ {e} : TodoOf(x)' = TodoOf(x),
         \A x \in Env, p \in Page : ValueOf(x, p)' = ValueOf(x, p)
  PROVE  Private!Next
<1>1. next # None /\ TodoOf(e) # None
  BY TodoAssumption, TodoTypes DEF Private!Todo
<1>2. UNCHANGED {x \in Env : TodoOf(x) # None}
  BY <1>1
<1>3. e \in {x \in Env : TodoOf(x) # None} /\ [x \in Env |-> TodoOf(x)][e].op = "run"
  BY <1>1
<1>4. [x \in Env |-> TodoOf(x)]' = [[x \in Env |-> TodoOf(x)] EXCEPT ![e] = next]
  OBVIOUS
<1>5. UNCHANGED [x \in Env |-> [p \in Page |-> ValueOf(x, p)]]
  OBVIOUS
<1>6. Private!Decide(e, next)
  BY <1>2, <1>3, <1>4, <1>5 DEF Private!Decide, Private!Doing
<1>7. QED
  BY <1>6 DEF Private!Next

LEMMA PrivateWrite ==
  ASSUME NEW e \in Env, NEW p \in Page, NEW v \in Val,
         TodoOf(e) = [op |-> "write", page |-> p, val |-> v], TodoOf(e)' = [op |-> "run"],
         \A x \in Env \ {e} : TodoOf(x)' = TodoOf(x),
         ValueOf(e, p)' = v, \A q \in Page \ {p} : ValueOf(e, q)' = ValueOf(e, q),
         \A x \in Env \ {e}, q \in Page : ValueOf(x, q)' = ValueOf(x, q)
  PROVE  Private!Next
<1> DEFINE todo == [x \in Env |-> TodoOf(x)]
           val  == [x \in Env |-> [q \in Page |-> ValueOf(x, q)]]
<1>1. TodoOf(e) # None /\ TodoOf(e)' # None
  BY TodoTypes
<1>2. UNCHANGED {x \in Env : TodoOf(x) # None}
  BY <1>1
<1>3. todo[e] = [op |-> "write", page |-> p, val |-> v]
  OBVIOUS
<1>4. e \in {x \in Env : TodoOf(x) # None} /\ todo[e].op = "write"
      /\ todo[e].page = p /\ todo[e].val = v
  BY <1>1, <1>3
<1>5. todo' = [todo EXCEPT ![e] = [op |-> "run"]]
  OBVIOUS
<1>6. val' = [val EXCEPT ![e][p] = v]
  <2>1. [q \in Page |-> ValueOf(e, q)'] = [[q \in Page |-> ValueOf(e, q)] EXCEPT ![p] = v]
    OBVIOUS
  <2>2. val[e] = [q \in Page |-> ValueOf(e, q)]
    OBVIOUS
  <2>3. val' = [x \in Env |-> [q \in Page |-> ValueOf(x, q)']]
    OBVIOUS
  <2>4. \A x \in Env \ {e} : [q \in Page |-> ValueOf(x, q)'] = [q \in Page |-> ValueOf(x, q)]
    OBVIOUS
  <2>5. val' = [val EXCEPT ![e] = [val[e] EXCEPT ![p] = v]]
    <3>1. ASSUME NEW x \in Env
          PROVE  [q \in Page |-> ValueOf(x, q)'] = IF x = e THEN [val[e] EXCEPT ![p] = v] ELSE val[x]
      BY <2>1, <2>2, <2>4
    <3>2. [val EXCEPT ![e] = [val[e] EXCEPT ![p] = v]]
            = [x \in Env |-> IF x = e THEN [val[e] EXCEPT ![p] = v] ELSE val[x]]
      OBVIOUS
    <3>3. QED
      BY <2>3, <3>1, <3>2
  <2>6. QED
    BY <2>5
<1>7. val' = [val EXCEPT ![e][todo[e].page] = todo[e].val]
  BY <1>4, <1>6
<1>8. Private!DoWrite(e)
  BY <1>2, <1>4, <1>5, <1>7 DEF Private!DoWrite, Private!Doing
<1>9. QED
  BY <1>8 DEF Private!Next

LEMMA PrivateFork ==
  ASSUME NEW e \in Env, NEW c \in Env \ {e},
         TodoOf(e) = [op |-> "fork"], TodoOf(e)' = [op |-> "forked", child |-> c],
         TodoOf(c) = None, TodoOf(c)' = [op |-> "asleep"],
         \A x \in Env \ {e, c} : TodoOf(x)' = TodoOf(x),
         \A q \in Page : ValueOf(c, q)' = ValueOf(e, q),
         \A x \in Env \ {c}, q \in Page : ValueOf(x, q)' = ValueOf(x, q)
  PROVE  Private!Next
<1> DEFINE alive == {x \in Env : TodoOf(x) # None}
           todo  == [x \in Env |-> TodoOf(x)]
           val   == [x \in Env |-> [q \in Page |-> ValueOf(x, q)]]
<1>1. TodoOf(e) # None /\ TodoOf(e)' # None /\ TodoOf(c)' # None
  BY TodoTypes
<1>2. e \in alive /\ todo[e].op = "fork" /\ c \notin alive
  BY <1>1
<1>3. alive' = alive \cup {c}
  BY <1>1
<1>4. todo' = [todo EXCEPT ![e] = [op |-> "forked", child |-> c], ![c] = [op |-> "asleep"]]
  OBVIOUS
<1>5. val' = [val EXCEPT ![c] = val[e]]
  <2>1. val[e] = [q \in Page |-> ValueOf(c, q)']
    OBVIOUS
  <2>2. \A x \in Env \ {c} : [q \in Page |-> ValueOf(x, q)'] = [q \in Page |-> ValueOf(x, q)]
    OBVIOUS
  <2>3. val' = [x \in Env |-> [q \in Page |-> ValueOf(x, q)']]
    OBVIOUS
  <2>4. QED
    BY <2>1, <2>2, <2>3
<1>6. Private!Fork(e, c)
  BY <1>2, <1>3, <1>4, <1>5 DEF Private!Fork, Private!Doing
<1>7. QED
  BY <1>6 DEF Private!Next

LEMMA PrivateReturn ==
  ASSUME NEW e \in Env, NEW c \in Env \ {e},
         TodoOf(e) = [op |-> "forked", child |-> c], TodoOf(e)' = [op |-> "run"],
         TodoOf(c) # None, TodoOf(c)' = [op |-> "run"],
         \A x \in Env \ {e, c} : TodoOf(x)' = TodoOf(x),
         \A x \in Env, q \in Page : ValueOf(x, q)' = ValueOf(x, q)
  PROVE  Private!Next
<1> DEFINE alive == {x \in Env : TodoOf(x) # None}
           todo  == [x \in Env |-> TodoOf(x)]
           val   == [x \in Env |-> [q \in Page |-> ValueOf(x, q)]]
<1>1. TodoOf(e) # None /\ TodoOf(e)' # None /\ TodoOf(c)' # None
  BY TodoTypes
<1>2. todo[e] = [op |-> "forked", child |-> c]
  OBVIOUS
<1>3. e \in alive /\ todo[e].op = "forked" /\ todo[e].child = c
  BY <1>1, <1>2
<1>4. alive' = alive
  BY <1>1
<1>5. todo' = [todo EXCEPT ![e] = [op |-> "run"], ![c] = [op |-> "run"]]
  OBVIOUS
<1>6. val' = val
  OBVIOUS
<1>7. Private!Return(e)
  BY <1>3, <1>4, <1>5, <1>6 DEF Private!Return, Private!Doing
<1>8. QED
  BY <1>7 DEF Private!Next

LEMMA PrivateStop ==
  ASSUME NEW e \in Env, TodoOf(e) # None, NEW gone \in SUBSET Env,
         gone = {e} \cup IF TodoOf(e).op = "forked" THEN {TodoOf(e).child} ELSE {},
         \A x \in gone : TodoOf(x)' = None /\ \A q \in Page : ValueOf(x, q)' = Initial,
         \A x \in Env \ gone : TodoOf(x)' = TodoOf(x) /\ \A q \in Page : ValueOf(x, q)' = ValueOf(x, q)
  PROVE  Private!Next
<1> DEFINE alive == {x \in Env : TodoOf(x) # None}
           todo  == [x \in Env |-> TodoOf(x)]
           val   == [x \in Env |-> [q \in Page |-> ValueOf(x, q)]]
<1>1. e \in alive /\ todo[e] = TodoOf(e)
  OBVIOUS
<1>2. Private!Gone(e) = gone
  BY <1>1 DEF Private!Gone, Private!Doing
<1>3. alive' = alive \ gone
  OBVIOUS
<1>4. todo' = [x \in Env |-> IF x \in gone THEN None ELSE todo[x]]
  OBVIOUS
<1>5. val' = [x \in Env |-> IF x \in gone THEN [q \in Page |-> Initial] ELSE val[x]]
  <2>1. \A x \in gone : [q \in Page |-> ValueOf(x, q)'] = [q \in Page |-> Initial]
    OBVIOUS
  <2>2. \A x \in Env \ gone : [q \in Page |-> ValueOf(x, q)'] = val[x]
    OBVIOUS
  <2>3. val' = [x \in Env |-> [q \in Page |-> ValueOf(x, q)']]
    OBVIOUS
  <2>4. QED
    BY <2>1, <2>2, <2>3
<1>6. Private!Stop(e)
  BY <1>1, <1>2, <1>3, <1>4, <1>5 DEF Private!Stop, Private!Blank
<1>7. QED
  BY <1>6 DEF Private!Next

(* set_pgfault_handler() stores nothing where programs do.                 *)
LEMMA QuietSame ==
  ASSUME PrivateInv, NEW e \in Env, Quiet(e), ProgKept(e)
  PROVE  /\ PrivateInv' /\ Doing(e) /\ Doing(e)' /\ status[e] = "RUNNABLE" /\ status'[e] = "RUNNABLE"
         /\ \A x \in Env \ {e} : TodoOf(x)' = TodoOf(x)
         /\ \A x \in Env, p \in Page : ValueOf(x, p)' = ValueOf(x, p)
<1>1. ForkInv /\ Filled
  BY DEF PrivateInv
<1>2. \A y \in Env, p \in Page : map[y][p] # None =>
        mem'[map[y][p].frame].prog = mem[map[y][p].frame].prog
  BY <1>1, ContentKept
<1>3. /\ ForkInv' /\ Whole' /\ Copied'
      /\ \A x \in Env \ {e} :
           TodoOf(x)' = TodoOf(x) /\ \A p \in Page : ValueOf(x, p)' = ValueOf(x, p)
      /\ \A p \in Page : /\ map'[e][p] = map[e][p] /\ map[e][p] # None
                         /\ ValueOf(e, p) = Content(e, p) /\ ValueOf(e, p)' = Content(e, p)'
      /\ Doing(e) /\ Doing(e)' /\ status[e] = "RUNNABLE" /\ status'[e] = "RUNNABLE"
      /\ \A x \in Env \ {e} : SameEnv(x)
      /\ cpu'[e].pc # "remap"
  BY <1>2, QuietKeeps
<1>4. Filled'
  BY <1>1, <1>3, FilledKept
<1>5. \A p \in Page : ValueOf(e, p)' = ValueOf(e, p)
  BY <1>2, <1>3 DEF Content
<1>6. QED
  BY <1>3, <1>4, <1>5 DEF PrivateInv

LEMMA DecidePrivate ==
  ASSUME PrivateInv, NEW e \in Env, NEW write \in Writes, DecideToWrite(e, write)
  PROVE  PrivateInv' /\ Private!Next
<1>1. Types
  BY DEF PrivateInv, ForkInv
<1>2. At(e, "run") /\ Continue(e, "store", write) /\ mem' = mem
  BY DEF DecideToWrite
<1>3. Quiet(e) /\ ProgKept(e)
  BY <1>2 DEF Quiet, ProgKept
<1>4. /\ PrivateInv' /\ Doing(e) /\ Doing(e)' /\ status[e] = "RUNNABLE" /\ status'[e] = "RUNNABLE"
      /\ \A x \in Env \ {e} : TodoOf(x)' = TodoOf(x)
      /\ \A x \in Env, p \in Page : ValueOf(x, p)' = ValueOf(x, p)
  BY <1>3, QuietSame
<1>5. cpu'[e] = [pc |-> "store", esp |-> cpu[e].esp, regs |-> write]
  BY <1>1, <1>2, ContinueOf DEF Pcs, ProgramPcs, Regsets
<1>6. Eip(e) = "run" /\ Eip(e)' = "store" /\ Regs(e)' = write
  BY <1>2, <1>5 DEF At, Eip, Regs, InHandler
<1>7. /\ TodoOf(e) = [op |-> "run"]
      /\ TodoOf(e)' = [op |-> "write", page |-> write.page, val |-> write.val]
  BY <1>4, <1>6 DEF Doing
<1>8. TodoOf(e)' \in Private!Write
  BY <1>4, <1>6, <1>7, TodoTypes DEF Doing
<1>9. PICK next \in Private!Write \cup [op : {"fork"}] : next = TodoOf(e)'
  BY <1>8
<1>10. Private!Next
  BY <1>4, <1>7, <1>9, PrivateDecide
<1>11. QED
  BY <1>4, <1>10

LEMMA SetHandlerPrivate ==
  ASSUME PrivateInv, NEW e \in Env, SetPgfaultHandler(e)
  PROVE  PrivateInv' /\ Private!Next
<1>1. ForkInv /\ Types /\ LocalInv
  BY DEF PrivateInv, ForkInv
<1>2. At(e, "run") /\ Jump(e, "set_handler")
  BY DEF SetPgfaultHandler, CallsFork
<1>3. ProgKept(e)
  <2>1. CASE FirstTime(e)
    <3>1. HasFree /\ mem' = Zero(mem)
      BY <2>1 DEF SetPgfaultHandler, SysPageAlloc
    <3>2. \A f \in Frame \ {NewFrame} : mem'[f] = mem[f]
      BY <1>1, <3>1, ZeroOf DEF Types
    <3>3. QED
      BY <3>1, <3>2 DEF ProgKept
  <2>2. CASE ~FirstTime(e)
    BY <2>2 DEF SetPgfaultHandler, ProgKept
  <2>3. QED
    BY <2>1, <2>2
<1>4. Quiet(e)
  BY DEF Quiet
<1>5. /\ PrivateInv' /\ Doing(e) /\ Doing(e)' /\ status[e] = "RUNNABLE" /\ status'[e] = "RUNNABLE"
      /\ \A x \in Env \ {e} : TodoOf(x)' = TodoOf(x)
      /\ \A x \in Env, p \in Page : ValueOf(x, p)' = ValueOf(x, p)
  BY <1>3, <1>4, QuietSame
<1>6. cpu'[e].pc = "set_handler"
  BY <1>1, <1>2, JumpPc
<1>7. Eip(e) = "run" /\ Eip(e)' = "set_handler"
  BY <1>2, <1>6 DEF At, Eip, InHandler
<1>8. TodoOf(e) = [op |-> "run"] /\ TodoOf(e)' = [op |-> "fork"]
  BY <1>5, <1>7 DEF Doing
<1>9. PICK next \in Private!Write \cup [op : {"fork"}] : next = TodoOf(e)'
  BY <1>8
<1>10. Private!Next
  BY <1>5, <1>8, <1>9, PrivateDecide
<1>11. QED
  BY <1>5, <1>10

LEMMA StoreHandlerPrivate ==
  ASSUME PrivateInv, NEW e \in Env, StoreHandler(e)
  PROVE  PrivateInv' /\ UNCHANGED Private!vars
<1>1. ForkInv /\ Types /\ LocalInv
  BY DEF PrivateInv, ForkInv
<1>2. At(e, "set_handler") /\ Jump(e, "exofork") /\ Store(e, Data, "lib", "pgfault")
  BY DEF StoreHandler
<1>3. ProgKept(e)
  <2>1. map[e][Data].frame \in Frame /\ mem' = [mem EXCEPT ![map[e][Data].frame].lib = "pgfault"]
    BY <1>1, <1>2, WritableFrame, PageFacts DEF Store
  <2>2. \A f \in Frame : mem'[f].prog = mem[f].prog
    BY <1>1, <2>1, LibChange DEF Types, Lib
  <2>3. QED
    BY <2>2 DEF ProgKept
<1>4. Quiet(e)
  BY DEF Quiet
<1>5. /\ PrivateInv' /\ Doing(e) /\ Doing(e)' /\ status[e] = "RUNNABLE" /\ status'[e] = "RUNNABLE"
      /\ \A x \in Env \ {e} : TodoOf(x)' = TodoOf(x)
      /\ \A x \in Env, p \in Page : ValueOf(x, p)' = ValueOf(x, p)
  BY <1>3, <1>4, QuietSame
<1>6. cpu'[e].pc = "exofork"
  BY <1>1, <1>2, JumpPc
<1>7. Eip(e) = "set_handler" /\ Eip(e)' = "exofork"
  BY <1>2, <1>6 DEF At, Eip, InHandler
<1>8. TodoOf(e) = [op |-> "fork"] /\ TodoOf(e)' = [op |-> "fork"]
  BY <1>5, <1>7 DEF Doing
<1>9. \A x \in Env : TodoOf(x)' = TodoOf(x)
  BY <1>5, <1>8
<1>10. QED
  BY <1>5, <1>9, PrivateStutter

(* A program writes to its page, and to nobody else's.                     *)
LEMMA StorePrivate ==
  ASSUME PrivateInv, NEW e \in Env, ProgramStore(e)
  PROVE  PrivateInv' /\ Private!Next
<1>1. ForkInv /\ Types /\ LocalInv /\ OneAddress /\ Filled
  BY DEF PrivateInv, ForkInv
<1>2. At(e, "store") /\ Continue(e, "run", None) /\ "store" \in ProgramPcs
      /\ Store(e, cpu[e].regs.page, "prog", cpu[e].regs.val)
  BY DEF ProgramStore, ProgramPcs
<1>3. cpu[e].regs \in Writes /\ Eip(e) = "store" /\ Regs(e) = cpu[e].regs
      /\ status[e] = "RUNNABLE" /\ cpu[e].pc = "store"
  BY <1>1, <1>2, ProgramAt DEF RegsFit
<1>4. PICK p \in Page : p = cpu[e].regs.page
  BY <1>3, SizeAssumption
<1>5. PICK v \in Val : v = cpu[e].regs.val
  BY <1>3, SizeAssumption
<1>6. Writable(e, p) /\ mem' = [mem EXCEPT ![map[e][p].frame].prog = v]
  BY <1>2, <1>4, <1>5 DEF Store
<1>7. map[e][p].frame \in Frame /\ map[e][p] # None
  BY <1>1, <1>6, WritableFrame, PageFacts
<1>8. /\ mem'[map[e][p].frame].prog = v
      /\ \A f \in Frame : f # map[e][p].frame => mem'[f] = mem[f]
  BY <1>1, <1>6, <1>7, ProgChange DEF Types
<1>9. ProgStores(e, p)
  BY <1>3, <1>6, <1>8 DEF ProgStores
<1>10. \A y \in Env \ {e}, q \in Page : map[y][q] # None =>
         mem'[map[y][q].frame].prog = mem[map[y][q].frame].prog
  BY <1>1, <1>9, OthersKept
<1>11. Quiet(e)
  BY DEF Quiet
<1>12. /\ ForkInv' /\ Whole' /\ Copied'
       /\ \A x \in Env \ {e} :
            TodoOf(x)' = TodoOf(x) /\ \A q \in Page : ValueOf(x, q)' = ValueOf(x, q)
       /\ \A q \in Page : /\ map'[e][q] = map[e][q] /\ map[e][q] # None
                          /\ ValueOf(e, q) = Content(e, q) /\ ValueOf(e, q)' = Content(e, q)'
       /\ Doing(e) /\ Doing(e)' /\ status[e] = "RUNNABLE" /\ status'[e] = "RUNNABLE"
       /\ \A x \in Env \ {e} : SameEnv(x)
       /\ cpu'[e].pc # "remap"
  BY <1>10, <1>11, QuietKeeps
<1>13. Filled'
  BY <1>1, <1>9, <1>12, FilledKept
<1>14. cpu'[e].pc = "run"
  BY <1>1, <1>2 DEF Types, Continue
<1>15. Eip(e)' = "run"
  BY <1>14 DEF Eip, InHandler
<1>16. TodoOf(e) = [op |-> "write", page |-> p, val |-> v] /\ TodoOf(e)' = [op |-> "run"]
  BY <1>3, <1>4, <1>5, <1>12, <1>15 DEF Doing
<1>17. ValueOf(e, p)' = v
  BY <1>8, <1>12 DEF Content
<1>18. ASSUME NEW q \in Page \ {p} PROVE ValueOf(e, q)' = ValueOf(e, q)
  <2>1. map[e][q] # None /\ map[e][q].frame \in Frame
    BY <1>1, <1>12, PteTypes, PageFacts
  <2>2. map[e][q].frame # map[e][p].frame
    BY <1>1, <1>7, <2>1 DEF OneAddress
  <2>3. QED
    BY <1>8, <1>12, <2>1, <2>2 DEF Content
<1>19. Private!Next
  BY <1>12, <1>16, <1>17, <1>18, PrivateWrite
<1>20. QED
  BY <1>12, <1>13, <1>19 DEF PrivateInv

(* An environment that stops, and the child it was making with it.         *)
LEMMA StopPrivate ==
  ASSUME PrivateInv, NEW e \in Env, ForkInv',
         status[e] \in {"RUNNABLE", "PANIC"}, status'[e] \in {"FREE", "PANIC"},
         \A x \in Env \ {e} : SameEnv(x), \A f \in Frame : mem'[f].prog = mem[f].prog
  PROVE  PrivateInv' /\ [Private!Next]_(Private!vars)
<1>1. ForkInv /\ ChildInv /\ Whole /\ Copied /\ Filled /\ ChildInv'
  BY DEF PrivateInv, ForkInv
<1>2. \A c \in Env : ~Making(e, c)'
  BY DEF Making, Forking
<1>3. \A x \in Env \ {e} : SameProgram(x)
  BY SameEnvProgram
<1>4. \A x \in Env \ {e}, c \in Env : Making(x, c)' = Making(x, c)
  BY <1>3 DEF SameEnv, SameProgram, Making, Forking
<1>5. \A x \in Env : ~Making(x, e) /\ ~Making(x, e)'
  BY <1>1 DEF ChildInv
<1>6. ProgKept(e)
  BY DEF ProgKept
<1>7. PrivateInv'
  <2>1. Whole'
    BY <1>1, WholeKept DEF SameEnv
  <2>2. Copied'
    <3>1. ASSUME NEW x \in Env, NEW d \in Env, Making(x, d)'
          PROVE  /\ Making(x, d) /\ Turns(x)' = Turns(x)
                 /\ \A p \in Page : map'[d][p] # None <=> map[d][p] # None
      <4>1. x # e /\ d # e
        BY <1>2, <1>5, <3>1
      <4>2. Making(x, d) /\ map'[d] = map[d]
        BY <1>4, <3>1, <4>1 DEF SameEnv
      <4>3. QED
        BY <1>3, <4>1, <4>2, SameTurns
    <3>2. QED
      BY <1>1, <3>1, CopiedKept
  <2>3. Filled'
    BY <1>1, <1>6, FilledKept
  <2>4. QED
    BY <2>1, <2>2, <2>3 DEF PrivateInv
<1>8. AllRight /\ AllRight'
  BY <1>1, Right, NextRight
<1>9. \A y \in Env \ {e}, p \in Page : map[y][p] # None =>
        mem'[map[y][p].frame].prog = mem[map[y][p].frame].prog
  BY <1>1, <1>6, ContentKept
<1>10. ASSUME NEW x \in Env \ {e}, ~Making(e, x)
       PROVE  TodoOf(x)' = TodoOf(x) /\ \A p \in Page : ValueOf(x, p)' = ValueOf(x, p)
  <2>1. \A d \in Env : Making(d, x)' = Making(d, x)
    BY <1>2, <1>4, <1>10 DEF Making
  <2>2. \A d \in Env : Making(d, x) => SameEnv(d)
    BY <1>10
  <2>3. QED
    BY <1>1, <1>9, <1>10, <2>1, <2>2, OtherKept
<1>11. TodoOf(e)' = None /\ \A p \in Page : ValueOf(e, p)' = Initial
  <2>1. ~Asleep(e)' /\ status'[e] # "RUNNABLE"
    BY <1>5 DEF Asleep
  <2>2. Doing(e)' /\ \A p \in Page : Seeing(e, p)'
    BY <1>8 DEF AllRight
  <2>3. TodoOf(e)' = None
    BY <2>1, <2>2 DEF Doing
  <2>4. QED
    BY <2>2, <2>3 DEF Seeing
<1>12. CASE status[e] = "PANIC"
  <2>1. \A c \in Env : ~Making(e, c)
    BY <1>12 DEF Making, Forking
  <2>2. ~Asleep(e) /\ status[e] # "RUNNABLE"
    BY <1>5, <1>12 DEF Asleep
  <2>3. Doing(e) /\ \A p \in Page : Seeing(e, p)
    BY <1>8 DEF AllRight
  <2>4. TodoOf(e) = None
    BY <2>2, <2>3 DEF Doing
  <2>5. \A p \in Page : ValueOf(e, p) = Initial
    BY <2>3, <2>4 DEF Seeing
  <2>6. UNCHANGED Private!vars
    BY <1>10, <1>11, <2>1, <2>4, <2>5, PrivateStutter
  <2>7. QED
    BY <1>7, <2>6
<1>13. CASE status[e] = "RUNNABLE"
  <2>1. Doing(e)
    BY <1>8 DEF AllRight
  <2>2. Eip(e) \in ProgramPcs
    BY <1>1, <1>13, ProgramRegs
  <2>3. TodoOf(e) # None
    BY <1>13, <2>1 DEF Doing
  <2>4. CASE Eip(e) \in ForkPcs
    <3>1. PICK c \in Env : c = Regs(e).child /\ TodoOf(e) = [op |-> "forked", child |-> c] /\ Making(e, c)
      BY <1>13, <2>1, <2>4 DEF Doing
    <3>2. c # e /\ status[c] = "NOT_RUNNABLE" /\ status'[c] = "NOT_RUNNABLE"
      BY <1>1, <3>1 DEF ChildInv, SameEnv
    <3>3. \A x \in Env : ~Making(x, c)'
      BY <1>1, <1>2, <1>4, <3>1 DEF ChildInv
    <3>4. Doing(c)' /\ \A p \in Page : Seeing(c, p)'
      BY <1>8 DEF AllRight
    <3>5. TodoOf(c)' = None
      BY <3>2, <3>3, <3>4 DEF Doing, Asleep
    <3>6. \A p \in Page : ValueOf(c, p)' = Initial
      BY <3>4, <3>5 DEF Seeing
    <3>7. \A x \in Env \ {e, c} : ~Making(e, x)
      BY <3>1 DEF Making
    <3>8. PICK gone \in SUBSET Env : gone = {e, c}
      OBVIOUS
    <3>9. gone = {e} \cup IF TodoOf(e).op = "forked" THEN {TodoOf(e).child} ELSE {}
      BY <3>1, <3>8
    <3>10. \A x \in gone : TodoOf(x)' = None /\ \A q \in Page : ValueOf(x, q)' = Initial
      BY <1>11, <3>5, <3>6, <3>8
    <3>11. \A x \in Env \ gone : TodoOf(x)' = TodoOf(x) /\ \A q \in Page : ValueOf(x, q)' = ValueOf(x, q)
      BY <1>10, <3>7, <3>8
    <3>12. Private!Next
      BY <2>3, <3>9, <3>10, <3>11, PrivateStop
    <3>13. QED
      BY <1>7, <3>12
  <2>5. CASE Eip(e) \notin ForkPcs
    <3>1. Eip(e) \in {"run", "store", "set_handler", "exofork"}
      BY <2>2, <2>5 DEF ProgramPcs, ForkPcs
    <3>2. TodoOf(e).op # "forked"
      BY <1>13, <2>1, <3>1 DEF Doing
    <3>3. \A x \in Env : ~Making(e, x)
      BY <3>1 DEF Making, Forking
    <3>4. PICK gone \in SUBSET Env : gone = {e}
      OBVIOUS
    <3>5. gone = {e} \cup IF TodoOf(e).op = "forked" THEN {TodoOf(e).child} ELSE {}
      BY <3>2, <3>4
    <3>6. \A x \in gone : TodoOf(x)' = None /\ \A q \in Page : ValueOf(x, q)' = Initial
      BY <1>11, <3>4
    <3>7. \A x \in Env \ gone : TodoOf(x)' = TodoOf(x) /\ \A q \in Page : ValueOf(x, q)' = ValueOf(x, q)
      BY <1>10, <3>3, <3>4
    <3>8. Private!Next
      BY <2>3, <3>5, <3>6, <3>7, PrivateStop
    <3>9. QED
      BY <1>7, <3>8
  <2>6. QED
    BY <2>4, <2>5
<1>14. QED
  BY <1>12, <1>13

LEMMA EndsPrivate ==
  ASSUME PrivateInv, NEW e \in Env,
         \/ Exit(e) \/ PageFaultDestroys(e)
         \/ PftempPanic(e) \/ SetPgfaultPanic(e) \/ EndPanic(e)
  PROVE  PrivateInv' /\ [Private!Next]_(Private!vars)
<1>1. ForkInv /\ Types /\ LocalInv /\ ForkInv'
  BY FreeInv, PanicInv DEF PrivateInv, ForkInv
<1>2. CASE Exit(e) \/ PageFaultDestroys(e)
  <2>1. EnvFree(e) /\ status[e] \in {"RUNNABLE", "PANIC"} /\ mem' = mem
    BY <1>2 DEF Exit, PageFaultDestroys, Faults, EnvFree
  <2>2. status'[e] = "FREE" /\ \A x \in Env \ {e} : SameEnv(x)
    BY <1>1, <2>1, EnvFreeStep
  <2>3. QED
    BY <1>1, <2>1, <2>2, StopPrivate
<1>3. CASE PftempPanic(e) \/ SetPgfaultPanic(e) \/ EndPanic(e)
  <2>1. Panic(e) /\ status[e] = "RUNNABLE"
    BY <1>3 DEF PftempPanic, SetPgfaultPanic, EndPanic, CallsFork, Calls, At
  <2>2. \A f \in Frame : mem'[f].prog = mem[f].prog
    <3>1. CASE EndPanic(e)
      BY <1>1, <3>1, PushedOf DEF EndPanic, Calls
    <3>2. CASE PftempPanic(e) \/ SetPgfaultPanic(e)
      BY <3>2 DEF PftempPanic, SetPgfaultPanic
    <3>3. QED
      BY <1>3, <3>1, <3>2
  <2>3. status'[e] = "PANIC" /\ \A x \in Env \ {e} : SameEnv(x)
    BY <1>1, <2>1 DEF Panic, Types, SameEnv
  <2>4. QED
    BY <1>1, <2>1, <2>2, <2>3, StopPrivate
<1>4. QED
  BY <1>2, <1>3

(* sys_exofork() of a slot that nobody has: the child sees what its parent *)
(* sees.                                                                   *)
LEMMA SysExoforkPrivate ==
  ASSUME PrivateInv, NEW e \in Env, NEW c \in Env, SysExofork(e, c)
  PROVE  PrivateInv' /\ Private!Next
<1>1. ForkInv /\ Types /\ LocalInv /\ ChildInv /\ Whole /\ Copied /\ Filled /\ ForkInv' /\ ChildInv'
  BY SysExoforkInv DEF PrivateInv, ForkInv
<1>2. /\ c # e /\ status[c] = "FREE" /\ status'[c] = "NOT_RUNNABLE"
      /\ status[e] = "RUNNABLE" /\ status'[e] = "RUNNABLE"
      /\ ~Forking(e) /\ ~InHandler(e)' /\ cpu'[c].pc = "run"
      /\ cpu'[e].pc = "dup_child" /\ Eip(e)' = "dup_child"
      /\ Regs(e)' = [child |-> c, pn |-> 1]
      /\ \A x \in Env \ {e, c} : SameEnv(x)
      /\ map' = map /\ mem' = mem
  BY <1>1, SysExoforkStep
<1>3. At(e, "exofork") /\ Eip(e) = "exofork"
  BY DEF SysExofork, At, Eip, InHandler
<1>4. \A d \in Env : ~Making(e, d) /\ (Making(e, d)' <=> d = c)
  BY <1>2 DEF Making, Forking
<1>5. \A d \in Env : ~Making(c, d) /\ ~Making(c, d)'
  BY <1>2 DEF Making, Forking
<1>6. \A x \in Env \ {e, c} : SameProgram(x)
  BY <1>2, SameEnvProgram
<1>7. \A x \in Env \ {e, c}, d \in Env : Making(x, d)' = Making(x, d)
  BY <1>2, <1>6 DEF SameEnv, SameProgram, Making, Forking
<1>8. \A d \in Env : ~Making(d, c) /\ ~Making(d, e) /\ ~Making(d, e)'
  BY <1>1, <1>2 DEF ChildInv
<1>9. \A p \in Page : map[c][p] = None
  BY <1>1, <1>2, PageFacts DEF LocalInv, Local, Empty
<1>10. Whole'
  BY <1>1, <1>2, WholeKept DEF SameEnv
<1>11. Copied'
  <2> SUFFICES ASSUME NEW x \in Env, NEW d \in Env, Making(x, d)',
                      NEW n \in 1 .. LastPage, PageOrder[n] \in Page
               PROVE  map[d][PageOrder[n]] # None <=> n <= Turns(x)'
    BY <1>2 DEF Copied
  <2>1. CASE x = e
    <3>1. d = c /\ Turns(x)' = 0
      BY <1>2, <1>4, <2>1 DEF Turns
    <3>2. ~(n <= 0)
      BY OrderFacts
    <3>3. QED
      BY <1>9, <3>1, <3>2
  <2>2. CASE x # e
    <3>1. x # c
      BY <1>5
    <3>2. Making(x, d) /\ Turns(x)' = Turns(x)
      BY <1>6, <1>7, <2>2, <3>1, SameTurns
    <3>3. QED
      BY <1>1, <3>2 DEF Copied
  <2>3. QED
    BY <2>1, <2>2
<1>12. Filled'
  <2>1. ProgKept(e)
    BY <1>2 DEF ProgKept
  <2>2. \A x \in Env : status'[x] = "RUNNABLE" /\ cpu'[x].pc = "remap" => x = e \/ SameEnv(x)
    BY <1>2
  <2>3. QED
    BY <1>1, <1>2, <2>1, <2>2, FilledKept
<1>13. AllRight /\ AllRight'
  BY <1>1, Right, NextRight
<1>14. ASSUME NEW x \in Env \ {e, c}
       PROVE  TodoOf(x)' = TodoOf(x) /\ \A p \in Page : ValueOf(x, p)' = ValueOf(x, p)
  <2>1. \A d \in Env : Making(d, x)' = Making(d, x)
    BY <1>4, <1>5, <1>7, <1>14 DEF Making
  <2>2. \A d \in Env : Making(d, x) => SameEnv(d)
    BY <1>2, <1>4, <1>5
  <2>3. SameEnv(x) /\ ~Making(e, x)
    BY <1>2, <1>4
  <2>4. \A y \in Env \ {e}, p \in Page : map[y][p] # None =>
          mem'[map[y][p].frame].prog = mem[map[y][p].frame].prog
    BY <1>2
  <2>5. QED
    BY <1>1, <2>1, <2>2, <2>3, <2>4, OtherKept
<1>15. /\ Doing(e) /\ Doing(e)' /\ Doing(c) /\ Doing(c)'
       /\ \A p \in Page : Seeing(e, p) /\ Seeing(e, p)' /\ Seeing(c, p)'
  BY <1>13 DEF AllRight
<1>16. TodoOf(e) = [op |-> "fork"]
  BY <1>2, <1>3, <1>15 DEF Doing
<1>17. TodoOf(e)' = [op |-> "forked", child |-> c]
  BY <1>2, <1>15 DEF Doing, ForkPcs
<1>18. TodoOf(c) = None
  BY <1>2, <1>8, <1>15 DEF Doing, Asleep
<1>19. Making(e, c)' /\ Asleep(c)'
  BY <1>4 DEF Asleep
<1>20. TodoOf(c)' = [op |-> "asleep"]
  BY <1>15, <1>19 DEF Doing
<1>21. \A p \in Page : ValueOf(e, p)' = ValueOf(e, p) /\ ValueOf(e, p) = Content(e, p)
  BY <1>2, <1>15 DEF Seeing, Content
<1>22. \A p \in Page : ValueOf(c, p)' = ValueOf(e, p)
  BY <1>2, <1>9, <1>15, <1>19, <1>21 DEF Seeing, Content
<1>23. Private!Next
  BY <1>2, <1>14, <1>16, <1>17, <1>18, <1>20, <1>21, <1>22, PrivateFork
<1>24. QED
  BY <1>1, <1>10, <1>11, <1>12, <1>23 DEF PrivateInv

(* fork() returns: the child has all the pages by now.                     *)
LEMMA EndStartPrivate ==
  ASSUME PrivateInv, NEW e \in Env, NEW c \in Env, c = Child(e), EndStart(e)
  PROVE  PrivateInv' /\ Private!Next
<1>1. ForkInv /\ Types /\ LocalInv /\ ChildInv /\ Whole /\ Copied /\ Filled /\ ForkInv'
  BY EndStartInv DEF PrivateInv, ForkInv
<1>2. /\ \A x \in Env \ {e, c} : SameEnv(x)
      /\ c # e /\ Making(e, c) /\ Eip(e) = "end_start" /\ Regs(e) = cpu[e].regs
      /\ status[c] = "NOT_RUNNABLE" /\ cpu[c].pc = "run"
      /\ status[e] = "RUNNABLE" /\ status'[e] = "RUNNABLE" /\ status'[c] = "RUNNABLE"
      /\ cpu'[c] = cpu[c] /\ ~InHandler(e)' /\ cpu'[e].pc = "run" /\ ~Forking(e)'
      /\ map' = map /\ mem' = mem
  BY <1>1, EndStartStep
<1>3. \A d \in Env : ~Making(e, d)' /\ (Making(e, d) <=> d = c)
  BY <1>2 DEF Making, Forking
<1>4. Eip(e)' = "run" /\ Eip(c)' = "run"
  BY <1>2 DEF Eip, InHandler
<1>5. \A d \in Env : ~Making(c, d) /\ ~Making(c, d)'
  BY <1>2, <1>4 DEF Making, Forking
<1>6. \A x \in Env \ {e, c} : SameProgram(x)
  BY <1>2, SameEnvProgram
<1>7. \A x \in Env \ {e, c}, d \in Env : Making(x, d)' = Making(x, d)
  BY <1>2, <1>6 DEF SameEnv, SameProgram, Making, Forking
<1>8. \A p \in Page : map[c][p] # None
  <2>1. Turns(e) = LastPage
    <3>1. ~InHandler(e) /\ cpu[e].pc = "end_start"
      BY DEF EndStart, At, InHandler
    <3>2. cpu[e].regs.pn = LastPage
      BY <1>1, <1>2, <3>1, ProgramFacts DEF InProgram, RegsFit
    <3>3. QED
      BY <1>2, <3>2 DEF Turns
  <2>2. ASSUME NEW p \in Page PROVE map[c][p] # None
    <3>1. PICK n \in 1 .. LastPage : PageOrder[n] = p
      BY OrderOnce
    <3>2. n <= LastPage
      BY OrderFacts
    <3>3. QED
      BY <1>1, <1>2, <2>1, <3>1, <3>2 DEF Copied
  <2>3. QED
    BY <2>2
<1>9. Whole'
  <2>1. ASSUME NEW x \in Env, status'[x] = "RUNNABLE", NEW p \in Page PROVE map[x][p] # None
    BY <1>1, <1>2, <1>8, <2>1 DEF Whole, SameEnv
  <2>2. QED
    BY <1>2, <2>1 DEF Whole
<1>10. Copied'
  <2>1. ASSUME NEW x \in Env, NEW d \in Env, Making(x, d)'
        PROVE  Making(x, d) /\ Turns(x)' = Turns(x)
    <3>1. x # e /\ x # c
      BY <1>3, <1>5, <2>1
    <3>2. QED
      BY <1>6, <1>7, <2>1, <3>1, SameTurns
  <2>2. QED
    BY <1>1, <1>2, <2>1, CopiedKept
<1>11. Filled'
  <2>1. ProgKept(e)
    BY <1>2 DEF ProgKept
  <2>2. \A x \in Env : status'[x] = "RUNNABLE" /\ cpu'[x].pc = "remap" => x = e \/ SameEnv(x)
    BY <1>2
  <2>3. QED
    BY <1>1, <1>2, <2>1, <2>2, FilledKept
<1>12. AllRight /\ AllRight'
  BY <1>1, Right, NextRight
<1>13. ASSUME NEW x \in Env \ {e, c}
       PROVE  TodoOf(x)' = TodoOf(x) /\ \A p \in Page : ValueOf(x, p)' = ValueOf(x, p)
  <2>1. \A d \in Env : Making(d, x)' = Making(d, x)
    BY <1>3, <1>5, <1>7, <1>13 DEF Making
  <2>2. \A d \in Env : Making(d, x) => SameEnv(d)
    BY <1>2, <1>3, <1>5
  <2>3. SameEnv(x) /\ ~Making(e, x)
    BY <1>2, <1>3
  <2>4. \A y \in Env \ {e}, p \in Page : map[y][p] # None =>
          mem'[map[y][p].frame].prog = mem[map[y][p].frame].prog
    BY <1>2
  <2>5. QED
    BY <1>1, <2>1, <2>2, <2>3, <2>4, OtherKept
<1>14. /\ Doing(e) /\ Doing(e)' /\ Doing(c) /\ Doing(c)'
       /\ \A p \in Page : Seeing(e, p) /\ Seeing(e, p)' /\ Seeing(c, p) /\ Seeing(c, p)'
  BY <1>12 DEF AllRight
<1>15. TodoOf(e) = [op |-> "forked", child |-> c]
  <2>1. TodoOf(e) = [op |-> "forked", child |-> Regs(e).child]
    BY <1>2, <1>14 DEF Doing, ForkPcs
  <2>2. Regs(e).child = c
    BY <1>2 DEF Making
  <2>3. QED
    BY <2>1, <2>2
<1>16. TodoOf(e)' = [op |-> "run"] /\ TodoOf(c)' = [op |-> "run"]
  BY <1>2, <1>4, <1>14 DEF Doing
<1>17. TodoOf(c) # None
  BY <1>2, <1>14 DEF Doing, Asleep
<1>18. \A p \in Page : ValueOf(e, p)' = ValueOf(e, p)
  BY <1>2, <1>14 DEF Seeing, Content
<1>19. \A p \in Page : ValueOf(c, p)' = ValueOf(c, p)
  BY <1>2, <1>8, <1>14 DEF Seeing, Content
<1>20. Private!Next
  BY <1>2, <1>13, <1>15, <1>16, <1>17, <1>18, <1>19, PrivateReturn
<1>21. QED
  BY <1>1, <1>9, <1>10, <1>11, <1>20 DEF PrivateInv
-----------------------------------------------------------------------------
LEMMA StutterPrivate ==
  ASSUME PrivateInv, UNCHANGED vars
  PROVE  PrivateInv' /\ UNCHANGED Private!vars
<1>1. ForkInv /\ Whole /\ Copied /\ Filled /\ ForkInv'
  BY StutterInv DEF PrivateInv
<1>2. /\ status' = status /\ map' = map /\ cpu' = cpu /\ xstack' = xstack /\ mem' = mem
      /\ \A x \in Env : SameEnv(x)
  BY DEF vars, SameEnv
<1>3. \A x \in Env : SameProgram(x)
  BY <1>2, SameEnvProgram
<1>4. \A x, d \in Env : Making(x, d)' = Making(x, d)
  BY <1>2, <1>3 DEF SameProgram, Making, Forking
<1>5. \A x \in Env : Asleep(x)' = Asleep(x)
  BY <1>4 DEF Asleep
<1>6. \A x \in Env : TodoOf(x)' = TodoOf(x)
  BY <1>2, <1>3, <1>5, TodoKept
<1>7. Silent
  BY <1>2, <1>4, <1>6 DEF Silent, Content
<1>8. UNCHANGED Private!vars
  BY <1>1, <1>7, SilentValues
<1>9. Copied'
  BY <1>1, <1>2, <1>3, <1>4, SameTurns, CopiedKept
<1>10. Whole' /\ Filled'
  BY <1>1, <1>2 DEF Whole, Filled, Content, FaultPage, Utf
<1>11. QED
  BY <1>1, <1>8, <1>9, <1>10 DEF PrivateInv

LEMMA InitPrivate == Init => PrivateInv /\ Private!Init
<1> SUFFICES ASSUME Init PROVE PrivateInv /\ Private!Init
  OBVIOUS
<1>1. ForkInv /\ Types
  BY InitInv DEF ForkInv
<1>2. /\ status = [e \in Env |-> IF e = First THEN "RUNNABLE" ELSE "FREE"]
      /\ map = [e \in Env |-> [p \in Mapping |->
                 IF e = First /\ p \in Page
                 THEN [frame |-> Loaded[p], perm |-> IF p \in ReadOnly THEN {} ELSE {"W"}] ELSE None]]
      /\ mem = [f \in Frame |-> Zeroed]
      /\ cpu = [e \in Env |-> [pc |-> "run", esp |-> UserEsp, regs |-> None]]
  BY DEF Init
<1>3. \A e \in Env : cpu[e].pc = "run"
  BY <1>2
<1>4. \A e \in Env : Eip(e) = "run" /\ ~Forking(e)
  BY <1>3 DEF Eip, InHandler, Forking
<1>5. \A x, e \in Env : ~Making(x, e)
  BY <1>4 DEF Making
<1>6. \A p \in Page : map[First][p] # None
  <2>1. Loaded \in [Page -> Frame]
    <3>1. Placements(taken) # {}
      BY SizeAssumption DEF Init
    <3>2. QED
      BY <3>1 DEF Loaded, Placements
  <2>2. \A p \in Page : [frame |-> Loaded[p], perm |-> IF p \in ReadOnly THEN {} ELSE {"W"}] \in Pte
    BY <2>1 DEF Pte, Perm
  <2>3. First \in Env
    BY SizeAssumption
  <2>4. QED
    BY <1>2, <2>2, <2>3, PageFacts
<1>7. Whole
  BY <1>2, <1>6 DEF Whole
<1>8. PrivateInv
  BY <1>1, <1>3, <1>5, <1>7 DEF PrivateInv, Copied, Filled
<1>9. AllRight
  BY <1>1, Right
<1>10. ASSUME NEW e \in Env
       PROVE  /\ TodoOf(e) = IF e = First THEN [op |-> "run"] ELSE None
              /\ \A p \in Page : ValueOf(e, p) = Initial
  <2>1. Doing(e) /\ \A p \in Page : Seeing(e, p)
    BY <1>9 DEF AllRight
  <2>2. CASE e = First
    <3>1. status[e] = "RUNNABLE"
      BY <1>2, <2>2
    <3>2. TodoOf(e) = [op |-> "run"]
      BY <1>4, <2>1, <3>1 DEF Doing
    <3>3. \A p \in Page : ValueOf(e, p) = mem[map[e][p].frame].prog
      BY <2>1, <3>1 DEF Seeing, Content
    <3>4. \A p \in Page : map[e][p].frame \in Frame
      BY <1>1, <1>6, <2>2, PteTypes, PageFacts
    <3>5. \A f \in Frame : mem[f].prog = Initial
      BY <1>2 DEF Zeroed
    <3>6. QED
      BY <2>2, <3>2, <3>3, <3>4, <3>5
  <2>3. CASE e # First
    <3>1. status[e] # "RUNNABLE" /\ ~Asleep(e)
      BY <1>2, <1>5, <2>3 DEF Asleep
    <3>2. TodoOf(e) = None
      BY <2>1, <3>1 DEF Doing
    <3>3. QED
      BY <2>1, <2>3, <3>2 DEF Seeing
  <2>4. QED
    BY <2>2, <2>3
<1>11. Private!Init
  <2>1. [op |-> "run"] # None /\ First \in Env
    BY TodoTypes, SizeAssumption
  <2>2. {e \in Env : TodoOf(e) # None} = {First}
    BY <1>10, <2>1
  <2>3. [e \in Env |-> TodoOf(e)] = [e \in Env |-> IF e = First THEN [op |-> "run"] ELSE None]
    BY <1>10
  <2>4. [e \in Env |-> [p \in Page |-> ValueOf(e, p)]] = [e \in Env |-> [p \in Page |-> Initial]]
    <3>1. \A e \in Env : [p \in Page |-> ValueOf(e, p)] = [p \in Page |-> Initial]
      BY <1>10
    <3>2. QED
      BY <3>1
  <2>5. QED
    BY <2>2, <2>3, <2>4 DEF Private!Init, Private!Blank
<1>12. QED
  BY <1>8, <1>11

(* Every step of the kernel and the library is a step of the promise, or   *)
(* one that no program sees.                                               *)
LEMMA StepPrivate ==
  ASSUME PrivateInv, NEW e \in Env,
         \/ Step(e) \/ Exit(e)
         \/ \E write \in Writes : DecideToWrite(e, write)
         \/ SetPgfaultHandler(e) \/ SetPgfaultPanic(e)
  PROVE  PrivateInv' /\ [Private!Next]_(Private!vars)
<1>1. CASE PageFault(e)
  BY <1>1, PageFaultPrivate
<1>2. CASE \/ Exit(e) \/ PageFaultDestroys(e)
           \/ PftempPanic(e) \/ SetPgfaultPanic(e) \/ EndPanic(e)
  BY <1>2, EndsPrivate
<1>3. CASE PftempFirst(e) \/ PftempAgain(e)
  BY <1>3, PftempPrivate
<1>4. CASE Copy(e)
  BY <1>4, CopyPrivate
<1>5. CASE Remap(e)
  BY <1>5, RemapPrivate
<1>6. CASE PushEip(e)
  BY <1>6, PushEipPrivate
<1>7. CASE Restore(e)
  BY <1>7, RestorePrivate
<1>8. CASE \E write \in Writes : DecideToWrite(e, write)
  BY <1>8, DecidePrivate
<1>9. CASE ProgramStore(e)
  BY <1>9, StorePrivate
<1>10. CASE SetPgfaultHandler(e)
  BY <1>10, SetHandlerPrivate
<1>11. CASE StoreHandler(e)
  BY <1>11, StoreHandlerPrivate
<1>12. CASE \E c \in Env : SysExofork(e, c)
  BY <1>12, SysExoforkPrivate
<1>13. ASSUME NEW pc \in ForkPcs, At(e, pc) PROVE Child(e) \in Env
  BY <1>13, LoopFacts DEF PrivateInv, ForkInv
<1>14. CASE DupNothing(e) \/ EndAlloc(e) \/ EndUpcall(e)
  <2>1. Child(e) \in Env
    BY <1>13, <1>14 DEF DupNothing, EndAlloc, EndUpcall, Calls, ForkPcs
  <2>2. PICK c \in Env : c = Child(e)
    BY <2>1
  <2>3. QED
    BY <1>14, <2>2, DupNothingPrivate, EndPrivate
<1>15. CASE DupReadOnly(e) \/ DupChild(e) \/ DupOwn(e)
  <2>1. Child(e) \in Env
    BY <1>13, <1>15 DEF DupReadOnly, DupChild, DupOwn, Calls, ForkPcs
  <2>2. PICK c \in Env : c = Child(e)
    BY <2>1
  <2>3. QED
    BY <1>15, <2>2, DupPrivate
<1>16. CASE EndStart(e)
  <2>1. Child(e) \in Env
    BY <1>13, <1>16 DEF EndStart, ForkPcs
  <2>2. PICK c \in Env : c = Child(e)
    BY <2>1
  <2>3. QED
    BY <1>16, <2>2, EndStartPrivate
<1>17. QED
  BY <1>1, <1>2, <1>3, <1>4, <1>5, <1>6, <1>7, <1>8, <1>9, <1>10, <1>11, <1>12, <1>14, <1>15, <1>16
  DEF Step, Handler, ForkStep

LEMMA NextPrivate ==
  ASSUME PrivateInv, [Next]_vars
  PROVE  PrivateInv' /\ [Private!Next]_(Private!vars)
<1>1. CASE Next
  BY <1>1, StepPrivate DEF Next
<1>2. CASE UNCHANGED vars
  BY <1>2, StutterPrivate
<1>3. QED
  BY <1>1, <1>2
-----------------------------------------------------------------------------
(* fork(), the copy-on-write handler and pfentry.S together give every     *)
(* environment a memory of its own: whatever the order of their steps, the *)
(* child starts with what its parent saw at the fork, and nobody sees      *)
(* another's writes.                                                       *)
THEOREM KeepsMemoryPrivate == Spec => ImplementsPrivateMemory
<1>1. Init => PrivateInv /\ Private!Init
  BY InitPrivate
<1>2. PrivateInv /\ [Next]_vars => PrivateInv' /\ [Private!Next]_(Private!vars)
  BY NextPrivate
<1>3. QED
  BY <1>1, <1>2, PTL DEF Spec, ImplementsPrivateMemory
=============================================================================
