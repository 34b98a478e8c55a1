----------------------------- MODULE ForkProofs -----------------------------
(***************************************************************************)
(* Copy-on-write fork for any number of environments, pages and programs:  *)
(* the page tables that fork() and the handler build, and the frames that  *)
(* page_fault_handler() and pfentry.S keep on the exception stack.         *)
(***************************************************************************)
EXTENDS Fork, TLAPS

SecondFrame == FirstFrame - 1 - UTF

ProgramPcs == {"run", "store", "set_handler", "exofork",
               "dup_child", "dup_own", "end_alloc", "end_upcall", "end_start"}
HandlerPcs == {"pftemp", "pftemp_again", "copy", "remap", "push_eip", "restore"}
ForkPcs    == {"dup_child", "dup_own", "end_alloc", "end_upcall", "end_start"}
Pcs        == ProgramPcs \cup HandlerPcs

ForkRegs == [child : Env, pn : 1 .. LastPage]
Regsets  == Writes \cup ForkRegs \cup {None}
Cpu      == [pc : Pcs, esp : 0 .. UserEsp, regs : Regsets]
Words    == 0 .. XWORDS - 1

(* The instructions of the program that may fault, and where they store.   *)
Storing == {"store", "set_handler", "dup_child", "end_alloc"}
Target(pc, regs) == IF pc = "store" THEN regs.page
                    ELSE IF pc = "set_handler" THEN Data ELSE Stack

RegsFit(pc, regs) ==
  /\ pc = "store" => regs \in Writes
  /\ pc \in ForkPcs => regs \in ForkRegs
  /\ pc \in {"end_alloc", "end_upcall", "end_start"} => regs.pn = LastPage
-----------------------------------------------------------------------------
(* The values of the variables.                                            *)
Types ==
  /\ status \in [Env -> {"FREE", "NOT_RUNNABLE", "RUNNABLE", "PANIC"}]
  /\ map \in [Env -> [Mapping -> Pte \cup {None}]]
  /\ upcall \in [Env -> BOOLEAN]
  /\ cpu \in [Env -> Cpu]
  /\ xstack = [e \in Env |-> [a \in Words |-> xstack[e][a]]]
  /\ mem \in [Frame -> [prog : Val, lib : Lib]]
  /\ taken \in Taken /\ forks \in 0 .. MaxForks

Idle(e) == cpu[e] = [pc |-> "run", esp |-> UserEsp, regs |-> None]
Empty(e) == \A p \in Mapping : map[e][p] = None

(* The frame of the program's fault, on top of the exception stack: the    *)
(* store that faulted and where.                                           *)
Saved(e, field) == xstack[e][FirstFrame + field]
ProgramFrame(e) ==
  /\ Saved(e, utf_eip) \in Storing
  /\ RegsFit(Saved(e, utf_eip), Saved(e, utf_regs))
  /\ Saved(e, utf_regs) \in Regsets
  /\ Saved(e, utf_fault_va) = Target(Saved(e, utf_eip), Saved(e, utf_regs))
  /\ Saved(e, utf_fault_va) \in Page

(* What the code of pgfault() and of _pgfault_upcall has done up to pc.    *)
Repaired(e, p) == cpu[e].pc \in {"push_eip", "restore"} => Writable(e, p)
Prepared(e, p) == cpu[e].pc \in {"pftemp_again", "copy", "remap"} => map[e][p] # None

(* In the handler of the program's fault: the eip goes on the stack.       *)
FirstLevel(e) ==
  /\ cpu[e].esp = FirstFrame
  /\ Saved(e, utf_esp) = IF cpu[e].pc = "restore" THEN UserEsp - 1 ELSE UserEsp
  /\ Repaired(e, Saved(e, utf_fault_va)) /\ Prepared(e, Saved(e, utf_fault_va))
  /\ cpu[e].pc = "restore" => Writable(e, Stack)

(* In the handler of the fault of push_eip, below it: the stack is the one *)
(* that was not writable, and the eip goes on the word of scratch.         *)
Nested(e, field) == xstack[e][SecondFrame + field]
SecondLevel(e) ==
  /\ cpu[e].esp = SecondFrame
  /\ Saved(e, utf_esp) = UserEsp /\ Writable(e, Saved(e, utf_fault_va))
  /\ Nested(e, utf_fault_va) = Stack /\ Nested(e, utf_eip) = "push_eip"
  /\ Nested(e, utf_regs) = None
  /\ IF cpu[e].pc = "restore"
     THEN Nested(e, utf_esp) = FirstFrame - 1 /\ xstack[e][FirstFrame - 1] = "push_eip"
     ELSE Nested(e, utf_esp) = FirstFrame
  /\ Repaired(e, Stack) /\ Prepared(e, Stack)

(* An environment that runs, by itself.                                    *)
InProgram(e) ==
  /\ cpu[e].esp = UserEsp
  /\ RegsFit(cpu[e].pc, cpu[e].regs)
  /\ cpu[e].pc = "dup_own" => Writable(e, Stack) /\ map[e][Pn(e)] # None

Handling(e) ==
  /\ upcall[e] /\ cpu[e].regs = None
  /\ ProgramFrame(e)
  /\ FirstLevel(e) \/ SecondLevel(e)

Runs(e) == IF InHandler(e) THEN Handling(e) ELSE InProgram(e)

Local(e) ==
  /\ status[e] = "RUNNABLE" => Runs(e)
  /\ status[e] \in {"FREE", "NOT_RUNNABLE"} => Idle(e)
  /\ status[e] = "FREE" => Empty(e)
  /\ upcall[e] => Writable(e, XStack)

LocalInv == \A e \in Env : Local(e)

(* A child under way is asleep, and has one parent.                        *)
ChildInv ==
  /\ \A e, c \in Env : Making(e, c) => status[c] = "NOT_RUNNABLE"
  /\ \A e, d, c \in Env : Making(e, c) /\ Making(d, c) => e = d
  /\ \A e \in Env : status[e] = "RUNNABLE" /\ cpu[e].pc = "end_upcall"
                       => Writable(Child(e), XStack)

(* A physical page is at one address of the programs', and PFTEMP has one  *)
(* of its own until the handler moves it to where the fault was.           *)
OneAddress ==
  \A e, c \in Env, p, q \in Page :
    map[e][p] # None /\ map[c][q] # None /\ map[e][p].frame = map[c][q].frame => p = q

PftempOwn ==
  \A e \in Env : status[e] = "RUNNABLE" /\ cpu[e].pc \in {"copy", "remap"} =>
    /\ Writable(e, PFTEMP)
    /\ \A c \in Env, q \in Mapping :
         map[c][q] # None /\ map[c][q].frame = map[e][PFTEMP].frame => c = e /\ q = PFTEMP

(* The eip that ret will take from the program's stack is still there.     *)
EipPushed ==
  \A e \in Env :
    status[e] = "RUNNABLE" /\ cpu[e].pc = "restore" /\ cpu[e].esp = FirstFrame
      => mem[map[e][Stack].frame].lib = Saved(e, utf_eip)

ForkInv ==
  /\ Types /\ LocalInv /\ ChildInv
  /\ OneAddress /\ SharedPagesProtected /\ PftempOwn /\ EipPushed
-----------------------------------------------------------------------------
(* What the assumptions say of the pages and their order.                  *)
LEMMA PageFacts ==
  /\ Data \in Page /\ Stack \in Page /\ Data # Stack
  /\ Page \subseteq Mapping /\ PFTEMP \in Mapping /\ XStack \in Mapping
  /\ PFTEMP \notin Page /\ XStack \notin Page /\ PFTEMP # XStack
  /\ None \notin Mapping /\ None \notin Pte
BY PageAssumption, NullAssumption DEF Mapping

LEMMA OrderFacts ==
  /\ LastPage \in Nat /\ LastPage >= 1
  /\ \A n \in 1 .. LastPage : PageOrder[n] \in Mapping /\ PageOrder[n] # XStack
<1> DEFINE All == Page \cup {PFTEMP, XStack}
<1>1. PageOrder \in Seq(All) /\ Len(PageOrder) \in Nat /\ DOMAIN PageOrder = 1 .. Len(PageOrder)
  BY PageAssumption
<1>2. PICK i \in 1 .. Len(PageOrder) : PageOrder[i] = PFTEMP
  BY <1>1, PageAssumption
<1>3. PICK j \in 1 .. Len(PageOrder) : PageOrder[j] = XStack
  BY <1>1, PageAssumption
<1>4. i # j
  BY <1>2, <1>3, PageFacts
<1>5. LastPage \in Nat /\ LastPage >= 1 /\ LastPage + 1 = Len(PageOrder)
  BY <1>1, <1>2, <1>3, <1>4 DEF LastPage
<1>6. ASSUME NEW n \in 1 .. LastPage PROVE PageOrder[n] \in Mapping /\ PageOrder[n] # XStack
  <2>0. n \in Int /\ 1 <= n /\ n <= LastPage
    BY <1>5
  <2>1. n \in 1 .. Len(PageOrder)
    BY <1>1, <1>5, <2>0
  <2>5. Len(PageOrder) \in 1 .. Len(PageOrder)
    BY <1>1, <1>5
  <2>6. n # Len(PageOrder)
    BY <1>5, <2>0
  <2>2. PageOrder[n] \in All
    BY <1>1, <2>1
  <2>3. PageOrder[n] # PageOrder[Len(PageOrder)]
    BY <1>1, <2>1, <2>5, <2>6, PageAssumption
  <2>4. QED
    BY <2>2, <2>3, PageAssumption DEF Mapping
<1>7. QED
  BY <1>5, <1>6

(* The next instruction of e, with the stack pointer left alone.           *)
LEMMA ContinueOf ==
  ASSUME Types, NEW e \in Env, NEW pc \in Pcs, NEW regs \in Regsets, Continue(e, pc, regs)
  PROVE  /\ cpu' \in [Env -> Cpu]
         /\ cpu'[e] = [pc |-> pc, esp |-> cpu[e].esp, regs |-> regs]
         /\ \A x \in Env \ {e} : cpu'[x] = cpu[x]
BY DEF Types, Continue, Cpu

LEMMA JumpOf ==
  ASSUME Types, NEW e \in Env, NEW pc \in Pcs, Jump(e, pc)
  PROVE  /\ cpu' \in [Env -> Cpu]
         /\ cpu'[e] = [pc |-> pc, esp |-> cpu[e].esp, regs |-> cpu[e].regs]
         /\ \A x \in Env \ {e} : cpu'[x] = cpu[x]
<1>1. cpu[e].regs \in Regsets
  BY DEF Types, Cpu
<1>2. QED
  BY <1>1, ContinueOf DEF Jump

LEMMA JumpPc ==
  ASSUME Types, NEW e \in Env, NEW pc, Jump(e, pc)
  PROVE  cpu'[e].pc = pc /\ \A x \in Env \ {e} : cpu'[x] = cpu[x]
BY DEF Types, Jump, Continue

(* The loop of fork() stays on the pages below the exception stack.        *)
LEMMA NextPageOf ==
  ASSUME Types, NEW e \in Env, cpu[e].regs \in ForkRegs, NextPage(e)
  PROVE  /\ cpu' \in [Env -> Cpu]
         /\ cpu'[e].esp = cpu[e].esp /\ cpu'[e].regs \in ForkRegs
         /\ cpu'[e].regs.child = cpu[e].regs.child
         /\ \/ /\ cpu'[e].pc = "end_alloc" /\ cpu'[e].regs = cpu[e].regs
               /\ cpu'[e].regs.pn = LastPage
            \/ /\ cpu'[e].pc = "dup_child" /\ cpu'[e].regs.pn = cpu[e].regs.pn + 1
         /\ \A x \in Env \ {e} : cpu'[x] = cpu[x]
<1>1. CASE cpu[e].regs.pn = LastPage
  <2>1. Jump(e, "end_alloc") /\ "end_alloc" \in Pcs
    BY <1>1 DEF NextPage, Pcs, ProgramPcs
  <2>2. /\ cpu' \in [Env -> Cpu]
        /\ cpu'[e] = [pc |-> "end_alloc", esp |-> cpu[e].esp, regs |-> cpu[e].regs]
        /\ \A x \in Env \ {e} : cpu'[x] = cpu[x]
    BY <2>1, JumpOf
  <2>3. QED
    BY <1>1, <2>2
<1>2. CASE cpu[e].regs.pn # LastPage
  <2> DEFINE next == [child |-> cpu[e].regs.child, pn |-> cpu[e].regs.pn + 1]
  <2>1. cpu[e].regs.pn + 1 \in 1 .. LastPage
    BY <1>2, OrderFacts DEF ForkRegs
  <2>2. next \in ForkRegs /\ next \in Regsets
    BY <2>1 DEF ForkRegs, Regsets
  <2>3. Continue(e, "dup_child", next) /\ "dup_child" \in Pcs
    BY <1>2 DEF NextPage, Child, Pcs, ProgramPcs
  <2>4. /\ cpu' \in [Env -> Cpu]
        /\ cpu'[e] = [pc |-> "dup_child", esp |-> cpu[e].esp, regs |-> next]
        /\ \A x \in Env \ {e} : cpu'[x] = cpu[x]
    BY <2>2, <2>3, ContinueOf
  <2>5. QED
    BY <2>2, <2>4
<1>3. QED
  BY <1>1, <1>2
-----------------------------------------------------------------------------
LEMMA PteTypes ==
  ASSUME Types, NEW e \in Env, NEW p \in Mapping
  PROVE  /\ map[e][p] \in Pte \cup {None}
         /\ map[e][p] # None => map[e][p].frame \in Frame /\ map[e][p].perm \subseteq Perm
BY DEF Types, Pte

LEMMA NewFrameFacts ==
  ASSUME HasFree
  PROVE  /\ NewFrame \in Frame /\ NewFrame \notin taken
         /\ \A e \in Env, p \in Mapping : map[e][p] # None => map[e][p].frame # NewFrame
<1>1. NewFrame \in Free
  BY DEF HasFree, NewFrame
<1>2. NewFrame \in Frame /\ NewFrame \notin Used /\ NewFrame \notin taken
  BY <1>1 DEF Free
<1>3. QED
  BY <1>2 DEF Used

(* One entry of one page table.                                            *)
LEMMA MapChange ==
  ASSUME Types, NEW e \in Env, NEW p \in Mapping, NEW pte \in Pte \cup {None},
         map' = [map EXCEPT ![e][p] = pte]
  PROVE  /\ map' \in [Env -> [Mapping -> Pte \cup {None}]]
         /\ map'[e][p] = pte
         /\ \A q \in Mapping \ {p} : map'[e][q] = map[e][q]
         /\ \A x \in Env \ {e} : map'[x] = map[x]
<1> DEFINE S == Pte \cup {None}
<1>1. map \in [Env -> [Mapping -> S]] /\ pte \in S
  BY DEF Types
<1> HIDE DEF S
<1>2. map' = [map EXCEPT ![e] = [map[e] EXCEPT ![p] = pte]]
  OBVIOUS
<1>3. [map[e] EXCEPT ![p] = pte] \in [Mapping -> S]
  BY <1>1
<1>4. map' \in [Env -> [Mapping -> S]] /\ map'[e] = [map[e] EXCEPT ![p] = pte]
      /\ \A x \in Env \ {e} : map'[x] = map[x]
  BY <1>1, <1>2, <1>3
<1>5. QED
  BY <1>1, <1>4 DEF S

LEMMA AllocateOf ==
  ASSUME Types, NEW e \in Env, NEW p \in Mapping, HasFree, Allocate(e, p)
  PROVE  /\ map' \in [Env -> [Mapping -> Pte \cup {None}]]
         /\ map'[e][p] = [frame |-> NewFrame, perm |-> {"W"}]
         /\ map'[e][p] # None
         /\ \A q \in Mapping \ {p} : map'[e][q] = map[e][q]
         /\ \A x \in Env \ {e} : map'[x] = map[x]
<1> DEFINE pte == [frame |-> NewFrame, perm |-> {"W"}]
<1>1. pte \in Pte /\ pte # None
  BY NewFrameFacts, PageFacts DEF Pte, Perm
<1>2. map' = [map EXCEPT ![e][p] = pte]
  BY DEF Allocate
<1> HIDE DEF pte
<1>3. map' \in [Env -> [Mapping -> Pte \cup {None}]] /\ map'[e][p] = pte
      /\ (\A q \in Mapping \ {p} : map'[e][q] = map[e][q])
      /\ \A x \in Env \ {e} : map'[x] = map[x]
  BY <1>1, <1>2, MapChange
<1>4. QED
  BY <1>1, <1>3 DEF pte

LEMMA SysPageMapOf ==
  ASSUME Types, NEW src \in Env, NEW srcp \in Mapping, NEW dst \in Env, NEW dstp \in Mapping,
         NEW perm \in SUBSET Perm, map[src][srcp] # None, SysPageMap(src, srcp, dst, dstp, perm)
  PROVE  /\ map' \in [Env -> [Mapping -> Pte \cup {None}]]
         /\ map'[dst][dstp] = [frame |-> map[src][srcp].frame, perm |-> perm]
         /\ map'[dst][dstp] # None
         /\ \A q \in Mapping \ {dstp} : map'[dst][q] = map[dst][q]
         /\ \A x \in Env \ {dst} : map'[x] = map[x]
<1> DEFINE pte == [frame |-> map[src][srcp].frame, perm |-> perm]
<1>1. pte \in Pte /\ pte # None
  BY PteTypes, PageFacts DEF Pte
<1>2. map' = [map EXCEPT ![dst][dstp] = pte]
  BY DEF SysPageMap
<1> HIDE DEF pte
<1>3. map' \in [Env -> [Mapping -> Pte \cup {None}]] /\ map'[dst][dstp] = pte
      /\ (\A q \in Mapping \ {dstp} : map'[dst][q] = map[dst][q])
      /\ \A x \in Env \ {dst} : map'[x] = map[x]
  BY <1>1, <1>2, MapChange
<1>4. QED
  BY <1>1, <1>3 DEF pte

(* A word of the library in a page, a value of the program, a fresh page.  *)
LEMMA MemChange ==
  ASSUME Types, NEW f \in Frame, NEW page \in [prog : Val, lib : Lib], mem' = [mem EXCEPT ![f] = page]
  PROVE  mem' \in [Frame -> [prog : Val, lib : Lib]] /\ mem'[f] = page
         /\ \A g \in Frame \ {f} : mem'[g] = mem[g]
BY DEF Types

LEMMA LibChange ==
  ASSUME NEW m \in [Frame -> [prog : Val, lib : Lib]], NEW f \in Frame, NEW w \in Lib
  PROVE  /\ [m EXCEPT ![f].lib = w] \in [Frame -> [prog : Val, lib : Lib]]
         /\ [m EXCEPT ![f].lib = w][f].lib = w
         /\ [m EXCEPT ![f].lib = w][f].prog = m[f].prog
         /\ \A g \in Frame \ {f} : [m EXCEPT ![f].lib = w][g] = m[g]
OBVIOUS

LEMMA ProgChange ==
  ASSUME NEW m \in [Frame -> [prog : Val, lib : Lib]], NEW f \in Frame, NEW v \in Val
  PROVE  /\ [m EXCEPT ![f].prog = v] \in [Frame -> [prog : Val, lib : Lib]]
         /\ [m EXCEPT ![f].prog = v][f].prog = v
         /\ \A g \in Frame : [m EXCEPT ![f].prog = v][g].lib = m[g].lib
         /\ \A g \in Frame \ {f} : [m EXCEPT ![f].prog = v][g] = m[g]
OBVIOUS

LEMMA ZeroOf ==
  ASSUME HasFree, NEW m \in [Frame -> [prog : Val, lib : Lib]]
  PROVE  /\ Zero(m) \in [Frame -> [prog : Val, lib : Lib]]
         /\ Zero(m)[NewFrame] = Zeroed
         /\ \A g \in Frame \ {NewFrame} : Zero(m)[g] = m[g]
<1>1. Zeroed \in [prog : Val, lib : Lib]
  BY SizeAssumption DEF Zeroed, Lib
<1>2. NewFrame \in Frame
  BY NewFrameFacts
<1>3. QED
  BY <1>1, <1>2 DEF Zero
-----------------------------------------------------------------------------
(* The frames on the exception stack do not overlap, and between them is   *)
(* the word of scratch.                                                    *)
Fields == {utf_fault_va, utf_regs, utf_eip, utf_esp}

LEMMA FrameWords ==
  /\ \A f \in Fields : FirstFrame + f \in Words /\ SecondFrame + f \in Words
  /\ \A f, g \in Fields : f # g => FirstFrame + f # FirstFrame + g /\ SecondFrame + f # SecondFrame + g
  /\ \A f, g \in Fields : FirstFrame + f # SecondFrame + g
  /\ FirstFrame - 1 \in Words
  /\ \A f \in Fields : FirstFrame - 1 # FirstFrame + f /\ FirstFrame - 1 # SecondFrame + f
  /\ utf_fault_va # utf_regs /\ utf_fault_va # utf_eip /\ utf_fault_va # utf_esp
  /\ utf_regs # utf_eip /\ utf_regs # utf_esp /\ utf_eip # utf_esp
BY RoomAssumption, SizeAssumption
   DEF Fields, Words, FirstFrame, SecondFrame, UXSTACKTOP, UTF,
       utf_fault_va, utf_regs, utf_eip, utf_esp

LEMMA StackWords ==
  /\ FirstFrame \in 0 .. UserEsp /\ SecondFrame \in 0 .. UserEsp
  /\ UserEsp \in 0 .. UserEsp /\ FirstFrame \in 0 .. UserEsp
  /\ FirstFrame # SecondFrame /\ FirstFrame # UserEsp /\ SecondFrame # UserEsp
  /\ FrameTop(UserEsp) - UTF = FirstFrame /\ FrameTop(FirstFrame) - UTF = SecondFrame
  /\ FrameTop(UserEsp) - UTF >= 0 /\ FrameTop(FirstFrame) - UTF >= 0
  /\ PageOf(UserEsp - 1) = Stack /\ PageOf(FirstFrame - 1) = XStack
  /\ UserEsp - 1 + 1 = UserEsp /\ FirstFrame - 1 + 1 = FirstFrame
BY RoomAssumption, SizeAssumption
   DEF FirstFrame, SecondFrame, UXSTACKTOP, UTF, UserEsp, FrameTop, OnXStack, PageOf

LEMMA XStackTypes ==
  ASSUME Types, NEW e \in Env
  PROVE  xstack[e] = [a \in Words |-> xstack[e][a]]
BY DEF Types

(* One exception stack.                                                    *)
LEMMA XStackChange ==
  ASSUME Types, NEW e \in Env, NEW s, s = [a \in Words |-> s[a]], xstack' = [xstack EXCEPT ![e] = s]
  PROVE  /\ xstack' = [x \in Env |-> [a \in Words |-> xstack'[x][a]]]
         /\ xstack'[e] = s
         /\ \A x \in Env \ {e} : xstack'[x] = xstack[x]
<1>1. xstack = [x \in Env |-> [a \in Words |-> xstack[x][a]]]
  BY DEF Types
<1>2. DOMAIN xstack = Env
  BY <1>1
<1>3. xstack'[e] = s /\ (\A x \in Env \ {e} : xstack'[x] = xstack[x]) /\ DOMAIN xstack' = Env
      /\ xstack' = [x \in Env |-> xstack'[x]]
  BY <1>1, <1>2
<1>4. ASSUME NEW x \in Env PROVE xstack'[x] = [a \in Words |-> xstack'[x][a]]
  <2>1. CASE x = e
    BY <1>3, <2>1
  <2>2. CASE x # e
    <3>1. xstack'[x] = xstack[x]
      BY <1>3, <2>2
    <3>2. QED
      BY <3>1, XStackTypes
  <2>3. QED
    BY <2>1, <2>2
<1>5. [x \in Env |-> xstack'[x]] = [x \in Env |-> [a \in Words |-> xstack'[x][a]]]
  BY <1>4
<1>6. QED
  BY <1>3, <1>5

(* The frame that page_fault_handler() puts at base.                       *)
Put(s, base, va, regs, eip, esp) ==
  [s EXCEPT ![base + utf_fault_va] = va, ![base + utf_regs] = regs,
            ![base + utf_eip] = eip, ![base + utf_esp] = esp]

LEMMA FramePut ==
  ASSUME NEW s, s = [a \in Words |-> s[a]], NEW base \in {FirstFrame, SecondFrame},
         NEW va, NEW regs, NEW eip, NEW esp, NEW t, t = Put(s, base, va, regs, eip, esp)
  PROVE  /\ t = [a \in Words |-> t[a]]
         /\ t[base + utf_fault_va] = va /\ t[base + utf_regs] = regs
         /\ t[base + utf_eip] = eip /\ t[base + utf_esp] = esp
         /\ \A a \in Words : (\A f \in Fields : a # base + f) => t[a] = s[a]
<1> DEFINE w0 == base + utf_fault_va
           w1 == base + utf_regs
           w2 == base + utf_eip
           w3 == base + utf_esp
<1>1. /\ w0 \in Words /\ w1 \in Words /\ w2 \in Words /\ w3 \in Words
      /\ w0 # w1 /\ w0 # w2 /\ w0 # w3 /\ w1 # w2 /\ w1 # w3 /\ w2 # w3
  BY FrameWords DEF Fields
<1>2. t = [s EXCEPT ![w0] = va, ![w1] = regs, ![w2] = eip, ![w3] = esp]
  BY DEF Put
<1>3. \A a : (\A f \in Fields : a # base + f) => a # w0 /\ a # w1 /\ a # w2 /\ a # w3
  BY DEF Fields
<1> HIDE DEF w0, w1, w2, w3
<1>4. /\ t = [a \in Words |-> t[a]]
      /\ t[w0] = va /\ t[w1] = regs /\ t[w2] = eip /\ t[w3] = esp
      /\ \A a \in Words : a # w0 /\ a # w1 /\ a # w2 /\ a # w3 => t[a] = s[a]
  BY <1>1, <1>2
<1>5. QED
  BY <1>3, <1>4 DEF w0, w1, w2, w3
-----------------------------------------------------------------------------
(* An environment that a step leaves alone.                                *)
SameEnv(x) ==
  /\ status'[x] = status[x] /\ map'[x] = map[x] /\ upcall'[x] = upcall[x]
  /\ cpu'[x] = cpu[x] /\ xstack'[x] = xstack[x]
SameProgram(x) == Eip(x)' = Eip(x) /\ Regs(x)' = Regs(x)

LEMMA SameLocal ==
  ASSUME NEW x \in Env, SameEnv(x)
  PROVE  Local(x) => Local(x)'
<1>1. \A p : Writable(x, p)' = Writable(x, p)
  BY DEF SameEnv, Writable
<1>2. \A f : Saved(x, f)' = Saved(x, f) /\ Nested(x, f)' = Nested(x, f)
  BY DEF SameEnv, Saved, Nested
<1>3. Idle(x)' = Idle(x) /\ Empty(x)' = Empty(x) /\ Pn(x)' = Pn(x) /\ InHandler(x)' = InHandler(x)
  BY DEF SameEnv, Idle, Empty, Pn, InHandler
<1>4. InProgram(x) => InProgram(x)'
  BY <1>1, <1>3 DEF SameEnv, InProgram
<1>5. \A p : (Repaired(x, p) => Repaired(x, p)') /\ (Prepared(x, p) => Prepared(x, p)')
  BY <1>1 DEF SameEnv, Repaired, Prepared
<1>6. ProgramFrame(x) => ProgramFrame(x)'
  BY <1>2 DEF ProgramFrame
<1>7. FirstLevel(x) => FirstLevel(x)'
  BY <1>1, <1>2, <1>5 DEF SameEnv, FirstLevel
<1>8. SecondLevel(x) => SecondLevel(x)'
  BY <1>1, <1>2, <1>5 DEF SameEnv, SecondLevel
<1>9. Runs(x) => Runs(x)'
  BY <1>3, <1>4, <1>6, <1>7, <1>8 DEF SameEnv, Runs, Handling
<1>10. QED
  BY <1>1, <1>3, <1>9 DEF Local, SameEnv

LEMMA SameEnvProgram ==
  ASSUME NEW x \in Env, SameEnv(x)
  PROVE  SameProgram(x)
BY DEF SameEnv, SameProgram, Eip, Regs, InHandler

LEMMA ProgramFacts ==
  ASSUME Types, LocalInv, NEW e \in Env, status[e] = "RUNNABLE", ~InHandler(e)
  PROVE  InProgram(e) /\ cpu[e] \in Cpu /\ cpu[e].pc \in ProgramPcs
BY DEF Types, LocalInv, Local, Runs, InHandler, Cpu, Pcs, HandlerPcs

LEMMA HandlerFacts ==
  ASSUME Types, LocalInv, NEW e \in Env, status[e] = "RUNNABLE", InHandler(e)
  PROVE  /\ Handling(e) /\ cpu[e] \in Cpu /\ upcall[e] /\ Writable(e, XStack)
         /\ FaultPage(e) \in Page
         /\ Repaired(e, FaultPage(e)) /\ Prepared(e, FaultPage(e))
         /\ FirstLevel(e) => \A f : Utf(e, f) = Saved(e, f)
         /\ SecondLevel(e) => \A f : Utf(e, f) = Nested(e, f)
<1>1. Handling(e) /\ cpu[e] \in Cpu /\ upcall[e] /\ Writable(e, XStack)
  BY DEF Types, LocalInv, Local, Runs, Handling
<1>2. FirstLevel(e) => \A f : Utf(e, f) = Saved(e, f)
  BY DEF FirstLevel, Utf, Saved
<1>3. SecondLevel(e) => \A f : Utf(e, f) = Nested(e, f)
  BY DEF SecondLevel, Utf, Nested
<1>4. CASE FirstLevel(e)
  BY <1>1, <1>2, <1>3, <1>4 DEF FirstLevel, FaultPage, Handling, ProgramFrame
<1>5. CASE SecondLevel(e)
  BY <1>1, <1>2, <1>3, <1>5, PageFacts DEF SecondLevel, FaultPage, Handling
<1>6. QED
  BY <1>1, <1>4, <1>5 DEF Handling

LEMMA PageFaultStep ==
  ASSUME Types, LocalInv, NEW e \in Env, PageFault(e)
  PROVE  Types' /\ Local(e)' /\ SameProgram(e) /\ \A x \in Env \ {e} : SameEnv(x)
<1> DEFINE base == FrameTop(cpu[e].esp) - UTF
           put  == Put(xstack[e], base, StoresTo(e), cpu[e].regs, cpu[e].pc, cpu[e].esp)
           start == [pc |-> "pftemp", esp |-> base, regs |-> None]
<1>1. /\ status[e] = "RUNNABLE" /\ StoresTo(e) # None /\ ~Writable(e, StoresTo(e)) /\ upcall[e]
      /\ xstack' = [xstack EXCEPT ![e] = put] /\ cpu' = [cpu EXCEPT ![e] = start]
      /\ UNCHANGED <<status, map, upcall, mem, taken, forks>>
  BY DEF PageFault, Faults, Put
<1>2. cpu[e] \in Cpu /\ xstack[e] = [a \in Words |-> xstack[e][a]]
  BY XStackTypes DEF Types
<1>3. \/ /\ ~InHandler(e) /\ cpu[e].esp = UserEsp /\ cpu[e].pc \in Storing
         /\ RegsFit(cpu[e].pc, cpu[e].regs) /\ StoresTo(e) = Target(cpu[e].pc, cpu[e].regs)
      \/ /\ cpu[e].pc = "push_eip" /\ Handling(e) /\ FirstLevel(e) /\ StoresTo(e) = Stack
         /\ cpu[e].esp = FirstFrame
  <2>1. CASE ~InHandler(e)
    <3>1. InProgram(e) /\ cpu[e].pc \in ProgramPcs
      BY <1>1, <2>1, ProgramFacts
    <3>2. cpu[e].pc # "dup_own"
      BY <1>1, <3>1 DEF InProgram, StoresTo
    <3>3. cpu[e].pc \in Storing
      BY <1>1, <3>1, <3>2 DEF StoresTo, Storing, ProgramPcs
    <3>4. QED
      BY <2>1, <3>1, <3>3 DEF InProgram, StoresTo, Target, Storing
  <2>2. CASE InHandler(e)
    <3>1. Handling(e) /\ Writable(e, XStack)
      BY <1>1, <2>2, HandlerFacts
    <3>2. cpu[e].pc = "push_eip" /\ StoresTo(e) = PageOf(Utf(e, utf_esp) - 1)
      BY <1>1, <2>2 DEF StoresTo, InHandler
    <3>3. ~SecondLevel(e)
      <4> SUFFICES ASSUME SecondLevel(e) PROVE FALSE
        OBVIOUS
      <4>1. Utf(e, utf_esp) = FirstFrame
        BY <3>2 DEF SecondLevel, Utf, Nested
      <4>2. QED
        BY <1>1, <3>1, <3>2, <4>1, StackWords
    <3>4. FirstLevel(e)
      BY <3>1, <3>3 DEF Handling
    <3>5. Utf(e, utf_esp) = UserEsp
      BY <3>2, <3>4 DEF FirstLevel, Utf, Saved
    <3>6. QED
      BY <3>1, <3>2, <3>4, <3>5, StackWords DEF FirstLevel
  <2>3. QED
    BY <2>1, <2>2
<1>4. base \in {FirstFrame, SecondFrame} /\ base \in 0 .. UserEsp
  BY <1>3, StackWords
<1>5. /\ put = [a \in Words |-> put[a]]
      /\ put[base + utf_fault_va] = StoresTo(e) /\ put[base + utf_regs] = cpu[e].regs
      /\ put[base + utf_eip] = cpu[e].pc /\ put[base + utf_esp] = cpu[e].esp
      /\ \A a \in Words : (\A f \in Fields : a # base + f) => put[a] = xstack[e][a]
  <2> HIDE DEF base
  <2>1. QED
    BY <1>2, <1>4, FramePut
<1>6. start \in Cpu
  BY <1>4 DEF Cpu, Pcs, HandlerPcs, Regsets
<1> HIDE DEF put, base
<1>7. /\ xstack' = [x \in Env |-> [a \in Words |-> xstack'[x][a]]]
      /\ xstack'[e] = put /\ \A x \in Env \ {e} : xstack'[x] = xstack[x]
  BY <1>1, <1>5, XStackChange
<1>8. cpu' \in [Env -> Cpu] /\ cpu'[e] = start /\ \A x \in Env \ {e} : cpu'[x] = cpu[x]
  BY <1>1, <1>6 DEF Types
<1>9. Types'
  BY <1>1, <1>7, <1>8 DEF Types
<1>10. \A x \in Env \ {e} : SameEnv(x)
  BY <1>1, <1>7, <1>8 DEF SameEnv
<1>11. cpu'[e].pc = "pftemp" /\ cpu'[e].esp = base /\ cpu'[e].regs = None /\ InHandler(e)'
  BY <1>8 DEF InHandler
<1>12. \A p : Writable(e, p)' = Writable(e, p)
  BY <1>1 DEF Writable
<1>13. Handling(e)' /\ SameProgram(e)
  <2>1. CASE ~InHandler(e)
    <3>1. /\ cpu[e].esp = UserEsp /\ cpu[e].pc \in Storing /\ RegsFit(cpu[e].pc, cpu[e].regs)
          /\ StoresTo(e) = Target(cpu[e].pc, cpu[e].regs) /\ base = FirstFrame
      BY <1>3, <2>1, StackWords DEF InHandler, base
    <3>2. /\ Saved(e, utf_fault_va)' = StoresTo(e) /\ Saved(e, utf_regs)' = cpu[e].regs
          /\ Saved(e, utf_eip)' = cpu[e].pc /\ Saved(e, utf_esp)' = UserEsp
      BY <1>5, <1>7, <3>1 DEF Saved
    <3>3. StoresTo(e) \in Page
      BY <3>1, PageFacts, SizeAssumption DEF Storing, RegsFit, Target
    <3>4. cpu[e].regs \in Regsets
      BY <1>2 DEF Cpu
    <3>5. ProgramFrame(e)'
      BY <3>1, <3>2, <3>3, <3>4 DEF ProgramFrame
    <3>6. FirstLevel(e)'
      BY <1>11, <3>1, <3>2 DEF FirstLevel, Repaired, Prepared
    <3>7. Handling(e)'
      BY <1>1, <1>11, <3>5, <3>6 DEF Handling
    <3>8. SameProgram(e)
      BY <1>11, <2>1, <3>2 DEF SameProgram, Eip, Regs, Saved
    <3>9. QED
      BY <3>7, <3>8
  <2>2. CASE InHandler(e)
    <3>1. /\ cpu[e].pc = "push_eip" /\ Handling(e) /\ FirstLevel(e) /\ StoresTo(e) = Stack
          /\ cpu[e].esp = FirstFrame /\ base = SecondFrame /\ cpu[e].regs = None
      BY <1>3, <2>2, StackWords DEF InHandler, base, Handling
    <3>2. /\ Nested(e, utf_fault_va)' = Stack /\ Nested(e, utf_regs)' = None
          /\ Nested(e, utf_eip)' = "push_eip" /\ Nested(e, utf_esp)' = FirstFrame
      BY <1>5, <1>7, <3>1 DEF Nested
    <3>3. \A f \in Fields : Saved(e, f)' = Saved(e, f)
      BY <1>5, <1>7, <3>1, FrameWords DEF Saved
    <3>4. /\ Saved(e, utf_fault_va)' = Saved(e, utf_fault_va)
          /\ Saved(e, utf_regs)' = Saved(e, utf_regs)
          /\ Saved(e, utf_eip)' = Saved(e, utf_eip) /\ Saved(e, utf_esp)' = Saved(e, utf_esp)
      BY <3>3 DEF Fields
    <3>5. ProgramFrame(e)'
      BY <3>1, <3>4 DEF ProgramFrame, Handling
    <3>6. Saved(e, utf_esp) = UserEsp /\ Writable(e, Saved(e, utf_fault_va))
      BY <3>1 DEF FirstLevel, Repaired
    <3>7. SecondLevel(e)'
      BY <1>11, <1>12, <3>1, <3>2, <3>4, <3>6 DEF SecondLevel, Repaired, Prepared
    <3>8. Handling(e)'
      BY <1>1, <1>11, <3>5, <3>7 DEF Handling
    <3>9. SameProgram(e)
      BY <1>11, <2>2, <3>4 DEF SameProgram, Eip, Regs, Saved
    <3>10. QED
      BY <3>8, <3>9
  <2>3. QED
    BY <2>1, <2>2
<1>14. Local(e)'
  <2>1. Writable(e, XStack)
    BY <1>1 DEF LocalInv, Local
  <2>2. status'[e] = "RUNNABLE" /\ Runs(e)'
    BY <1>1, <1>11, <1>13 DEF Runs
  <2>3. QED
    BY <1>12, <2>1, <2>2 DEF Local
<1>15. QED
  BY <1>9, <1>10, <1>13, <1>14

(* A step of pgfault(), which leaves the frames alone.                     *)
LEMMA HandlerGoes ==
  ASSUME Types, LocalInv, NEW e \in Env, status[e] = "RUNNABLE",
         InHandler(e), cpu[e].pc # "restore",
         status' = status, upcall' = upcall, xstack' = xstack,
         NEW pc \in HandlerPcs, pc # "restore",
         cpu'[e] = [pc |-> pc, esp |-> cpu[e].esp, regs |-> cpu[e].regs],
         \A p \in Page \cup {XStack} : Writable(e, p) => Writable(e, p)',
         pc \in {"pftemp_again", "copy", "remap"} => map'[e][FaultPage(e)] # None,
         pc = "push_eip" => map'[e][FaultPage(e)] # None /\ "W" \in map'[e][FaultPage(e)].perm
  PROVE  Local(e)' /\ SameProgram(e)
<1>1. /\ Handling(e) /\ upcall[e] /\ Writable(e, XStack)'
      /\ FirstLevel(e) => \A f : Utf(e, f) = Saved(e, f)
      /\ SecondLevel(e) => \A f : Utf(e, f) = Nested(e, f)
  BY HandlerFacts
<1>2. \A f : Saved(e, f)' = Saved(e, f) /\ Nested(e, f)' = Nested(e, f)
  BY DEF Saved, Nested
<1>3. cpu'[e].pc = pc /\ cpu'[e].esp = cpu[e].esp /\ cpu'[e].regs = None /\ InHandler(e)'
  BY <1>1 DEF Handling, InHandler, HandlerPcs
<1>4. ProgramFrame(e)' /\ Saved(e, utf_fault_va) \in Page
  BY <1>1, <1>2 DEF Handling, ProgramFrame
<1>8. SameProgram(e)
  BY <1>2, <1>3 DEF SameProgram, Eip, Regs, Saved
<1>5. CASE FirstLevel(e)
  <2>1. FaultPage(e) = Saved(e, utf_fault_va)
    BY <1>1, <1>5 DEF FaultPage
  <2>2. FirstLevel(e)'
    BY <1>2, <1>3, <1>5, <2>1 DEF FirstLevel, Repaired, Prepared, Writable
  <2>3. Handling(e)'
    BY <1>1, <1>3, <1>4, <2>2 DEF Handling
  <2>4. QED
    BY <1>1, <1>3, <1>8, <2>3 DEF Local, Runs
<1>6. CASE SecondLevel(e)
  <2>1. FaultPage(e) = Stack
    BY <1>1, <1>6 DEF FaultPage, SecondLevel
  <2>2. Writable(e, Saved(e, utf_fault_va))'
    BY <1>2, <1>4, <1>6 DEF SecondLevel, Writable
  <2>3. SecondLevel(e)'
    BY <1>2, <1>3, <1>6, <2>1, <2>2 DEF SecondLevel, Repaired, Prepared, Writable
  <2>4. Handling(e)'
    BY <1>1, <1>3, <1>4, <2>3 DEF Handling
  <2>5. QED
    BY <1>1, <1>3, <1>8, <2>4 DEF Local, Runs
<1>7. QED
  BY <1>1, <1>5, <1>6, <1>8 DEF Handling

LEMMA AtFacts ==
  ASSUME NEW e \in Env, NEW pc \in HandlerPcs, At(e, pc)
  PROVE  status[e] = "RUNNABLE" /\ InHandler(e) /\ cpu[e].pc = pc
BY DEF At, InHandler, HandlerPcs

LEMMA PftempStep ==
  ASSUME Types, LocalInv, NEW e \in Env, PftempFirst(e) \/ PftempAgain(e)
  PROVE  Types' /\ Local(e)' /\ SameProgram(e) /\ \A x \in Env \ {e} : SameEnv(x)
<1>1. PICK pc \in {"pftemp_again", "copy"} :
        /\ Jump(e, pc) /\ status[e] = "RUNNABLE" /\ InHandler(e) /\ cpu[e].pc # "restore"
        /\ map[e][FaultPage(e)] # None
        /\ \/ HasFree /\ SysPageAlloc(e, PFTEMP)
           \/ UNCHANGED <<map, mem>>
        /\ UNCHANGED <<status, upcall, xstack, taken, forks>>
  <2>1. CASE PftempFirst(e)
    BY <2>1, AtFacts DEF PftempFirst, HandlerPcs
  <2>2. CASE PftempAgain(e)
    <3>1. status[e] = "RUNNABLE" /\ InHandler(e) /\ cpu[e].pc = "pftemp_again"
      BY <2>2, AtFacts DEF PftempAgain, HandlerPcs
    <3>2. map[e][FaultPage(e)] # None
      BY <3>1, HandlerFacts DEF Prepared
    <3>3. QED
      BY <2>2, <3>1, <3>2 DEF PftempAgain
  <2>3. QED
    BY <2>1, <2>2
<1>2. pc \in HandlerPcs /\ pc \in Pcs
  BY DEF HandlerPcs, Pcs
<1>3. /\ cpu' \in [Env -> Cpu]
      /\ cpu'[e] = [pc |-> pc, esp |-> cpu[e].esp, regs |-> cpu[e].regs]
      /\ \A x \in Env \ {e} : cpu'[x] = cpu[x]
  BY <1>1, <1>2, JumpOf
<1>4. /\ map' \in [Env -> [Mapping -> Pte \cup {None}]]
      /\ mem' \in [Frame -> [prog : Val, lib : Lib]]
      /\ \A q \in Mapping \ {PFTEMP} : map'[e][q] = map[e][q]
      /\ \A x \in Env \ {e} : map'[x] = map[x]
  <2>1. CASE HasFree /\ SysPageAlloc(e, PFTEMP)
    <3>1. Allocate(e, PFTEMP) /\ mem' = Zero(mem) /\ mem \in [Frame -> [prog : Val, lib : Lib]]
      BY <2>1 DEF SysPageAlloc, Types
    <3>2. mem' \in [Frame -> [prog : Val, lib : Lib]]
      BY <2>1, <3>1, ZeroOf
    <3>3. QED
      BY <2>1, <3>1, <3>2, AllocateOf, PageFacts
  <2>2. CASE UNCHANGED <<map, mem>>
    BY <2>2 DEF Types
  <2>3. QED
    BY <1>1, <2>1, <2>2
<1>5. \A p \in Page \cup {XStack} : map'[e][p] = map[e][p]
  BY <1>4, PageFacts
<1>6. FaultPage(e) \in Page
  BY <1>1, HandlerFacts
<1>7. map'[e][FaultPage(e)] # None /\ \A p \in Page \cup {XStack} : Writable(e, p) => Writable(e, p)'
  BY <1>1, <1>5, <1>6 DEF Writable
<1>8. Types'
  BY <1>1, <1>3, <1>4 DEF Types
<1>9. \A x \in Env \ {e} : SameEnv(x)
  BY <1>1, <1>3, <1>4 DEF SameEnv
<1>10. Local(e)' /\ SameProgram(e)
  BY <1>1, <1>2, <1>3, <1>7, HandlerGoes
<1>11. QED
  BY <1>8, <1>9, <1>10

LEMMA CopyStep ==
  ASSUME Types, LocalInv, PftempOwn, NEW e \in Env, Copy(e)
  PROVE  Types' /\ Local(e)' /\ SameProgram(e) /\ \A x \in Env \ {e} : SameEnv(x)
<1>1. status[e] = "RUNNABLE" /\ InHandler(e) /\ cpu[e].pc = "copy"
  BY AtFacts DEF Copy, HandlerPcs
<1>2. "remap" \in HandlerPcs /\ "remap" \in Pcs
  BY DEF HandlerPcs, Pcs
<1>3. /\ cpu' \in [Env -> Cpu]
      /\ cpu'[e] = [pc |-> "remap", esp |-> cpu[e].esp, regs |-> cpu[e].regs]
      /\ \A x \in Env \ {e} : cpu'[x] = cpu[x]
  BY <1>2, JumpOf DEF Copy
<1>4. FaultPage(e) \in Page /\ map[e][FaultPage(e)] # None
  BY <1>1, HandlerFacts DEF Prepared
<1>5. map[e][PFTEMP] # None /\ map[e][PFTEMP].frame \in Frame /\ map[e][FaultPage(e)].frame \in Frame
  BY <1>1, <1>4, PteTypes, PageFacts DEF PftempOwn, Writable
<1>6. mem[map[e][FaultPage(e)].frame] \in [prog : Val, lib : Lib]
  BY <1>5 DEF Types
<1>7. mem' \in [Frame -> [prog : Val, lib : Lib]]
  BY <1>5, <1>6, MemChange DEF Copy
<1>8. Types'
  BY <1>3, <1>7 DEF Types, Copy
<1>9. \A x \in Env \ {e} : SameEnv(x)
  BY <1>3 DEF SameEnv, Copy
<1>10. /\ UNCHANGED <<status, upcall, xstack>> /\ map'[e][FaultPage(e)] # None
       /\ \A p \in Page \cup {XStack} : Writable(e, p) => Writable(e, p)'
  BY <1>4 DEF Copy, Writable
<1>11. Local(e)' /\ SameProgram(e)
  BY <1>1, <1>2, <1>3, <1>10, HandlerGoes
<1>12. QED
  BY <1>8, <1>9, <1>11

LEMMA RemapStep ==
  ASSUME Types, LocalInv, PftempOwn, NEW e \in Env, Remap(e)
  PROVE  /\ Types' /\ Local(e)' /\ SameProgram(e)
         /\ \A x \in Env \ {e} : SameEnv(x)
         /\ FaultPage(e) \in Page
         /\ map'[e][FaultPage(e)] = [frame |-> map[e][PFTEMP].frame, perm |-> {"W"}]
         /\ map'[e][FaultPage(e)] # None
         /\ \A q \in Mapping \ {FaultPage(e)} : map'[e][q] = map[e][q]
<1>1. status[e] = "RUNNABLE" /\ InHandler(e) /\ cpu[e].pc = "remap"
  BY AtFacts DEF Remap, HandlerPcs
<1>2. "push_eip" \in HandlerPcs /\ "push_eip" \in Pcs /\ {"W"} \in SUBSET Perm
  BY DEF HandlerPcs, Pcs, Perm
<1>3. /\ cpu' \in [Env -> Cpu]
      /\ cpu'[e] = [pc |-> "push_eip", esp |-> cpu[e].esp, regs |-> cpu[e].regs]
      /\ \A x \in Env \ {e} : cpu'[x] = cpu[x]
  BY <1>2, JumpOf DEF Remap
<1>4. FaultPage(e) \in Page /\ FaultPage(e) \in Mapping
  BY <1>1, HandlerFacts, PageFacts
<1>5. map[e][PFTEMP] # None
  BY <1>1 DEF PftempOwn, Writable
<1>6. /\ map' \in [Env -> [Mapping -> Pte \cup {None}]]
      /\ map'[e][FaultPage(e)] = [frame |-> map[e][PFTEMP].frame, perm |-> {"W"}]
      /\ map'[e][FaultPage(e)] # None
      /\ \A q \in Mapping \ {FaultPage(e)} : map'[e][q] = map[e][q]
      /\ \A x \in Env \ {e} : map'[x] = map[x]
  <2>1. SysPageMap(e, PFTEMP, e, FaultPage(e), {"W"})
    BY DEF Remap
  <2>2. PFTEMP \in Mapping
    BY PageFacts
  <2>3. PICK p \in Mapping : p = FaultPage(e)
    BY <1>4
  <2>4. PICK perm \in SUBSET Perm : perm = {"W"}
    BY <1>2
  <2>5. SysPageMap(e, PFTEMP, e, p, perm)
    BY <2>1, <2>3, <2>4
  <2>6. /\ map' \in [Env -> [Mapping -> Pte \cup {None}]]
        /\ map'[e][p] = [frame |-> map[e][PFTEMP].frame, perm |-> perm]
        /\ map'[e][p] # None
        /\ \A q \in Mapping \ {p} : map'[e][q] = map[e][q]
        /\ \A x \in Env \ {e} : map'[x] = map[x]
    BY <1>5, <2>2, <2>5, SysPageMapOf
  <2>7. QED
    BY <2>3, <2>4, <2>6
<1>7. Types'
  BY <1>3, <1>6 DEF Types, Remap
<1>8. \A x \in Env \ {e} : SameEnv(x)
  BY <1>3, <1>6 DEF SameEnv, Remap
<1>9. UNCHANGED <<status, upcall, xstack>> /\ "W" \in map'[e][FaultPage(e)].perm
  BY <1>6 DEF Remap
<1>10. \A p \in Page \cup {XStack} : Writable(e, p) => Writable(e, p)'
  BY <1>4, <1>6, PageFacts DEF Writable
<1>11. Local(e)' /\ SameProgram(e)
  BY <1>1, <1>2, <1>3, <1>6, <1>9, <1>10, HandlerGoes
<1>12. QED
  BY <1>4, <1>6, <1>7, <1>8, <1>11

LEMMA PushEipStep ==
  ASSUME Types, LocalInv, NEW e \in Env, PushEip(e)
  PROVE  /\ Types' /\ Local(e)' /\ SameProgram(e)
         /\ \A x \in Env \ {e} : SameEnv(x)
         /\ map' = map /\ cpu'[e].esp = cpu[e].esp
         /\ \/ mem' = mem
            \/ /\ Writable(e, Stack)
               /\ mem' = [mem EXCEPT ![map[e][Stack].frame].lib = Saved(e, utf_eip)]
         /\ cpu'[e].esp = FirstFrame => mem'[map[e][Stack].frame].lib = Saved(e, utf_eip)
<1> DEFINE top == Utf(e, utf_esp) - 1
<1>1. status[e] = "RUNNABLE" /\ InHandler(e) /\ cpu[e].pc = "push_eip"
  BY AtFacts DEF PushEip, HandlerPcs
<1>2. /\ Handling(e) /\ cpu[e] \in Cpu /\ upcall[e] /\ Writable(e, XStack)
      /\ Repaired(e, FaultPage(e)) /\ FaultPage(e) \in Page
      /\ FirstLevel(e) => \A f : Utf(e, f) = Saved(e, f)
      /\ SecondLevel(e) => \A f : Utf(e, f) = Nested(e, f)
  BY <1>1, HandlerFacts
<1>3. "restore" \in Pcs /\ "restore" \in HandlerPcs
  BY DEF Pcs, HandlerPcs
<1>4. /\ cpu' \in [Env -> Cpu]
      /\ cpu'[e] = [pc |-> "restore", esp |-> cpu[e].esp, regs |-> cpu[e].regs]
      /\ \A x \in Env \ {e} : cpu'[x] = cpu[x]
  BY <1>3, JumpOf DEF PushEip
<1>5. UNCHANGED <<status, map, upcall, taken, forks>> /\ Writable(e, PageOf(top))
  BY DEF PushEip
<1>6. cpu'[e].pc = "restore" /\ cpu'[e].esp = cpu[e].esp /\ cpu'[e].regs = None /\ InHandler(e)'
  BY <1>2, <1>4 DEF Handling, InHandler
<1>7. \A p : Writable(e, p)' = Writable(e, p)
  BY <1>5 DEF Writable
<1>8. \A f \in Fields : FirstFrame + f \in Words /\ SecondFrame + f \in Words
  BY FrameWords
<1>9. xstack[e] = [a \in Words |-> xstack[e][a]]
  BY XStackTypes
<1>10. ProgramFrame(e)
  BY <1>2 DEF Handling
<1>11. CASE FirstLevel(e)
  <2>1. /\ cpu[e].esp = FirstFrame /\ Saved(e, utf_esp) = UserEsp
        /\ FaultPage(e) = Saved(e, utf_fault_va) /\ TrapEip(e) = Saved(e, utf_eip)
    BY <1>1, <1>2, <1>11 DEF FirstLevel, FaultPage, TrapEip
  <2>2. top = UserEsp - 1 /\ PageOf(top) = Stack /\ Stack # XStack
    BY <1>2, <1>11, <2>1, StackWords, PageFacts
  <2>3. Writable(e, Stack) /\ map[e][Stack].frame \in Frame
    BY <1>5, <2>2, PteTypes, PageFacts DEF Writable
  <2>4. Saved(e, utf_eip) \in Lib
    BY <1>10 DEF ProgramFrame, Storing, Lib
  <2> DEFINE s == [xstack[e] EXCEPT ![FirstFrame + utf_esp] = UserEsp - 1]
  <2>5. mem' = [mem EXCEPT ![map[e][Stack].frame].lib = Saved(e, utf_eip)]
        /\ xstack' = [xstack EXCEPT ![e] = s]
    <3>1. ~(PageOf(top) = XStack)
      BY <2>2
    <3>2. /\ xstack' = [xstack EXCEPT ![e][cpu[e].esp + utf_esp] = top]
          /\ mem' = [mem EXCEPT ![map[e][Stack].frame].lib = TrapEip(e)]
      BY <3>1 DEF PushEip
    <3>3. QED
      BY <2>1, <2>2, <3>2
  <2>6. s = [a \in Words |-> s[a]] /\ s[FirstFrame + utf_esp] = UserEsp - 1
        /\ \A f \in Fields : f # utf_esp => s[FirstFrame + f] = xstack[e][FirstFrame + f]
    <3> DEFINE w == FirstFrame + utf_esp
    <3>1. w \in Words /\ \A f \in Fields : f # utf_esp => FirstFrame + f # w /\ FirstFrame + f \in Words
      BY <1>8, FrameWords DEF Fields
    <3> HIDE DEF w
    <3>2. [xstack[e] EXCEPT ![w] = UserEsp - 1] = [a \in Words |-> [xstack[e] EXCEPT ![w] = UserEsp - 1][a]]
          /\ [xstack[e] EXCEPT ![w] = UserEsp - 1][w] = UserEsp - 1
          /\ \A a \in Words : a # w => [xstack[e] EXCEPT ![w] = UserEsp - 1][a] = xstack[e][a]
      BY <1>9, <3>1
    <3>3. QED
      BY <3>1, <3>2 DEF w
  <2> HIDE DEF s
  <2>7. /\ xstack' = [x \in Env |-> [a \in Words |-> xstack'[x][a]]]
        /\ xstack'[e] = s /\ \A x \in Env \ {e} : xstack'[x] = xstack[x]
    BY <2>5, <2>6, XStackChange
  <2>8. /\ Saved(e, utf_fault_va)' = Saved(e, utf_fault_va)
        /\ Saved(e, utf_regs)' = Saved(e, utf_regs)
        /\ Saved(e, utf_eip)' = Saved(e, utf_eip) /\ Saved(e, utf_esp)' = UserEsp - 1
    BY <2>6, <2>7, FrameWords DEF Saved, Fields
  <2>9. mem' \in [Frame -> [prog : Val, lib : Lib]]
        /\ mem'[map[e][Stack].frame].lib = Saved(e, utf_eip)
    BY <2>3, <2>4, <2>5, LibChange DEF Types
  <2>10. Types'
    BY <1>4, <1>5, <2>7, <2>9 DEF Types
  <2>11. \A x \in Env \ {e} : SameEnv(x)
    BY <1>4, <1>5, <2>7 DEF SameEnv
  <2>12. ProgramFrame(e)'
    BY <1>10, <2>8 DEF ProgramFrame
  <2>13. Writable(e, Saved(e, utf_fault_va))
    BY <1>1, <1>2, <2>1 DEF Repaired
  <2>14. FirstLevel(e)'
    BY <1>6, <1>7, <2>1, <2>3, <2>8, <2>13 DEF FirstLevel, Repaired, Prepared
  <2>15. Local(e)'
    BY <1>1, <1>2, <1>5, <1>6, <1>7, <2>12, <2>14 DEF Local, Runs, Handling
  <2>16. SameProgram(e)
    BY <1>1, <1>6, <2>8 DEF SameProgram, Eip, Regs, Saved
  <2>17. QED
    BY <1>5, <1>6, <2>3, <2>5, <2>9, <2>10, <2>11, <2>15, <2>16
<1>12. CASE SecondLevel(e)
  <2>1. /\ cpu[e].esp = SecondFrame /\ Nested(e, utf_esp) = FirstFrame
        /\ FaultPage(e) = Stack /\ TrapEip(e) = "push_eip"
        /\ Saved(e, utf_esp) = UserEsp /\ Writable(e, Saved(e, utf_fault_va))
        /\ Nested(e, utf_fault_va) = Stack /\ Nested(e, utf_eip) = "push_eip"
        /\ Nested(e, utf_regs) = None
    BY <1>1, <1>2, <1>12 DEF SecondLevel, FaultPage, TrapEip
  <2>2. top = FirstFrame - 1 /\ PageOf(top) = XStack
    BY <1>2, <1>12, <2>1, StackWords
  <2> DEFINE w == SecondFrame + utf_esp
             v == FirstFrame - 1
             s == [xstack[e] EXCEPT ![v] = "push_eip", ![w] = v]
  <2>5. mem' = mem /\ xstack' = [xstack EXCEPT ![e] = s]
    <3>1. /\ xstack' = [xstack EXCEPT ![e] =
                 [@ EXCEPT ![top] = TrapEip(e), ![cpu[e].esp + utf_esp] = top]]
          /\ mem' = mem
      BY <2>2 DEF PushEip
    <3>2. QED
      BY <2>1, <2>2, <3>1
  <2>6. /\ w \in Words /\ v \in Words /\ w # v
        /\ \A f \in Fields : FirstFrame + f # w /\ FirstFrame + f # v
        /\ \A f \in Fields : f # utf_esp => SecondFrame + f # w /\ SecondFrame + f # v
    BY FrameWords DEF Fields
  <2> HIDE DEF w, v
  <2>7. s = [a \in Words |-> s[a]] /\ s[w] = v /\ s[v] = "push_eip"
        /\ \A a \in Words : a # w /\ a # v => s[a] = xstack[e][a]
    BY <1>9, <2>6
  <2> HIDE DEF s
  <2>8. /\ xstack' = [x \in Env |-> [a \in Words |-> xstack'[x][a]]]
        /\ xstack'[e] = s /\ \A x \in Env \ {e} : xstack'[x] = xstack[x]
    BY <2>5, <2>7, XStackChange
  <2>9. \A f \in Fields : Saved(e, f)' = Saved(e, f)
    BY <1>8, <2>6, <2>7, <2>8 DEF Saved
  <2>10. \A f \in Fields : f # utf_esp => Nested(e, f)' = Nested(e, f)
    BY <1>8, <2>6, <2>7, <2>8 DEF Nested
  <2>11. Nested(e, utf_esp)' = FirstFrame - 1 /\ xstack'[e][FirstFrame - 1] = "push_eip"
    BY <2>7, <2>8 DEF Nested, w, v
  <2>12. /\ Saved(e, utf_fault_va)' = Saved(e, utf_fault_va)
         /\ Saved(e, utf_regs)' = Saved(e, utf_regs)
         /\ Saved(e, utf_eip)' = Saved(e, utf_eip) /\ Saved(e, utf_esp)' = Saved(e, utf_esp)
         /\ Nested(e, utf_fault_va)' = Nested(e, utf_fault_va)
         /\ Nested(e, utf_regs)' = Nested(e, utf_regs)
         /\ Nested(e, utf_eip)' = Nested(e, utf_eip)
    BY <2>9, <2>10, FrameWords DEF Fields
  <2>13. Types'
    BY <1>4, <1>5, <2>5, <2>8 DEF Types
  <2>14. \A x \in Env \ {e} : SameEnv(x)
    BY <1>4, <1>5, <2>8 DEF SameEnv
  <2>15. ProgramFrame(e)'
    BY <1>10, <2>12 DEF ProgramFrame
  <2>16. Writable(e, Stack)
    BY <1>1, <1>2, <2>1 DEF Repaired
  <2>17. SecondLevel(e)'
    BY <1>6, <1>7, <2>1, <2>11, <2>12, <2>16 DEF SecondLevel, Repaired, Prepared
  <2>18. Local(e)'
    BY <1>1, <1>2, <1>5, <1>6, <1>7, <2>15, <2>17 DEF Local, Runs, Handling
  <2>19. SameProgram(e)
    BY <1>1, <1>6, <2>12 DEF SameProgram, Eip, Regs, Saved
  <2>20. cpu'[e].esp # FirstFrame
    BY <1>6, <2>1, StackWords
  <2>21. QED
    BY <1>5, <1>6, <2>5, <2>13, <2>14, <2>18, <2>19, <2>20
<1>13. QED
  BY <1>2, <1>11, <1>12 DEF Handling

(* The program goes on with the instruction that faulted, or the handler   *)
(* with its push: neither faults again.                                    *)
LEMMA RestoreStep ==
  ASSUME Types, LocalInv, EipPushed, NEW e \in Env, Restore(e)
  PROVE  /\ Types' /\ Local(e)' /\ SameProgram(e)
         /\ \A x \in Env \ {e} : SameEnv(x)
         /\ ~Faults(e)' /\ cpu'[e].pc \in Storing \cup {"push_eip"}
<1> DEFINE top == Utf(e, utf_esp)
           eip == IF PageOf(top) = XStack THEN xstack[e][top] ELSE mem[map[e][Stack].frame].lib
           next == [pc |-> eip, esp |-> top + 1, regs |-> Utf(e, utf_regs)]
<1>1. status[e] = "RUNNABLE" /\ InHandler(e) /\ cpu[e].pc = "restore"
  BY AtFacts DEF Restore, HandlerPcs
<1>2. /\ Handling(e) /\ upcall[e] /\ Writable(e, XStack) /\ ProgramFrame(e)
      /\ Repaired(e, FaultPage(e)) /\ FaultPage(e) \in Page
      /\ FirstLevel(e) => \A f : Utf(e, f) = Saved(e, f)
      /\ SecondLevel(e) => \A f : Utf(e, f) = Nested(e, f)
  BY <1>1, HandlerFacts DEF Handling
<1>3. /\ cpu' = [cpu EXCEPT ![e] = next]
      /\ UNCHANGED <<status, map, upcall, xstack, mem, taken, forks>>
  BY DEF Restore
<1>4. /\ \A p : Writable(e, p)' = Writable(e, p)
      /\ \A f : Saved(e, f)' = Saved(e, f)
  BY <1>3 DEF Writable, Saved
<1>5. next \in Cpu => /\ cpu' \in [Env -> Cpu] /\ cpu'[e] = next
                      /\ \A x \in Env \ {e} : cpu'[x] = cpu[x]
  <2> HIDE DEF next
  <2>1. QED
    BY <1>3 DEF Types
<1>6. CASE FirstLevel(e)
  <2>1. /\ cpu[e].esp = FirstFrame /\ top = UserEsp - 1 /\ FaultPage(e) = Saved(e, utf_fault_va)
        /\ Utf(e, utf_regs) = Saved(e, utf_regs)
    BY <1>1, <1>2, <1>6 DEF FirstLevel, FaultPage
  <2>2. PageOf(top) # XStack /\ top + 1 = UserEsp
    BY <2>1, StackWords, PageFacts
  <2>3. eip = Saved(e, utf_eip)
    BY <1>1, <2>1, <2>2 DEF EipPushed
  <2>4. next = [pc |-> Saved(e, utf_eip), esp |-> UserEsp, regs |-> Saved(e, utf_regs)]
    BY <2>1, <2>2, <2>3
  <2>5. Saved(e, utf_eip) \in Storing /\ Saved(e, utf_eip) \in Pcs /\ Saved(e, utf_regs) \in Regsets
    BY <1>2 DEF ProgramFrame, Storing, Pcs, ProgramPcs
  <2>6. next \in Cpu
    BY <2>4, <2>5, StackWords DEF Cpu
  <2> HIDE DEF next
  <2>7. /\ cpu' \in [Env -> Cpu] /\ \A x \in Env \ {e} : cpu'[x] = cpu[x]
        /\ cpu'[e].pc = Saved(e, utf_eip) /\ cpu'[e].esp = UserEsp
        /\ cpu'[e].regs = Saved(e, utf_regs)
    BY <1>5, <2>4, <2>6
  <2>8. Types'
    BY <1>3, <2>7 DEF Types
  <2>9. \A x \in Env \ {e} : SameEnv(x)
    BY <1>3, <2>7 DEF SameEnv
  <2>10. /\ ~InHandler(e)' /\ cpu'[e].pc # "dup_own" /\ cpu'[e].pc # "push_eip"
         /\ cpu'[e].pc \in Storing
    BY <2>5, <2>7 DEF InHandler, Storing
  <2>11. InProgram(e)'
    BY <1>2, <2>7, <2>10 DEF InProgram, ProgramFrame
  <2>12. Local(e)'
    BY <1>1, <1>2, <1>3, <1>4, <2>10, <2>11 DEF Local, Runs
  <2>13. SameProgram(e)
    BY <1>1, <2>7, <2>10 DEF SameProgram, Eip, Regs, Saved
  <2>14. StoresTo(e)' = Saved(e, utf_fault_va)
    BY <1>2, <2>5, <2>7, <2>10 DEF StoresTo, ProgramFrame, Target, Storing
  <2>15. Writable(e, Saved(e, utf_fault_va))'
    BY <1>1, <1>2, <1>4, <2>1 DEF Repaired
  <2>16. ~Faults(e)'
    BY <1>4, <2>14, <2>15 DEF Faults
  <2>17. QED
    BY <2>8, <2>9, <2>10, <2>12, <2>13, <2>16
<1>7. CASE SecondLevel(e)
  <2>1. /\ cpu[e].esp = SecondFrame /\ top = FirstFrame - 1 /\ FaultPage(e) = Stack
        /\ xstack[e][top] = "push_eip" /\ Utf(e, utf_regs) = None
        /\ Saved(e, utf_esp) = UserEsp /\ Writable(e, Saved(e, utf_fault_va))
    BY <1>1, <1>2, <1>7 DEF SecondLevel, FaultPage
  <2>2. PageOf(top) = XStack /\ top + 1 = FirstFrame
    BY <2>1, StackWords
  <2>3. next = [pc |-> "push_eip", esp |-> FirstFrame, regs |-> None]
    BY <2>1, <2>2
  <2>4. next \in Cpu
    BY <2>3, StackWords DEF Cpu, Pcs, HandlerPcs, Regsets
  <2> HIDE DEF next
  <2>5. /\ cpu' \in [Env -> Cpu] /\ \A x \in Env \ {e} : cpu'[x] = cpu[x]
        /\ cpu'[e].pc = "push_eip" /\ cpu'[e].esp = FirstFrame /\ cpu'[e].regs = None
    BY <1>5, <2>3, <2>4
  <2>6. Types'
    BY <1>3, <2>5 DEF Types
  <2>7. \A x \in Env \ {e} : SameEnv(x)
    BY <1>3, <2>5 DEF SameEnv
  <2>8. ProgramFrame(e)' /\ InHandler(e)'
    BY <1>2, <1>4, <2>5 DEF ProgramFrame, InHandler
  <2>9. FirstLevel(e)'
    BY <1>4, <2>1, <2>5 DEF FirstLevel, Repaired, Prepared
  <2>10. Local(e)'
    BY <1>1, <1>2, <1>3, <1>4, <2>5, <2>8, <2>9 DEF Local, Runs, Handling
  <2>11. SameProgram(e)
    BY <1>1, <1>3, <2>8 DEF SameProgram, Eip, Regs
  <2>12. Utf(e, utf_esp)' = UserEsp
    BY <1>3, <2>1, <2>5 DEF Utf, Saved
  <2>13. StoresTo(e)' = Stack
    BY <2>5, <2>12, StackWords DEF StoresTo
  <2>14. Writable(e, Stack)'
    BY <1>1, <1>2, <1>4, <2>1 DEF Repaired
  <2>15. ~Faults(e)'
    BY <2>13, <2>14 DEF Faults
  <2>16. QED
    BY <2>5, <2>6, <2>7, <2>10, <2>11, <2>15
<1>8. QED
  BY <1>2, <1>6, <1>7 DEF Handling

(* A panic leaves everything but the status.                               *)
LEMMA PanicStep ==
  ASSUME Types, LocalInv, NEW e \in Env, Panic(e), taken' = taken,
         forks' \in 0 .. MaxForks, mem' \in [Frame -> [prog : Val, lib : Lib]]
  PROVE  /\ Types' /\ Local(e)' /\ status'[e] = "PANIC" /\ map' = map
         /\ \A x \in Env \ {e} : SameEnv(x)
<1>1. /\ status' = [status EXCEPT ![e] = "PANIC"] /\ UNCHANGED <<map, upcall, cpu, xstack>>
  BY DEF Panic
<1>2. status' \in [Env -> {"FREE", "NOT_RUNNABLE", "RUNNABLE", "PANIC"}]
      /\ status'[e] = "PANIC" /\ \A x \in Env \ {e} : status'[x] = status[x]
  BY <1>1 DEF Types
<1>3. Types'
  BY <1>1, <1>2 DEF Types
<1>4. Local(e)'
  BY <1>1, <1>2 DEF LocalInv, Local, Writable
<1>5. QED
  BY <1>1, <1>2, <1>3, <1>4 DEF SameEnv

LEMMA EnvFreeStep ==
  ASSUME Types, NEW e \in Env, EnvFree(e)
  PROVE  /\ Types' /\ Local(e)' /\ status'[e] = "FREE"
         /\ \A p \in Mapping : map'[e][p] = None
         /\ \A x \in Env \ {e} : SameEnv(x)
<1> DEFINE none == [p \in Mapping |-> None]
           idle == [pc |-> "run", esp |-> UserEsp, regs |-> None]
           blank == [a \in 0 .. XWORDS - 1 |-> None]
<1>1. /\ status' = [status EXCEPT ![e] = "FREE"] /\ map' = [map EXCEPT ![e] = none]
      /\ upcall' = [upcall EXCEPT ![e] = FALSE] /\ cpu' = [cpu EXCEPT ![e] = idle]
      /\ xstack' = [xstack EXCEPT ![e] = blank] /\ UNCHANGED <<mem, taken, forks>>
  BY DEF EnvFree
<1>2. none \in [Mapping -> Pte \cup {None}] /\ idle \in Cpu /\ blank = [a \in Words |-> blank[a]]
  BY StackWords DEF Cpu, Pcs, ProgramPcs, Regsets, Words
<1>3. \A p \in Mapping : none[p] = None
  OBVIOUS
<1> HIDE DEF none, idle, blank
<1>4. /\ map' \in [Env -> [Mapping -> Pte \cup {None}]] /\ map'[e] = none
      /\ \A x \in Env \ {e} : map'[x] = map[x]
  <2> DEFINE S == [Mapping -> Pte \cup {None}]
  <2>1. map \in [Env -> S] /\ none \in S
    BY <1>2 DEF Types
  <2> HIDE DEF S
  <2>2. map' \in [Env -> S] /\ map'[e] = none /\ \A x \in Env \ {e} : map'[x] = map[x]
    BY <1>1, <2>1
  <2>3. QED
    BY <2>2 DEF S
<1>5. /\ status' \in [Env -> {"FREE", "NOT_RUNNABLE", "RUNNABLE", "PANIC"}]
      /\ status'[e] = "FREE" /\ \A x \in Env \ {e} : status'[x] = status[x]
      /\ upcall' \in [Env -> BOOLEAN] /\ upcall'[e] = FALSE
      /\ \A x \in Env \ {e} : upcall'[x] = upcall[x]
  BY <1>1 DEF Types
<1>6. /\ cpu' \in [Env -> Cpu] /\ cpu'[e] = idle /\ \A x \in Env \ {e} : cpu'[x] = cpu[x]
  BY <1>1, <1>2 DEF Types
<1>7. /\ xstack' = [x \in Env |-> [a \in Words |-> xstack'[x][a]]]
      /\ \A x \in Env \ {e} : xstack'[x] = xstack[x]
  BY <1>1, <1>2, XStackChange
<1>8. Types'
  BY <1>1, <1>4, <1>5, <1>6, <1>7 DEF Types
<1>9. Local(e)'
  BY <1>3, <1>4, <1>5, <1>6 DEF Local, Idle, Empty, idle
<1>10. QED
  BY <1>3, <1>4, <1>5, <1>6, <1>7, <1>8, <1>9 DEF SameEnv
-----------------------------------------------------------------------------
(* The program and the loop of fork().                                     *)
MemType == [Frame -> [prog : Val, lib : Lib]]

LEMMA ProgramGoes ==
  ASSUME NEW e \in Env, status'[e] = "RUNNABLE",
         cpu'[e].esp = UserEsp, cpu'[e].pc \in ProgramPcs, RegsFit(cpu'[e].pc, cpu'[e].regs),
         (upcall[e] => Writable(e, XStack))',
         (cpu[e].pc = "dup_own" => Writable(e, Stack) /\ map[e][Pn(e)] # None)'
  PROVE  /\ Local(e)' /\ ~InHandler(e)'
         /\ Eip(e)' = cpu'[e].pc /\ Regs(e)' = cpu'[e].regs
<1>1. ~InHandler(e)'
  BY DEF InHandler, ProgramPcs
<1>2. InProgram(e)'
  BY DEF InProgram
<1>3. QED
  BY <1>1, <1>2 DEF Local, Runs, Eip, Regs

LEMMA ProgramAt ==
  ASSUME Types, LocalInv, NEW e \in Env, NEW pc \in ProgramPcs, At(e, pc)
  PROVE  /\ status[e] = "RUNNABLE" /\ ~InHandler(e)
         /\ cpu[e].pc = pc /\ cpu[e].esp = UserEsp /\ RegsFit(pc, cpu[e].regs)
         /\ Eip(e) = pc /\ Regs(e) = cpu[e].regs /\ cpu[e] \in Cpu
         /\ upcall[e] => Writable(e, XStack)
         /\ pc = "dup_own" => Writable(e, Stack) /\ map[e][Pn(e)] # None
         /\ pc \in ForkPcs => /\ Making(e, Child(e)) /\ Child(e) \in Env /\ cpu[e].regs \in ForkRegs
                             /\ Pn(e) \in Mapping /\ Pn(e) # XStack
         /\ pc \notin ForkPcs => ~Forking(e)
<1>1. status[e] = "RUNNABLE" /\ cpu[e].pc = pc /\ ~InHandler(e)
  BY DEF At, InHandler, ProgramPcs
<1>2. InProgram(e) /\ cpu[e] \in Cpu
  BY <1>1, ProgramFacts
<1>3. upcall[e] => Writable(e, XStack)
  BY DEF LocalInv, Local
<1>4. Eip(e) = pc /\ Regs(e) = cpu[e].regs
  BY <1>1 DEF Eip, Regs
<1>5. ASSUME pc \in ForkPcs
      PROVE  /\ Making(e, Child(e)) /\ Child(e) \in Env /\ cpu[e].regs \in ForkRegs
             /\ Pn(e) \in Mapping /\ Pn(e) # XStack
  <2>1. cpu[e].regs \in ForkRegs
    BY <1>1, <1>2, <1>5 DEF InProgram, RegsFit
  <2>2. cpu[e].regs.child \in Env /\ cpu[e].regs.pn \in 1 .. LastPage
    BY <2>1 DEF ForkRegs
  <2>3. Forking(e)
    BY <1>1, <1>4, <1>5 DEF Forking, ForkPcs
  <2>4. QED
    BY <1>4, <2>1, <2>2, <2>3, OrderFacts DEF Making, Child, Pn
<1>6. pc \notin ForkPcs => ~Forking(e)
  BY <1>4 DEF Forking, ForkPcs, ProgramPcs
<1>7. QED
  BY <1>1, <1>2, <1>3, <1>4, <1>5, <1>6 DEF InProgram

LEMMA WritableFrame ==
  ASSUME Types, NEW e \in Env, NEW p \in Mapping, Writable(e, p)
  PROVE  map[e][p] # None /\ map[e][p].frame \in Frame
BY PteTypes DEF Writable

LEMMA PushedOf ==
  ASSUME Types, NEW e \in Env, Writable(e, Stack)
  PROVE  /\ Pushed(e) \in MemType
         /\ \A f \in Frame \ {map[e][Stack].frame} : Pushed(e)[f] = mem[f]
         /\ \A f \in Frame : Pushed(e)[f].prog = mem[f].prog
<1>1. map[e][Stack].frame \in Frame /\ mem \in MemType /\ "frame" \in Lib
  BY WritableFrame, PageFacts DEF Types, MemType, Lib
<1>2. QED
  BY <1>1 DEF Pushed, MemType

(* Stores, and set_pgfault_handler() of a program that is not in fork().   *)
Quiet(e) ==
  \/ \E write \in Writes : DecideToWrite(e, write)
  \/ ProgramStore(e) \/ SetPgfaultHandler(e) \/ StoreHandler(e)

LEMMA QuietStep ==
  ASSUME Types, LocalInv, NEW e \in Env, Quiet(e)
  PROVE  /\ Types' /\ Local(e)' /\ status'[e] = "RUNNABLE" /\ status[e] = "RUNNABLE"
         /\ ~Forking(e) /\ ~Forking(e)' /\ ~InHandler(e)'
         /\ \A x \in Env \ {e} : SameEnv(x)
         /\ \A p \in Mapping \ {XStack} : map'[e][p] = map[e][p]
<1>1. CASE \E write \in Writes : DecideToWrite(e, write)
  <2>1. PICK write \in Writes : DecideToWrite(e, write)
    BY <1>1
  <2>2. "store" \in Pcs /\ "run" \in ProgramPcs /\ write \in Regsets
    BY DEF Pcs, ProgramPcs, Regsets
  <2>3. At(e, "run") /\ UNCHANGED <<status, map, upcall, xstack, mem, taken, forks>>
    BY <2>1 DEF DecideToWrite
  <2>4. /\ cpu' \in [Env -> Cpu]
        /\ cpu'[e] = [pc |-> "store", esp |-> cpu[e].esp, regs |-> write]
        /\ \A x \in Env \ {e} : cpu'[x] = cpu[x]
    BY <2>1, <2>2, ContinueOf DEF DecideToWrite
  <2>5. /\ status[e] = "RUNNABLE" /\ cpu[e].esp = UserEsp /\ (upcall[e] => Writable(e, XStack))
        /\ ~Forking(e)
    BY <2>2, <2>3, ProgramAt DEF ForkPcs
  <2>6. Types' /\ \A x \in Env \ {e} : SameEnv(x)
    BY <2>3, <2>4 DEF Types, SameEnv
  <2>7. /\ cpu'[e].esp = UserEsp /\ cpu'[e].pc = "store" /\ cpu'[e].pc \in ProgramPcs
        /\ RegsFit(cpu'[e].pc, cpu'[e].regs) /\ (upcall[e] => Writable(e, XStack))'
    BY <2>3, <2>4, <2>5 DEF ProgramPcs, RegsFit, ForkPcs, Writable
  <2>8. Local(e)' /\ ~InHandler(e)' /\ Eip(e)' = "store"
    BY <2>3, <2>5, <2>7, ProgramGoes
  <2>9. QED
    BY <2>3, <2>5, <2>6, <2>8 DEF Forking
<1>2. CASE ProgramStore(e)
  <2>1. At(e, "store") /\ UNCHANGED <<status, map, upcall, xstack, taken, forks>>
        /\ Continue(e, "run", None) /\ Store(e, cpu[e].regs.page, "prog", cpu[e].regs.val)
    BY <1>2 DEF ProgramStore
  <2>2. "run" \in Pcs /\ "run" \in ProgramPcs /\ "store" \in ProgramPcs /\ None \in Regsets
    BY DEF Pcs, ProgramPcs, Regsets
  <2>3. /\ cpu' \in [Env -> Cpu]
        /\ cpu'[e] = [pc |-> "run", esp |-> cpu[e].esp, regs |-> None]
        /\ \A x \in Env \ {e} : cpu'[x] = cpu[x]
    BY <2>1, <2>2, ContinueOf
  <2>4. /\ status[e] = "RUNNABLE" /\ cpu[e].esp = UserEsp /\ (upcall[e] => Writable(e, XStack))
        /\ ~Forking(e) /\ cpu[e].regs \in Writes
    BY <2>1, <2>2, ProgramAt DEF ForkPcs, RegsFit
  <2>5. cpu[e].regs.page \in Mapping /\ cpu[e].regs.val \in Val
    BY <2>4, SizeAssumption, PageFacts
  <2>6. /\ map[e][cpu[e].regs.page].frame \in Frame
        /\ mem' = [mem EXCEPT ![map[e][cpu[e].regs.page].frame].prog = cpu[e].regs.val]
    BY <2>1, <2>5, WritableFrame DEF Store
  <2>7. mem' \in MemType
    <3>1. mem \in [Frame -> [prog : Val, lib : Lib]]
      BY DEF Types
    <3>2. PICK f \in Frame, v \in Val : mem' = [mem EXCEPT ![f].prog = v]
      BY <2>5, <2>6
    <3>3. [mem EXCEPT ![f].prog = v] \in [Frame -> [prog : Val, lib : Lib]]
      BY <3>1, ProgChange
    <3>4. QED
      BY <3>2, <3>3 DEF MemType
  <2>8. Types' /\ \A x \in Env \ {e} : SameEnv(x)
    BY <2>1, <2>3, <2>7 DEF Types, SameEnv, MemType
  <2>9. /\ cpu'[e].esp = UserEsp /\ cpu'[e].pc = "run" /\ cpu'[e].pc \in ProgramPcs
        /\ RegsFit(cpu'[e].pc, cpu'[e].regs) /\ (upcall[e] => Writable(e, XStack))'
    BY <2>1, <2>3, <2>4 DEF ProgramPcs, RegsFit, ForkPcs, Writable
  <2>10. Local(e)' /\ ~InHandler(e)' /\ Eip(e)' = "run"
    BY <2>1, <2>4, <2>9, ProgramGoes
  <2>11. QED
    BY <2>1, <2>4, <2>8, <2>10 DEF Forking
<1>3. CASE SetPgfaultHandler(e)
  <2>1. At(e, "run") /\ forks < MaxForks /\ forks' = forks + 1
        /\ Jump(e, "set_handler") /\ UNCHANGED <<status, xstack, taken>>
    BY <1>3 DEF SetPgfaultHandler, CallsFork
  <2>2. "set_handler" \in Pcs /\ "set_handler" \in ProgramPcs /\ "run" \in ProgramPcs
    BY DEF Pcs, ProgramPcs
  <2>3. /\ cpu' \in [Env -> Cpu]
        /\ cpu'[e] = [pc |-> "set_handler", esp |-> cpu[e].esp, regs |-> cpu[e].regs]
        /\ \A x \in Env \ {e} : cpu'[x] = cpu[x]
    BY <2>1, <2>2, JumpOf
  <2>4. /\ status[e] = "RUNNABLE" /\ cpu[e].esp = UserEsp /\ (upcall[e] => Writable(e, XStack))
        /\ ~Forking(e)
    BY <2>1, <2>2, ProgramAt DEF ForkPcs
  <2>5. /\ map' \in [Env -> [Mapping -> Pte \cup {None}]] /\ mem' \in MemType
        /\ \A p \in Mapping \ {XStack} : map'[e][p] = map[e][p]
        /\ \A x \in Env \ {e} : map'[x] = map[x]
        /\ upcall' \in [Env -> BOOLEAN] /\ \A x \in Env \ {e} : upcall'[x] = upcall[x]
        /\ (upcall[e] => Writable(e, XStack))'
    <3>1. CASE FirstTime(e)
      <4>1. HasFree /\ Allocate(e, XStack) /\ mem' = Zero(mem) /\ upcall' = [upcall EXCEPT ![e] = TRUE]
        BY <1>3, <3>1 DEF SetPgfaultHandler, SysPageAlloc
      <4>2. mem' \in MemType
        BY <4>1, ZeroOf DEF Types, MemType
      <4>3. /\ map' \in [Env -> [Mapping -> Pte \cup {None}]]
            /\ map'[e][XStack] = [frame |-> NewFrame, perm |-> {"W"}] /\ map'[e][XStack] # None
            /\ \A p \in Mapping \ {XStack} : map'[e][p] = map[e][p]
            /\ \A x \in Env \ {e} : map'[x] = map[x]
        BY <4>1, AllocateOf, PageFacts
      <4>4. Writable(e, XStack)'
        BY <4>3 DEF Writable
      <4>5. upcall' \in [Env -> BOOLEAN] /\ \A x \in Env \ {e} : upcall'[x] = upcall[x]
        BY <4>1 DEF Types
      <4>6. QED
        BY <4>2, <4>3, <4>4, <4>5
    <3>2. CASE ~FirstTime(e)
      <4>1. UNCHANGED <<map, mem, upcall>>
        BY <1>3, <3>2 DEF SetPgfaultHandler
      <4>2. (upcall[e] => Writable(e, XStack))'
        BY <2>4, <4>1 DEF Writable
      <4>3. QED
        BY <4>1, <4>2 DEF Types, MemType
    <3>3. QED
      BY <3>1, <3>2
  <2>6. forks' \in 0 .. MaxForks
    BY <2>1, SizeAssumption DEF Types
  <2>7. Types' /\ \A x \in Env \ {e} : SameEnv(x)
    BY <2>1, <2>3, <2>5, <2>6 DEF Types, SameEnv, MemType
  <2>8. /\ cpu'[e].esp = UserEsp /\ cpu'[e].pc = "set_handler" /\ cpu'[e].pc \in ProgramPcs
        /\ RegsFit(cpu'[e].pc, cpu'[e].regs)
    BY <2>3, <2>4 DEF ProgramPcs, RegsFit, ForkPcs
  <2>9. Local(e)' /\ ~InHandler(e)' /\ Eip(e)' = "set_handler"
    BY <2>1, <2>4, <2>5, <2>8, ProgramGoes
  <2>10. QED
    BY <2>1, <2>4, <2>5, <2>7, <2>9 DEF Forking
<1>4. CASE StoreHandler(e)
  <2>1. At(e, "set_handler") /\ UNCHANGED <<status, map, upcall, xstack, taken, forks>>
        /\ Jump(e, "exofork") /\ Store(e, Data, "lib", "pgfault")
    BY <1>4 DEF StoreHandler
  <2>2. "exofork" \in Pcs /\ "exofork" \in ProgramPcs /\ "set_handler" \in ProgramPcs
    BY DEF Pcs, ProgramPcs
  <2>3. /\ cpu' \in [Env -> Cpu]
        /\ cpu'[e] = [pc |-> "exofork", esp |-> cpu[e].esp, regs |-> cpu[e].regs]
        /\ \A x \in Env \ {e} : cpu'[x] = cpu[x]
    BY <2>1, <2>2, JumpOf
  <2>4. /\ status[e] = "RUNNABLE" /\ cpu[e].esp = UserEsp /\ (upcall[e] => Writable(e, XStack))
        /\ ~Forking(e)
    BY <2>1, <2>2, ProgramAt DEF ForkPcs
  <2>5. /\ map[e][Data].frame \in Frame /\ mem' = [mem EXCEPT ![map[e][Data].frame].lib = "pgfault"]
    BY <2>1, WritableFrame, PageFacts DEF Store
  <2>6. mem' \in MemType
    <3>1. mem \in [Frame -> [prog : Val, lib : Lib]] /\ "pgfault" \in Lib
      BY DEF Types, Lib
    <3>2. PICK f \in Frame : mem' = [mem EXCEPT ![f].lib = "pgfault"]
      BY <2>5
    <3>3. [mem EXCEPT ![f].lib = "pgfault"] \in [Frame -> [prog : Val, lib : Lib]]
      BY <3>1, LibChange
    <3>4. QED
      BY <3>2, <3>3 DEF MemType
  <2>7. Types' /\ \A x \in Env \ {e} : SameEnv(x)
    BY <2>1, <2>3, <2>6 DEF Types, SameEnv, MemType
  <2>8. /\ cpu'[e].esp = UserEsp /\ cpu'[e].pc = "exofork" /\ cpu'[e].pc \in ProgramPcs
        /\ RegsFit(cpu'[e].pc, cpu'[e].regs) /\ (upcall[e] => Writable(e, XStack))'
    BY <2>1, <2>3, <2>4 DEF ProgramPcs, RegsFit, ForkPcs, Writable
  <2>9. Local(e)' /\ ~InHandler(e)' /\ Eip(e)' = "exofork"
    BY <2>1, <2>4, <2>8, ProgramGoes
  <2>10. QED
    BY <2>1, <2>4, <2>7, <2>9 DEF Forking
<1>5. QED
  BY <1>1, <1>2, <1>3, <1>4 DEF Quiet

LEMMA SysExoforkStep ==
  ASSUME Types, LocalInv, NEW e \in Env, NEW c \in Env, SysExofork(e, c)
  PROVE  /\ Types' /\ Local(e)' /\ Local(c)' /\ c # e
         /\ status[c] = "FREE" /\ status'[c] = "NOT_RUNNABLE"
         /\ status[e] = "RUNNABLE" /\ status'[e] = "RUNNABLE"
         /\ ~Forking(e) /\ ~InHandler(e)' /\ cpu'[c].pc = "run"
         /\ cpu'[e].pc = "dup_child" /\ Eip(e)' = "dup_child"
         /\ Regs(e)' = [child |-> c, pn |-> 1] /\ cpu'[e].regs = Regs(e)'
         /\ \A x \in Env \ {e, c} : SameEnv(x)
         /\ map' = map /\ mem' = mem
<1> DEFINE regs == [child |-> c, pn |-> 1]
           mine == [pc |-> "dup_child", esp |-> cpu[e].esp, regs |-> regs]
           its  == [pc |-> "run", esp |-> cpu[e].esp, regs |-> None]
<1>1. /\ At(e, "exofork") /\ status[c] = "FREE" /\ status' = [status EXCEPT ![c] = "NOT_RUNNABLE"]
      /\ cpu' = [cpu EXCEPT ![e] = mine, ![c] = its]
      /\ UNCHANGED <<map, upcall, xstack, mem, taken, forks>>
  BY DEF SysExofork
<1>2. "exofork" \in ProgramPcs
  BY DEF ProgramPcs
<1>3. /\ status[e] = "RUNNABLE" /\ cpu[e].esp = UserEsp /\ (upcall[e] => Writable(e, XStack))
      /\ ~Forking(e)
  BY <1>1, <1>2, ProgramAt DEF ForkPcs
<1>4. c # e
  BY <1>1, <1>3
<1>5. regs \in ForkRegs
  BY OrderFacts DEF ForkRegs
<1>6. mine \in Cpu /\ its \in Cpu
  BY <1>3, <1>5, StackWords DEF Cpu, Pcs, ProgramPcs, Regsets
<1>7. mine.pc = "dup_child" /\ mine.esp = UserEsp /\ mine.regs = regs
      /\ its = [pc |-> "run", esp |-> UserEsp, regs |-> None]
  BY <1>3
<1> HIDE DEF mine, its
<1>8. /\ cpu' \in [Env -> Cpu] /\ cpu'[e] = mine /\ cpu'[c] = its
      /\ \A x \in Env \ {e, c} : cpu'[x] = cpu[x]
  BY <1>1, <1>4, <1>6 DEF Types
<1>9. /\ status' \in [Env -> {"FREE", "NOT_RUNNABLE", "RUNNABLE", "PANIC"}]
      /\ status'[c] = "NOT_RUNNABLE" /\ \A x \in Env \ {c} : status'[x] = status[x]
  BY <1>1 DEF Types
<1>10. Types' /\ \A x \in Env \ {e, c} : SameEnv(x)
  BY <1>1, <1>8, <1>9 DEF Types, SameEnv
<1>11. /\ cpu'[e].esp = UserEsp /\ cpu'[e].pc = "dup_child" /\ cpu'[e].pc \in ProgramPcs
       /\ RegsFit(cpu'[e].pc, cpu'[e].regs) /\ (upcall[e] => Writable(e, XStack))'
  BY <1>1, <1>3, <1>5, <1>7, <1>8 DEF ProgramPcs, RegsFit, Writable
<1>12. /\ Local(e)' /\ ~InHandler(e)'
       /\ Eip(e)' = "dup_child" /\ Regs(e)' = cpu'[e].regs
  BY <1>3, <1>4, <1>9, <1>11, ProgramGoes
<1>13. upcall[c] => Writable(c, XStack)
  BY DEF LocalInv, Local
<1>14. Local(c)'
  BY <1>1, <1>7, <1>8, <1>9, <1>13 DEF Local, Idle, Writable
<1>15. QED
  BY <1>1, <1>3, <1>4, <1>7, <1>8, <1>9, <1>10, <1>11, <1>12, <1>14

LEMMA LoopFacts ==
  ASSUME Types, LocalInv, ChildInv, NEW e \in Env, NEW pc \in ForkPcs, At(e, pc)
  PROVE  /\ pc \in ProgramPcs
         /\ status[e] = "RUNNABLE" /\ cpu[e].pc = pc /\ cpu[e].esp = UserEsp
         /\ Eip(e) = pc /\ Regs(e) = cpu[e].regs /\ cpu[e].regs \in ForkRegs
         /\ upcall[e] => Writable(e, XStack)
         /\ Making(e, Child(e)) /\ Child(e) \in Env /\ Child(e) # e
         /\ Pn(e) \in Mapping /\ Pn(e) # XStack
         /\ status[Child(e)] = "NOT_RUNNABLE" /\ Idle(Child(e))
         /\ upcall[Child(e)] => Writable(Child(e), XStack)
<1>1. pc \in ProgramPcs
  BY DEF ForkPcs, ProgramPcs
<1>2. /\ status[e] = "RUNNABLE" /\ cpu[e].pc = pc /\ cpu[e].esp = UserEsp
      /\ Eip(e) = pc /\ Regs(e) = cpu[e].regs /\ cpu[e].regs \in ForkRegs
      /\ upcall[e] => Writable(e, XStack)
      /\ Making(e, Child(e)) /\ Child(e) \in Env
      /\ Pn(e) \in Mapping /\ Pn(e) # XStack
  BY <1>1, ProgramAt
<1>3. status[Child(e)] = "NOT_RUNNABLE"
  BY <1>2 DEF ChildInv
<1>4. Idle(Child(e)) /\ (upcall[Child(e)] => Writable(Child(e), XStack))
  BY <1>2, <1>3 DEF LocalInv, Local
<1>5. QED
  BY <1>1, <1>2, <1>3, <1>4

(* The environment is in fork(), for the same child.                       *)
Forks(e, pc) == Eip(e)' = pc /\ Regs(e)'.child = Child(e) /\ ~InHandler(e)'

LEMMA ForkGoes ==
  ASSUME Types, LocalInv, ChildInv, NEW e \in Env, NEW pc \in ForkPcs, At(e, pc),
         NEW c \in Env, c = Child(e),
         status' = status, xstack' = xstack, taken' = taken, forks' = forks, mem' \in MemType,
         upcall' \in [Env -> BOOLEAN], map' \in [Env -> [Mapping -> Pte \cup {None}]],
         cpu' \in [Env -> Cpu], \A x \in Env \ {e} : cpu'[x] = cpu[x],
         \A x \in Env \ {e, c} : map'[x] = map[x] /\ upcall'[x] = upcall[x],
         upcall'[e] = upcall[e], map'[e][XStack] = map[e][XStack],
         (upcall[c] => Writable(c, XStack)) => (upcall[c] => Writable(c, XStack))',
         cpu'[e].esp = UserEsp, cpu'[e].pc \in ForkPcs, cpu'[e].regs \in ForkRegs,
         RegsFit(cpu'[e].pc, cpu'[e].regs), cpu'[e].regs.child = cpu[e].regs.child,
         (cpu[e].pc = "dup_own" => Writable(e, Stack) /\ map[e][Pn(e)] # None)'
  PROVE  /\ Types' /\ Local(e)' /\ Local(c)' /\ Forks(e, cpu'[e].pc)
         /\ \A x \in Env \ {e, c} : SameEnv(x)
         /\ Regs(e)' = cpu'[e].regs
<1>1. /\ status[e] = "RUNNABLE" /\ cpu[e].esp = UserEsp /\ (upcall[e] => Writable(e, XStack))
      /\ c # e /\ status[c] = "NOT_RUNNABLE" /\ Idle(c)
      /\ upcall[c] => Writable(c, XStack)
  BY LoopFacts
<1>2. Types'
  BY DEF Types, MemType
<1>3. \A x \in Env \ {e, c} : SameEnv(x)
  BY DEF SameEnv
<1>4. (upcall[e] => Writable(e, XStack))'
  BY <1>1 DEF Writable
<1>5. cpu'[e].pc \in ProgramPcs
  BY DEF ForkPcs, ProgramPcs
<1>6. /\ Local(e)' /\ ~InHandler(e)'
      /\ Eip(e)' = cpu'[e].pc /\ Regs(e)' = cpu'[e].regs
  BY <1>1, <1>4, <1>5, ProgramGoes
<1>7. Local(c)'
  BY <1>1 DEF Local, Idle
<1>8. QED
  BY <1>2, <1>3, <1>6, <1>7 DEF Forks, Child

(* What one turn of the loop leaves.                                       *)
Turn(e, c) ==
  /\ Types' /\ Local(e)' /\ Local(c)'
  /\ \A x \in Env \ {e, c} : SameEnv(x)
  /\ c # e /\ Making(e, c) /\ status[c] = "NOT_RUNNABLE" /\ cpu[c].pc = "run"
  /\ status[e] = "RUNNABLE" /\ status' = status /\ cpu'[c] = cpu[c]
  /\ ~InHandler(e) /\ ~InHandler(e)'
  /\ Eip(e)' \in ForkPcs /\ cpu'[e].pc = Eip(e)' /\ Regs(e)'.child = c
  /\ cpu'[e].regs = Regs(e)'

LEMMA NextPageTurn ==
  ASSUME Types, LocalInv, ChildInv, NEW e \in Env,
         NEW pc, pc = "dup_child" \/ pc = "dup_own", At(e, pc),
         NEW c \in Env, c = Child(e), Writable(e, Stack), NextPage(e), mem' = Pushed(e),
         status' = status, upcall' = upcall, xstack' = xstack, taken' = taken, forks' = forks,
         map' \in [Env -> [Mapping -> Pte \cup {None}]],
         \A x \in Env \ {e, c} : map'[x] = map[x],
         map'[e][XStack] = map[e][XStack], map'[c][XStack] = map[c][XStack]
  PROVE  Turn(e, c) /\ Eip(e)' \in {"dup_child", "end_alloc"}
<1>1. pc \in ForkPcs
  BY DEF ForkPcs
<1>2. /\ status[e] = "RUNNABLE" /\ cpu[e].pc = pc /\ cpu[e].esp = UserEsp
      /\ cpu[e].regs \in ForkRegs /\ Making(e, c) /\ c # e
      /\ status[c] = "NOT_RUNNABLE" /\ Idle(c)
  BY <1>1, LoopFacts
<1>3. /\ cpu' \in [Env -> Cpu]
      /\ cpu'[e].esp = UserEsp /\ cpu'[e].regs \in ForkRegs
      /\ cpu'[e].regs.child = cpu[e].regs.child
      /\ \/ cpu'[e].pc = "end_alloc" /\ cpu'[e].regs.pn = LastPage
         \/ cpu'[e].pc = "dup_child"
      /\ \A x \in Env \ {e} : cpu'[x] = cpu[x]
  BY <1>2, NextPageOf
<1>4. mem' \in MemType /\ upcall' \in [Env -> BOOLEAN]
  BY PushedOf DEF Types
<1>5. /\ cpu'[e].pc \in ForkPcs /\ cpu'[e].pc \in {"dup_child", "end_alloc"}
      /\ RegsFit(cpu'[e].pc, cpu'[e].regs)
      /\ (cpu[e].pc = "dup_own" => Writable(e, Stack) /\ map[e][Pn(e)] # None)'
  BY <1>3 DEF ForkPcs, RegsFit
<1>6. (upcall[c] => Writable(c, XStack)) => (upcall[c] => Writable(c, XStack))'
  BY DEF Writable
<1>7. /\ Types' /\ Local(e)' /\ Local(c)' /\ Forks(e, cpu'[e].pc)
      /\ \A x \in Env \ {e, c} : SameEnv(x)
      /\ Regs(e)' = cpu'[e].regs
  BY <1>1, <1>3, <1>4, <1>5, <1>6, ForkGoes
<1>8. cpu[c].pc = "run" /\ ~InHandler(e) /\ cpu'[c] = cpu[c]
  BY <1>2, <1>3 DEF Idle, InHandler
<1>9. QED
  BY <1>2, <1>5, <1>7, <1>8 DEF Turn, Forks

LEMMA DupNothingStep ==
  ASSUME Types, LocalInv, ChildInv, NEW e \in Env, NEW c \in Env, c = Child(e), DupNothing(e)
  PROVE  /\ Turn(e, c) /\ Eip(e)' \in {"dup_child", "end_alloc"}
         /\ map' = map /\ mem' = Pushed(e) /\ Writable(e, Stack)
<1>1. At(e, "dup_child") /\ Writable(e, Stack) /\ NextPage(e) /\ mem' = Pushed(e)
      /\ UNCHANGED <<status, map, upcall, xstack, taken, forks>>
  BY DEF DupNothing, Calls
<1>2. Turn(e, c) /\ Eip(e)' \in {"dup_child", "end_alloc"}
  BY <1>1, NextPageTurn DEF Types
<1>3. QED
  BY <1>1, <1>2

(* The mapping of page p that the child gets, and the parent's own.        *)
Given(e, c, p, perm) ==
  /\ map'[c][p] = [frame |-> map[e][p].frame, perm |-> perm] /\ map'[c][p] # None
  /\ \A q \in Mapping \ {p} : map'[c][q] = map[c][q]
  /\ \A x \in Env \ {c} : map'[x] = map[x]

LEMMA GivenPage ==
  ASSUME Types, NEW e \in Env, NEW c \in Env, NEW p \in Mapping, NEW perm \in SUBSET Perm,
         map[e][p] # None, SysPageMap(e, p, c, p, perm)
  PROVE  map' \in [Env -> [Mapping -> Pte \cup {None}]] /\ Given(e, c, p, perm)
BY SysPageMapOf DEF Given

LEMMA DupReadOnlyStep ==
  ASSUME Types, LocalInv, ChildInv, NEW e \in Env, NEW c \in Env, c = Child(e), DupReadOnly(e)
  PROVE  /\ Turn(e, c) /\ Eip(e)' \in {"dup_child", "end_alloc"} /\ Given(e, c, Pn(e), {})
         /\ Eip(e) = "dup_child" /\ Regs(e) = cpu[e].regs
         /\ Pn(e) \in Mapping /\ map[e][Pn(e)] # None /\ map[e][Pn(e)].perm = {}
         /\ mem' = Pushed(e) /\ Writable(e, Stack)
<1>1. /\ At(e, "dup_child") /\ Writable(e, Stack) /\ NextPage(e) /\ mem' = Pushed(e)
      /\ map[e][Pn(e)] # None /\ map[e][Pn(e)].perm = {}
      /\ SysPageMap(e, Pn(e), c, Pn(e), {})
      /\ UNCHANGED <<status, upcall, xstack, taken, forks>>
  BY DEF DupReadOnly, Calls
<1>2. "dup_child" \in ForkPcs /\ {} \in SUBSET Perm
  BY DEF ForkPcs
<1>3. Pn(e) \in Mapping /\ Pn(e) # XStack /\ c # e /\ Eip(e) = "dup_child" /\ Regs(e) = cpu[e].regs
  BY <1>1, <1>2, LoopFacts
<1>4. map' \in [Env -> [Mapping -> Pte \cup {None}]] /\ Given(e, c, Pn(e), {})
  BY <1>1, <1>2, <1>3, GivenPage
<1>5. /\ map'[c][XStack] = map[c][XStack] /\ map'[e][XStack] = map[e][XStack]
      /\ \A x \in Env \ {e, c} : map'[x] = map[x]
  BY <1>3, <1>4, PageFacts DEF Given
<1>6. Turn(e, c) /\ Eip(e)' \in {"dup_child", "end_alloc"}
  BY <1>1, <1>4, <1>5, NextPageTurn
<1>7. QED
  BY <1>1, <1>3, <1>4, <1>6

LEMMA DupOwnStep ==
  ASSUME Types, LocalInv, ChildInv, NEW e \in Env, NEW c \in Env, c = Child(e), DupOwn(e)
  PROVE  /\ Turn(e, c) /\ Eip(e)' \in {"dup_child", "end_alloc"} /\ Given(e, e, Pn(e), {"COW"})
         /\ Eip(e) = "dup_own" /\ Regs(e) = cpu[e].regs
         /\ Pn(e) \in Mapping /\ map[e][Pn(e)] # None
         /\ mem' = Pushed(e) /\ Writable(e, Stack)
<1>1. /\ At(e, "dup_own") /\ Writable(e, Stack) /\ NextPage(e) /\ mem' = Pushed(e)
      /\ SysPageMap(e, Pn(e), e, Pn(e), {"COW"})
      /\ UNCHANGED <<status, upcall, xstack, taken, forks>>
  BY DEF DupOwn, Calls
<1>2. "dup_own" \in ForkPcs /\ "dup_own" \in ProgramPcs /\ {"COW"} \in SUBSET Perm
  BY DEF ForkPcs, ProgramPcs, Perm
<1>3. Pn(e) \in Mapping /\ Pn(e) # XStack /\ c # e /\ Eip(e) = "dup_own" /\ Regs(e) = cpu[e].regs
  BY <1>1, <1>2, LoopFacts
<1>4. map[e][Pn(e)] # None
  BY <1>1, <1>2, ProgramAt
<1>5. map' \in [Env -> [Mapping -> Pte \cup {None}]] /\ Given(e, e, Pn(e), {"COW"})
  BY <1>1, <1>2, <1>3, <1>4, GivenPage
<1>6. /\ map'[c][XStack] = map[c][XStack] /\ map'[e][XStack] = map[e][XStack]
      /\ \A x \in Env \ {e, c} : map'[x] = map[x]
  BY <1>3, <1>5, PageFacts DEF Given
<1>7. Turn(e, c) /\ Eip(e)' \in {"dup_child", "end_alloc"}
  BY <1>1, <1>5, <1>6, NextPageTurn
<1>8. QED
  BY <1>1, <1>3, <1>4, <1>5, <1>7

LEMMA DupChildStep ==
  ASSUME Types, LocalInv, ChildInv, NEW e \in Env, NEW c \in Env, c = Child(e), DupChild(e)
  PROVE  /\ Turn(e, c) /\ Eip(e)' = "dup_own" /\ Given(e, c, Pn(e), {"COW"})
         /\ Eip(e) = "dup_child" /\ Regs(e) = cpu[e].regs /\ Regs(e)' = cpu[e].regs
         /\ Pn(e) \in Mapping /\ map[e][Pn(e)] # None /\ map[e][Pn(e)].perm # {}
         /\ mem' = Pushed(e) /\ Writable(e, Stack)
<1>1. /\ At(e, "dup_child") /\ Writable(e, Stack) /\ Jump(e, "dup_own") /\ mem' = Pushed(e)
      /\ map[e][Pn(e)] # None /\ map[e][Pn(e)].perm # {}
      /\ SysPageMap(e, Pn(e), c, Pn(e), {"COW"})
      /\ UNCHANGED <<status, upcall, xstack, taken, forks>>
  BY DEF DupChild, Calls
<1>2. "dup_child" \in ForkPcs /\ "dup_own" \in Pcs /\ "dup_own" \in ForkPcs /\ {"COW"} \in SUBSET Perm
  BY DEF ForkPcs, Perm, Pcs, ProgramPcs
<1>3. /\ Pn(e) \in Mapping /\ Pn(e) # XStack /\ c # e /\ Eip(e) = "dup_child" /\ Regs(e) = cpu[e].regs
      /\ status[e] = "RUNNABLE" /\ cpu[e].pc = "dup_child" /\ cpu[e].esp = UserEsp
      /\ cpu[e].regs \in ForkRegs /\ Making(e, c)
      /\ status[c] = "NOT_RUNNABLE" /\ Idle(c)
  BY <1>1, <1>2, LoopFacts
<1>4. map' \in [Env -> [Mapping -> Pte \cup {None}]] /\ Given(e, c, Pn(e), {"COW"})
  BY <1>1, <1>2, <1>3, GivenPage
<1>5. /\ map'[c][XStack] = map[c][XStack] /\ map'[e][XStack] = map[e][XStack]
      /\ \A x \in Env \ {e, c} : map'[x] = map[x] /\ upcall'[x] = upcall[x]
      /\ map'[e] = map[e]
  BY <1>1, <1>3, <1>4, PageFacts DEF Given
<1>6. /\ cpu' \in [Env -> Cpu]
      /\ cpu'[e] = [pc |-> "dup_own", esp |-> cpu[e].esp, regs |-> cpu[e].regs]
      /\ \A x \in Env \ {e} : cpu'[x] = cpu[x]
  BY <1>1, <1>2, JumpOf
<1>7. Pn(e)' = Pn(e)
  BY <1>6 DEF Pn
<1>8. mem' \in MemType /\ upcall' \in [Env -> BOOLEAN]
  BY <1>1, PushedOf DEF Types
<1>9. /\ cpu'[e].pc = "dup_own" /\ cpu'[e].regs = cpu[e].regs /\ cpu'[e].esp = UserEsp
      /\ RegsFit(cpu'[e].pc, cpu'[e].regs)
  BY <1>3, <1>6 DEF RegsFit
<1>10. (cpu[e].pc = "dup_own" => Writable(e, Stack) /\ map[e][Pn(e)] # None)'
  BY <1>1, <1>5, <1>7 DEF Writable
<1>11. (upcall[c] => Writable(c, XStack)) => (upcall[c] => Writable(c, XStack))'
  BY <1>1, <1>5 DEF Writable
<1>12. /\ Types' /\ Local(e)' /\ Local(c)' /\ Forks(e, cpu'[e].pc)
       /\ \A x \in Env \ {e, c} : SameEnv(x)
       /\ Regs(e)' = cpu'[e].regs
  BY <1>1, <1>2, <1>3, <1>4, <1>5, <1>6, <1>8, <1>9, <1>10, <1>11, ForkGoes
<1>13. cpu[c].pc = "run" /\ ~InHandler(e) /\ cpu'[c] = cpu[c]
  BY <1>3, <1>6 DEF Idle, InHandler
<1>14. Turn(e, c)
  BY <1>1, <1>2, <1>3, <1>9, <1>12, <1>13 DEF Turn, Forks
<1>15. QED
  BY <1>1, <1>3, <1>4, <1>9, <1>12, <1>14 DEF Forks

LEMMA EndAllocStep ==
  ASSUME Types, LocalInv, ChildInv, NEW e \in Env, NEW c \in Env, c = Child(e), EndAlloc(e)
  PROVE  /\ Turn(e, c) /\ Eip(e)' = "end_upcall" /\ Regs(e)' = Regs(e)
         /\ HasFree /\ mem' = Zero(Pushed(e)) /\ Writable(e, Stack)
         /\ map'[c][XStack] = [frame |-> NewFrame, perm |-> {"W"}] /\ map'[c][XStack] # None
         /\ \A q \in Mapping \ {XStack} : map'[c][q] = map[c][q]
         /\ \A x \in Env \ {c} : map'[x] = map[x]
<1>1. /\ At(e, "end_alloc") /\ Writable(e, Stack) /\ HasFree /\ Allocate(c, XStack)
      /\ mem' = Zero(Pushed(e)) /\ Jump(e, "end_upcall")
      /\ UNCHANGED <<status, upcall, xstack, taken, forks>>
  BY DEF EndAlloc, Calls
<1>2. "end_alloc" \in ForkPcs /\ "end_upcall" \in Pcs /\ "end_upcall" \in ForkPcs
      /\ "end_alloc" \in ProgramPcs
  BY DEF ForkPcs, Pcs, ProgramPcs
<1>3. /\ c # e /\ Regs(e) = cpu[e].regs
      /\ status[e] = "RUNNABLE" /\ cpu[e].pc = "end_alloc" /\ cpu[e].esp = UserEsp
      /\ cpu[e].regs \in ForkRegs /\ Making(e, c)
      /\ status[c] = "NOT_RUNNABLE" /\ Idle(c)
  BY <1>1, <1>2, LoopFacts
<1>4. /\ map' \in [Env -> [Mapping -> Pte \cup {None}]]
      /\ map'[c][XStack] = [frame |-> NewFrame, perm |-> {"W"}] /\ map'[c][XStack] # None
      /\ \A q \in Mapping \ {XStack} : map'[c][q] = map[c][q]
      /\ \A x \in Env \ {c} : map'[x] = map[x]
  BY <1>1, AllocateOf, PageFacts
<1>5. /\ map'[e][XStack] = map[e][XStack]
      /\ \A x \in Env \ {e, c} : map'[x] = map[x] /\ upcall'[x] = upcall[x]
  BY <1>1, <1>3, <1>4
<1>6. /\ cpu' \in [Env -> Cpu]
      /\ cpu'[e] = [pc |-> "end_upcall", esp |-> cpu[e].esp, regs |-> cpu[e].regs]
      /\ \A x \in Env \ {e} : cpu'[x] = cpu[x]
  BY <1>1, <1>2, JumpOf
<1>7. Pushed(e) \in MemType
  BY <1>1, PushedOf
<1>8. mem' \in MemType /\ upcall' \in [Env -> BOOLEAN]
  BY <1>1, <1>7, ZeroOf DEF Types, MemType
<1>9. cpu[e].regs.pn = LastPage
  BY <1>1, <1>2, ProgramAt DEF RegsFit
<1>10. /\ cpu'[e].pc = "end_upcall" /\ cpu'[e].regs = cpu[e].regs /\ cpu'[e].esp = UserEsp
       /\ RegsFit(cpu'[e].pc, cpu'[e].regs)
  BY <1>3, <1>6, <1>9 DEF RegsFit
<1>11. (cpu[e].pc = "dup_own" => Writable(e, Stack) /\ map[e][Pn(e)] # None)'
  BY <1>10
<1>12. (upcall[c] => Writable(c, XStack)) => (upcall[c] => Writable(c, XStack))'
  BY <1>4 DEF Writable
<1>13. /\ Types' /\ Local(e)' /\ Local(c)' /\ Forks(e, cpu'[e].pc)
       /\ \A x \in Env \ {e, c} : SameEnv(x)
       /\ Regs(e)' = cpu'[e].regs
  BY <1>1, <1>2, <1>3, <1>4, <1>5, <1>6, <1>8, <1>10, <1>11, <1>12, ForkGoes
<1>14. cpu[c].pc = "run" /\ ~InHandler(e) /\ cpu'[c] = cpu[c]
  BY <1>3, <1>6 DEF Idle, InHandler
<1>15. Turn(e, c)
  BY <1>1, <1>2, <1>3, <1>10, <1>13, <1>14 DEF Turn, Forks
<1>16. QED
  BY <1>1, <1>3, <1>4, <1>10, <1>13, <1>15 DEF Forks

LEMMA EndUpcallStep ==
  ASSUME Types, LocalInv, ChildInv, NEW e \in Env, NEW c \in Env, c = Child(e), EndUpcall(e)
  PROVE  Turn(e, c) /\ Eip(e)' = "end_start" /\ Regs(e)' = Regs(e) /\ map' = map /\ mem' = mem
<1>1. /\ At(e, "end_upcall") /\ upcall' = [upcall EXCEPT ![c] = TRUE] /\ Jump(e, "end_start")
      /\ UNCHANGED <<status, map, xstack, mem, taken, forks>>
  BY DEF EndUpcall
<1>2. "end_upcall" \in ForkPcs /\ "end_start" \in Pcs /\ "end_start" \in ForkPcs
      /\ "end_upcall" \in ProgramPcs
  BY DEF ForkPcs, Pcs, ProgramPcs
<1>3. /\ c # e /\ Regs(e) = cpu[e].regs
      /\ status[e] = "RUNNABLE" /\ cpu[e].pc = "end_upcall" /\ cpu[e].esp = UserEsp
      /\ cpu[e].regs \in ForkRegs /\ Making(e, c)
      /\ status[c] = "NOT_RUNNABLE" /\ Idle(c)
  BY <1>1, <1>2, LoopFacts
<1>4. Writable(c, XStack)
  BY <1>3 DEF ChildInv
<1>5. /\ upcall' \in [Env -> BOOLEAN] /\ upcall'[e] = upcall[e]
      /\ \A x \in Env \ {e, c} : map'[x] = map[x] /\ upcall'[x] = upcall[x]
  BY <1>1, <1>3 DEF Types
<1>6. /\ cpu' \in [Env -> Cpu]
      /\ cpu'[e] = [pc |-> "end_start", esp |-> cpu[e].esp, regs |-> cpu[e].regs]
      /\ \A x \in Env \ {e} : cpu'[x] = cpu[x]
  BY <1>1, <1>2, JumpOf
<1>7. mem' \in MemType /\ map' \in [Env -> [Mapping -> Pte \cup {None}]]
  BY <1>1 DEF Types, MemType
<1>8. cpu[e].regs.pn = LastPage
  BY <1>1, <1>2, ProgramAt DEF RegsFit
<1>9. /\ cpu'[e].pc = "end_start" /\ cpu'[e].regs = cpu[e].regs /\ cpu'[e].esp = UserEsp
      /\ RegsFit(cpu'[e].pc, cpu'[e].regs)
  BY <1>3, <1>6, <1>8 DEF RegsFit
<1>10. (cpu[e].pc = "dup_own" => Writable(e, Stack) /\ map[e][Pn(e)] # None)'
  BY <1>9
<1>11. (upcall[c] => Writable(c, XStack)) => (upcall[c] => Writable(c, XStack))'
  BY <1>1, <1>4 DEF Writable
<1>12. /\ Types' /\ Local(e)' /\ Local(c)' /\ Forks(e, cpu'[e].pc)
       /\ \A x \in Env \ {e, c} : SameEnv(x)
       /\ Regs(e)' = cpu'[e].regs
  BY <1>1, <1>2, <1>3, <1>5, <1>6, <1>7, <1>9, <1>10, <1>11, ForkGoes
<1>13. cpu[c].pc = "run" /\ ~InHandler(e) /\ cpu'[c] = cpu[c]
  BY <1>3, <1>6 DEF Idle, InHandler
<1>14. Turn(e, c)
  BY <1>1, <1>2, <1>3, <1>9, <1>12, <1>13 DEF Turn, Forks
<1>15. QED
  BY <1>1, <1>3, <1>9, <1>12, <1>14 DEF Forks

LEMMA EndStartStep ==
  ASSUME Types, LocalInv, ChildInv, NEW e \in Env, NEW c \in Env, c = Child(e), EndStart(e)
  PROVE  /\ Types' /\ Local(e)' /\ Local(c)' /\ \A x \in Env \ {e, c} : SameEnv(x)
         /\ c # e /\ Making(e, c) /\ Eip(e) = "end_start" /\ Regs(e) = cpu[e].regs
         /\ status[c] = "NOT_RUNNABLE" /\ cpu[c].pc = "run"
         /\ status[e] = "RUNNABLE" /\ status'[e] = "RUNNABLE" /\ status'[c] = "RUNNABLE"
         /\ cpu'[c] = cpu[c] /\ ~InHandler(e)' /\ cpu'[e].pc = "run" /\ ~Forking(e)'
         /\ map' = map /\ mem' = mem /\ xstack' = xstack
<1>1. /\ At(e, "end_start") /\ status' = [status EXCEPT ![c] = "RUNNABLE"] /\ Continue(e, "run", None)
      /\ UNCHANGED <<map, upcall, xstack, mem, taken, forks>>
  BY DEF EndStart
<1>2. "end_start" \in ForkPcs /\ "run" \in Pcs /\ "run" \in ProgramPcs /\ None \in Regsets
  BY DEF ForkPcs, Pcs, ProgramPcs, Regsets
<1>3. /\ c # e /\ status[e] = "RUNNABLE" /\ cpu[e].esp = UserEsp /\ Making(e, c)
      /\ Eip(e) = "end_start" /\ Regs(e) = cpu[e].regs
      /\ status[c] = "NOT_RUNNABLE" /\ Idle(c)
      /\ (upcall[e] => Writable(e, XStack)) /\ (upcall[c] => Writable(c, XStack))
  BY <1>1, <1>2, LoopFacts
<1>4. /\ cpu' \in [Env -> Cpu]
      /\ cpu'[e] = [pc |-> "run", esp |-> cpu[e].esp, regs |-> None]
      /\ \A x \in Env \ {e} : cpu'[x] = cpu[x]
  BY <1>1, <1>2, ContinueOf
<1>5. /\ status' \in [Env -> {"FREE", "NOT_RUNNABLE", "RUNNABLE", "PANIC"}]
      /\ status'[c] = "RUNNABLE" /\ \A x \in Env \ {c} : status'[x] = status[x]
  BY <1>1 DEF Types
<1>6. Types' /\ \A x \in Env \ {e, c} : SameEnv(x)
  BY <1>1, <1>4, <1>5 DEF Types, SameEnv
<1>7. /\ cpu'[e].pc = "run" /\ cpu'[e].esp = UserEsp /\ cpu'[e].regs = None
      /\ cpu'[c] = [pc |-> "run", esp |-> UserEsp, regs |-> None]
      /\ \A regs : RegsFit("run", regs)
      /\ (upcall[e] => Writable(e, XStack))' /\ (upcall[c] => Writable(c, XStack))'
  BY <1>1, <1>3, <1>4 DEF Idle, RegsFit, ForkPcs, Writable
<1>8. Local(e)' /\ ~InHandler(e)' /\ Eip(e)' = "run"
  BY <1>2, <1>3, <1>5, <1>7, ProgramGoes
<1>9. Local(c)'
  BY <1>2, <1>5, <1>7, ProgramGoes
<1>10. QED
  BY <1>1, <1>3, <1>4, <1>5, <1>6, <1>7, <1>8, <1>9 DEF Forking, Idle
-----------------------------------------------------------------------------
(* What the parts of the invariant that relate environments need of a step *)
(* of e.                                                                   *)

(* A step that makes no child leaves the others what they are doing.       *)
LEMMA ChildKept ==
  ASSUME Types, LocalInv, ChildInv, NEW e \in Env, status[e] # "NOT_RUNNABLE",
         \A x \in Env \ {e} : ~Making(e, x) => SameEnv(x),
         \A x \in Env \ {e} : Making(e, x) => cpu[x].pc = "run" /\ cpu'[x].pc = "run",
         \A c \in Env : Making(e, c)' => Making(e, c) /\ status'[c] = status[c],
         status'[e] = "RUNNABLE" /\ cpu'[e].pc = "end_upcall" => Writable(Child(e), XStack)'
  PROVE  ChildInv' /\ \A x \in Env \ {e}, c \in Env : Making(x, c)' = Making(x, c)
<1>1. ASSUME NEW x \in Env \ {e}, NEW c \in Env PROVE Making(x, c)' = Making(x, c)
  <2>1. CASE Making(e, x)
    <3>1. status[x] = "NOT_RUNNABLE" /\ cpu'[x].pc = "run"
      BY <2>1 DEF ChildInv
    <3>2. Eip(x)' = "run"
      BY <3>1 DEF Eip, InHandler
    <3>3. QED
      BY <3>1, <3>2 DEF Making, Forking
  <2>2. CASE ~Making(e, x)
    <3>1. SameEnv(x)
      BY <2>2
    <3>2. SameProgram(x)
      BY <3>1, SameEnvProgram
    <3>3. QED
      BY <3>1, <3>2 DEF SameEnv, SameProgram, Making, Forking
  <2>3. QED
    BY <2>1, <2>2
<1>2. ASSUME NEW x \in Env, NEW c \in Env, Making(x, c)' PROVE Making(x, c) /\ status'[c] = "NOT_RUNNABLE"
  <2>1. CASE x = e
    BY <1>2, <2>1 DEF ChildInv
  <2>2. CASE x # e
    <3>1. Making(x, c) /\ status[c] = "NOT_RUNNABLE"
      BY <1>1, <1>2, <2>2 DEF ChildInv
    <3>2. c # e /\ ~Making(e, c)
      BY <2>2, <3>1 DEF ChildInv
    <3>3. SameEnv(c)
      BY <3>2
    <3>4. QED
      BY <3>1, <3>3 DEF SameEnv
  <2>3. QED
    BY <2>1, <2>2
<1>3. ASSUME NEW x \in Env, status'[x] = "RUNNABLE", cpu'[x].pc = "end_upcall"
      PROVE  Writable(Child(x), XStack)'
  <2>1. CASE x = e
    BY <1>3, <2>1
  <2>2. CASE x # e
    <3>1. ~Making(e, x)
      BY <1>3, <2>2
    <3>2. SameEnv(x)
      BY <2>2, <3>1
    <3>3. status[x] = "RUNNABLE" /\ cpu[x].pc = "end_upcall" /\ "end_upcall" \in ForkPcs
      BY <1>3, <3>2 DEF SameEnv, ForkPcs
    <3>4. Making(x, Child(x)) /\ Child(x) \in Env /\ status[Child(x)] = "NOT_RUNNABLE"
      BY <3>3, LoopFacts DEF At
    <3>5. Child(x) # e /\ ~Making(e, Child(x))
      BY <2>2, <3>4 DEF ChildInv
    <3>6. SameEnv(Child(x))
      BY <3>4, <3>5
    <3>7. Writable(Child(x), XStack)
      BY <3>3 DEF ChildInv
    <3>8. cpu'[x] = cpu[x] /\ map'[Child(x)] = map[Child(x)]
      BY <3>2, <3>6 DEF SameEnv
    <3>9. Child(x)' = Child(x)
      BY <3>8 DEF Child
    <3>10. QED
      BY <3>7, <3>8, <3>9 DEF Writable
  <2>3. QED
    BY <2>1, <2>2
<1>4. ChildInv'
  BY <1>2, <1>3 DEF ChildInv
<1>5. QED
  BY <1>1, <1>4

(* No page of a program is mapped anew.                                    *)
LEMMA SharesKept ==
  ASSUME OneAddress, SharedPagesProtected,
         \A x \in Env, p \in Page : map'[x][p] = None \/ map'[x][p] = map[x][p],
         \A x, c \in Env, p \in Page :
           Making(x, c) /\ Eip(x) = "dup_own" /\ PageOrder[Regs(x).pn] = p /\ map'[x][p] # None
             => (Making(x, c) /\ Eip(x) = "dup_own" /\ PageOrder[Regs(x).pn] = p)'
  PROVE  OneAddress' /\ SharedPagesProtected'
<1>1. OneAddress'
  BY DEF OneAddress
<1>2. SharedPagesProtected'
  <2> SUFFICES ASSUME NEW x \in Env, NEW c \in Env, NEW p \in Page, NEW q \in Page,
                      x # c, map'[x][p] # None, map'[c][q] # None,
                      map'[x][p].frame = map'[c][q].frame
               PROVE  /\ p = q
                      /\ Writable(x, p)' => (Making(x, c) /\ Eip(x) = "dup_own" /\ PageOrder[Regs(x).pn] = p)'
    BY DEF SharedPagesProtected
  <2>1. map'[x][p] = map[x][p] /\ map'[c][q] = map[c][q]
    OBVIOUS
  <2>2. Writable(x, p)' = Writable(x, p)
    BY <2>1 DEF Writable
  <2>3. p = q /\ (Writable(x, p) => Making(x, c) /\ Eip(x) = "dup_own" /\ PageOrder[Regs(x).pn] = p)
    BY <2>1 DEF SharedPagesProtected
  <2>4. QED
    BY <2>2, <2>3
<1>3. QED
  BY <1>1, <1>2

(* A step that neither fills PFTEMP nor maps the PFTEMP page of another.   *)
LEMMA PftempKept ==
  ASSUME Types, PftempOwn, NEW e \in Env,
         \A x \in Env : status'[x] = "RUNNABLE" /\ cpu'[x].pc \in {"copy", "remap"}
           => /\ status[x] = "RUNNABLE" /\ cpu[x].pc \in {"copy", "remap"}
              /\ map'[x][PFTEMP] = map[x][PFTEMP] /\ (x = e => map' = map),
         \A y \in Env, q \in Mapping :
           \/ map'[y][q] = None
           \/ map[y][q] # None /\ map'[y][q].frame = map[y][q].frame
           \/ HasFree /\ map'[y][q].frame = NewFrame
           \/ \E r \in Mapping : map[e][r] # None /\ map'[y][q].frame = map[e][r].frame
  PROVE  PftempOwn'
<1> SUFFICES ASSUME NEW x \in Env, status'[x] = "RUNNABLE", cpu'[x].pc \in {"copy", "remap"}
             PROVE  /\ Writable(x, PFTEMP)'
                    /\ \A y \in Env, q \in Mapping :
                         map'[y][q] # None /\ map'[y][q].frame = map'[x][PFTEMP].frame
                           => y = x /\ q = PFTEMP
  BY DEF PftempOwn
<1>1. /\ map'[x][PFTEMP] = map[x][PFTEMP] /\ Writable(x, PFTEMP)
      /\ \A y \in Env, q \in Mapping :
           map[y][q] # None /\ map[y][q].frame = map[x][PFTEMP].frame => y = x /\ q = PFTEMP
  BY DEF PftempOwn
<1>2. Writable(x, PFTEMP)'
  BY <1>1 DEF Writable
<1>3. ASSUME NEW y \in Env, NEW q \in Mapping, map'[y][q] # None,
             map'[y][q].frame = map[x][PFTEMP].frame
      PROVE  y = x /\ q = PFTEMP
  <2>1. CASE map[y][q] # None /\ map'[y][q].frame = map[y][q].frame
    BY <1>1, <1>3, <2>1
  <2>2. CASE HasFree /\ map'[y][q].frame = NewFrame
    BY <1>1, <1>3, <2>2, NewFrameFacts, PageFacts DEF Writable
  <2>3. CASE \E r \in Mapping : map[e][r] # None /\ map'[y][q].frame = map[e][r].frame
    <3>1. e = x
      BY <1>1, <1>3, <2>3
    <3>2. map' = map
      BY <3>1
    <3>3. QED
      BY <1>1, <1>3, <3>2
  <2>4. QED
    BY <1>3, <2>1, <2>2, <2>3
<1>4. QED
  BY <1>1, <1>2, <1>3

(* What a step may do to the words that the library keeps in the pages: it *)
(* writes to pages that e may write to, to its own PFTEMP, to a new page.  *)
LibWrites(e) ==
  \A f \in Frame :
    \/ mem'[f].lib = mem[f].lib
    \/ \E p \in Page : Writable(e, p) /\ f = map[e][p].frame
    \/ status[e] = "RUNNABLE" /\ cpu[e].pc = "copy" /\ f = map[e][PFTEMP].frame
    \/ HasFree /\ f = NewFrame

LEMMA EipKept ==
  ASSUME Types, LocalInv, ChildInv, SharedPagesProtected, PftempOwn, EipPushed,
         NEW e \in Env, status[e] # "NOT_RUNNABLE", LibWrites(e),
         \A x \in Env : status'[x] = "RUNNABLE" /\ cpu'[x].pc = "restore"
           => x = e \/ SameEnv(x),
         status'[e] = "RUNNABLE" /\ cpu'[e].pc = "restore" /\ cpu'[e].esp = FirstFrame
           => (mem[map[e][Stack].frame].lib = Saved(e, utf_eip))'
  PROVE  EipPushed'
<1> SUFFICES ASSUME NEW x \in Env, status'[x] = "RUNNABLE", cpu'[x].pc = "restore",
                    cpu'[x].esp = FirstFrame, x # e
             PROVE  (mem[map[x][Stack].frame].lib = Saved(x, utf_eip))'
  BY DEF EipPushed
<1>1. SameEnv(x)
  OBVIOUS
<1>2. /\ status[x] = "RUNNABLE" /\ cpu[x].pc = "restore" /\ cpu[x].esp = FirstFrame
      /\ map'[x] = map[x] /\ Saved(x, utf_eip)' = Saved(x, utf_eip)
  BY <1>1 DEF SameEnv, Saved
<1>3. mem[map[x][Stack].frame].lib = Saved(x, utf_eip)
  BY <1>2 DEF EipPushed
<1>4. InHandler(x) /\ ~SecondLevel(x)
  BY <1>2, StackWords DEF InHandler, SecondLevel
<1>5. FirstLevel(x)
  BY <1>2, <1>4, HandlerFacts DEF Handling
<1>6. Writable(x, Stack)
  BY <1>2, <1>5 DEF FirstLevel
<1> DEFINE f == map[x][Stack].frame
<1>7. map[x][Stack] # None /\ f \in Frame
  BY <1>6, WritableFrame, PageFacts
<1>8. ASSUME NEW p \in Page, Writable(e, p), f = map[e][p].frame PROVE FALSE
  <2>1. map[e][p] # None
    BY <1>8 DEF Writable
  <2>2. Making(e, x)
    BY <1>7, <1>8, <2>1, PageFacts DEF SharedPagesProtected
  <2>3. QED
    BY <1>2, <2>2 DEF ChildInv
<1>9. ASSUME status[e] = "RUNNABLE", cpu[e].pc = "copy", f = map[e][PFTEMP].frame PROVE FALSE
  BY <1>7, <1>9, PageFacts DEF PftempOwn
<1>10. ~(HasFree /\ f = NewFrame)
  BY <1>7, NewFrameFacts, PageFacts
<1>11. mem'[f].lib = mem[f].lib
  BY <1>7, <1>8, <1>9, <1>10 DEF LibWrites
<1>12. QED
  BY <1>2, <1>3, <1>11
-----------------------------------------------------------------------------
(* Every action keeps the invariant.                                       *)
LEMMA LocalKept ==
  ASSUME LocalInv, \A x \in Env : SameEnv(x) \/ Local(x)'
  PROVE  LocalInv'
BY SameLocal DEF LocalInv

(* A step of the handler: nobody's program or child changes.               *)
LEMMA HandlerKeeps ==
  ASSUME ForkInv, NEW e \in Env, status[e] = "RUNNABLE", status' = status,
         Local(e)', SameProgram(e), \A x \in Env \ {e} : SameEnv(x),
         cpu'[e].pc # "end_upcall"
  PROVE  /\ LocalInv' /\ ChildInv'
         /\ \A x \in Env : SameProgram(x)
         /\ \A x, c \in Env : Making(x, c)' = Making(x, c)
<1>1. Types /\ LocalInv /\ ChildInv
  BY DEF ForkInv
<1>2. LocalInv'
  BY <1>1, LocalKept
<1>3. \A x \in Env : SameProgram(x)
  BY SameEnvProgram
<1>4. \A x, c \in Env : Making(x, c)' = Making(x, c)
  BY <1>3 DEF SameProgram, Making, Forking
<1>5. ASSUME NEW x \in Env \ {e}, Making(e, x) PROVE cpu[x].pc = "run" /\ cpu'[x].pc = "run"
  <2>1. status[x] = "NOT_RUNNABLE" /\ cpu'[x] = cpu[x]
    BY <1>1, <1>5 DEF ChildInv, SameEnv
  <2>2. QED
    BY <1>1, <2>1 DEF LocalInv, Local, Idle
<1>6. ChildInv'
  BY <1>1, <1>4, <1>5, ChildKept
<1>7. QED
  BY <1>2, <1>3, <1>4, <1>6

LEMMA PageFaultInv ==
  ASSUME ForkInv, NEW e \in Env, PageFault(e)
  PROVE  ForkInv'
<1>1. /\ Types /\ LocalInv /\ ChildInv /\ OneAddress /\ SharedPagesProtected /\ PftempOwn /\ EipPushed
  BY DEF ForkInv
<1>2. /\ status[e] = "RUNNABLE" /\ status' = status /\ map' = map /\ mem' = mem
      /\ cpu' = [cpu EXCEPT ![e] = [pc |-> "pftemp", esp |-> FrameTop(cpu[e].esp) - UTF, regs |-> None]]
  BY DEF PageFault, Faults
<1>3. cpu'[e].pc = "pftemp"
  BY <1>1, <1>2 DEF Types
<1>4. Types' /\ Local(e)' /\ SameProgram(e) /\ \A x \in Env \ {e} : SameEnv(x)
  BY <1>1, PageFaultStep
<1>5. /\ LocalInv' /\ ChildInv' /\ \A x \in Env : SameProgram(x)
      /\ \A x, c \in Env : Making(x, c)' = Making(x, c)
  BY <1>2, <1>3, <1>4, HandlerKeeps
<1>6. OneAddress' /\ SharedPagesProtected'
  BY <1>1, <1>2, <1>5, SharesKept DEF SameProgram
<1>7. PftempOwn'
  <2>1. \A x \in Env : status'[x] = "RUNNABLE" /\ cpu'[x].pc \in {"copy", "remap"}
          => status[x] = "RUNNABLE" /\ cpu[x].pc \in {"copy", "remap"} /\ map' = map
    BY <1>2, <1>3, <1>4 DEF SameEnv
  <2>2. QED
    BY <1>1, <1>2, <2>1 DEF PftempOwn, Writable
<1>8. EipPushed'
  <2>1. LibWrites(e)
    BY <1>2 DEF LibWrites
  <2>2. QED
    BY <1>1, <1>2, <1>3, <1>4, <2>1, EipKept
<1>9. QED
  BY <1>4, <1>5, <1>6, <1>7, <1>8 DEF ForkInv

LEMMA PftempInv ==
  ASSUME ForkInv, NEW e \in Env, PftempFirst(e) \/ PftempAgain(e)
  PROVE  ForkInv'
<1>1. /\ Types /\ LocalInv /\ ChildInv /\ OneAddress /\ SharedPagesProtected /\ PftempOwn /\ EipPushed
  BY DEF ForkInv
<1>2. PICK pc \in {"pftemp_again", "copy"} :
        /\ Jump(e, pc) /\ status[e] = "RUNNABLE" /\ UNCHANGED <<status, xstack>>
        /\ cpu[e].pc \in {"pftemp", "pftemp_again"}
        /\ \/ HasFree /\ SysPageAlloc(e, PFTEMP)
           \/ pc # "copy" /\ UNCHANGED <<map, mem>>
  BY DEF PftempFirst, PftempAgain, At
<1>3. pc \in Pcs
  BY DEF Pcs, HandlerPcs
<1>4. /\ cpu'[e].pc = pc
      /\ \A x \in Env \ {e} : cpu'[x] = cpu[x]
  BY <1>1, <1>2, JumpPc
<1>5. Types' /\ Local(e)' /\ SameProgram(e) /\ \A x \in Env \ {e} : SameEnv(x)
  BY <1>1, PftempStep
<1>6. /\ LocalInv' /\ ChildInv' /\ \A x \in Env : SameProgram(x)
      /\ \A x, c \in Env : Making(x, c)' = Making(x, c)
  BY <1>2, <1>4, <1>5, HandlerKeeps
<1>7. \/ UNCHANGED <<map, mem>> /\ pc # "copy"
      \/ /\ HasFree /\ mem' = Zero(mem)
         /\ map'[e][PFTEMP] = [frame |-> NewFrame, perm |-> {"W"}] /\ map'[e][PFTEMP] # None
         /\ \A q \in Mapping \ {PFTEMP} : map'[e][q] = map[e][q]
         /\ \A x \in Env \ {e} : map'[x] = map[x]
  BY <1>1, <1>2, AllocateOf, PageFacts DEF SysPageAlloc
<1>8. \A x \in Env, q \in Mapping : x # e \/ q # PFTEMP => map'[x][q] = map[x][q]
  BY <1>7
<1>9. OneAddress' /\ SharedPagesProtected'
  <2>1. \A x \in Env, p \in Page : map'[x][p] = map[x][p]
    BY <1>8, PageFacts
  <2>2. QED
    BY <1>1, <1>6, <2>1, SharesKept DEF SameProgram
<1>10. PftempOwn'
  <2> SUFFICES ASSUME NEW x \in Env, status'[x] = "RUNNABLE", cpu'[x].pc \in {"copy", "remap"}
               PROVE  /\ Writable(x, PFTEMP)'
                      /\ \A y \in Env, q \in Mapping :
                           map'[y][q] # None /\ map'[y][q].frame = map'[x][PFTEMP].frame
                             => y = x /\ q = PFTEMP
    BY DEF PftempOwn
  <2>1. CASE x = e
    <3>1. /\ HasFree /\ map'[e][PFTEMP] = [frame |-> NewFrame, perm |-> {"W"}] /\ map'[e][PFTEMP] # None
      BY <1>4, <1>7, <2>1
    <3>2. Writable(e, PFTEMP)'
      BY <3>1 DEF Writable
    <3>3. \A y \in Env, q \in Mapping : map[y][q] # None => map[y][q].frame # NewFrame
      BY <3>1, NewFrameFacts
    <3>4. QED
      BY <1>8, <2>1, <3>1, <3>2, <3>3
  <2>2. CASE x # e
    <3>1. status[x] = "RUNNABLE" /\ cpu[x].pc \in {"copy", "remap"} /\ map'[x] = map[x]
      BY <1>5, <2>2 DEF SameEnv
    <3>2. /\ Writable(x, PFTEMP)
          /\ \A y \in Env, q \in Mapping :
               map[y][q] # None /\ map[y][q].frame = map[x][PFTEMP].frame => y = x /\ q = PFTEMP
      BY <1>1, <3>1 DEF PftempOwn
    <3>3. Writable(x, PFTEMP)'
      BY <3>1, <3>2 DEF Writable
    <3>4. map[x][PFTEMP] # None
      BY <3>2 DEF Writable
    <3>5. HasFree => map[x][PFTEMP].frame # NewFrame
      BY <3>4, NewFrameFacts, PageFacts
    <3>6. QED
      BY <1>7, <1>8, <3>1, <3>2, <3>3, <3>5
  <2>3. QED
    BY <2>1, <2>2
<1>11. EipPushed'
  <2>1. LibWrites(e)
    <3>1. CASE UNCHANGED <<map, mem>>
      BY <3>1 DEF LibWrites
    <3>2. CASE HasFree /\ mem' = Zero(mem)
      <4>1. \A g \in Frame \ {NewFrame} : mem'[g] = mem[g]
        BY <1>1, <3>2, ZeroOf DEF Types
      <4>2. QED
        BY <3>2, <4>1 DEF LibWrites
    <3>3. QED
      BY <1>7, <3>1, <3>2
  <2>2. QED
    BY <1>1, <1>2, <1>4, <1>5, <2>1, EipKept
<1>12. QED
  BY <1>5, <1>6, <1>9, <1>10, <1>11 DEF ForkInv

LEMMA CopyInv ==
  ASSUME ForkInv, NEW e \in Env, Copy(e)
  PROVE  ForkInv'
<1>1. /\ Types /\ LocalInv /\ ChildInv /\ OneAddress /\ SharedPagesProtected /\ PftempOwn /\ EipPushed
  BY DEF ForkInv
<1>2. /\ status[e] = "RUNNABLE" /\ cpu[e].pc = "copy" /\ Jump(e, "remap")
      /\ mem' = [mem EXCEPT ![map[e][PFTEMP].frame] = mem[map[e][FaultPage(e)].frame]]
      /\ UNCHANGED <<status, map, upcall, xstack, taken, forks>>
  BY DEF Copy, At
<1>3. cpu'[e].pc = "remap"
  BY <1>1, <1>2, JumpPc
<1>4. Types' /\ Local(e)' /\ SameProgram(e) /\ \A x \in Env \ {e} : SameEnv(x)
  BY <1>1, CopyStep
<1>5. /\ LocalInv' /\ ChildInv' /\ \A x \in Env : SameProgram(x)
      /\ \A x, c \in Env : Making(x, c)' = Making(x, c)
  BY <1>2, <1>3, <1>4, HandlerKeeps
<1>6. OneAddress' /\ SharedPagesProtected'
  BY <1>1, <1>2, <1>5, SharesKept DEF SameProgram
<1>7. PftempOwn'
  <2>1. \A x \in Env : status'[x] = "RUNNABLE" /\ cpu'[x].pc \in {"copy", "remap"}
          => status[x] = "RUNNABLE" /\ cpu[x].pc \in {"copy", "remap"} /\ map' = map
    BY <1>2, <1>3, <1>4 DEF SameEnv
  <2>2. QED
    BY <1>1, <1>2, <2>1 DEF PftempOwn, Writable
<1>8. EipPushed'
  <2>1. LibWrites(e)
    BY <1>1, <1>2 DEF LibWrites, Types
  <2>2. QED
    BY <1>1, <1>2, <1>3, <1>4, <2>1, EipKept
<1>9. QED
  BY <1>4, <1>5, <1>6, <1>7, <1>8 DEF ForkInv

(* The page of PFTEMP is nobody else's when it becomes the program's.      *)
LEMMA RemapInv ==
  ASSUME ForkInv, NEW e \in Env, Remap(e)
  PROVE  ForkInv'
<1>1. /\ Types /\ LocalInv /\ ChildInv /\ OneAddress /\ SharedPagesProtected /\ PftempOwn /\ EipPushed
  BY DEF ForkInv
<1>2. /\ status[e] = "RUNNABLE" /\ cpu[e].pc = "remap" /\ Jump(e, "push_eip")
      /\ UNCHANGED <<status, upcall, xstack, mem, taken, forks>>
  BY DEF Remap, At
<1>3. cpu'[e].pc = "push_eip"
  BY <1>1, <1>2, JumpPc
<1>4. /\ Types' /\ Local(e)' /\ SameProgram(e) /\ \A x \in Env \ {e} : SameEnv(x)
      /\ FaultPage(e) \in Page
      /\ map'[e][FaultPage(e)] = [frame |-> map[e][PFTEMP].frame, perm |-> {"W"}]
      /\ map'[e][FaultPage(e)] # None
      /\ \A q \in Mapping \ {FaultPage(e)} : map'[e][q] = map[e][q]
  BY <1>1, RemapStep
<1>5. /\ LocalInv' /\ ChildInv' /\ \A x \in Env : SameProgram(x)
      /\ \A x, c \in Env : Making(x, c)' = Making(x, c)
  BY <1>2, <1>3, <1>4, HandlerKeeps
<1> DEFINE p == FaultPage(e)
           f == map[e][PFTEMP].frame
<1>6. /\ map[e][PFTEMP] # None
      /\ \A c \in Env, q \in Mapping : map[c][q] # None /\ map[c][q].frame = f => c = e /\ q = PFTEMP
  BY <1>1, <1>2 DEF PftempOwn, Writable
<1>7. /\ p \in Page /\ p # PFTEMP /\ map'[e][p].frame = f /\ map'[e][p] # None
      /\ \A x \in Env, q \in Mapping : x # e \/ q # p => map'[x][q] = map[x][q]
  BY <1>4, PageFacts DEF SameEnv
<1>8. \A x \in Env, q \in Page : map'[x][q] # None /\ map'[x][q].frame = f => x = e /\ q = p
  <2> HIDE DEF p, f
  <2>1. QED
    BY <1>6, <1>7, PageFacts
<1> HIDE DEF p, f
<1>9. OneAddress'
  BY <1>1, <1>7, <1>8, PageFacts DEF OneAddress
<1>10. SharedPagesProtected'
  <2> SUFFICES ASSUME NEW x \in Env, NEW c \in Env, NEW r \in Page, NEW q \in Page,
                      x # c, map'[x][r] # None, map'[c][q] # None,
                      map'[x][r].frame = map'[c][q].frame
               PROVE  /\ r = q
                      /\ Writable(x, r)' => (Making(x, c) /\ Eip(x) = "dup_own" /\ PageOrder[Regs(x).pn] = r)'
    BY DEF SharedPagesProtected
  <2>1. map'[x][r].frame # f
    BY <1>8
  <2>2. map'[x][r] = map[x][r] /\ map'[c][q] = map[c][q]
    BY <1>7, <2>1, PageFacts
  <2>3. Writable(x, r)' = Writable(x, r)
    BY <2>2 DEF Writable
  <2>4. r = q /\ (Writable(x, r) => Making(x, c) /\ Eip(x) = "dup_own" /\ PageOrder[Regs(x).pn] = r)
    BY <1>1, <2>2 DEF SharedPagesProtected
  <2>5. QED
    BY <1>5, <2>3, <2>4 DEF SameProgram
<1>11. PftempOwn'
  <2>1. \A x \in Env : status'[x] = "RUNNABLE" /\ cpu'[x].pc \in {"copy", "remap"}
          => x # e /\ status[x] = "RUNNABLE" /\ cpu[x].pc \in {"copy", "remap"}
             /\ map'[x][PFTEMP] = map[x][PFTEMP]
    BY <1>2, <1>3, <1>4 DEF SameEnv
  <2>2. ASSUME NEW y \in Env, NEW q \in Mapping
        PROVE  \/ map'[y][q] = None
               \/ map[y][q] # None /\ map'[y][q].frame = map[y][q].frame
               \/ \E r \in Mapping : map[e][r] # None /\ map'[y][q].frame = map[e][r].frame
    <3>1. CASE y = e /\ q = p
      BY <1>6, <1>7, <3>1, PageFacts DEF f
    <3>2. CASE ~(y = e /\ q = p)
      BY <1>7, <3>2
    <3>3. QED
      BY <3>1, <3>2
  <2>3. QED
    BY <1>1, <2>1, <2>2, PftempKept
<1>12. EipPushed'
  <2>1. LibWrites(e)
    BY <1>2 DEF LibWrites
  <2>2. QED
    BY <1>1, <1>2, <1>3, <1>4, <2>1, EipKept
<1>13. QED
  BY <1>4, <1>5, <1>9, <1>10, <1>11, <1>12 DEF ForkInv

LEMMA PushEipInv ==
  ASSUME ForkInv, NEW e \in Env, PushEip(e)
  PROVE  ForkInv'
<1>1. /\ Types /\ LocalInv /\ ChildInv /\ OneAddress /\ SharedPagesProtected /\ PftempOwn /\ EipPushed
  BY DEF ForkInv
<1>2. /\ status[e] = "RUNNABLE" /\ cpu[e].pc = "push_eip" /\ Jump(e, "restore")
      /\ UNCHANGED <<status, map, upcall, taken, forks>>
  BY DEF PushEip, At
<1>3. cpu'[e].pc = "restore"
  BY <1>1, <1>2, JumpPc
<1>4. /\ Types' /\ Local(e)' /\ SameProgram(e) /\ \A x \in Env \ {e} : SameEnv(x)
      /\ map' = map /\ cpu'[e].esp = cpu[e].esp
      /\ \/ mem' = mem
         \/ /\ Writable(e, Stack)
            /\ mem' = [mem EXCEPT ![map[e][Stack].frame].lib = Saved(e, utf_eip)]
      /\ cpu'[e].esp = FirstFrame => mem'[map[e][Stack].frame].lib = Saved(e, utf_eip)
  BY <1>1, PushEipStep
<1>5. /\ LocalInv' /\ ChildInv' /\ \A x \in Env : SameProgram(x)
      /\ \A x, c \in Env : Making(x, c)' = Making(x, c)
  BY <1>2, <1>3, <1>4, HandlerKeeps
<1>6. OneAddress' /\ SharedPagesProtected'
  BY <1>1, <1>2, <1>5, SharesKept DEF SameProgram
<1>7. PftempOwn'
  <2>1. \A x \in Env : status'[x] = "RUNNABLE" /\ cpu'[x].pc \in {"copy", "remap"}
          => status[x] = "RUNNABLE" /\ cpu[x].pc \in {"copy", "remap"} /\ map' = map
    BY <1>2, <1>3, <1>4 DEF SameEnv
  <2>2. QED
    BY <1>1, <1>2, <2>1 DEF PftempOwn, Writable
<1>8. EipPushed'
  <2>1. LibWrites(e)
    BY <1>1, <1>4, PageFacts DEF LibWrites, Types
  <2>2. Saved(e, utf_eip)' = Saved(e, utf_eip)
    <3>1. Eip(e) = Saved(e, utf_eip) /\ InHandler(e) /\ InHandler(e)'
      BY <1>2, <1>3 DEF Eip, Saved, InHandler
    <3>2. QED
      BY <1>4, <3>1 DEF SameProgram, Eip, Saved
  <2>3. cpu'[e].esp = FirstFrame => (mem[map[e][Stack].frame].lib = Saved(e, utf_eip))'
    BY <1>4, <2>2
  <2>4. QED
    BY <1>1, <1>2, <1>4, <2>1, <2>3, EipKept
<1>9. QED
  BY <1>4, <1>5, <1>6, <1>7, <1>8 DEF ForkInv

LEMMA RestoreInv ==
  ASSUME ForkInv, NEW e \in Env, Restore(e)
  PROVE  ForkInv' /\ ~Faults(e)'
<1>1. /\ Types /\ LocalInv /\ ChildInv /\ OneAddress /\ SharedPagesProtected /\ PftempOwn /\ EipPushed
  BY DEF ForkInv
<1>2. /\ status[e] = "RUNNABLE" /\ UNCHANGED <<status, map, upcall, xstack, mem, taken, forks>>
  BY DEF Restore, At
<1>3. /\ Types' /\ Local(e)' /\ SameProgram(e) /\ \A x \in Env \ {e} : SameEnv(x)
      /\ ~Faults(e)' /\ cpu'[e].pc \in Storing \cup {"push_eip"}
  BY <1>1, RestoreStep
<1>4. cpu'[e].pc \notin {"end_upcall", "copy", "remap", "restore"}
  BY <1>3 DEF Storing
<1>5. /\ LocalInv' /\ ChildInv' /\ \A x \in Env : SameProgram(x)
      /\ \A x, c \in Env : Making(x, c)' = Making(x, c)
  BY <1>2, <1>3, <1>4, HandlerKeeps
<1>6. OneAddress' /\ SharedPagesProtected'
  BY <1>1, <1>2, <1>5, SharesKept DEF SameProgram
<1>7. PftempOwn'
  <2>1. \A x \in Env : status'[x] = "RUNNABLE" /\ cpu'[x].pc \in {"copy", "remap"}
          => status[x] = "RUNNABLE" /\ cpu[x].pc \in {"copy", "remap"} /\ map' = map
    BY <1>2, <1>3, <1>4 DEF SameEnv
  <2>2. QED
    BY <1>1, <1>2, <2>1 DEF PftempOwn, Writable
<1>8. EipPushed'
  <2>1. LibWrites(e)
    BY <1>2 DEF LibWrites
  <2>2. QED
    BY <1>1, <1>2, <1>3, <1>4, <2>1, EipKept
<1>9. QED
  BY <1>3, <1>5, <1>6, <1>7, <1>8 DEF ForkInv

LEMMA QuietWrites ==
  ASSUME Types, LocalInv, NEW e \in Env, Quiet(e)
  PROVE  /\ LibWrites(e)
         /\ \/ map'[e][XStack] = map[e][XStack]
            \/ HasFree /\ map'[e][XStack].frame = NewFrame
<1>1. CASE \E write \in Writes : DecideToWrite(e, write)
  BY <1>1 DEF DecideToWrite, LibWrites
<1>2. CASE ProgramStore(e)
  <2>1. At(e, "store") /\ map' = map /\ Store(e, cpu[e].regs.page, "prog", cpu[e].regs.val)
    BY <1>2 DEF ProgramStore
  <2>2. cpu[e].regs \in Writes
    BY <2>1, ProgramAt DEF ProgramPcs, RegsFit
  <2>3. cpu[e].regs.page \in Mapping /\ cpu[e].regs.val \in Val
    BY <2>2, SizeAssumption, PageFacts
  <2>4. /\ map[e][cpu[e].regs.page].frame \in Frame /\ mem \in MemType
        /\ mem' = [mem EXCEPT ![map[e][cpu[e].regs.page].frame].prog = cpu[e].regs.val]
    BY <2>1, <2>3, WritableFrame DEF Store, Types, MemType
  <2>5. \A g \in Frame : mem'[g].lib = mem[g].lib
    BY <2>3, <2>4 DEF MemType
  <2>6. QED
    BY <2>1, <2>5 DEF LibWrites
<1>3. CASE SetPgfaultHandler(e)
  <2>1. CASE FirstTime(e)
    <3>1. HasFree /\ Allocate(e, XStack) /\ mem' = Zero(mem)
      BY <1>3, <2>1 DEF SetPgfaultHandler, SysPageAlloc
    <3>2. \A g \in Frame \ {NewFrame} : mem'[g] = mem[g]
      BY <3>1, ZeroOf DEF Types
    <3>3. map'[e][XStack] = [frame |-> NewFrame, perm |-> {"W"}]
      BY <3>1, AllocateOf, PageFacts
    <3>4. QED
      BY <3>1, <3>2, <3>3 DEF LibWrites
  <2>2. CASE ~FirstTime(e)
    BY <1>3, <2>2 DEF SetPgfaultHandler, LibWrites
  <2>3. QED
    BY <2>1, <2>2
<1>4. CASE StoreHandler(e)
  <2>1. Store(e, Data, "lib", "pgfault") /\ map' = map
    BY <1>4 DEF StoreHandler
  <2>2. Writable(e, Data) /\ mem' = [mem EXCEPT ![map[e][Data].frame].lib = "pgfault"]
        /\ map[e][Data].frame \in Frame
    BY <2>1, WritableFrame, PageFacts DEF Store
  <2>3. \A g \in Frame \ {map[e][Data].frame} : mem'[g] = mem[g]
    BY <2>2, LibChange DEF Types, Lib
  <2>4. QED
    BY <2>1, <2>2, <2>3, PageFacts DEF LibWrites
<1>5. QED
  BY <1>1, <1>2, <1>3, <1>4 DEF Quiet

LEMMA QuietInv ==
  ASSUME ForkInv, NEW e \in Env, Quiet(e)
  PROVE  ForkInv'
<1>1. /\ Types /\ LocalInv /\ ChildInv /\ OneAddress /\ SharedPagesProtected /\ PftempOwn /\ EipPushed
  BY DEF ForkInv
<1>2. /\ Types' /\ Local(e)' /\ status'[e] = "RUNNABLE" /\ status[e] = "RUNNABLE"
      /\ ~Forking(e) /\ ~Forking(e)' /\ ~InHandler(e)'
      /\ \A x \in Env \ {e} : SameEnv(x)
      /\ \A p \in Mapping \ {XStack} : map'[e][p] = map[e][p]
  BY <1>1, QuietStep
<1>3. /\ LibWrites(e)
      /\ \/ map'[e][XStack] = map[e][XStack]
         \/ HasFree /\ map'[e][XStack].frame = NewFrame
  BY <1>1, QuietWrites
<1>4. cpu'[e].pc \notin {"end_upcall", "copy", "remap", "restore"}
  BY <1>2 DEF Forking, InHandler, Eip
<1>5. LocalInv'
  BY <1>1, <1>2, LocalKept
<1>6. \A c \in Env : ~Making(e, c) /\ ~Making(e, c)'
  BY <1>2 DEF Making
<1>7. ChildInv' /\ \A x \in Env \ {e}, c \in Env : Making(x, c)' = Making(x, c)
  BY <1>1, <1>2, <1>4, <1>6, ChildKept
<1>8. OneAddress' /\ SharedPagesProtected'
  <2>1. \A x \in Env, p \in Page : map'[x][p] = map[x][p]
    BY <1>2, PageFacts DEF SameEnv
  <2>2. \A x \in Env \ {e} : SameProgram(x)
    BY <1>2, SameEnvProgram
  <2>3. QED
    BY <1>1, <1>6, <1>7, <2>1, <2>2, SharesKept DEF SameProgram
<1>9. PftempOwn'
  <2>1. \A x \in Env : status'[x] = "RUNNABLE" /\ cpu'[x].pc \in {"copy", "remap"}
          => x # e /\ status[x] = "RUNNABLE" /\ cpu[x].pc \in {"copy", "remap"}
             /\ map'[x][PFTEMP] = map[x][PFTEMP]
    BY <1>2, <1>4 DEF SameEnv
  <2>2. ASSUME NEW y \in Env, NEW q \in Mapping
        PROVE  \/ map'[y][q] = None
               \/ map[y][q] # None /\ map'[y][q].frame = map[y][q].frame
               \/ HasFree /\ map'[y][q].frame = NewFrame
    BY <1>2, <1>3 DEF SameEnv
  <2>3. QED
    BY <1>1, <2>1, <2>2, PftempKept
<1>10. EipPushed'
  BY <1>1, <1>2, <1>3, <1>4, EipKept
<1>11. QED
  BY <1>2, <1>5, <1>7, <1>8, <1>9, <1>10 DEF ForkInv

(* An environment that stops is nobody's parent any more.                  *)
LEMMA StopKeeps ==
  ASSUME ForkInv, NEW e \in Env, status[e] # "NOT_RUNNABLE", status'[e] # "RUNNABLE",
         Types', Local(e)', \A x \in Env \ {e} : SameEnv(x), LibWrites(e),
         \A p \in Mapping : map'[e][p] = None \/ map'[e][p] = map[e][p],
         \A p \in Page : map'[e][p] # None => ~(Forking(e) /\ Eip(e) = "dup_own")
  PROVE  ForkInv'
<1>1. /\ Types /\ LocalInv /\ ChildInv /\ OneAddress /\ SharedPagesProtected /\ PftempOwn /\ EipPushed
  BY DEF ForkInv
<1>2. LocalInv'
  BY <1>1, LocalKept
<1>3. \A c \in Env : ~Making(e, c)'
  BY DEF Making, Forking
<1>4. ASSUME NEW x \in Env \ {e}, Making(e, x) PROVE cpu[x].pc = "run" /\ cpu'[x].pc = "run"
  <2>1. status[x] = "NOT_RUNNABLE" /\ cpu'[x] = cpu[x]
    BY <1>1, <1>4 DEF ChildInv, SameEnv
  <2>2. QED
    BY <1>1, <2>1 DEF LocalInv, Local, Idle
<1>5. ChildInv' /\ \A x \in Env \ {e}, c \in Env : Making(x, c)' = Making(x, c)
  BY <1>1, <1>3, <1>4, ChildKept
<1>6. \A x \in Env, p \in Mapping : map'[x][p] = None \/ map'[x][p] = map[x][p]
  BY DEF SameEnv
<1>7. OneAddress' /\ SharedPagesProtected'
  <2>1. ASSUME NEW x \in Env, NEW c \in Env, NEW p \in Page,
               Making(x, c), Eip(x) = "dup_own", PageOrder[Regs(x).pn] = p, map'[x][p] # None
        PROVE  (Making(x, c) /\ Eip(x) = "dup_own" /\ PageOrder[Regs(x).pn] = p)'
    <3>1. x # e
      BY <2>1 DEF Making
    <3>2. SameProgram(x)
      BY <3>1, SameEnvProgram
    <3>3. QED
      BY <1>5, <2>1, <3>1, <3>2 DEF SameProgram
  <2>2. QED
    BY <1>1, <1>6, <2>1, PageFacts, SharesKept
<1>8. PftempOwn'
  <2>1. \A x \in Env : status'[x] = "RUNNABLE" /\ cpu'[x].pc \in {"copy", "remap"}
          => x # e /\ status[x] = "RUNNABLE" /\ cpu[x].pc \in {"copy", "remap"}
             /\ map'[x][PFTEMP] = map[x][PFTEMP]
    BY DEF SameEnv
  <2>2. ASSUME NEW y \in Env, NEW q \in Mapping
        PROVE  \/ map'[y][q] = None
               \/ map[y][q] # None /\ map'[y][q].frame = map[y][q].frame
    BY <1>6
  <2>3. QED
    BY <1>1, <2>1, <2>2, PftempKept
<1>9. EipPushed'
  BY <1>1, EipKept
<1>10. QED
  BY <1>2, <1>5, <1>7, <1>8, <1>9 DEF ForkInv

LEMMA FreeInv ==
  ASSUME ForkInv, NEW e \in Env, Exit(e) \/ PageFaultDestroys(e)
  PROVE  ForkInv'
<1>1. EnvFree(e) /\ status[e] # "NOT_RUNNABLE" /\ mem' = mem
  BY DEF Exit, PageFaultDestroys, Faults, EnvFree
<1>2. /\ Types' /\ Local(e)' /\ status'[e] = "FREE"
      /\ \A p \in Mapping : map'[e][p] = None
      /\ \A x \in Env \ {e} : SameEnv(x)
  BY <1>1, EnvFreeStep DEF ForkInv
<1>3. LibWrites(e)
  BY <1>1 DEF LibWrites
<1>4. \A p \in Page : map'[e][p] = None
  BY <1>2, PageFacts
<1>5. QED
  BY <1>1, <1>2, <1>3, <1>4, StopKeeps

LEMMA PanicInv ==
  ASSUME ForkInv, NEW e \in Env, PftempPanic(e) \/ SetPgfaultPanic(e) \/ EndPanic(e)
  PROVE  ForkInv'
<1>1. Types /\ LocalInv
  BY DEF ForkInv
<1>2. /\ Panic(e) /\ taken' = taken /\ forks' \in 0 .. MaxForks
      /\ status[e] = "RUNNABLE" /\ Eip(e) # "dup_own"
      /\ \/ mem' = mem
         \/ Writable(e, Stack) /\ mem' = Pushed(e)
  <2>1. CASE PftempPanic(e)
    <3>1. Panic(e) /\ UNCHANGED <<mem, taken, forks>> /\ At(e, "pftemp_again")
      BY <2>1 DEF PftempPanic
    <3>2. status[e] = "RUNNABLE" /\ InHandler(e)
      BY <3>1 DEF At, InHandler
    <3>3. Eip(e) = Saved(e, utf_eip) /\ ProgramFrame(e)
      BY <1>1, <3>2, HandlerFacts DEF Eip, Saved, Handling
    <3>4. Eip(e) # "dup_own"
      BY <3>3 DEF ProgramFrame, Storing
    <3>5. QED
      BY <1>1, <3>1, <3>2, <3>4 DEF Types
  <2>2. CASE SetPgfaultPanic(e)
    <3>1. Panic(e) /\ UNCHANGED <<mem, taken>> /\ At(e, "run") /\ forks < MaxForks /\ forks' = forks + 1
      BY <2>2 DEF SetPgfaultPanic, CallsFork
    <3>2. forks' \in 0 .. MaxForks
      BY <1>1, <3>1, SizeAssumption DEF Types
    <3>3. Eip(e) = "run" /\ status[e] = "RUNNABLE"
      BY <3>1 DEF At, Eip, InHandler
    <3>4. QED
      BY <3>1, <3>2, <3>3
  <2>3. CASE EndPanic(e)
    <3>1. Panic(e) /\ mem' = Pushed(e) /\ UNCHANGED <<taken, forks>>
          /\ At(e, "end_alloc") /\ Writable(e, Stack)
      BY <2>3 DEF EndPanic, Calls
    <3>2. Eip(e) = "end_alloc" /\ status[e] = "RUNNABLE"
      BY <3>1 DEF At, Eip, InHandler
    <3>3. QED
      BY <1>1, <3>1, <3>2 DEF Types
  <2>4. QED
    BY <2>1, <2>2, <2>3
<1>3. mem' \in [Frame -> [prog : Val, lib : Lib]] /\ LibWrites(e)
  <2>1. CASE mem' = mem
    BY <1>1, <2>1 DEF Types, LibWrites
  <2>2. CASE Writable(e, Stack) /\ mem' = Pushed(e)
    BY <1>1, <2>2, PushedOf, PageFacts DEF MemType, LibWrites
  <2>3. QED
    BY <1>2, <2>1, <2>2
<1>4. /\ Types' /\ Local(e)' /\ status'[e] = "PANIC" /\ map' = map
      /\ \A x \in Env \ {e} : SameEnv(x)
  BY <1>1, <1>2, <1>3, PanicStep
<1>5. QED
  BY <1>2, <1>3, <1>4, StopKeeps

LEMMA SysExoforkInv ==
  ASSUME ForkInv, NEW e \in Env, NEW c \in Env, SysExofork(e, c)
  PROVE  ForkInv'
<1>1. /\ Types /\ LocalInv /\ ChildInv /\ OneAddress /\ SharedPagesProtected /\ PftempOwn /\ EipPushed
  BY DEF ForkInv
<1>2. /\ Types' /\ Local(e)' /\ Local(c)' /\ c # e
      /\ status[c] = "FREE" /\ status'[c] = "NOT_RUNNABLE"
      /\ status[e] = "RUNNABLE" /\ status'[e] = "RUNNABLE"
      /\ ~Forking(e) /\ ~InHandler(e)' /\ cpu'[c].pc = "run"
      /\ cpu'[e].pc = "dup_child" /\ Eip(e)' = "dup_child"
      /\ Regs(e)' = [child |-> c, pn |-> 1]
      /\ \A x \in Env \ {e, c} : SameEnv(x)
      /\ map' = map /\ mem' = mem
  BY <1>1, SysExoforkStep
<1>3. LocalInv'
  BY <1>1, <1>2, LocalKept
<1>4. \A d \in Env : ~Making(e, d) /\ (Making(e, d)' => d = c)
  BY <1>2 DEF Making
<1>5. \A d \in Env : ~Making(c, d) /\ ~Making(c, d)'
  BY <1>2 DEF Making, Forking
<1>6. \A x \in Env \ {e, c} : SameProgram(x)
  BY <1>2, SameEnvProgram
<1>7. \A x \in Env \ {e, c}, d \in Env : Making(x, d)' = Making(x, d)
  BY <1>2, <1>6 DEF SameEnv, SameProgram, Making, Forking
<1>8. ChildInv'
  <2>1. ASSUME NEW x \in Env, NEW d \in Env, Making(x, d)' PROVE status'[d] = "NOT_RUNNABLE"
    <3>1. CASE x = e
      BY <1>2, <1>4, <2>1, <3>1
    <3>2. CASE x # e
      <4>1. Making(x, d) /\ x # c
        BY <1>5, <1>7, <2>1, <3>2
      <4>2. status[d] = "NOT_RUNNABLE"
        BY <1>1, <4>1 DEF ChildInv
      <4>3. d # e /\ d # c
        BY <1>2, <4>2
      <4>4. QED
        BY <1>2, <4>2, <4>3 DEF SameEnv
    <3>3. QED
      BY <3>1, <3>2
  <2>2. ASSUME NEW x \in Env, NEW y \in Env, NEW d \in Env, Making(x, d)', Making(y, d)' PROVE x = y
    <3>1. \A z \in Env : Making(z, d)' /\ z # e => Making(z, d) /\ status[d] = "NOT_RUNNABLE"
      BY <1>1, <1>5, <1>7 DEF ChildInv
    <3>2. \A z \in Env : Making(z, d)' /\ z = e => d = c
      BY <1>4
    <3>3. QED
      BY <1>1, <1>2, <2>2, <3>1, <3>2 DEF ChildInv
  <2>3. ASSUME NEW x \in Env, status'[x] = "RUNNABLE", cpu'[x].pc = "end_upcall"
        PROVE  Writable(Child(x), XStack)'
    <3>1. x # e /\ x # c
      BY <1>2, <2>3
    <3>2. status[x] = "RUNNABLE" /\ cpu[x].pc = "end_upcall" /\ cpu'[x] = cpu[x]
      BY <1>2, <2>3, <3>1 DEF SameEnv
    <3>3. Writable(Child(x), XStack) /\ Child(x)' = Child(x)
      BY <1>1, <3>2 DEF ChildInv, Child
    <3>4. QED
      BY <1>2, <3>3 DEF Writable
  <2>4. QED
    BY <2>1, <2>2, <2>3 DEF ChildInv
<1>9. OneAddress' /\ SharedPagesProtected'
  <2>1. ASSUME NEW x \in Env, NEW d \in Env, NEW p \in Page,
               Making(x, d), Eip(x) = "dup_own", PageOrder[Regs(x).pn] = p
        PROVE  (Making(x, d) /\ Eip(x) = "dup_own" /\ PageOrder[Regs(x).pn] = p)'
    <3>1. x # e /\ x # c
      BY <1>4, <1>5, <2>1
    <3>2. QED
      BY <1>6, <1>7, <2>1, <3>1 DEF SameProgram
  <2>2. QED
    BY <1>1, <1>2, <2>1, SharesKept
<1>10. PftempOwn'
  <2>1. \A x \in Env : status'[x] = "RUNNABLE" /\ cpu'[x].pc \in {"copy", "remap"}
          => status[x] = "RUNNABLE" /\ cpu[x].pc \in {"copy", "remap"} /\ map' = map
    BY <1>2 DEF SameEnv
  <2>2. QED
    BY <1>1, <1>2, <2>1 DEF PftempOwn, Writable
<1>11. EipPushed'
  <2>1. LibWrites(e)
    BY <1>2 DEF LibWrites
  <2>2. \A x \in Env : status'[x] = "RUNNABLE" /\ cpu'[x].pc = "restore" => SameEnv(x)
    BY <1>2
  <2>3. QED
    BY <1>1, <1>2, <2>1, <2>2, EipKept
<1>12. QED
  BY <1>2, <1>3, <1>8, <1>9, <1>10, <1>11 DEF ForkInv

(* A turn of the loop, which is for the same child.                        *)
LEMMA TurnKeeps ==
  ASSUME ForkInv, NEW e \in Env, NEW c \in Env, Turn(e, c), LibWrites(e),
         Eip(e)' = "end_upcall" => Writable(c, XStack)'
  PROVE  /\ LocalInv' /\ ChildInv' /\ EipPushed'
         /\ \A x, d \in Env : Making(x, d)' = Making(x, d)
         /\ \A x \in Env \ {e, c} : SameProgram(x)
         /\ \A d \in Env : Making(e, d) => d = c
         /\ \A d \in Env : ~Making(c, d)
         /\ \A d \in Env : ~Making(d, e)
<1>1. /\ Types /\ LocalInv /\ ChildInv /\ OneAddress /\ SharedPagesProtected /\ PftempOwn /\ EipPushed
  BY DEF ForkInv
<1>2. /\ Local(e)' /\ Local(c)'
      /\ \A x \in Env \ {e, c} : SameEnv(x)
      /\ c # e /\ Making(e, c) /\ status[c] = "NOT_RUNNABLE" /\ cpu[c].pc = "run"
      /\ status[e] = "RUNNABLE" /\ status' = status /\ cpu'[c] = cpu[c]
      /\ Eip(e)' \in ForkPcs /\ cpu'[e].pc = Eip(e)' /\ Regs(e)'.child = c
      /\ cpu'[e].regs = Regs(e)'
  BY DEF Turn
<1>3. LocalInv'
  BY <1>1, <1>2, LocalKept
<1>4. \A d \in Env : Making(e, d) <=> d = c
  BY <1>2 DEF Making
<1>5. \A d \in Env : Making(e, d)' <=> d = c
  BY <1>2 DEF Making, Forking, ForkPcs
<1>6. \A d \in Env : ~Making(c, d) /\ ~Making(c, d)'
  BY <1>2 DEF Making, Forking
<1>7. cpu'[e].pc = "end_upcall" => Writable(Child(e), XStack)'
  <2>1. Child(e)' = c
    BY <1>2 DEF Child
  <2>2. QED
    BY <1>2, <2>1 DEF Writable
<1>8. ChildInv' /\ \A x \in Env \ {e}, d \in Env : Making(x, d)' = Making(x, d)
  BY <1>1, <1>2, <1>4, <1>5, <1>7, ChildKept
<1>9. \A x, d \in Env : Making(x, d)' = Making(x, d)
  BY <1>4, <1>5, <1>8 DEF Making
<1>10. \A x \in Env \ {e, c} : SameProgram(x)
  BY <1>2, SameEnvProgram
<1>11. cpu'[e].pc # "restore" /\ cpu'[c].pc # "restore"
  BY <1>2 DEF ForkPcs
<1>12. \A x \in Env : status'[x] = "RUNNABLE" /\ cpu'[x].pc = "restore" => SameEnv(x)
  BY <1>2, <1>11
<1>13. EipPushed'
  BY <1>1, <1>2, <1>11, <1>12, EipKept
<1>14. \A d \in Env : ~Making(d, e)
  BY <1>1, <1>2 DEF ChildInv
<1>15. QED
  BY <1>3, <1>4, <1>6, <1>8, <1>9, <1>10, <1>13, <1>14

LEMMA PushedWrites ==
  ASSUME Types, NEW e \in Env, Writable(e, Stack), mem' = Pushed(e)
  PROVE  LibWrites(e)
BY PushedOf, PageFacts DEF LibWrites

(* The page tables in a turn: what is new is a mapping of a page of e.     *)
LEMMA TurnPftemp ==
  ASSUME Types, PftempOwn, NEW e \in Env, NEW c \in Env, Turn(e, c),
         \A y \in Env, q \in Mapping :
           \/ map'[y][q] = None
           \/ map[y][q] # None /\ map'[y][q].frame = map[y][q].frame
           \/ HasFree /\ map'[y][q].frame = NewFrame
           \/ \E r \in Mapping : map[e][r] # None /\ map'[y][q].frame = map[e][r].frame
  PROVE  PftempOwn'
<1>1. cpu'[e].pc \notin {"copy", "remap"} /\ cpu'[c].pc \notin {"copy", "remap"}
  BY DEF Turn, ForkPcs
<1>2. \A x \in Env : status'[x] = "RUNNABLE" /\ cpu'[x].pc \in {"copy", "remap"}
        => x # e /\ status[x] = "RUNNABLE" /\ cpu[x].pc \in {"copy", "remap"}
           /\ map'[x][PFTEMP] = map[x][PFTEMP]
  BY <1>1 DEF Turn, SameEnv
<1>3. QED
  BY <1>2, PftempKept

LEMMA TurnInv ==
  ASSUME ForkInv, NEW e \in Env, NEW c \in Env, Turn(e, c), LibWrites(e),
         Eip(e)' = "end_upcall" => Writable(c, XStack)',
         OneAddress', SharedPagesProtected',
         \A y \in Env, q \in Mapping :
           \/ map'[y][q] = None
           \/ map[y][q] # None /\ map'[y][q].frame = map[y][q].frame
           \/ HasFree /\ map'[y][q].frame = NewFrame
           \/ \E r \in Mapping : map[e][r] # None /\ map'[y][q].frame = map[e][r].frame
  PROVE  ForkInv'
<1>1. PftempOwn'
  BY TurnPftemp DEF ForkInv
<1>2. LocalInv' /\ ChildInv' /\ EipPushed'
  BY TurnKeeps
<1>3. QED
  BY <1>1, <1>2 DEF ForkInv, Turn

(* The turns that map no page of a program.                                *)
LEMMA EndTurnFacts ==
  ASSUME ForkInv, NEW e \in Env, NEW c \in Env, c = Child(e),
         DupNothing(e) \/ EndAlloc(e) \/ EndUpcall(e)
  PROVE  /\ Turn(e, c) /\ LibWrites(e) /\ Eip(e) # "dup_own"
         /\ Eip(e)' = "end_upcall" => Writable(c, XStack)'
         /\ \A x \in Env, q \in Mapping :
              \/ map'[x][q] = map[x][q]
              \/ q = XStack /\ HasFree /\ map'[x][q].frame = NewFrame
<1>1. /\ Types /\ LocalInv /\ ChildInv
  BY DEF ForkInv
<1>2. CASE DupNothing(e)
  <2>1. /\ Turn(e, c) /\ map' = map /\ mem' = Pushed(e) /\ Writable(e, Stack)
        /\ Eip(e)' \in {"dup_child", "end_alloc"}
    BY <1>1, <1>2, DupNothingStep
  <2>2. LibWrites(e)
    BY <1>1, <2>1, PushedWrites
  <2>3. Eip(e) = "dup_child"
    BY <1>2 DEF DupNothing, Calls, At, Eip, InHandler
  <2>4. QED
    BY <2>1, <2>2, <2>3
<1>3. CASE EndAlloc(e)
  <2>1. /\ Turn(e, c) /\ HasFree /\ mem' = Zero(Pushed(e)) /\ Writable(e, Stack)
        /\ map'[c][XStack] = [frame |-> NewFrame, perm |-> {"W"}] /\ map'[c][XStack] # None
        /\ \A q \in Mapping \ {XStack} : map'[c][q] = map[c][q]
        /\ \A x \in Env \ {c} : map'[x] = map[x]
    BY <1>1, <1>3, EndAllocStep
  <2>2. /\ Pushed(e) \in [Frame -> [prog : Val, lib : Lib]]
        /\ \A f \in Frame \ {map[e][Stack].frame} : Pushed(e)[f] = mem[f]
    BY <1>1, <2>1, PushedOf DEF MemType
  <2>3. \A f \in Frame \ {NewFrame} : mem'[f] = Pushed(e)[f]
    BY <2>1, <2>2, ZeroOf
  <2>4. LibWrites(e)
    BY <2>1, <2>2, <2>3, PageFacts DEF LibWrites
  <2>5. Writable(c, XStack)'
    BY <2>1 DEF Writable
  <2>6. Eip(e) = "end_alloc"
    BY <1>3 DEF EndAlloc, Calls, At, Eip, InHandler
  <2>7. QED
    BY <2>1, <2>4, <2>5, <2>6
<1>4. CASE EndUpcall(e)
  <2>1. Turn(e, c) /\ Eip(e)' = "end_start" /\ map' = map /\ mem' = mem
    BY <1>1, <1>4, EndUpcallStep
  <2>2. Eip(e) = "end_upcall"
    BY <1>4 DEF EndUpcall, At, Eip, InHandler
  <2>3. QED
    BY <2>1, <2>2 DEF LibWrites
<1>5. QED
  BY <1>2, <1>3, <1>4

LEMMA EndTurnInv ==
  ASSUME ForkInv, NEW e \in Env, NEW c \in Env, c = Child(e),
         DupNothing(e) \/ EndAlloc(e) \/ EndUpcall(e)
  PROVE  ForkInv'
<1>1. /\ Turn(e, c) /\ LibWrites(e) /\ Eip(e) # "dup_own"
      /\ Eip(e)' = "end_upcall" => Writable(c, XStack)'
      /\ \A x \in Env, q \in Mapping :
           \/ map'[x][q] = map[x][q]
           \/ q = XStack /\ HasFree /\ map'[x][q].frame = NewFrame
  BY EndTurnFacts
<1>2. /\ \A x, d \in Env : Making(x, d)' = Making(x, d)
      /\ \A x \in Env \ {e, c} : SameProgram(x)
      /\ \A d \in Env : ~Making(c, d)
  BY <1>1, TurnKeeps
<1>3. OneAddress' /\ SharedPagesProtected'
  <2>1. \A x \in Env, p \in Page : map'[x][p] = map[x][p]
    BY <1>1, PageFacts
  <2>2. ASSUME NEW x \in Env, NEW d \in Env, NEW p \in Page,
               Making(x, d), Eip(x) = "dup_own", PageOrder[Regs(x).pn] = p
        PROVE  (Making(x, d) /\ Eip(x) = "dup_own" /\ PageOrder[Regs(x).pn] = p)'
    <3>1. x # e /\ x # c
      BY <1>1, <1>2, <2>2
    <3>2. QED
      BY <1>2, <2>2, <3>1 DEF SameProgram
  <2>3. QED
    BY <2>1, <2>2, SharesKept DEF ForkInv
<1>4. \A y \in Env, q \in Mapping :
        \/ map'[y][q] = None
        \/ map[y][q] # None /\ map'[y][q].frame = map[y][q].frame
        \/ HasFree /\ map'[y][q].frame = NewFrame
  BY <1>1
<1>5. QED
  BY <1>1, <1>3, <1>4, TurnInv

(* A page that e maps, for itself or its child, without write access.      *)
LEMMA GivenShares ==
  ASSUME OneAddress, SharedPagesProtected, NEW e \in Env, NEW c \in Env, NEW w \in {e, c},
         NEW p \in Mapping, NEW perm, map[e][p] # None, "W" \notin perm, Given(e, w, p, perm),
         \A x, d \in Env : Making(x, d)' = Making(x, d),
         \A x \in Env \ {e, c} : SameProgram(x),
         Making(e, c), \A d \in Env : ~Making(c, d) /\ ~Making(d, e),
         Eip(e) = "dup_own" => w = e /\ PageOrder[Regs(e).pn] = p,
         w = c /\ Writable(e, p) => (Eip(e) = "dup_own" /\ PageOrder[Regs(e).pn] = p)'
  PROVE  OneAddress' /\ SharedPagesProtected'
<1>1. /\ map'[w][p] = [frame |-> map[e][p].frame, perm |-> perm]
      /\ \A x \in Env, q \in Mapping : x # w \/ q # p => map'[x][q] = map[x][q]
  BY DEF Given
<1>2. ASSUME NEW x \in Env, NEW q \in Page, map'[x][q] # None
      PROVE  \E y \in Env : map[y][q] # None /\ map[y][q].frame = map'[x][q].frame
  BY <1>1, <1>2, PageFacts
<1>3. OneAddress'
  BY <1>2 DEF OneAddress
<1>4. SharedPagesProtected'
  <2> SUFFICES ASSUME NEW x \in Env, NEW d \in Env, NEW q \in Page, NEW r \in Page,
                      x # d, map'[x][q] # None, map'[d][r] # None,
                      map'[x][q].frame = map'[d][r].frame
               PROVE  /\ q = r
                      /\ Writable(x, q)' => (Making(x, d) /\ Eip(x) = "dup_own" /\ PageOrder[Regs(x).pn] = q)'
    BY DEF SharedPagesProtected
  <2>1. q = r
    BY <1>3 DEF OneAddress
  <2>2. ASSUME Writable(x, q)'
        PROVE  (Making(x, d) /\ Eip(x) = "dup_own" /\ PageOrder[Regs(x).pn] = q)'
    <3>1. ~(x = w /\ q = p)
      BY <1>1, <2>2 DEF Writable
    <3>2. map'[x][q] = map[x][q] /\ Writable(x, q)
      BY <1>1, <2>2, <3>1, PageFacts DEF Writable
    <3>3. CASE d = w /\ q = p
      <4>1. map[x][q] # None /\ map[x][q].frame = map[e][q].frame /\ map[e][q] # None
        BY <1>1, <2>1, <3>2, <3>3
      <4>2. x = e
        BY <3>2, <4>1 DEF SharedPagesProtected
      <4>3. w = c
        BY <3>3, <4>2
      <4>4. QED
        BY <3>2, <3>3, <4>2, <4>3
    <3>4. CASE ~(d = w /\ q = p)
      <4>1. map'[d][q] = map[d][q]
        BY <1>1, <3>4, PageFacts
      <4>2. Making(x, d) /\ Eip(x) = "dup_own" /\ PageOrder[Regs(x).pn] = q
        BY <2>1, <3>2, <4>1 DEF SharedPagesProtected
      <4>3. x # e /\ x # c
        BY <3>1, <4>2
      <4>4. QED
        BY <4>2, <4>3 DEF SameProgram
    <3>5. QED
      BY <3>3, <3>4
  <2>3. QED
    BY <2>1, <2>2
<1>5. QED
  BY <1>3, <1>4

LEMMA DupFacts ==
  ASSUME ForkInv, NEW e \in Env, NEW c \in Env, c = Child(e),
         DupReadOnly(e) \/ DupChild(e) \/ DupOwn(e)
  PROVE  /\ Turn(e, c) /\ LibWrites(e) /\ Eip(e)' # "end_upcall"
         /\ Pn(e) \in Mapping /\ map[e][Pn(e)] # None
         /\ \E w \in {e, c}, perm \in {{}, {"COW"}} :
              /\ Given(e, w, Pn(e), perm)
              /\ Eip(e) = "dup_own" => w = e /\ PageOrder[Regs(e).pn] = Pn(e)
              /\ w = c /\ Writable(e, Pn(e))
                   => Eip(e)' = "dup_own" /\ PageOrder[Regs(e)'.pn] = Pn(e)
<1>1. /\ Types /\ LocalInv /\ ChildInv
  BY DEF ForkInv
<1>2. CASE DupReadOnly(e)
  <2>1. /\ Turn(e, c) /\ Eip(e)' \in {"dup_child", "end_alloc"} /\ Given(e, c, Pn(e), {})
        /\ Eip(e) = "dup_child"
        /\ Pn(e) \in Mapping /\ map[e][Pn(e)] # None /\ map[e][Pn(e)].perm = {}
        /\ mem' = Pushed(e) /\ Writable(e, Stack)
    BY <1>1, <1>2, DupReadOnlyStep
  <2>2. LibWrites(e)
    BY <1>1, <2>1, PushedWrites
  <2>3. ~Writable(e, Pn(e))
    BY <2>1 DEF Writable
  <2>4. QED
    BY <2>1, <2>2, <2>3
<1>3. CASE DupChild(e)
  <2>1. /\ Turn(e, c) /\ Eip(e)' = "dup_own" /\ Given(e, c, Pn(e), {"COW"})
        /\ Eip(e) = "dup_child" /\ Regs(e)' = cpu[e].regs
        /\ Pn(e) \in Mapping /\ map[e][Pn(e)] # None
        /\ mem' = Pushed(e) /\ Writable(e, Stack)
    BY <1>1, <1>3, DupChildStep
  <2>2. LibWrites(e)
    BY <1>1, <2>1, PushedWrites
  <2>3. PageOrder[Regs(e)'.pn] = Pn(e)
    BY <2>1 DEF Pn
  <2>4. QED
    BY <2>1, <2>2, <2>3
<1>4. CASE DupOwn(e)
  <2>1. /\ Turn(e, c) /\ Eip(e)' \in {"dup_child", "end_alloc"} /\ Given(e, e, Pn(e), {"COW"})
        /\ Eip(e) = "dup_own" /\ Regs(e) = cpu[e].regs
        /\ Pn(e) \in Mapping /\ map[e][Pn(e)] # None
        /\ mem' = Pushed(e) /\ Writable(e, Stack)
    BY <1>1, <1>4, DupOwnStep
  <2>2. LibWrites(e)
    BY <1>1, <2>1, PushedWrites
  <2>3. PageOrder[Regs(e).pn] = Pn(e) /\ c # e
    BY <2>1 DEF Pn, Turn
  <2>4. QED
    BY <2>1, <2>2, <2>3
<1>5. QED
  BY <1>2, <1>3, <1>4

LEMMA DupInv ==
  ASSUME ForkInv, NEW e \in Env, NEW c \in Env, c = Child(e),
         DupReadOnly(e) \/ DupChild(e) \/ DupOwn(e)
  PROVE  ForkInv'
<1> DEFINE p == Pn(e)
<1>1. /\ Turn(e, c) /\ LibWrites(e) /\ Eip(e)' # "end_upcall"
      /\ p \in Mapping /\ map[e][p] # None
      /\ \E w \in {e, c}, perm \in {{}, {"COW"}} :
           /\ Given(e, w, p, perm)
           /\ Eip(e) = "dup_own" => w = e /\ PageOrder[Regs(e).pn] = p
           /\ w = c /\ Writable(e, p) => Eip(e)' = "dup_own" /\ PageOrder[Regs(e)'.pn] = p
  BY DupFacts
<1>2. PICK q : q = p
  OBVIOUS
<1> HIDE DEF p
<1>3. PICK w \in {e, c}, perm \in {{}, {"COW"}} :
           /\ Given(e, w, q, perm)
           /\ Eip(e) = "dup_own" => w = e /\ PageOrder[Regs(e).pn] = q
           /\ w = c /\ Writable(e, q) => Eip(e)' = "dup_own" /\ PageOrder[Regs(e)'.pn] = q
  BY <1>1, <1>2
<1>4. /\ \A x, d \in Env : Making(x, d)' = Making(x, d)
      /\ \A x \in Env \ {e, c} : SameProgram(x)
      /\ \A d \in Env : ~Making(c, d) /\ ~Making(d, e)
      /\ Making(e, c)
  BY <1>1, TurnKeeps DEF Turn
<1>5. /\ OneAddress /\ SharedPagesProtected /\ "W" \notin perm /\ q \in Mapping /\ map[e][q] # None
  BY <1>1, <1>2 DEF ForkInv
<1>6. OneAddress' /\ SharedPagesProtected'
  BY <1>3, <1>4, <1>5, GivenShares
<1>7. \A y \in Env, r \in Mapping :
        \/ map'[y][r] = map[y][r]
        \/ map'[y][r].frame = map[e][q].frame
  BY <1>3 DEF Given
<1>8. \A y \in Env, r \in Mapping :
        \/ map'[y][r] = None
        \/ map[y][r] # None /\ map'[y][r].frame = map[y][r].frame
        \/ HasFree /\ map'[y][r].frame = NewFrame
        \/ \E s \in Mapping : map[e][s] # None /\ map'[y][r].frame = map[e][s].frame
  BY <1>5, <1>7
<1>9. QED
  BY <1>1, <1>6, <1>8, TurnInv

LEMMA EndStartInv ==
  ASSUME ForkInv, NEW e \in Env, NEW c \in Env, c = Child(e), EndStart(e)
  PROVE  ForkInv'
<1>1. /\ Types /\ LocalInv /\ ChildInv /\ OneAddress /\ SharedPagesProtected /\ PftempOwn /\ EipPushed
  BY DEF ForkInv
<1>2. /\ Types' /\ Local(e)' /\ Local(c)' /\ \A x \in Env \ {e, c} : SameEnv(x)
      /\ c # e /\ Making(e, c) /\ Eip(e) = "end_start"
      /\ status[c] = "NOT_RUNNABLE" /\ cpu[c].pc = "run"
      /\ status[e] = "RUNNABLE" /\ status'[e] = "RUNNABLE" /\ status'[c] = "RUNNABLE"
      /\ cpu'[c] = cpu[c] /\ cpu'[e].pc = "run" /\ ~Forking(e)'
      /\ map' = map /\ mem' = mem
  BY <1>1, EndStartStep
<1>3. LocalInv'
  BY <1>1, <1>2, LocalKept
<1>4. /\ \A d \in Env : ~Making(e, d)' /\ ~Making(c, d)
      /\ \A d \in Env : Making(e, d) => d = c
  BY <1>2 DEF Making, Forking
<1>5. ChildInv' /\ \A x \in Env \ {e}, d \in Env : Making(x, d)' = Making(x, d)
  BY <1>1, <1>2, <1>4, ChildKept
<1>6. \A x \in Env \ {e, c} : SameProgram(x)
  BY <1>2, SameEnvProgram
<1>7. OneAddress' /\ SharedPagesProtected'
  <2>1. ASSUME NEW x \in Env, NEW d \in Env, NEW p \in Page,
               Making(x, d), Eip(x) = "dup_own", PageOrder[Regs(x).pn] = p
        PROVE  (Making(x, d) /\ Eip(x) = "dup_own" /\ PageOrder[Regs(x).pn] = p)'
    <3>1. x # e /\ x # c
      BY <1>2, <1>4, <2>1
    <3>2. QED
      BY <1>5, <1>6, <2>1, <3>1 DEF SameProgram
  <2>2. QED
    BY <1>1, <1>2, <2>1, SharesKept
<1>8. PftempOwn'
  <2>1. \A x \in Env : status'[x] = "RUNNABLE" /\ cpu'[x].pc \in {"copy", "remap"}
          => status[x] = "RUNNABLE" /\ cpu[x].pc \in {"copy", "remap"} /\ map' = map
    BY <1>2 DEF SameEnv
  <2>2. QED
    BY <1>1, <1>2, <2>1 DEF PftempOwn, Writable
<1>9. EipPushed'
  <2>1. LibWrites(e)
    BY <1>2 DEF LibWrites
  <2>2. \A x \in Env : status'[x] = "RUNNABLE" /\ cpu'[x].pc = "restore" => SameEnv(x)
    BY <1>2
  <2>3. QED
    BY <1>1, <1>2, <2>1, <2>2, EipKept
<1>10. QED
  BY <1>2, <1>3, <1>5, <1>7, <1>8, <1>9 DEF ForkInv
-----------------------------------------------------------------------------
(* The first program has its pages in frames of their own, and everything  *)
(* else is empty.                                                          *)
LEMMA InitInv == Init => ForkInv
<1> SUFFICES ASSUME Init PROVE ForkInv
  OBVIOUS
<1> DEFINE perms(p) == IF p \in ReadOnly THEN {} ELSE {"W"}
<1>1. /\ taken \in Taken /\ forks = 0
      /\ status = [e \in Env |-> IF e = First THEN "RUNNABLE" ELSE "FREE"]
      /\ upcall = [e \in Env |-> FALSE]
      /\ cpu = [e \in Env |-> [pc |-> "run", esp |-> UserEsp, regs |-> None]]
      /\ xstack = [e \in Env |-> [a \in 0 .. XWORDS - 1 |-> None]]
      /\ mem = [f \in Frame |-> Zeroed]
  BY DEF Init
<1>2. map = [e \in Env |-> [p \in Mapping |->
              IF e = First /\ p \in Page
              THEN [frame |-> Loaded[p], perm |-> perms(p)] ELSE None]]
  BY DEF Init
<1>3. /\ Loaded \in [Page -> Frame]
      /\ \A p, q \in Page : Loaded[p] = Loaded[q] => p = q
  <2>1. Placements(taken) # {}
    BY <1>1, SizeAssumption
  <2>2. Loaded \in Placements(taken)
    BY <2>1 DEF Loaded
  <2>3. QED
    BY <2>2 DEF Placements
<1>4. \A p \in Page : [frame |-> Loaded[p], perm |-> perms(p)] \in Pte
  BY <1>3 DEF Pte, Perm
<1>5. /\ map \in [Env -> [Mapping -> Pte \cup {None}]]
      /\ \A e \in Env, p \in Mapping :
           map[e][p] # None => e = First /\ p \in Page /\ map[e][p].frame = Loaded[p]
  BY <1>2, <1>4
<1>6. Types
  <2>1. cpu \in [Env -> Cpu]
    BY <1>1, StackWords DEF Cpu, Pcs, ProgramPcs, Regsets
  <2>2. mem \in [Frame -> [prog : Val, lib : Lib]]
    BY <1>1, SizeAssumption DEF Zeroed, Lib
  <2>3. xstack = [e \in Env |-> [a \in Words |-> xstack[e][a]]]
    BY <1>1 DEF Words
  <2>4. forks \in 0 .. MaxForks
    BY <1>1, SizeAssumption
  <2>5. QED
    BY <1>1, <1>5, <2>1, <2>2, <2>3, <2>4 DEF Types
<1>7. \A e \in Env : ~InHandler(e) /\ Idle(e) /\ Eip(e) = "run" /\ ~Forking(e)
  BY <1>1 DEF InHandler, Idle, Eip, Forking
<1>8. LocalInv
  <2>1. \A e \in Env : status[e] = "FREE" => Empty(e)
    BY <1>1, <1>5 DEF Empty
  <2>2. \A e \in Env : cpu[e].pc = "run" /\ cpu[e].esp = UserEsp
    BY <1>1
  <2>3. \A e \in Env : InProgram(e)
    BY <2>2 DEF InProgram, RegsFit, ForkPcs
  <2>4. QED
    BY <1>1, <1>7, <2>1, <2>3 DEF LocalInv, Local, Runs
<1>9. ChildInv /\ PftempOwn /\ EipPushed
  BY <1>7 DEF ChildInv, Making, PftempOwn, EipPushed, Idle
<1>10. OneAddress /\ SharedPagesProtected
  <2>1. Page \subseteq Mapping
    BY PageFacts
  <2>2. QED
    BY <1>3, <1>5, <2>1 DEF OneAddress, SharedPagesProtected
<1>11. QED
  BY <1>6, <1>8, <1>9, <1>10 DEF ForkInv

(* The actions of one environment.                                         *)
LEMMA StepInv ==
  ASSUME ForkInv, NEW e \in Env,
         \/ Step(e) \/ Exit(e)
         \/ \E write \in Writes : DecideToWrite(e, write)
         \/ SetPgfaultHandler(e) \/ SetPgfaultPanic(e)
  PROVE  ForkInv'
<1>1. CASE PageFault(e)
  BY <1>1, PageFaultInv
<1>2. CASE PageFaultDestroys(e) \/ Exit(e)
  BY <1>2, FreeInv
<1>3. CASE PftempFirst(e) \/ PftempAgain(e)
  BY <1>3, PftempInv
<1>4. CASE PftempPanic(e) \/ SetPgfaultPanic(e) \/ EndPanic(e)
  BY <1>4, PanicInv
<1>5. CASE Copy(e)
  BY <1>5, CopyInv
<1>6. CASE Remap(e)
  BY <1>6, RemapInv
<1>7. CASE PushEip(e)
  BY <1>7, PushEipInv
<1>8. CASE Restore(e)
  BY <1>8, RestoreInv
<1>9. CASE Quiet(e)
  BY <1>9, QuietInv
<1>10. CASE \E c \in Env : SysExofork(e, c)
  BY <1>10, SysExoforkInv
<1>11. ASSUME NEW pc \in ForkPcs, At(e, pc) PROVE Child(e) \in Env
  BY <1>11, LoopFacts DEF ForkInv
<1>12. CASE DupNothing(e) \/ EndAlloc(e) \/ EndUpcall(e)
  <2>1. Child(e) \in Env
    BY <1>11, <1>12 DEF DupNothing, EndAlloc, EndUpcall, Calls, ForkPcs
  <2>2. PICK c \in Env : c = Child(e)
    BY <2>1
  <2>3. QED
    BY <1>12, <2>2, EndTurnInv
<1>13. CASE DupReadOnly(e) \/ DupChild(e) \/ DupOwn(e)
  <2>1. Child(e) \in Env
    BY <1>11, <1>13 DEF DupReadOnly, DupChild, DupOwn, Calls, ForkPcs
  <2>2. PICK c \in Env : c = Child(e)
    BY <2>1
  <2>3. QED
    BY <1>13, <2>2, DupInv
<1>14. CASE EndStart(e)
  <2>1. Child(e) \in Env
    BY <1>11, <1>14 DEF EndStart, ForkPcs
  <2>2. PICK c \in Env : c = Child(e)
    BY <2>1
  <2>3. QED
    BY <1>14, <2>2, EndStartInv
<1>15. QED
  BY <1>1, <1>2, <1>3, <1>4, <1>5, <1>6, <1>7, <1>8, <1>9, <1>10, <1>12, <1>13, <1>14
  DEF Step, Handler, ForkStep, Quiet

LEMMA StutterInv ==
  ASSUME ForkInv, UNCHANGED vars
  PROVE  ForkInv'
<1>1. /\ status' = status /\ map' = map /\ upcall' = upcall /\ cpu' = cpu
      /\ xstack' = xstack /\ mem' = mem /\ taken' = taken /\ forks' = forks
  BY DEF vars
<1>2. Types' /\ \A x \in Env : SameEnv(x)
  BY <1>1 DEF ForkInv, Types, SameEnv
<1>3. LocalInv'
  BY <1>2, LocalKept DEF ForkInv
<1>4. \A x \in Env : SameProgram(x)
  BY <1>2, SameEnvProgram
<1>5. \A x, d \in Env : Making(x, d)' = Making(x, d)
  BY <1>1, <1>4 DEF SameProgram, Making, Forking
<1>6. \A x \in Env, p \in Mapping : Writable(x, p)' = Writable(x, p)
  BY <1>1 DEF Writable
<1>7. ChildInv'
  <2>1. \A x \in Env : Child(x)' = Child(x)
    BY <1>1 DEF Child
  <2>2. \A x \in Env : Writable(Child(x), XStack)' = Writable(Child(x), XStack)
    BY <1>1, <2>1 DEF Writable
  <2>3. QED
    BY <1>1, <1>5, <2>2 DEF ForkInv, ChildInv
<1>8. OneAddress' /\ SharedPagesProtected'
  BY <1>1, <1>4, <1>5, SharesKept DEF ForkInv, SameProgram
<1>9. PftempOwn'
  BY <1>1, <1>6, PageFacts DEF ForkInv, PftempOwn
<1>10. EipPushed'
  BY <1>1 DEF ForkInv, EipPushed, Saved
<1>11. QED
  BY <1>2, <1>3, <1>7, <1>8, <1>9, <1>10 DEF ForkInv

LEMMA NextInv ==
  ASSUME ForkInv, [Next]_vars
  PROVE  ForkInv'
<1>1. CASE Next
  BY <1>1, StepInv DEF Next
<1>2. CASE UNCHANGED vars
  BY <1>2, StutterInv
<1>3. QED
  BY <1>1, <1>2
-----------------------------------------------------------------------------
(* The inductive invariant: what fork(), the handler and pfentry.S have    *)
(* done so far to the page tables and the exception stacks.                *)
THEOREM ForkInvAlways == Spec => []ForkInv
<1>1. Init => ForkInv
  BY InitInv
<1>2. ForkInv /\ [Next]_vars => ForkInv'
  BY NextInv
<1>3. QED
  BY <1>1, <1>2, PTL DEF Spec

(* Page tables, registers and pages hold what TypeOK says of them; in      *)
(* particular no stack pointer leaves the two stacks, and the library's    *)
(* words are a handler, a frame of a call or a saved eip.                  *)
THEOREM TypeCorrect == Spec => []TypeOK
<1>1. ForkInv => TypeOK
  BY DEF ForkInv, Types, TypeOK, Cpu
<1>2. QED
  BY <1>1, ForkInvAlways, PTL

(* A physical page that two environments share is at one address in both   *)
(* and writable in neither, except between the two sys_page_map() calls of *)
(* duppage(), for the child that is being made.                            *)
THEOREM SharedPagesStayProtected == Spec => []SharedPagesProtected
<1>1. ForkInv => SharedPagesProtected
  BY DEF ForkInv
<1>2. QED
  BY <1>1, ForkInvAlways, PTL

(* The fault of the program is the first on the exception stack, that of   *)
(* pushing the eip comes below it, and the handler of that one has all the *)
(* pages it writes to.                                                     *)
LEMMA RoomForFaults ==
  ASSUME ForkInv, NEW e \in Env, Faults(e), upcall[e]
  PROVE  HasRoom(e)
<1>1. Types /\ LocalInv
  BY DEF ForkInv
<1>2. status[e] = "RUNNABLE" /\ StoresTo(e) # None /\ ~Writable(e, StoresTo(e))
  BY DEF Faults
<1>3. Writable(e, XStack)
  BY <1>1 DEF LocalInv, Local
<1>4. CASE ~InHandler(e)
  <2>1. cpu[e].esp = UserEsp
    BY <1>1, <1>2, <1>4, ProgramFacts DEF InProgram
  <2>2. FrameTop(UserEsp) - UTF >= 0
    BY StackWords DEF FirstFrame
  <2>3. QED
    BY <1>3, <2>1, <2>2 DEF HasRoom
<1>5. CASE InHandler(e)
  <2>1. cpu[e].pc = "push_eip" /\ ~Writable(e, PageOf(Utf(e, utf_esp) - 1))
    BY <1>2, <1>5 DEF StoresTo, InHandler
  <2>2. Handling(e) /\ (SecondLevel(e) => \A f : Utf(e, f) = Nested(e, f))
    BY <1>1, <1>2, <1>5, HandlerFacts
  <2>3. ~SecondLevel(e)
    <3>1. ASSUME SecondLevel(e) PROVE FALSE
      <4>1. Utf(e, utf_esp) = FirstFrame
        BY <2>1, <2>2, <3>1 DEF SecondLevel
      <4>2. PageOf(FirstFrame - 1) = XStack
        BY StackWords
      <4>3. QED
        BY <1>3, <2>1, <4>1, <4>2
    <3>2. QED
      BY <3>1
  <2>4. cpu[e].esp = FirstFrame
    BY <2>2, <2>3 DEF Handling, FirstLevel
  <2>5. FrameTop(FirstFrame) - UTF >= 0
    BY StackWords DEF SecondFrame
  <2>6. QED
    BY <1>3, <2>4, <2>5 DEF HasRoom
<1>6. QED
  BY <1>4, <1>5

(* A fault of an environment that has called fork() or was made by it is   *)
(* never its end: page_fault_handler() finds room for the frame, also when *)
(* pfentry.S itself faults.                                                *)
THEOREM EveryFaultIsHandled == Spec => []FaultsAreHandled
<1>1. ForkInv => FaultsAreHandled
  BY RoomForFaults DEF FaultsAreHandled
<1>2. QED
  BY <1>1, ForkInvAlways, PTL

(* The registers of an environment at the end of _pgfault_upcall change by *)
(* its own last instructions or not at all.                                *)
LEMMA OthersCpu ==
  ASSUME Types, NEW d \in Env, NEW e \in Env \ {d}, status[e] = "RUNNABLE",
         \/ Step(d) \/ Exit(d)
         \/ \E write \in Writes : DecideToWrite(d, write)
         \/ SetPgfaultHandler(d) \/ SetPgfaultPanic(d)
  PROVE  cpu'[e] = cpu[e]
<1>1. CASE Handler(d)
  <2>1. CASE PageFault(d)
    BY <2>1 DEF PageFault, Types
  <2>2. CASE PageFaultDestroys(d)
    BY <2>2 DEF PageFaultDestroys, EnvFree, Types
  <2>3. CASE PftempFirst(d) \/ PftempAgain(d) \/ Copy(d) \/ Remap(d) \/ PushEip(d)
    BY <2>3 DEF PftempFirst, PftempAgain, Copy, Remap, PushEip, Jump, Continue, Types
  <2>4. CASE PftempPanic(d)
    BY <2>4 DEF PftempPanic, Panic
  <2>5. CASE Restore(d)
    BY <2>5 DEF Restore, Types
  <2>6. QED
    BY <1>1, <2>1, <2>2, <2>3, <2>4, <2>5 DEF Handler
<1>2. CASE ForkStep(d)
  <2>1. CASE \E c \in Env : SysExofork(d, c)
    BY <2>1 DEF SysExofork, Types
  <2>2. CASE DupNothing(d) \/ DupReadOnly(d) \/ DupOwn(d)
    BY <2>2 DEF DupNothing, DupReadOnly, DupOwn, NextPage, Jump, Continue, Types
  <2>3. CASE StoreHandler(d) \/ DupChild(d) \/ EndAlloc(d) \/ EndUpcall(d) \/ EndStart(d)
    BY <2>3 DEF StoreHandler, DupChild, EndAlloc, EndUpcall, EndStart, Jump, Continue, Types
  <2>4. CASE EndPanic(d)
    BY <2>4 DEF EndPanic, Panic
  <2>5. QED
    BY <1>2, <2>1, <2>2, <2>3, <2>4 DEF ForkStep
<1>3. CASE ProgramStore(d)
  BY <1>3 DEF ProgramStore, Continue, Types
<1>4. CASE Exit(d)
  BY <1>4 DEF Exit, EnvFree, Types
<1>5. CASE \E write \in Writes : DecideToWrite(d, write)
  BY <1>5 DEF DecideToWrite, Continue, Types
<1>6. CASE SetPgfaultHandler(d) \/ SetPgfaultPanic(d)
  BY <1>6 DEF SetPgfaultHandler, SetPgfaultPanic, Panic, Jump, Continue, Types
<1>7. QED
  BY <1>1, <1>2, <1>3, <1>4, <1>5, <1>6 DEF Step

LEMMA OwnReturn ==
  ASSUME NEW e \in Env, At(e, "restore"),
         \/ Step(e) \/ Exit(e)
         \/ \E write \in Writes : DecideToWrite(e, write)
         \/ SetPgfaultHandler(e) \/ SetPgfaultPanic(e)
  PROVE  Restore(e) \/ EnvFree(e)
<1>1. ~Faults(e)
  BY DEF At, Faults, StoresTo
<1>2. Handler(e) => Restore(e)
  BY <1>1 DEF Handler, PageFault, PageFaultDestroys, PftempFirst, PftempAgain, PftempPanic,
              Copy, Remap, PushEip, At
<1>3. ~ForkStep(e)
  BY DEF ForkStep, StoreHandler, SysExofork, DupNothing, DupReadOnly, DupChild, DupOwn,
         EndAlloc, EndPanic, EndUpcall, EndStart, Calls, At
<1>4. ~ProgramStore(e) /\ ~SetPgfaultHandler(e) /\ ~SetPgfaultPanic(e)
      /\ ~(\E write \in Writes : DecideToWrite(e, write))
  BY DEF ProgramStore, SetPgfaultHandler, SetPgfaultPanic, CallsFork, DecideToWrite, At
<1>5. QED
  BY <1>2, <1>3, <1>4 DEF Step, Exit

(* The handler returns to an instruction that it has repaired: the page   *)
(* that the instruction stores to is writable for it.                      *)
THEOREM ReturnsToNoFault == Spec => FaultsOnce
<1> DEFINE Returns == \A e \in Env : At(e, "restore") /\ status'[e] = "RUNNABLE" /\ cpu'[e] # cpu[e]
                                 => ~Faults(e)'
<1>1. ASSUME ForkInv, [Next]_vars PROVE [Returns]_vars
  <2> SUFFICES ASSUME Next, NEW e \in Env, At(e, "restore"), status'[e] = "RUNNABLE", cpu'[e] # cpu[e]
               PROVE  ~Faults(e)'
    BY <1>1
  <2>1. Types /\ status[e] = "RUNNABLE"
    BY <1>1 DEF ForkInv, At
  <2>2. PICK d \in Env : \/ Step(d) \/ Exit(d)
                         \/ \E write \in Writes : DecideToWrite(d, write)
                         \/ SetPgfaultHandler(d) \/ SetPgfaultPanic(d)
    BY DEF Next
  <2>3. d = e
    BY <2>1, <2>2, OthersCpu
  <2>4. Restore(e) \/ EnvFree(e)
    BY <2>2, <2>3, OwnReturn
  <2>5. ~EnvFree(e)
    BY <2>1 DEF EnvFree, Types
  <2>6. QED
    BY <1>1, <2>4, <2>5, RestoreInv
<1>2. QED
  BY <1>1, ForkInvAlways, PTL DEF Spec, FaultsOnce
=============================================================================
