-------------------------------- MODULE Fork --------------------------------
(***************************************************************************)
(* Copy-on-write fork in user space: lib/fork.c, lib/pgfault.c and         *)
(* lib/pfentry.S on top of page_fault_handler() in kern/trap.c and the     *)
(* page calls of the kernel.                                               *)
(*                                                                         *)
(* A step is one system call, or the instructions between two points where *)
(* the program may fault.  The environments take their steps on any CPUs,  *)
(* in any order.  The words of the exception stack are there one by one;   *)
(* of the other pages there are two: one the program uses and one that the *)
(* library uses (the handler pointer in the data page, the word under the  *)
(* stack pointer in the stack page).                                       *)
(***************************************************************************)
EXTENDS Integers, Sequences

CONSTANTS Env,        \* slots of envs[]
          First,      \* the environment the kernel loads
          Frame,      \* physical pages
          Page,       \* pages of the program
          Data,       \* the one that holds _pgfault_handler
          Stack,      \* the one that holds the stack
          ReadOnly,   \* those the program has mapped without PTE_W
          PFTEMP,     \* the page at PFTEMP
          XStack,     \* the page under UXSTACKTOP
          PageOrder,  \* all of these in the order of their addresses
          XWORDS,     \* words of the exception stack
          Val,        \* contents of a page, as far as the program goes
          Taken,      \* bound: what other environments may have
          Writes,     \* bound: the [page, val] that programs write
          MaxForks,   \* bound on the calls of fork()
          Initial,    \* the value of fresh memory
          None        \* the null pointer

ASSUME PageAssumption ==
  /\ {Data, Stack} \subseteq Page \ ReadOnly /\ Data # Stack /\ ReadOnly \subseteq Page
  /\ PFTEMP # XStack /\ {PFTEMP, XStack} \cap Page = {}
  /\ PageOrder \in Seq(Page \cup {PFTEMP, XStack})
  /\ \A p \in Page \cup {PFTEMP, XStack} : \E i \in DOMAIN PageOrder : PageOrder[i] = p
  /\ \A i, j \in DOMAIN PageOrder : PageOrder[i] = PageOrder[j] => i = j
  /\ PageOrder[Len(PageOrder)] = XStack

(* The frames for the pages of the first program, when others have t.      *)
Placements(t) == {g \in [Page -> Frame \ t] : \A p, q \in Page : g[p] = g[q] => p = q}

ASSUME SizeAssumption ==
  /\ First \in Env
  /\ \A t \in Taken : t \subseteq Frame /\ Placements(t) # {}
  /\ Initial \in Val /\ Writes \subseteq [page : Page, val : Val]
  /\ XWORDS \in Nat /\ MaxForks \in Nat

VARIABLES status,  \* env_status, or "PANIC" of a program that has panicked
          map,     \* the page table of each environment
          upcall,  \* env_pgfault_upcall is set
          cpu,     \* program counter, stack pointer and the other registers
          xstack,  \* the words of each exception stack
          mem,     \* the contents of each physical page
          taken,   \* the pages of all other environments
          forks    \* calls of fork() so far

vars == <<status, map, upcall, cpu, xstack, mem, taken, forks>>

Mapping == Page \cup {PFTEMP, XStack}
Perm    == {"W", "COW"}                       \* with PTE_P and PTE_U
Pte     == [frame : Frame, perm : SUBSET Perm]
Zeroed  == [prog |-> Initial, lib |-> None]

ASSUME NullAssumption == None \notin Pte \cup Mapping

(* Word addresses: the exception stack from 0 to XWORDS - 1, its top       *)
(* UXSTACKTOP = XWORDS; then the word the program's stack grows into and   *)
(* the stack pointer of the program.                                       *)
UXSTACKTOP == XWORDS
UserEsp    == XWORDS + 2
OnXStack(addr) == addr \in 0 .. UXSTACKTOP
PageOf(addr)   == IF addr < UXSTACKTOP THEN XStack ELSE Stack

(* struct UTrapframe, one word for each of the parts that matter.          *)
UTF == 4
utf_fault_va == 0
utf_regs     == 1
utf_eip      == 2
utf_esp      == 3

(* Room for a fault and for one in the handler of it, below a word of      *)
(* scratch: a page has room for many.                                      *)
ASSUME RoomAssumption == XWORDS >= 2 * UTF + 1
-----------------------------------------------------------------------------
Used     == {f \in Frame : \E e \in Env, p \in Mapping : map[e][p] # None /\ map[e][p].frame = f}
Free     == Frame \ (Used \cup taken)
HasFree  == Free # {}
NewFrame == CHOOSE f \in Free : TRUE

Writable(e, p) == map[e][p] # None /\ "W" \in map[e][p].perm

(* sys_page_alloc(), with a page left: zeroed, readable and writable.  The *)
(* page that was there is given up afterwards.                             *)
Allocate(e, p)   == map' = [map EXCEPT ![e][p] = [frame |-> NewFrame, perm |-> {"W"}]]
Zero(m)          == [m EXCEPT ![NewFrame] = Zeroed]
SysPageAlloc(e, p) == Allocate(e, p) /\ mem' = Zero(mem)

(* sys_page_map() of a page of src that is there.                          *)
SysPageMap(src, srcp, dst, dstp, perm) ==
  map' = [map EXCEPT ![dst][dstp] = [frame |-> map[src][srcp].frame, perm |-> perm]]

Continue(e, pc, regs) == cpu' = [cpu EXCEPT ![e] = [pc |-> pc, esp |-> @.esp, regs |-> regs]]
Jump(e, pc) == Continue(e, pc, cpu[e].regs)

(* panic() of a program: it executes int3 for ever.                        *)
Panic(e) ==
  /\ status' = [status EXCEPT ![e] = "PANIC"]
  /\ UNCHANGED <<map, upcall, cpu, xstack>>

At(e, pc) == status[e] = "RUNNABLE" /\ cpu[e].pc = pc
-----------------------------------------------------------------------------
(* Writes to memory.                                                       *)

(* What pfentry.S makes of the frame the stack pointer is at.              *)
Utf(e, field) == xstack[e][cpu[e].esp + field]

(* The page that the next instruction of e writes to, None if it does not. *)
StoresTo(e) ==
  CASE cpu[e].pc = "store" -> cpu[e].regs.page
    [] cpu[e].pc = "set_handler" -> Data
    [] cpu[e].pc \in {"dup_child", "dup_own", "end_alloc"} -> Stack
    [] cpu[e].pc = "push_eip" -> PageOf(Utf(e, utf_esp) - 1)
    [] OTHER -> None

Faults(e) == status[e] = "RUNNABLE" /\ StoresTo(e) # None /\ ~Writable(e, StoresTo(e))

(* A store to a page of the program by its own code or the library's.      *)
Store(e, p, field, v) ==
  /\ Writable(e, p)
  /\ mem' = [mem EXCEPT ![map[e][p].frame][field] = v]

(* Where page_fault_handler() puts the frame: below one word of scratch if *)
(* the fault came on the exception stack.                                  *)
FrameTop(esp) == IF OnXStack(esp) THEN esp - 1 ELSE UXSTACKTOP

(* user_mem_assert() of the room for the frame.                            *)
HasRoom(e) == Writable(e, XStack) /\ FrameTop(cpu[e].esp) - UTF >= 0

(* page_fault_handler(), when it does not destroy the environment.         *)
PageFault(e) ==
  LET esp == FrameTop(cpu[e].esp) - UTF
      old == cpu[e]
      va  == StoresTo(e)
  IN /\ Faults(e) /\ upcall[e] /\ HasRoom(e)
     /\ xstack' = [xstack EXCEPT ![e] =
          [@ EXCEPT ![esp + utf_fault_va] = va, ![esp + utf_regs] = old.regs,
                    ![esp + utf_eip] = old.pc, ![esp + utf_esp] = old.esp]]
     /\ cpu' = [cpu EXCEPT ![e] = [pc |-> "pftemp", esp |-> esp, regs |-> None]]
     /\ UNCHANGED <<status, map, upcall, mem, taken, forks>>

(* env_free(): nothing stays mapped.                                       *)
EnvFree(e) ==
  /\ status' = [status EXCEPT ![e] = "FREE"]
  /\ map' = [map EXCEPT ![e] = [p \in Mapping |-> None]]
  /\ upcall' = [upcall EXCEPT ![e] = FALSE]
  /\ cpu' = [cpu EXCEPT ![e] = [pc |-> "run", esp |-> UserEsp, regs |-> None]]
  /\ xstack' = [xstack EXCEPT ![e] = [a \in 0 .. XWORDS - 1 |-> None]]
  /\ UNCHANGED <<mem, taken, forks>>

(* page_fault_handler(), when it does.                                     *)
PageFaultDestroys(e) ==
  /\ Faults(e) /\ ~(upcall[e] /\ HasRoom(e))
  /\ EnvFree(e)
-----------------------------------------------------------------------------
(* pgfault() and _pgfault_upcall.                                          *)

_pgfault_handler(e) == mem[map[e][Data].frame].lib

(* The page of addr: utf points to the frame that the upcall was called    *)
(* with.                                                                   *)
FaultPage(e) == Utf(e, utf_fault_va)

(* The first sys_page_alloc() of PFTEMP, whose result is not looked at.    *)
PftempFirst(e) ==
  /\ At(e, "pftemp") /\ _pgfault_handler(e) = "pgfault"
  /\ map[e][FaultPage(e)] # None
  /\ IF HasFree THEN SysPageAlloc(e, PFTEMP) ELSE UNCHANGED <<map, mem>>
  /\ Jump(e, "pftemp_again")
  /\ UNCHANGED <<status, upcall, xstack, taken, forks>>

(* The second, which replaces the page of the first.                       *)
PftempAgain(e) ==
  /\ At(e, "pftemp_again") /\ HasFree
  /\ SysPageAlloc(e, PFTEMP)
  /\ Jump(e, "copy")
  /\ UNCHANGED <<status, upcall, xstack, taken, forks>>

PftempPanic(e) ==
  /\ At(e, "pftemp_again") /\ ~HasFree
  /\ Panic(e) /\ UNCHANGED <<mem, taken, forks>>

(* Mutant: the page is moved before it is filled.                          *)
RemapFirst(e) ==
  /\ At(e, "copy")
  /\ SysPageMap(e, PFTEMP, e, FaultPage(e), {"W"})
  /\ Jump(e, "push_eip")
  /\ UNCHANGED <<status, upcall, xstack, mem, taken, forks>>

(* memmove() to PFTEMP.                                                    *)
Copy(e) ==
  /\ At(e, "copy")
  /\ mem' = [mem EXCEPT ![map[e][PFTEMP].frame] = mem[map[e][FaultPage(e)].frame]]
  /\ Jump(e, "remap")
  /\ UNCHANGED <<status, map, upcall, xstack, taken, forks>>

(* Mutant: without write access.                                           *)
RemapReadOnly(e) ==
  /\ At(e, "remap")
  /\ SysPageMap(e, PFTEMP, e, FaultPage(e), {})
  /\ Jump(e, "push_eip")
  /\ UNCHANGED <<status, upcall, xstack, mem, taken, forks>>

(* sys_page_map() of PFTEMP to where the fault was.                        *)
Remap(e) ==
  /\ At(e, "remap")
  /\ SysPageMap(e, PFTEMP, e, FaultPage(e), {"W"})
  /\ Jump(e, "push_eip")
  /\ UNCHANGED <<status, upcall, xstack, mem, taken, forks>>

(* Mutant: the word the stack pointer is at.                               *)
TrapEipTop(e) == Utf(e, utf_fault_va)

TrapEip(e) == Utf(e, utf_eip)

(* The trap-time eip goes on the trap-time stack, which may fault.         *)
PushEip(e) ==
  LET top == Utf(e, utf_esp) - 1
  IN /\ At(e, "push_eip") /\ Writable(e, PageOf(top))
     /\ IF PageOf(top) = XStack
        THEN /\ xstack' = [xstack EXCEPT ![e] =
                  [@ EXCEPT ![top] = TrapEip(e), ![cpu[e].esp + utf_esp] = top]]
             /\ UNCHANGED mem
        ELSE /\ xstack' = [xstack EXCEPT ![e][cpu[e].esp + utf_esp] = top]
             /\ mem' = [mem EXCEPT ![map[e][Stack].frame].lib = TrapEip(e)]
     /\ Jump(e, "restore")
     /\ UNCHANGED <<status, map, upcall, taken, forks>>

(* Registers, flags, stack pointer, and ret from the word just pushed.     *)
Restore(e) ==
  LET top == Utf(e, utf_esp)
  IN /\ At(e, "restore")
     /\ cpu' = [cpu EXCEPT ![e] =
          [pc   |-> IF PageOf(top) = XStack THEN xstack[e][top] ELSE mem[map[e][Stack].frame].lib,
           esp  |-> top + 1,
           regs |-> Utf(e, utf_regs)]]
     /\ UNCHANGED <<status, map, upcall, xstack, mem, taken, forks>>
-----------------------------------------------------------------------------
(* The program, and fork().                                                *)

(* A write to a read-only page destroys a program without an upcall. What  *)
(* happens to one with an upcall is left out: pgfault() is to panic then   *)
(* (fork.c:21-22), but its test for PTE_COW lets every mapped page pass    *)
(* (fork.c:45), and the program gets a private copy it can write to.       *)
DecideToWrite(e, write) ==
  /\ At(e, "run")
  /\ upcall[e] => write.page \notin ReadOnly
  /\ Continue(e, "store", write)
  /\ UNCHANGED <<status, map, upcall, xstack, mem, taken, forks>>

ProgramStore(e) ==
  /\ At(e, "store")
  /\ Store(e, cpu[e].regs.page, "prog", cpu[e].regs.val)
  /\ Continue(e, "run", None)
  /\ UNCHANGED <<status, map, upcall, xstack, taken, forks>>

(* exit(), or sys_env_destroy() by the parent, at any point.               *)
Exit(e) == status[e] \in {"RUNNABLE", "PANIC"} /\ EnvFree(e)

(* set_pgfault_handler(pgfault), called by fork(): the first time round it *)
(* allocates the exception stack.                                          *)
CallsFork(e) == At(e, "run") /\ forks < MaxForks /\ forks' = forks + 1
FirstTime(e) == _pgfault_handler(e) = None

SetPgfaultHandler(e) ==
  /\ CallsFork(e)
  /\ IF FirstTime(e)
     THEN HasFree /\ SysPageAlloc(e, XStack) /\ upcall' = [upcall EXCEPT ![e] = TRUE]
     ELSE UNCHANGED <<map, mem, upcall>>
  /\ Jump(e, "set_handler")
  /\ UNCHANGED <<status, xstack, taken>>

SetPgfaultPanic(e) ==
  /\ CallsFork(e) /\ FirstTime(e) /\ ~HasFree
  /\ Panic(e) /\ UNCHANGED <<mem, taken>>

(* ... and sets the pointer each time.                                     *)
StoreHandler(e) ==
  /\ At(e, "set_handler")
  /\ Store(e, Data, "lib", "pgfault")
  /\ Jump(e, "exofork")
  /\ UNCHANGED <<status, map, upcall, xstack, taken, forks>>

(* sys_exofork(), when there is a slot: the child's registers are those of *)
(* its parent, but for the result.                                         *)
SysExofork(e, c) ==
  /\ At(e, "exofork") /\ status[c] = "FREE"
  /\ status' = [status EXCEPT ![c] = "NOT_RUNNABLE"]
  /\ cpu' = [cpu EXCEPT
       ![e] = [pc |-> "dup_child", esp |-> cpu[e].esp, regs |-> [child |-> c, pn |-> 1]],
       ![c] = [pc |-> "run", esp |-> cpu[e].esp, regs |-> None]]
  /\ UNCHANGED <<map, upcall, xstack, mem, taken, forks>>

Child(e) == cpu[e].regs.child
Pn(e)    == PageOrder[cpu[e].regs.pn]

(* Mutant: the loop goes as far as UTOP.                                   *)
LastPageUTOP == Len(PageOrder)

(* The exception stack is left out.                                        *)
LastPage == Len(PageOrder) - 1

(* The loop of fork() goes on to the next page.                            *)
NextPage(e) ==
  IF cpu[e].regs.pn = LastPage
  THEN Jump(e, "end_alloc")
  ELSE Continue(e, "dup_child", [child |-> Child(e), pn |-> cpu[e].regs.pn + 1])

(* The instructions up to the next call of fork() push its arguments and   *)
(* its return address, which may fault.                                    *)
Calls(e, pc) == At(e, pc) /\ Writable(e, Stack)
Pushed(e)    == [mem EXCEPT ![map[e][Stack].frame].lib = "frame"]

(* duppage() of a page that is not there.                                  *)
DupNothing(e) ==
  /\ Calls(e, "dup_child") /\ map[e][Pn(e)] = None
  /\ NextPage(e)
  /\ mem' = Pushed(e)
  /\ UNCHANGED <<status, map, upcall, xstack, taken, forks>>

(* duppage() of a read-only page.                                          *)
DupReadOnly(e) ==
  /\ Calls(e, "dup_child") /\ map[e][Pn(e)] # None /\ map[e][Pn(e)].perm = {}
  /\ SysPageMap(e, Pn(e), Child(e), Pn(e), {})
  /\ NextPage(e)
  /\ mem' = Pushed(e)
  /\ UNCHANGED <<status, upcall, xstack, taken, forks>>

(* duppage() of any other page: the child's mapping, ...                   *)
DupChild(e) ==
  /\ Calls(e, "dup_child") /\ map[e][Pn(e)] # None /\ map[e][Pn(e)].perm # {}
  /\ SysPageMap(e, Pn(e), Child(e), Pn(e), {"COW"})
  /\ Jump(e, "dup_own")
  /\ mem' = Pushed(e)
  /\ UNCHANGED <<status, upcall, xstack, taken, forks>>

(* Mutant: the parent keeps write access.                                  *)
DupOwnNot(e) ==
  /\ Calls(e, "dup_own")
  /\ NextPage(e)
  /\ mem' = Pushed(e)
  /\ UNCHANGED <<status, map, upcall, xstack, taken, forks>>

(* ... and the parent's own.                                               *)
DupOwn(e) ==
  /\ Calls(e, "dup_own")
  /\ SysPageMap(e, Pn(e), e, Pn(e), {"COW"})
  /\ NextPage(e)
  /\ mem' = Pushed(e)
  /\ UNCHANGED <<status, upcall, xstack, taken, forks>>

(* The exception stack of the child.                                       *)
EndAlloc(e) ==
  /\ Calls(e, "end_alloc") /\ HasFree
  /\ Allocate(Child(e), XStack) /\ mem' = Zero(Pushed(e))
  /\ Jump(e, "end_upcall")
  /\ UNCHANGED <<status, upcall, xstack, taken, forks>>

EndPanic(e) ==
  /\ Calls(e, "end_alloc") /\ ~HasFree
  /\ Panic(e) /\ mem' = Pushed(e) /\ UNCHANGED <<taken, forks>>

(* sys_env_set_pgfault_upcall() of the child.                              *)
EndUpcall(e) ==
  /\ At(e, "end_upcall")
  /\ upcall' = [upcall EXCEPT ![Child(e)] = TRUE]
  /\ Jump(e, "end_start")
  /\ UNCHANGED <<status, map, xstack, mem, taken, forks>>

(* sys_env_set_status() of the child; fork() returns in both.              *)
EndStart(e) ==
  /\ At(e, "end_start")
  /\ status' = [status EXCEPT ![Child(e)] = "RUNNABLE"]
  /\ Continue(e, "run", None)
  /\ UNCHANGED <<map, upcall, xstack, mem, taken, forks>>
-----------------------------------------------------------------------------
(* load_icode() has mapped the first program, the pages in any frames.     *)
Loaded == CHOOSE g \in Placements(taken) : TRUE

Init ==
  /\ taken \in Taken
  /\ status = [e \in Env |-> IF e = First THEN "RUNNABLE" ELSE "FREE"]
  /\ map = [e \in Env |-> [p \in Mapping |->
              IF e = First /\ p \in Page
              THEN [frame |-> Loaded[p], perm |-> IF p \in ReadOnly THEN {} ELSE {"W"}] ELSE None]]
  /\ upcall = [e \in Env |-> FALSE]
  /\ cpu = [e \in Env |-> [pc |-> "run", esp |-> UserEsp, regs |-> None]]
  /\ xstack = [e \in Env |-> [a \in 0 .. XWORDS - 1 |-> None]]
  /\ mem = [f \in Frame |-> Zeroed]
  /\ forks = 0

Handler(e) ==
  \/ PageFault(e) \/ PageFaultDestroys(e)
  \/ PftempFirst(e) \/ PftempAgain(e) \/ PftempPanic(e)
  \/ Copy(e) \/ Remap(e) \/ PushEip(e) \/ Restore(e)

ForkStep(e) ==
  \/ StoreHandler(e)
  \/ \E c \in Env : SysExofork(e, c)
  \/ DupNothing(e) \/ DupReadOnly(e) \/ DupChild(e)
  \/ DupOwn(e)
  \/ EndAlloc(e) \/ EndPanic(e) \/ EndUpcall(e) \/ EndStart(e)

Step(e) == Handler(e) \/ ForkStep(e) \/ ProgramStore(e)

Next == \E e \in Env :
  \/ Step(e) \/ Exit(e)
  \/ \E write \in Writes : DecideToWrite(e, write)
  \/ SetPgfaultHandler(e) \/ SetPgfaultPanic(e)

Spec == Init /\ [][Next]_vars
-----------------------------------------------------------------------------
(* What the program of e is at: its own registers, or those that the first *)
(* frame on the exception stack keeps while the handler runs.              *)
InHandler(e) == cpu[e].pc \in {"pftemp", "pftemp_again", "copy", "remap", "push_eip", "restore"}
FirstFrame   == UXSTACKTOP - UTF
Eip(e)  == IF InHandler(e) THEN xstack[e][FirstFrame + utf_eip] ELSE cpu[e].pc
Regs(e) == IF InHandler(e) THEN xstack[e][FirstFrame + utf_regs] ELSE cpu[e].regs

Forking(e) == status[e] = "RUNNABLE" /\ Eip(e) \notin {"run", "store", "set_handler", "exofork"}

(* The child that e is making, once it has a slot.                         *)
Making(e, c) == Forking(e) /\ Regs(e).child = c
Asleep(c)    == \E e \in Env : Making(e, c)
Maker(c)     == CHOOSE e \in Env : Making(e, c)

TodoOf(e) ==
  IF Asleep(e) THEN [op |-> "asleep"]
  ELSE IF status[e] # "RUNNABLE" THEN None
  ELSE IF Eip(e) = "run" THEN [op |-> "run"]
  ELSE IF Eip(e) = "store" THEN [op |-> "write", page |-> Regs(e).page, val |-> Regs(e).val]
  ELSE IF Forking(e) THEN [op |-> "forked", child |-> Regs(e).child]
  ELSE [op |-> "fork"]

(* Until it has its own mapping a child has the page of its parent.        *)
Owner(e, p) == IF Asleep(e) /\ map[e][p] = None THEN Maker(e) ELSE e
ValueOf(e, p) == IF TodoOf(e) = None THEN Initial ELSE mem[map[Owner(e, p)][p].frame].prog

Private == INSTANCE PrivateMemory WITH
  alive <- {e \in Env : TodoOf(e) # None},
  todo  <- [e \in Env |-> TodoOf(e)],
  val   <- [e \in Env |-> [p \in Page |-> ValueOf(e, p)]]

ASSUME TodoAssumption == None \notin Private!Todo
-----------------------------------------------------------------------------
Lib == {None, "pgfault", "frame", "store", "set_handler", "dup_child", "dup_own", "end_alloc"}

(* What the variables hold: page tables with the bits the code uses, stack *)
(* pointers in the two stacks, and in the library's words the handler, the *)
(* frames of calls and the addresses that pfentry.S has pushed.            *)
TypeOK ==
  /\ status \in [Env -> {"FREE", "NOT_RUNNABLE", "RUNNABLE", "PANIC"}]
  /\ map \in [Env -> [Mapping -> Pte \cup {None}]]
  /\ upcall \in [Env -> BOOLEAN]
  /\ \A e \in Env : cpu[e].esp \in 0 .. UserEsp
  /\ mem \in [Frame -> [prog : Val, lib : Lib]]
  /\ taken \in Taken /\ forks \in 0 .. MaxForks

(* A fault of an environment with the upcall set, in its program or in the *)
(* handler itself, finds an exception stack it can write and room for the  *)
(* frame: page_fault_handler() does not destroy an environment that has    *)
(* called fork() or was made by it.                                        *)
FaultsAreHandled == \A e \in Env : Faults(e) /\ upcall[e] => HasRoom(e)

(* No page is writable in one environment and mapped in another, but the   *)
(* one that duppage() has given to the child and is about to write-protect *)
(* in the parent; and a shared page is at one address.                     *)
SharedPagesProtected ==
  \A e, c \in Env, p, q \in Page :
    e # c /\ map[e][p] # None /\ map[c][q] # None /\ map[e][p].frame = map[c][q].frame =>
      /\ p = q
      /\ Writable(e, p) => Making(e, c) /\ Eip(e) = "dup_own" /\ PageOrder[Regs(e).pn] = p

(* The instruction that the handler returns to does not fault again.       *)
FaultsOnce == [][\A e \in Env : At(e, "restore") /\ status'[e] = "RUNNABLE" /\ cpu'[e] # cpu[e]
                                 => ~Faults(e)']_vars

(* fork(), the copy-on-write handler and pfentry.S together give every     *)
(* environment a memory of its own, whatever the order of their steps.     *)
ImplementsPrivateMemory == Private!Init /\ [][Private!Next]_(Private!vars)
=============================================================================
