------------------------------- MODULE Memory -------------------------------
(***************************************************************************)
(* Physical pages and address spaces: kern/pmap.c after mem_init(), the    *)
(* parts of kern/env.c that build and take down an address space, and the  *)
(* system calls of kern/syscall.c that map pages, on several CPUs with     *)
(* their TLBs.                                                             *)
(*                                                                         *)
(* A system call is one action: it runs under the big kernel lock from end *)
(* to end.  Loading a program and env_free() are one action per page, with *)
(* the kernel busy in between; the other CPUs stay in user mode meanwhile  *)
(* and go on filling their TLBs.                                           *)
(***************************************************************************)
EXTENDS Integers, Sequences, FiniteSets

CONSTANTS Frame,        \* physical pages (struct Page)
          Page0,        \* the page of physical address 0
          EnvsPage,     \* the page that holds envs[]
          UtopTable,    \* the page table at UTOP, shared by all address spaces
          FreePages,    \* page_free_list as page_init() leaves it
          RefMod,       \* pp_ref counts modulo 2^16
          NPD, NPT,     \* page directory entries below UTOP; entries of a table
          PGSIZE,       \* bytes of a page
          Env,          \* slots of envs[]
          Image,        \* pages of the first program and its stack, in load order
          CPU,
          PermArgs,     \* permission arguments programs pass
          Window,       \* pages programs receive and map kernel pages at
          Watched,      \* pages whose cached translations are followed
          Habits,       \* what programs do that those of user/ do not
          None          \* the null pointer

Slot   == 0 .. NPT - 1
UserVA == (0 .. NPD - 1) \X Slot     \* <<PDX(va), PTX(va)>>
UTOP   == <<NPD, 0>>
VA     == (0 .. NPD) \X Slot

(* Unmapping or sending a page that is not mapped where a page table is;   *)
(* sys_page_alloc() at UTOP; changing the map of a child that runs;        *)
(* sys_map_kernel_page() on any page.                                      *)
AllHabits == {"hole", "utop", "edit_running", "kernel_page"}

Perm  == {"P", "U", "W"}             \* PTE_P, PTE_U, PTE_W
Pte   == [page : Frame, perm : SUBSET Perm]
Empty == [page |-> Page0, perm |-> {}]      \* the entry 0

Reserved == {Page0, EnvsPage, UtopTable}

ASSUME PageAssumption ==
  /\ Reserved \subseteq Frame /\ None \notin Frame
  /\ FreePages \in Seq(Frame \ Reserved)
  /\ \A i, j \in DOMAIN FreePages : FreePages[i] = FreePages[j] => i = j
  /\ \A f \in Frame \ Reserved : \E i \in DOMAIN FreePages : FreePages[i] = f
ASSUME SizeAssumption ==
  RefMod \in Nat \ {0, 1} /\ NPD \in Nat /\ NPT \in Nat \ {0} /\ PGSIZE \in Nat \ {0}
ASSUME EnvAssumption ==
  /\ IsFiniteSet(Env) /\ None \notin Env \cup UserVA
  /\ Image \in Seq(UserVA) /\ Window \cup Watched \subseteq UserVA /\ PermArgs \subseteq SUBSET Perm
ASSUME HabitAssumption == Habits \subseteq AllHabits

VARIABLES mem,     \* pages and page tables, see Mem
          status,  \* env_status
          parent,  \* the environment env_parent_id names, None if it is gone
          recv,    \* env_ipc_dstva while env_ipc_recving, else None
          curenv,  \* cpus[c].cpu_env; None also stands for its idle environment
          tlb,     \* translations each CPU has cached
          kernel,  \* a load or an env_free() under way
          caller   \* history: the CPU that made the last system call

vars == <<mem, status, parent, recv, curenv, tlb, kernel, caller>>

(* free is page_free_list, ref pp_ref, dir env_pgdir, pde the entries of   *)
(* each page directory (page table or None), pte the entries of the pages  *)
(* in use as page tables.                                                  *)
Mem == [free : Seq(Frame),
        ref  : [Frame -> 0 .. RefMod - 1],
        dir  : [Env -> Frame \cup {None}],
        pde  : [Env -> [0 .. NPD -> Frame \cup {None}]],
        pte  : [Frame -> [Slot -> Pte]]]
-----------------------------------------------------------------------------
(* kern/pmap.c: functions from memory to memory.                           *)

Cleared == [i \in Slot |-> Empty]

(* page_alloc(ALLOC_ZERO), with a page on the list: Head(m.free).          *)
PageAlloc(m) == [m EXCEPT !.free = Tail(@), !.pte[Head(m.free)] = Cleared]

PageFree(m, f) == [m EXCEPT !.free = <<f>> \o @]

IncRef(m, f) == [m EXCEPT !.ref[f] = (@ + 1) % RefMod]
DecRef(m, f) == [m EXCEPT !.ref[f] = (@ - 1) % RefMod]

PageDecref(m, f) ==
  IF DecRef(m, f).ref[f] = 0 THEN PageFree(DecRef(m, f), f) ELSE DecRef(m, f)

(* pgdir_walk() without create: the page table of va, and the entry there. *)
Table(m, e, va) == m.pde[e][va[1]]
EntryAt(m, e, va) == IF Table(m, e, va) = None THEN Empty ELSE m.pte[Table(m, e, va)][va[2]]
SetEntry(m, e, va, entry) == [m EXCEPT !.pte[Table(m, e, va)][va[2]] = entry]

(* pgdir_walk() with create, where there is no table and a page is free.   *)
NewTable(m, e, va) ==
  [IncRef(PageAlloc(m), Head(m.free)) EXCEPT !.pde[e][va[1]] = Head(m.free)]

(* page_lookup(): of an empty entry the page of physical address 0.        *)
PageLookup(m, e, va) ==
  IF Table(m, e, va) = None THEN None ELSE m.pte[Table(m, e, va)][va[2]].page

PageRemove(m, e, va) ==
  IF PageLookup(m, e, va) = None THEN m
  ELSE SetEntry(PageDecref(m, PageLookup(m, e, va)), e, va, Empty)

(* Mutant: the page that stays mapped at va is left on the free list.      *)
KeepListed(m, f) == m

(* page_remove() of the same page at the same place has just freed it.     *)
OffList(m, f) == IF m.free # << >> /\ Head(m.free) = f THEN [m EXCEPT !.free = Tail(@)] ELSE m

Mapped(m, e, f, va, perm) ==
  IncRef(SetEntry(OffList(m, f), e, va, [page |-> f, perm |-> perm \cup {"P"}]), f)

CanInsert(m, e, va) == Table(m, e, va) # None \/ m.free # << >>

(* Mutant: a page that was mapped at va is forgotten, not removed.         *)
PageInsertOver(m, e, f, va, perm) ==
  Mapped(IF Table(m, e, va) = None THEN NewTable(m, e, va) ELSE m, e, f, va, perm)

(* page_insert(), when it does not return -E_NO_MEM.                       *)
PageInsert(m, e, f, va, perm) ==
  Mapped(IF Table(m, e, va) = None THEN NewTable(m, e, va)
         ELSE IF "P" \in EntryAt(m, e, va).perm THEN PageRemove(m, e, va) ELSE m,
         e, f, va, perm)

(* Mutant: the local TLB keeps what was removed.                           *)
TlbKept(c, e, va) == tlb

(* tlb_invalidate(), by the CPU that changes the page table.               *)
TlbInvalidate(c, e, va) ==
  IF va \in Watched /\ curenv[c] \in {None, e} THEN [tlb EXCEPT ![c][va] = Empty] ELSE tlb

(* lcr3().                                                                 *)
TlbFlush(c) == [tlb EXCEPT ![c] = [va \in Watched |-> Empty]]
-----------------------------------------------------------------------------
(* user_mem_check(), on byte addresses of a space with the shared tables   *)
(* at UTOP and one directory entry of kernel addresses from ULIM on.       *)
Space == (NPD + 2) * NPT * PGSIZE
ULIM  == (NPD + 1) * NPT * PGSIZE
Addr  == 0 .. Space - 1
PageOf(addr) == <<(addr \div PGSIZE) \div NPT, (addr \div PGSIZE) % NPT>>

ROUNDUP(addr) == (((addr + PGSIZE - 1) \div PGSIZE) * PGSIZE) % Space

Allows(m, e, addr, perm) ==
  addr < ULIM /\ {"P", "U"} \cup (perm \cap {"W"}) \subseteq EntryAt(m, e, PageOf(addr)).perm

(* Mutant: the last page is left out when the range is not aligned.        *)
CheckedDown ==
  [va \in Addr |-> [len \in Addr |->
     {va} \cup {p \in va .. va + len - PGSIZE : p % PGSIZE = 0}]]

(* The addresses the loop looks at: va and the page boundaries above it.   *)
Checked ==
  [va \in Addr |-> [len \in Addr |->
     {p \in va .. ROUNDUP((va + len) % Space) - 1 : p = va \/ p % PGSIZE = 0}]]

UserMemCheck(m, e, va, len, perm) == \A p \in Checked[va][len] : Allows(m, e, p, perm)
-----------------------------------------------------------------------------
(* Environments and their address spaces.                                  *)

Init ==
  /\ mem = [free |-> FreePages,
            ref  |-> [f \in Frame |-> IF f \in Reserved THEN 1 ELSE 0],
            dir  |-> [e \in Env |-> None],
            pde  |-> [e \in Env |-> [d \in 0 .. NPD |-> None]],
            pte  |-> [f \in Frame |->
                        IF f = UtopTable
                        THEN [Cleared EXCEPT ![0] = [page |-> EnvsPage, perm |-> {"P", "U"}]]
                        ELSE Cleared]]
  /\ status = [e \in Env |-> "FREE"]
  /\ parent = [e \in Env |-> None]
  /\ recv = [e \in Env |-> None]
  /\ curenv = [c \in CPU |-> None]
  /\ tlb = [c \in CPU |-> [va \in Watched |-> Empty]]
  /\ kernel = [op |-> "create"]
  /\ caller = None

Idle == kernel.op = "idle"
Executing(e) == \E c \in CPU : curenv[c] = e

(* env_setup_vm(), with a page on the list: the directory starts as a copy *)
(* of kern_pgdir, whose only entry here is the shared one at UTOP.         *)
EnvSetupVm(m, e) ==
  [IncRef(PageAlloc(m), Head(m.free)) EXCEPT
     !.dir[e] = Head(m.free),
     !.pde[e] = [d \in 0 .. NPD |-> IF d = NPD THEN UtopTable ELSE None]]

(* env_alloc(), when neither a slot nor a page is missing.                 *)
EnvAlloc(e, by, st) ==
  /\ status[e] = "FREE"
  /\ mem.free # << >>
  /\ mem' = EnvSetupVm(mem, e)
  /\ status' = [status EXCEPT ![e] = st]
  /\ parent' = [parent EXCEPT ![e] = by]
  /\ recv' = [recv EXCEPT ![e] = None]

(* env_create() of the first user environment by i386_init().              *)
Create(e) ==
  /\ kernel = [op |-> "create"]
  /\ EnvAlloc(e, None, "RUNNABLE")
  /\ kernel' = [op |-> "load", env |-> e, next |-> 1]
  /\ UNCHANGED <<curenv, tlb>>

(* One turn of the loop of region_alloc().                                 *)
RegionAlloc(m, e, va) == PageInsert(PageAlloc(m), e, Head(m.free), va, {"U", "W"})

(* load_icode(): the pages of the image, one after the other.              *)
LoadIcode ==
  /\ kernel.op = "load"
  /\ IF kernel.next > Len(Image)
     THEN kernel' = [op |-> "idle"] /\ UNCHANGED mem
     ELSE /\ mem.free # << >> /\ CanInsert(PageAlloc(mem), kernel.env, Image[kernel.next])
          /\ mem' = RegionAlloc(mem, kernel.env, Image[kernel.next])
          /\ kernel' = [kernel EXCEPT !.next = @ + 1]
  /\ UNCHANGED <<status, parent, recv, curenv, tlb>>

(* Mutant: a switch of environments without lcr3().                        *)
SwitchKeepsTlb(c, e) ==
  /\ Idle /\ e # curenv[c]
  /\ e # None => status[e] = "RUNNABLE"
  /\ curenv[c] # None => status[curenv[c]] \in {"RUNNING", "NOT_RUNNABLE"}
  /\ status' = [x \in Env |-> IF x = e THEN "RUNNING"
                              ELSE IF x = curenv[c] /\ status[x] = "RUNNING" THEN "RUNNABLE"
                              ELSE status[x]]
  /\ curenv' = [curenv EXCEPT ![c] = e]
  /\ UNCHANGED <<mem, parent, recv, tlb, kernel>>

(* sched_yield() and env_run(): CPU c leaves its environment for e, or a   *)
(* zombie that has come by SYSENTER, where nobody looks for zombies.       *)
Switch(c, e) ==
  /\ Idle /\ e # curenv[c]
  /\ e # None => status[e] = "RUNNABLE"
  /\ curenv[c] # None => status[curenv[c]] \in {"RUNNING", "DYING"}
  /\ status' = [x \in Env |-> IF x = e THEN "RUNNING"
                              ELSE IF x = curenv[c] /\ status[x] = "RUNNING" THEN "RUNNABLE"
                              ELSE status[x]]
  /\ curenv' = [curenv EXCEPT ![c] = e]
  /\ tlb' = TlbFlush(c)
  /\ UNCHANGED <<mem, parent, recv, kernel>>

(* User code on CPU c touches va, or the processor looks ahead.            *)
Access(c, va) ==
  /\ curenv[c] # None
  /\ "P" \in EntryAt(mem, curenv[c], va).perm
  /\ tlb' = [tlb EXCEPT ![c][va] = EntryAt(mem, curenv[c], va)]
  /\ UNCHANGED <<mem, status, parent, recv, curenv, kernel>>
-----------------------------------------------------------------------------
(* env_free().                                                             *)

(* e stops: its CPU c, if it runs, has loaded kern_pgdir and left it.      *)
StartFree(c, e) ==
  /\ kernel' = [op |-> "free", env |-> e]
  /\ IF curenv[c] = e
     THEN curenv' = [curenv EXCEPT ![c] = None] /\ tlb' = TlbFlush(c)
     ELSE UNCHANGED <<curenv, tlb>>
  /\ UNCHANGED <<mem, parent, recv>>

Freeing(e) == kernel.op = "free" /\ kernel.env = e

PresentIn(m, e, d) == {i \in Slot : m.pde[e][d] # None /\ "P" \in m.pte[m.pde[e][d]][i].perm}

(* Directory entries below UTOP that env_free() has not been through yet.  *)
TablesLeft(m, e) == {d \in 0 .. NPD - 1 : m.pde[e][d] # None}

(* Both loops of env_free() count upwards.                                 *)
IsFirst(i, places) == i \in places /\ \A x \in places : i <= x

(* page_remove() of each present entry of the table.                       *)
FreePte(e, d, i) ==
  /\ Freeing(e)
  /\ IsFirst(d, TablesLeft(mem, e)) /\ IsFirst(i, PresentIn(mem, e, d))
  /\ mem' = PageRemove(mem, e, <<d, i>>)
  /\ UNCHANGED <<status, parent, recv, curenv, tlb, kernel>>

(* Mutant: the page table is not given back.                               *)
TableDropped(m, e, d) == [m EXCEPT !.pde[e][d] = None]

TableFreed(m, e, d) == PageDecref([m EXCEPT !.pde[e][d] = None], m.pde[e][d])

FreeTable(e, d) ==
  /\ Freeing(e)
  /\ IsFirst(d, TablesLeft(mem, e))
  /\ PresentIn(mem, e, d) = {}
  /\ mem' = TableFreed(mem, e, d)
  /\ UNCHANGED <<status, parent, recv, curenv, tlb, kernel>>

DirFreed(m, e) ==
  PageDecref([m EXCEPT !.dir[e] = None, !.pde[e] = [d \in 0 .. NPD |-> None]], m.dir[e])

(* The directory goes, and the slot; nobody is a child of it any more.     *)
FreeDir(e) ==
  /\ Freeing(e)
  /\ TablesLeft(mem, e) = {}
  /\ mem' = DirFreed(mem, e)
  /\ status' = [status EXCEPT ![e] = "FREE"]
  /\ parent' = [x \in Env |-> IF parent[x] = e THEN None ELSE parent[x]]
  /\ kernel' = [op |-> "idle"]
  /\ UNCHANGED <<recv, curenv, tlb>>
-----------------------------------------------------------------------------
(* System calls of the environment on CPU c, a zombie included.            *)

Calls(c) == Idle /\ curenv[c] # None

(* Mutant: envid2env() without the permission check.                       *)
AnyLive(c, e) == status[e] # "FREE"

(* envid2env() with checkperm.                                             *)
Target(c, e) == status[e] # "FREE" /\ (e = curenv[c] \/ parent[e] = curenv[c])

(* A parent leaves the map of a child alone once it runs.                  *)
MayEdit(c, e) == e # curenv[c] /\ Executing(e) => "edit_running" \in Habits

Hole(e, va) == Table(mem, e, va) # None /\ "P" \notin EntryAt(mem, e, va).perm
MayName(e, va) == Hole(e, va) => "hole" \in Habits

(* sys_page_alloc() and sys_page_map() return before they change anything  *)
(* unless PTE_P and PTE_U are given.                                       *)
PermOK(perm) == {"P", "U"} \subseteq perm

Unchanged == UNCHANGED <<status, parent, recv, curenv, kernel>>

(* Mutant: the page stays allocated when there is none for a page table.   *)
PageAllocedLeaking(m, e, va, perm) ==
  IF CanInsert(PageAlloc(m), e, va) THEN PageInsert(PageAlloc(m), e, Head(m.free), va, perm)
  ELSE PageAlloc(m)

PageAlloced(m, e, va, perm) ==
  IF CanInsert(PageAlloc(m), e, va) THEN PageInsert(PageAlloc(m), e, Head(m.free), va, perm)
  ELSE PageFree(PageAlloc(m), Head(m.free))

SysPageAlloc(c, e, va, perm) ==
  /\ Calls(c) /\ Target(c, e) /\ MayEdit(c, e)
  /\ va \in UserVA \/ (va = UTOP /\ "utop" \in Habits)
  /\ PermOK(perm) /\ mem.free # << >>
  /\ mem' = PageAlloced(mem, e, va, perm)
  /\ tlb' = TlbInvalidate(c, e, va)
  /\ Unchanged

(* Mutant: write access to a page that is read-only for its owner.         *)
CanShareAnyway(e, va, perm) == PermOK(perm) /\ PageLookup(mem, e, va) # None

(* The checks of sys_page_map() on the source, all but the permission of   *)
(* the caller to change the environments.                                  *)
CanShare(e, va, perm) ==
  /\ PermOK(perm)
  /\ PageLookup(mem, e, va) # None
  /\ "W" \in perm => "W" \in EntryAt(mem, e, va).perm

SysPageMap(c, src, srcva, dst, dstva, perm) ==
  /\ Calls(c) /\ Target(c, src) /\ Target(c, dst) /\ MayEdit(c, dst) /\ MayName(src, srcva)
  /\ CanShare(src, srcva, perm) /\ CanInsert(mem, dst, dstva)
  /\ mem' = PageInsert(mem, dst, PageLookup(mem, src, srcva), dstva, perm)
  /\ tlb' = TlbInvalidate(c, dst, dstva)
  /\ Unchanged

SysPageUnmap(c, e, va) ==
  /\ Calls(c) /\ Target(c, e) /\ MayEdit(c, e) /\ MayName(e, va)
  /\ mem' = PageRemove(mem, e, va)
  /\ tlb' = TlbInvalidate(c, e, va)
  /\ Unchanged

(* sys_map_kernel_page(), which takes any page of the kernel's.            *)
SysMapKernelPage(c, f, va) ==
  /\ Calls(c) /\ (f = EnvsPage \/ "kernel_page" \in Habits)
  /\ CanInsert(mem, curenv[c], va)
  /\ mem' = PageInsert(mem, curenv[c], f, va, {"U", "W"})
  /\ tlb' = TlbInvalidate(c, curenv[c], va)
  /\ Unchanged

(* sys_exofork(); its parent may start the child at once.                  *)
SysExofork(c, e) ==
  /\ Calls(c)
  /\ EnvAlloc(e, curenv[c], "NOT_RUNNABLE")
  /\ UNCHANGED <<curenv, tlb, kernel>>

(* Mutant: a status that is none of the five.                              *)
SysStartUnchecked(c, e) ==
  /\ Calls(c) /\ parent[e] = curenv[c] /\ status[e] = "NOT_RUNNABLE" /\ recv[e] = None
  /\ status' = [status EXCEPT ![e] = "INVALID"]
  /\ UNCHANGED <<mem, parent, recv, curenv, tlb, kernel>>

(* sys_env_set_status(): a child that waits for no message is started.     *)
SysStart(c, e) ==
  /\ Calls(c) /\ parent[e] = curenv[c] /\ status[e] = "NOT_RUNNABLE" /\ recv[e] = None
  /\ status' = [status EXCEPT ![e] = "RUNNABLE"]
  /\ UNCHANGED <<mem, parent, recv, curenv, tlb, kernel>>

(* sys_env_destroy() of oneself or of a child.                             *)
SysEnvDestroy(c, e) ==
  /\ Calls(c) /\ Target(c, e) /\ (e # curenv[c] => status[e] # "DYING")
  /\ IF status[e] = "RUNNING" /\ e # curenv[c]
     THEN /\ status' = [status EXCEPT ![e] = "DYING"]
          /\ UNCHANGED <<mem, parent, recv, curenv, tlb, kernel>>
     ELSE /\ StartFree(c, e)
          /\ UNCHANGED status

(* trap() of a zombie.                                                     *)
TrapZombie(c) ==
  /\ Calls(c) /\ status[curenv[c]] = "DYING"
  /\ StartFree(c, curenv[c])
  /\ UNCHANGED status

(* sys_ipc_recv(): dstva below UTOP asks for a page; the CPU goes on with  *)
(* something else.  A zombie that calls it is one no longer.               *)
SysIpcRecv(c, dstva) ==
  /\ Calls(c) /\ status[curenv[c]] \in {"RUNNING", "DYING"}
  /\ recv' = [recv EXCEPT ![curenv[c]] = dstva]
  /\ status' = [status EXCEPT ![curenv[c]] = "NOT_RUNNABLE"]
  /\ curenv' = [curenv EXCEPT ![c] = None]
  /\ tlb' = TlbFlush(c)
  /\ UNCHANGED <<mem, parent, kernel>>

Received(e) ==
  /\ recv' = [recv EXCEPT ![e] = None]
  /\ status' = [status EXCEPT ![e] = "RUNNABLE"]
  /\ UNCHANGED <<parent, curenv, kernel>>

(* sys_ipc_try_send() of a value only, or to one that wants no page.       *)
SysIpcSendValue(c, e) ==
  /\ Calls(c) /\ recv[e] # None /\ status[e] # "FREE"
  /\ Received(e)
  /\ UNCHANGED <<mem, tlb>>

(* When sys_ipc_try_send() returns -E_BAD_ENV: for want of an environment, *)
(* and, because the page goes by way of sys_page_map(), when the receiver  *)
(* is no child of the sender.                                              *)
SendBadEnv(c, e) == status[e] = "FREE" \/ (recv[e] \in UserVA /\ ~Target(c, e))

(* sys_ipc_try_send() with a page.  It reads through an uninitialised      *)
(* pointer when there is no page table at srcva: the call is then refused, *)
(* or the kernel stops, which no step models.                              *)
SysIpcSendPage(c, e, srcva, perm) ==
  /\ Calls(c) /\ recv[e] \in UserVA /\ ~SendBadEnv(c, e) /\ MayName(curenv[c], srcva)
  /\ CanShare(curenv[c], srcva, perm) /\ CanInsert(mem, e, recv[e])
  /\ mem' = PageInsert(mem, e, PageLookup(mem, curenv[c], srcva), recv[e], perm)
  /\ tlb' = TlbInvalidate(c, e, recv[e])
  /\ Received(e)
-----------------------------------------------------------------------------
UserStep(c) ==
  \/ \E va \in Watched : Access(c, va)
  \/ \E e \in Env \cup {None} : Switch(c, e)

MapCall(c) ==
  \/ \E e \in Env, va \in VA, perm \in PermArgs : SysPageAlloc(c, e, va, perm)
  \/ \E src, dst \in Env, srcva, dstva \in UserVA, perm \in PermArgs :
        SysPageMap(c, src, srcva, dst, dstva, perm)
  \/ \E e \in Env, va \in UserVA : SysPageUnmap(c, e, va)
  \/ \E f \in Frame, va \in Window : SysMapKernelPage(c, f, va)

EnvCall(c) ==
  \/ \E e \in Env : SysExofork(c, e) \/ SysStart(c, e) \/ SysEnvDestroy(c, e)
  \/ TrapZombie(c)
  \/ \E dstva \in Window \cup {UTOP} : SysIpcRecv(c, dstva)
  \/ \E e \in Env : SysIpcSendValue(c, e)
  \/ \E e \in Env, srcva \in UserVA, perm \in PermArgs : SysIpcSendPage(c, e, srcva, perm)

EnvFree ==
  \/ \E e \in Env, d \in 0 .. NPD - 1 : FreeTable(e, d) \/ \E i \in Slot : FreePte(e, d, i)
  \/ \E e \in Env : FreeDir(e)

SysCall(c) == (MapCall(c) \/ EnvCall(c)) /\ caller' = c

Next ==
  \/ (\E e \in Env : Create(e)) /\ UNCHANGED caller
  \/ LoadIcode /\ UNCHANGED caller
  \/ EnvFree /\ UNCHANGED caller
  \/ \E c \in CPU : (UserStep(c) /\ UNCHANGED caller) \/ SysCall(c)

Spec == Init /\ [][Next]_vars
-----------------------------------------------------------------------------
(* Pages, tables, environments, TLBs and the kernel's work in progress are *)
(* of their kinds.                                                         *)
MachineOK ==
  /\ mem \in Mem
  /\ status \in [Env -> {"FREE", "NOT_RUNNABLE", "RUNNABLE", "RUNNING", "DYING"}]
  /\ parent \in [Env -> Env \cup {None}]
  /\ recv \in [Env -> UserVA \cup {UTOP, None}]
  /\ curenv \in [CPU -> Env \cup {None}]
  /\ tlb \in [CPU -> [Watched -> Pte]]
  /\ \/ kernel \in [op : {"create", "idle"}]
     \/ kernel \in [op : {"load"}, env : Env, next : 1 .. Len(Image) + 1]
     \/ kernel \in [op : {"free"}, env : Env]
TypeOK == MachineOK /\ caller \in CPU \cup {None}

(* Page tables below UTOP, each with the directory entry it hangs on.      *)
TableRefs(m, f) == {ed \in Env \X (0 .. NPD - 1) : m.pde[ed[1]][ed[2]] = f}
DirRefs(m, f)   == {e \in Env : m.dir[e] = f}
PteRefs(m, f)   ==
  {x \in Env \X UserVA :
     EntryAt(m, x[1], x[2]).page = f /\ "P" \in EntryAt(m, x[1], x[2]).perm}

Uses(m, f) == Cardinality(TableRefs(m, f)) + Cardinality(DirRefs(m, f)) + Cardinality(PteRefs(m, f))
Pinned(f) == IF f \in Reserved THEN 1 ELSE 0

(* page_insert(), page_remove(), env_free(): pp_ref of each page is the    *)
(* number of page table entries, directory entries and environments that   *)
(* refer to it; boot-time pages have one more.                             *)
RefCountsExact == \A f \in Frame : mem.ref[f] = (Pinned(f) + Uses(mem, f)) % RefMod

(* The free list against the counts: no page twice, none that is in use,   *)
(* and no page lost when a call gives up half way.                         *)
FreeListExact ==
  /\ \A i, j \in DOMAIN mem.free : mem.free[i] = mem.free[j] => i = j
  /\ \A f \in Frame : (\E i \in DOMAIN mem.free : mem.free[i] = f) <=> Pinned(f) + Uses(mem, f) = 0

(* check_page_free_list(): page 0 and the kernel's own pages are never     *)
(* handed out.                                                             *)
check_page_free_list == \A i \in DOMAIN mem.free : mem.free[i] \notin Reserved

(* pgdir_walk(), env_setup_vm(): a page that holds a page table or a page  *)
(* directory has no other use, so no program can reach it by a mapping of  *)
(* its own (only through the read-only window the kernel sets up at UVPT). *)
TablesPrivate ==
  \A f \in Frame : TableRefs(mem, f) \cup DirRefs(mem, f) # {} => Uses(mem, f) = 1

(* tlb_invalidate(), env_run(): user code reaches through a cached         *)
(* translation only what its page table maps now.                          *)
TLBFresh ==
  \A c \in CPU, va \in Watched :
     tlb[c][va] # Empty => curenv[c] # None /\ tlb[c][va] = EntryAt(mem, curenv[c], va)

(* user_mem_check(): a range of at least one byte passes exactly if all of *)
(* it is memory the program may use so; for ranges that end below the last *)
(* page of the address space.                                              *)
UserMemCheckRight ==
  \A e \in {curenv[c] : c \in CPU} \ {None}, perm \in SUBSET {"W"} :
     LET allowed == {a \in Addr : Allows(mem, e, a, perm)} IN
     \A va \in 0 .. Space - PGSIZE : \A len \in 1 .. Space - PGSIZE - va :
       UserMemCheck(mem, e, va, len, perm) <=> va .. va + len - 1 \subseteq allowed

(* envid2env(): the map of an environment is changed only by a system call *)
(* that it makes itself or that its parent makes, on whatever CPU others   *)
(* are meanwhile, and by the kernel that loads it or takes it down.  The   *)
(* page of a message is no exception, as SendBadEnv says.                  *)
MadeByFamily(e) ==
  \E by \in Env : by = curenv[caller'] /\ (by = e \/ by = parent[e])
MapChangedByFamily ==
  [][\A e \in Env, va \in UserVA :
       EntryAt(mem', e, va) # EntryAt(mem, e, va) =>
         IF Idle THEN MadeByFamily(e) ELSE kernel.env = e]_mem

(* sys_page_map(): write access to a page never appears where the caller   *)
(* had none: every writable mapping is new memory, or one of a page that   *)
(* somebody could write before.                                            *)
NoWriteFromRead ==
  [][\A e \in Env, va \in UserVA :
       LET new == EntryAt(mem', e, va) IN
       "W" \in new.perm /\ new # EntryAt(mem, e, va) /\ new.page \notin Reserved =>
         \/ \E x \in Env, xva \in UserVA :
              EntryAt(mem, x, xva).page = new.page /\ "W" \in EntryAt(mem, x, xva).perm
         \/ Uses(mem, new.page) = 0]_mem
-----------------------------------------------------------------------------
(* A claim of a comment that the code does not keep.                       *)

(* kern/syscall.c:315, "-E_BAD_ENV if environment envid doesn't currently  *)
(* exist. (No need to check permissions.)": anybody can send a page of his *)
(* to whoever waits for one.                                               *)
SendFailsOnlyAsListed ==
  \A c \in CPU, e \in Env, srcva \in UserVA, perm \in PermArgs :
    /\ Calls(c) /\ status[e] # "FREE" /\ recv[e] \in UserVA
    /\ "P" \in EntryAt(mem, curenv[c], srcva).perm
    /\ CanShare(curenv[c], srcva, perm) /\ CanInsert(mem, e, recv[e])
    => ~SendBadEnv(c, e)

=============================================================================
