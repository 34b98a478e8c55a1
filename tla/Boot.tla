-------------------------------- MODULE Boot --------------------------------
(***************************************************************************)
(* Starting the machine: page_init() and the tests of the page allocator   *)
(* that mem_init() runs on the list of free pages (kern/pmap.c), mp_init() *)
(* (kern/mpconfig.c), boot_aps() and mp_main() (kern/init.c), mpentry.S,   *)
(* the stacks that trap_init_percpu() gives to traps (kern/trap.c), and    *)
(* the kernel lock around the first environments.                          *)
(*                                                                         *)
(* A CPU is its index in cpus[].  A stack is named by the CPU whose area   *)
(* of percpu_kstacks[] it is in; an address at the lower end of an area is *)
(* the top of the stack in the area below it.                              *)
(***************************************************************************)
EXTENDS Integers, Sequences, FiniteSets, SequencesExt

CONSTANTS NCPU,           \* size of cpus[]
          EXTPAGES,       \* EXTPHYSMEM / PGSIZE
          Machines,       \* machines to start
          None            \* no CPU

CPU == 0 .. NCPU - 1

MPENTRY == 7    \* number of the page at MPENTRY_PADDR

(* What is wired and what the BIOS left: pages of base and of extended     *)
(* memory, pages the kernel takes from EXTPHYSMEM on (its image and what   *)
(* boot_alloc() gave out), pages that mem_init() takes for page tables and *)
(* i386_init() for the first environments, and the entries of the MP       *)
(* table, None if there is no table to be used; and a bound on the traps   *)
(* from user mode.                                                         *)
Entry == [type : {"proc", "other", "unknown"}, boot : BOOLEAN]
Procs(m) == SelectSeq(m.table, LAMBDA entry : entry.type = "proc")

(* The BIOS lists the processors by their APIC numbers, the one that boots *)
(* first.  There is memory for the boot: four pages above MPENTRY_PADDR in *)
(* one piece, without which page_alloc_4pages() walks off the list, and    *)
(* three besides the page tables.                                          *)
Linkable(m) == m.basemem - MPENTRY - 1 + m.extmem - m.taken
ASSUME MachineAssumption ==
  \A m \in Machines :
    /\ m.basemem \in Nat /\ m.extmem \in Nat /\ m.taken \in Nat \ {0} /\ m.traps \in Nat
    /\ MPENTRY + 4 < m.basemem /\ m.basemem <= EXTPAGES /\ m.taken <= m.extmem
    /\ m.tables \in Nat /\ m.images \in Nat
    /\ m.tables + 3 <= Linkable(m) /\ m.tables + m.images <= Linkable(m)
    /\ m.table # None =>
         /\ m.table \in Seq(Entry) /\ Procs(m) # <<>>
         /\ \A i \in DOMAIN Procs(m) : Procs(m)[i].boot <=> i = 1
ASSUME SizeAssumption ==
  NCPU \in Nat \ {0} /\ EXTPAGES \in Nat /\ None \notin CPU

VARIABLES machine,  \* which it is
          free,     \* page_free_list
          used,     \* pages that have been allocated from it
          mp,       \* ncpu, ismp and the index of bootcpu
          status,   \* cpu_status of each CPU
          kstack,   \* mpentry_kstack
          next,     \* the CPU that boot_aps() is at
          pc,       \* where each CPU is
          frames,   \* the stack that holds the frames of each CPU, None if none does
          esp0,     \* the stack for traps of each CPU
          tss,      \* the slot of the GDT each CPU has loaded
          envs,     \* environments have been created
          lock,     \* the owner of the kernel lock
          traps     \* bound: traps so far

bootVars == <<machine, free, used, mp, status, kstack, next, pc, frames, esp0, tss, envs, lock, traps>>
memory   == <<free, used>>
table    == <<machine, mp>>
stacks   == <<frames, esp0, tss>>

Bootstack == NCPU                   \* bootstack, outside of percpu_kstacks[]
-----------------------------------------------------------------------------
(* page_init().                                                            *)
npages(m) == EXTPAGES + m.extmem    \* the kernel is in extended memory
mile(m)   == EXTPAGES + m.taken     \* PADDR(boot_alloc(0)) / PGSIZE

(* The loop from the last page down to the first.                          *)
Linked(list, first, last) == [i \in 1 .. last - first + 1 |-> first + i - 1] \o list

(* Mutant: MPENTRY_PADDR is a page like the others.                        *)
BaseMemoryAll(list, m) == Linked(list, 1, m.basemem - 1)

(* The second loop passes over the page at MPENTRY_PADDR.                  *)
BaseMemory(list, m) == Linked(Linked(list, MPENTRY + 1, m.basemem - 1), 1, MPENTRY - 1)

page_init(m) == BaseMemory(Linked(<<>>, mile(m), npages(m) - 1), m)

(* check_page_free_list() and check_page_alloc() leave the list as it was. *)
(* check_page() and check_page_installed_pgdir() put back what they took   *)
(* in another order.                                                       *)
Exchanged(list, i, j) == [list EXCEPT ![i] = list[j], ![j] = list[i]]
check_page(list) == Exchanged(list, 1, 3)
check_page_installed_pgdir(list) == Exchanged(list, 2, 3)

(* page_alloc_4pages() finds the first four pages in a row and leaves them *)
(* in the list; page_free_4pages() makes the list start with them.         *)
page_alloc_4pages(list) ==
  CHOOSE i \in 1 .. Len(list) - 3 :
    /\ list[i + 3] - list[i] = 3
    /\ \A j \in 1 .. i - 1 : list[j + 3] - list[j] # 3
page_free_4pages(list) == SubSeq(list, page_alloc_4pages(list), Len(list))

(* check_four_pages() does both with one page taken out, and once more     *)
(* with it back at the head of the list.                                   *)
check_four_pages(list) ==
  LET once == page_free_4pages(<<list[1]>> \o SubSeq(list, 3, Len(list)))
  IN page_free_4pages(<<list[2]>> \o once)

page_free_list(m) == check_four_pages(check_page(page_init(m)))
-----------------------------------------------------------------------------
(* mp_init(): the loop over the table.                                     *)
ParseEntry(s, entry) ==
  IF s.stop \/ entry.type = "other" THEN s
  ELSE IF entry.type = "unknown" THEN [s EXCEPT !.ismp = FALSE, !.stop = TRUE]
  ELSE [s EXCEPT !.bootcpu = IF entry.boot THEN s.ncpu ELSE @,
                 !.ncpu = IF @ < NCPU THEN @ + 1 ELSE @]

Parsed(m) ==
  LET s == FoldLeft(ParseEntry, [ncpu |-> 0, ismp |-> TRUE, bootcpu |-> 0, stop |-> FALSE], m.table)
  IN [ncpu |-> IF s.ismp THEN s.ncpu ELSE 1, ismp |-> s.ismp, bootcpu |-> s.bootcpu]

mp_init(m) == IF m.table = None THEN [ncpu |-> 0, ismp |-> FALSE, bootcpu |-> 0] ELSE Parsed(m)

(* What MachineAssumption comes to, whatever the length of the table.      *)
ASSUME MpInitAssumption ==
  \A m \in Machines : mp_init(m).bootcpu = 0 /\ mp_init(m).ncpu \in 0 .. NCPU
-----------------------------------------------------------------------------
Jump(c, label) == pc' = [pc EXCEPT ![c] = label]

(* The CPU that boots: mem_init() with its tests and its page tables, ...  *)
MemInit ==
  /\ pc[0] = "start"
  /\ used' = SubSeq(page_free_list(machine), 1, machine.tables)
  /\ free' = check_page_installed_pgdir(
               SubSeq(page_free_list(machine), machine.tables + 1, Len(page_free_list(machine))))
  /\ Jump(0, "mp_init")
  /\ UNCHANGED <<status, kstack, next, envs, lock, traps>> /\ UNCHANGED table /\ UNCHANGED stacks

(* Mutant: the stacks for traps are those of CPU 0.                        *)
TrapStackOfBoot(c) == [top |-> 0, slot |-> c]

(* trap_init_percpu(): ts_esp0 is the lower end of the CPU's area.         *)
TrapStack(c) == [top |-> c - 1, slot |-> c]

TrapInitPercpu(c) ==
  /\ esp0' = [esp0 EXCEPT ![c] = TrapStack(c).top]
  /\ tss' = [tss EXCEPT ![c] = TrapStack(c).slot]

(* ... trap_init(), mp_init() and lock_kernel(), ...                       *)
MpInit ==
  /\ pc[0] = "mp_init"
  /\ TrapInitPercpu(0)
  /\ mp' = mp_init(machine)
  /\ status' = [status EXCEPT ![mp_init(machine).bootcpu] = IF machine.table = None THEN @ ELSE "CPU_STARTED"]
  /\ Jump(0, "lock_kernel")
  /\ UNCHANGED <<machine, frames, kstack, next, envs, lock, traps>> /\ UNCHANGED memory

LockBoot ==
  /\ pc[0] = "lock_kernel" /\ lock = None
  /\ lock' = 0
  /\ next' = 1                      \* cpus[0] is the CPU that runs boot_aps()
  /\ Jump(0, "boot_aps")
  /\ UNCHANGED <<status, kstack, envs, traps>> /\ UNCHANGED memory /\ UNCHANGED table /\ UNCHANGED stacks

(* ... boot_aps(): the stack pointer is left for the CPU and the CPU woken *)
(* up, ...                                                                 *)
StartAp ==
  /\ pc[0] = "boot_aps" /\ next < mp.ncpu
  /\ kstack' = next
  /\ pc' = [pc EXCEPT ![0] = "wait", ![next] = "mpentry"]
  /\ UNCHANGED <<status, next, envs, lock, traps>> /\ UNCHANGED memory /\ UNCHANGED table /\ UNCHANGED stacks

(* Mutant: the CPU is not waited for.                                      *)
ApIsUpAlways == TRUE

ApIsUp == status[next] = "CPU_STARTED"

WaitAp ==
  /\ pc[0] = "wait" /\ ApIsUp
  /\ next' = next + 1
  /\ Jump(0, "boot_aps")
  /\ UNCHANGED <<status, kstack, envs, lock, traps>> /\ UNCHANGED memory /\ UNCHANGED table /\ UNCHANGED stacks

(* ... and the first environments.                                         *)
EnvCreate ==
  /\ pc[0] = "boot_aps" /\ next >= mp.ncpu
  /\ envs' = TRUE
  /\ used' = used \o SubSeq(free, 1, machine.images)
  /\ free' = SubSeq(free, machine.images + 1, Len(free))
  /\ Jump(0, "sched_yield")
  /\ UNCHANGED <<status, kstack, next, lock, traps>> /\ UNCHANGED table /\ UNCHANGED stacks
-----------------------------------------------------------------------------
(* Another CPU: mpentry.S loads the stack pointer, ...                     *)
Mpentry(c) ==
  /\ c # 0 /\ pc[c] = "mpentry"
  /\ frames' = [frames EXCEPT ![c] = kstack]
  /\ Jump(c, "mp_main")
  /\ UNCHANGED <<status, kstack, next, esp0, tss, envs, lock, traps>> /\ UNCHANGED memory /\ UNCHANGED table

(* ... mp_main() sets the CPU up and says so, ...                          *)
MpMain(c) ==
  /\ pc[c] = "mp_main"
  /\ TrapInitPercpu(c)
  /\ Jump(c, "started")
  /\ UNCHANGED <<status, kstack, next, frames, envs, lock, traps>> /\ UNCHANGED memory /\ UNCHANGED table

(* Mutant: the lock is waited for first.                                   *)
StartedLate(c) ==
  /\ pc[c] = "started" /\ lock = None
  /\ lock' = c
  /\ status' = [status EXCEPT ![c] = "CPU_STARTED"]
  /\ Jump(c, "sched_yield")
  /\ UNCHANGED <<kstack, next, envs, traps>> /\ UNCHANGED memory /\ UNCHANGED table /\ UNCHANGED stacks

Started(c) ==
  /\ pc[c] = "started"
  /\ status' = [status EXCEPT ![c] = "CPU_STARTED"]
  /\ Jump(c, "lock")
  /\ UNCHANGED <<kstack, next, envs, lock, traps>> /\ UNCHANGED memory /\ UNCHANGED table /\ UNCHANGED stacks

(* ... and waits for the kernel lock, on the stack it started with.        *)
LockAp(c) ==
  /\ pc[c] = "lock" /\ lock = None
  /\ lock' = c
  /\ Jump(c, "sched_yield")
  /\ UNCHANGED <<status, kstack, next, envs, traps>> /\ UNCHANGED memory /\ UNCHANGED table /\ UNCHANGED stacks
-----------------------------------------------------------------------------
(* sched_yield() finds an environment, and env_run() leaves the kernel: no *)
(* frame stays behind.                                                     *)
EnvRun(c) ==
  /\ pc[c] \in {"sched_yield", "kernel"} /\ envs
  /\ lock' = None
  /\ frames' = [frames EXCEPT ![c] = None]
  /\ Jump(c, "user")
  /\ UNCHANGED <<status, kstack, next, esp0, tss, envs, traps>> /\ UNCHANGED memory /\ UNCHANGED table

(* A trap pushes its frame and waits for the lock.                         *)
Trap(c) ==
  /\ pc[c] = "user" /\ traps < machine.traps
  /\ traps' = traps + 1
  /\ frames' = [frames EXCEPT ![c] = esp0[c]]
  /\ Jump(c, "trap")
  /\ UNCHANGED <<status, kstack, next, esp0, tss, envs, lock>> /\ UNCHANGED memory /\ UNCHANGED table

TrapLock(c) ==
  /\ pc[c] = "trap" /\ lock = None
  /\ lock' = c
  /\ Jump(c, "kernel")
  /\ UNCHANGED <<status, kstack, next, envs, traps>> /\ UNCHANGED memory /\ UNCHANGED table /\ UNCHANGED stacks
-----------------------------------------------------------------------------
BootInit ==
  /\ machine \in Machines
  /\ free = <<>> /\ used = <<>>
  /\ mp = [ncpu |-> 0, ismp |-> FALSE, bootcpu |-> 0]
  /\ status = [c \in CPU |-> "CPU_UNUSED"]
  /\ kstack = None /\ next = 0
  /\ pc = [c \in CPU |-> IF c = 0 THEN "start" ELSE "halted"]
  /\ frames = [c \in CPU |-> IF c = 0 THEN Bootstack ELSE None]
  /\ esp0 = [c \in CPU |-> None] /\ tss = [c \in CPU |-> None]
  /\ envs = FALSE /\ lock = None /\ traps = 0

Bsp == MemInit \/ MpInit \/ LockBoot \/ StartAp \/ WaitAp \/ EnvCreate
Ap(c) == Mpentry(c) \/ MpMain(c) \/ Started(c) \/ LockAp(c)
CpuStep(c) == (c = 0 /\ Bsp) \/ Ap(c) \/ EnvRun(c) \/ TrapLock(c)
-----------------------------------------------------------------------------
(* Indices of CPUs and stacks stay in cpus[] and percpu_kstacks[], but for *)
(* the stack for traps of CPU 0, which is below.                           *)
BootTypeOK ==
  /\ machine \in Machines
  /\ used \o free \in Seq(Nat)
  /\ mp.ncpu \in 0 .. NCPU /\ mp.bootcpu \in CPU
  /\ status \in [CPU -> {"CPU_UNUSED", "CPU_STARTED"}]
  /\ kstack \in CPU \cup {None} /\ next \in 0 .. NCPU
  /\ frames \in [CPU -> (-1 .. Bootstack) \cup {None}]
  /\ esp0 \in [CPU -> (-1 .. NCPU - 1) \cup {None}] /\ tss \in [CPU -> CPU \cup {None}]
  /\ lock \in CPU \cup {None}

Starting   == {"mpentry", "mp_main", "started"}
Scheduling == {"sched_yield", "kernel"}

(* Pages that somebody has: page 0 and the I/O hole, the kernel, and the   *)
(* code that boot_aps() copies to MPENTRY_PADDR for CPUs to start with.    *)
(* None of them is ever handed out, nor a page twice.  Of the others the   *)
(* boot forgets those below MPENTRY_PADDR and no more: they are ahead of   *)
(* the first four pages in a row, and page_free_4pages() cuts them off.    *)
Kept(m)   == {0, MPENTRY} \cup m.basemem .. mile(m) - 1
Forgotten == 1 .. MPENTRY - 1
PagesOnce ==
  pc[0] # "start" =>
    /\ IsInjective(used \o free)
    /\ ToSet(used \o free) = (0 .. npages(machine) - 1) \ (Kept(machine) \cup Forgotten)

(* trap_init_percpu(): no two CPUs have frames on one stack, once each has *)
(* left the stack it started on.  A CPU that still waits there for its     *)
(* first environment is the only one that another can share a stack with.  *)
OnStartStack(c) == pc[c] \in {"lock", "sched_yield"} /\ frames[c] = c
TrapStacksApart ==
  \A c, d \in CPU : c # d /\ frames[c] # None /\ frames[c] = frames[d] => OnStartStack(c) \/ OnStartStack(d)

(* kern/trap.c:160, "each CPU has its own kernel stack", which the guard   *)
(* pages of mem_init_mp() are to keep the others out of (kern/pmap.c:271). *)
(* The code does not keep to it: ts_esp0 is the wrong end of the stack.    *)
KernelStacksApart ==
  \A c, d \in CPU : c # d /\ frames[c] # None => frames[c] # frames[d]

(* A CPU in mp_main() is on the stack boot_aps() meant for it, and is the  *)
(* only one on its way: mpentry_kstack is not changed under it.  No CPU    *)
(* runs the scheduler before there is an environment for it, and only one  *)
(* at a time does.                                                         *)
OwnStartStack ==
  /\ \A c \in CPU \ {0} : pc[c] \in {"mp_main", "started", "lock"} => frames[c] = c
  /\ \A c, d \in CPU : pc[c] \in Starting /\ pc[d] \in Starting => c = d
NothingRunsEarly ==
  /\ \A c \in CPU : pc[c] = "sched_yield" => envs
  /\ \A c, d \in CPU : pc[c] \in Scheduling /\ pc[d] \in Scheduling => c = d
StartInOrder == OwnStartStack /\ NothingRunsEarly

(* The machine comes up: the boot does not wait for a CPU that waits for   *)
(* it, every processor of the table is found and started as far as cpus[]  *)
(* reaches, and a table with an entry mp_init() does not know starts none. *)
Expected(m) ==
  IF m.table = None \/ \E i \in DOMAIN m.table : m.table[i].type = "unknown" THEN {}
  ELSE 1 .. Min({NCPU, Len(Procs(m))}) - 1
BootCompletes == <>(envs /\ \A c \in CPU \ {0} : status[c] = "CPU_STARTED" <=> c \in Expected(machine))
=============================================================================
