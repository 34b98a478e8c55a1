# JOS: a verification of the lab 4 kernel

JOS is a small exokernel for x86 multiprocessors. `src/lab4` is the whole
system: a kernel with a physical page allocator, address spaces, environments
(processes), a round-robin scheduler behind one big kernel lock, system calls by
`int` and by SYSENTER, and message passing; and a user library with
copy-on-write `fork`, page fault upcalls and IPC. `src/lab1` to `src/lab3` are
earlier snapshots of the same kernel. This directory models what can go wrong
in it that a test would hardly reach, checks the models with TLC on small
machines, and proves the most important results with TLAPS for machines of any
size.

All source paths below are relative to `src/lab4`.

## 1. Inventory

| Component | Source | State | Operations | Interacts with | Module |
|---|---|---|---|---|---|
| Big kernel lock | `kern/spinlock.c`, `spinlock.h` | `locked`, `cpu` (the debugging record of the owner) | `spin_lock`, `spin_unlock`, `holding` | everything in the kernel | `SpinLock` |
| Environments | `kern/env.c`, `inc/env.h` | `envs[]`, `env_free_list`, `curenv` of each CPU | `env_init`, `env_alloc`, `env_create`, `env_free`, `env_destroy`, `env_run`, `env_pop_tf`, `envid2env` | scheduler, memory | `EnvSched` |
| Scheduler | `kern/sched.c` | none of its own | `sched_yield` | environments | `EnvSched` |
| Traps | `kern/trap.c`, `trapentry.S` | trap frames, kernel stacks, exception stacks | `trap`, `trap_dispatch`, `page_fault_handler`, `trap_init_percpu` | lock, scheduler | `EnvSched` (who runs next), `Fork` (page faults), `Boot` (stacks) |
| System calls | `kern/syscall.c` | none of its own | `syscall_dummy` (SYSENTER), `syscall`, `sys_*` | environments, memory | `EnvSched` (environments, IPC), `Memory` (pages, the page of a message), `Fork`, `Console` (`sys_cputs`, `sys_cgetc`) |
| Physical memory, address spaces | `kern/pmap.c`, address spaces in `kern/env.c` | `pages[]`, the page free list, page directories and tables, TLBs | `page_init`, `page_alloc`, `page_free`, `page_decref`, `pgdir_walk`, `page_insert`, `page_remove`, `page_lookup`, `tlb_invalidate`, `user_mem_check`, `env_setup_vm`, `load_icode`, `env_free`, `page_alloc_4pages`, `page_free_4pages` | environments, system calls | `Memory`; `page_init` and what the tests at boot do to the list in `Boot` |
| Fork and page fault library | `lib/fork.c`, `pgfault.c`, `pfentry.S`, `panic.c` | page table entries of parent and child, `PTE_COW`, `_pgfault_handler`, exception stack | `fork`, `duppage`, `pgfault`, `set_pgfault_handler`, `_pgfault_upcall` | system calls, page fault handler | `Fork` |
| IPC library | `lib/ipc.c` | the shared `envs` table, read only | `ipc_send`, `ipc_recv` | system calls | its calls and reads in `EnvSched` |
| Multiprocessor start | `kern/init.c`, `mpentry.S`, `mpconfig.c`, `lapic.c` | `cpus[]`, `cpu_status`, `mpentry_kstack`, `percpu_kstacks` | `i386_init`, `mp_init`, `boot_aps`, `mp_main` | lock, memory, scheduler | `Boot`, in `Machine`; the first scheduling in `EnvSched` |
| Console | `kern/console.c` | the input ring, keyboard shift state, the screen | `cons_intr`, `cons_getc`, `kbd_proc_data`, `serial_intr`, `cga_putc` | `sys_cgetc`, `sys_cputs`, monitor | `Console`, in `Machine` |
| Library input and output | `lib/readline.c`, `lib/printf.c` | line buffer, print buffer | `readline`, `vcprintf` | console | `Console` |
| Debugging information | `kern/kdebug.c` | none | `stab_binsearch` | monitor | not modelled |
| Monitor | `kern/monitor.c` | none | `monitor`, `runcmd` | scheduler, console | a place a CPU never leaves in `EnvSched`; its command line in `Console` |
| User programs | `user/*.c` | their own | system calls in a certain order | kernel | `Programs` of `EnvSched`, `Habits` of `Memory`, writers and forkers of `Fork`, printers of `Console` |
| PIC, clock, boot loader | `kern/picirq.c`, `kclock.c`, `boot/` | device registers | | | not modelled: no state the kernel reasons about |
| Labs 1 to 3 | `src/lab1` to `src/lab3` | | | | not modelled: earlier snapshots of the same functions |

How the parts interact: user code enters the kernel in two ways. Interrupts,
exceptions and `int T_SYSCALL` (which only `sys_exofork` uses) reach `trap()`,
which takes the big kernel lock, frees the current environment if another CPU
has destroyed it (a zombie, `ENV_DYING`), and dispatches. SYSENTER reaches
`syscall_dummy()`, which takes the lock and calls `syscall()` without looking
for zombies. Every path ends in `env_run()`, which switches, releases the lock
and pops the registers in `env_pop_tf()`; or in the monitor or a panic, with
the lock held for good. Everything shared is in `envs[]`, the free list, the
page tables and each CPU's `curenv`.

Which behaviours are hard, and what makes each part correct:

* **Lock.** The debugging test `holding()` reads two fields without the lock
  while other CPUs write them, and the owner's record is written by plain
  stores next to the `xchg`es. Correct: exclusion, no wrong accusation, no
  missed one.
* **Environments and scheduler.** Two CPUs can choose, destroy, wake or free
  the same environment; `env_pop_tf()` uses it after the unlock; a destroyed
  environment lives on as a zombie on another CPU; slots are reused and fields
  survive reuse. Correct: one CPU per environment, nothing freed while it is
  executed, no environment lost, an exact free list, idle environments at
  home, messages delivered once, and everyone gets to run.
* **Memory.** Pages are shared between environments, given up one by one when
  one dies while its relatives map and unmap them, and cached in the TLBs of
  other CPUs; addresses wrap around in checks. Correct: counts and free list
  exact on every path, also those that give up half way; page tables used for
  nothing else; no translation outlives its mapping; only relatives change a
  map; no write access out of read access.
* **Fork.** Copy-on-write shares and breaks pages in several system calls each,
  by programs that fault in the middle of the library, on a stack that may
  itself be copy-on-write, with memory running out anywhere. Correct: whatever
  the order, every environment has a memory of its own.
* **Start.** One variable passes the stack pointer to all processors, the boot
  waits for them with the lock held, and the trap stack of a CPU lies where its
  neighbour started. Correct: every CPU of the table comes up on its own stack,
  none schedules too early, and stacks do not meet.
* **Console.** Two drivers feed one ring that has no test for full; scan codes
  come in two bytes; erasing crosses lines of a screen that scrolls. Correct:
  input in order, no key stuck, the screen shows the line, printed lines whole.

The full list of hazards, with their lines and the properties that watch them,
is in `PROJECT.json`.

## 2. Modules

```
Mutex  <== SpinLock <-- SpinLockProofs         <==  implements
  ^           ^-- MCSpinLock                   <--  EXTENDS
  | INSTANCE
EnvLife <== EnvSched <-- EnvSchedProofs <-- EnvLifeProofs
              ^-- MCEnvSched
            Memory <-- MemoryProofs
              ^-- MCMemory
PrivateMemory <== Fork <-- ForkProofs <-- ForkPrivateProofs
                    ^-- MCFork
Boot    <-- Machine <-- BootProofs <-- ConsoleProofs
Console <--    ^-- MCMachine
```

**`Mutex`** is what the rest of the kernel assumes of the lock: at most one
holder, `Acquire` when free, `Release` by the holder.

**`SpinLock`** is `kern/spinlock.c` one memory access per step. `locked` and
`owner` are `lk->locked` and `lk->cpu` in memory; `buffer[c]` holds stores to
`lk->cpu` that CPU `c` has made and memory lacks (x86 store buffers: a CPU sees
its own stores at once, others later, and `xchg` waits for the buffer to
drain). `pc[c]` names the next access: `lock_read_locked` and
`lock_read_owner` are the two loads of `holding()` in `spin_lock()`, `xchg` the
loop, `record` the store of the owner, and so on for `spin_unlock()`. CPUs in
`Careless` also lock again what they hold and unlock what they do not, the two
cases the debugging checks are for. The recorded call stack (`pcs`) is left
out: nothing reads it but a panic message.

**`EnvSched`** is the core: `envs` (each environment a record with the fields
that decide anything: `id`, `parent`, `type`, `status`, `started` for
`env_runs > 0`, `cpunum`, `recving`, `from`), `freeList`, `curenv[c]`, the
lock's `holder`, `panicked` (`panicstr`), and `pc[c]`, where CPU `c` is:

| `pc` | in the code |
|---|---|
| `start_lock`, `start` | `mp_main()`: waits for the lock; has it |
| `boot` | CPU 0 in `i386_init()`, creating environments |
| `user` | user mode |
| `trap_lock`, `trap` | `trap()`: waits; has the lock |
| `sys_lock`, `sys` | `syscall_dummy()`: waits; has the lock |
| `pop` | `env_pop_tf()`, the lock released |
| `monitor` | `monitor()` or `_panic()`, the lock held |
| `halted` | the `hlt` of `trap()` after a panic |

One action is one stay in the kernel, from what follows `lock_kernel()` to the
release in `env_run()`, because everything read and written in between is
shared only under the lock; the steps outside the lock (the wait, the end of
`env_pop_tf()`, the test of `panicstr`) are actions of their own. `TrapX`
actions are the branches of `trap()` and `trap_dispatch()`, `SysX` actions the
system calls that arrive by SYSENTER. The ways out, `EnvRun`, `SchedYield`,
`Monitor`, `Panic`, take the table the handler has made and the environment
that is `curenv` at that point of the code, because `env_destroy()` and `trap()`
call the scheduler with `curenv` cleared. Calls that only touch memory or the
console, and calls that fail, are `SysNothing`.

What programs do is the constant `Programs`. `ProperUses` are the calls and
faults that the library and the programs of `user/` make: a child is created
stopped, started once by its parent (`lib/fork.c`, `user/dumbfork.c`), and
destroyed at most once (`user/spin.c`). `CarelessUses` are calls the kernel
accepts besides: two that no program of `user/` makes, and `sys_exofork()` with
no slot left, which `user/primes.c` comes to in the end. Idle environments only
yield (`user/idle.c`). A page fault with an upcall (`TrapPageFault`) goes back to
the environment whatever its status, as `page_fault_handler()` does, and a
spurious interrupt (`TrapSpurious`) only if it is still running, as the end of
`trap()` does.

**`EnvLife`** is the abstract specification of the life of environments: who
may create, ready, take up, end and kill an environment, with nothing about the
table, the choice of the scheduler or the calls. `EnvSched` implements it with
`state[e]` the status of slot `e` and `on[c]` the environment CPU `c` executes.

**`Memory`** is `kern/pmap.c` after `mem_init()` with all that changes an
address space. `mem` holds the free list, `pp_ref`, the page directories and
page tables; each function of `pmap.c` is an operator from memory to memory
(`PageAlloc`, `PageDecref`, `NewTable` for `pgdir_walk`, `PageInsert`, ...), and
each system call one action, since it runs under the kernel lock from end to
end. `load_icode()` and `env_free()` are one action per page, because other CPUs
stay in user mode meanwhile and fill their TLBs (`tlb`, by `Access`, whenever the
page table allows it: a processor may also look ahead). `kernel` says which of
the two is under way. Of the environments only what decides about memory is
kept: `status`, `parent`, `recv` (the address a receiver wants a page at, while
it waits) and `curenv`. A zombie that has entered by SYSENTER can leave its CPU
or wait for a message (`Switch`, `SysIpcRecv`), since nobody looks for zombies
there. `caller` is history: the CPU that made the last system call. `Habits`
switches on what the kernel accepts and programs seldom or never do: naming an
address with a page table but no page (`hole`), allocating at `UTOP` (`utop`),
changing the map of a child that runs (`edit_running`), and
`sys_map_kernel_page` on other pages than the one of `envs[]` (`kernel_page`):
`user/evilhello2.c` does the last, with the page of the GDT. `UserMemCheck` is `user_mem_check()` on byte
addresses with their wrap-around.

**`Fork`** is the user library on the kernel's page fault handler. A step is one
system call, or the instructions between two points where the program may
fault: its own stores, the push of `fork()`'s locals, the store of
`_pgfault_handler`, the write of the return address by `_pgfault_upcall`. `map`
is each page table with `PTE_W` and `PTE_COW`, `cpu` the registers, `xstack`
the words of each exception stack with its frames, `mem` the contents of pages,
`taken` pages that others may take at any time, so that every allocation can
fail. A program that has a handler writes to no page it has mapped read-only
(`DecideToWrite`; see the findings). **`PrivateMemory`** is what it promises: forks copy, writes are one's own,
and what a program sets out to write is written as it meant it. `Fork`
implements it with the memory of an environment as its page table shows it and
its intention read off its registers, in the middle of the handler too.

**`Boot`** starts the machine: `page_init()` and the tests of the allocator that
`mem_init()` runs on the list (`check_page()`, `check_four_pages()` with
`page_alloc_4pages()` and `page_free_4pages()`, `check_page_installed_pgdir()`;
the other tests leave the list as it was), the loop of `mp_init()` over the MP
table, `boot_aps()` with `mpentry_kstack`, `mpentry.S`, `mp_main()`, and the
trap stacks of `trap_init_percpu()`, with `frames[c]` the stack that holds the
frames of CPU `c`. **`Console`** has the keyboard and serial drivers with the
scan codes and modifiers, the ring, the screen, `readline()`, the word cutting
of `runcmd()`, and the print buffer of programs. Keys arrive whether or not the
kernel looks, so `cons_getc()` is several steps: `StartPoll`, one `SerialIntr`
or `KbdIntr` for each byte a device has, and `ConsGetc` once there is none left,
in the call of whoever reads (`Reads` for `readline()`, `SysCgetc`). `poll`
says which device it is at. `runcmd()` cuts one word per step (`NextWord`, with
`rest` what it has not looked at), and `sys_cputs()` puts out one character per
step (`Cputchar`, with `cputs` what is left). `queue` and `log` are history:
what the ring should hold, and for whom each character was printed.
**`Machine`** composes the two:
the CPU that holds the lock in a trap serves the console. `MachineAssumption`
says of the hardware that the BIOS lists processors by APIC number, the one that
boots first; with another order `boot_aps()` would wait for the wrong CPU. It also
says that there are four pages in a row above `MPENTRY_PADDR`: without them the
tests at boot do not come to an end.

**`MCSpinLock`, `MCEnvSched`, `MCMemory`, `MCFork`, `MCMachine`** give the small
machines and the programs. **`SpinLockProofs`, `EnvSchedProofs`,
`EnvLifeProofs`, `MemoryProofs`, `ForkProofs`, `ForkPrivateProofs`,
`BootProofs`, `ConsoleProofs`** hold the theorems.

Some operators are marked *Mutant* in the modules: each is one of the
definitions next to it with a plausible bug, and every checked property is
violated when the bug is put in.

## 3. Runs

| Run | Instance | Shows |
|---|---|---|
| `spinlock` (`SpinLock.cfg`) | 3 CPUs, one careless | exclusion, the checks accuse the right CPU and only that one, no record of an owner survives a release, the lock implements `Mutex`; a waiting CPU or another gets in, and a release completes |
| `envsched` (`EnvSched.cfg`) | 2 CPUs, 2 idle and 2 user slots, 2 generations, all library programs | all safety properties of `EnvSched`, `MessageKept`, and that it implements `EnvLife` |
| `envsched_careless` (`EnvSchedCareless.cfg`) | 2 CPUs, 3 slots, every use the kernel does not refuse | the lock is paired on every path even when the table is abused |
| `envsched_live` (`EnvSchedLive.cfg`) | 2 CPUs, 4 user slots, programs that never exit | every runnable environment gets to run; every zombie is freed |
| `memory` (`Memory.cfg`) | 2 CPUs, 2 environments, 9 pages, one page table each | counts, free list, page tables, TLBs, `user_mem_check`, and who may change a map and how |
| `fork` (`Fork.cfg`) | 3 environments, 2 forks, 9 pages with four amounts of memory, an exception stack of two frames | every program keeps a memory of its own, faults at every point are survived or end in a panic |
| `machine` (`Machine.cfg`) | 44 machines: 32 sizes of memory and of what the boot takes of it, five MP tables with up to four processors, two typists, a holder of modifier keys, four pairs of printing programs | start of all processors, which pages are handed out and which forgotten, console input and output |
| `zombie_trap` (`ZombieTrap.cfg`) | | a zombie that enters by SYSENTER is not freed |
| `destroy_twice` (`DestroyTwice.cfg`) | | a second destruction frees an environment under the CPU that executes it |
| `unmap_hole` (`UnmapHole.cfg`) | that of `memory`, with `hole` | unmapping an address without a page gives up page 0 |
| `send_page` (`SendPage.cfg`) | that of `memory` | a page can be sent to a child or to oneself only |
| `stacks` (`Stacks.cfg`) | those of `machine` with processors | a trap overwrites the frames of a neighbour on its start stack |

The last five are violations: each checks a sentence of a comment in the code
(quoted under `findings` in `PROJECT.json`) that the code does not keep.

### Properties

`SpinLock`: `TypeOK`; `ChecksAreExact` (the debugging checks, made of unlocked
reads, stop exactly the CPU that locks twice or unlocks what it does not hold);
`FreeHasNoOwner`; `ImplementsMutex`; `LockProgress` (liveness: somebody gets the
lock, and who releases it gets done).

`EnvSched`: `TypeOK`; `LockMatchesPlace` (a CPU holds the lock exactly where the
code says it does); `OneCPU`; `ExecutingIsRunning` (what a CPU executes is never
freed or ready for others, also between the unlock and the `iret`);
`RunningHasCPU` (no environment is lost as RUNNING); `FreeListExact`;
`ReceiverBlocked`; `IdleStaysHome` (so the panic "No idle environment!" is
unreachable); `MessageKept`; `ImplementsEnvLife`; `RunnableRuns` and
`ZombieFreed` (liveness).

`Memory`: `TypeOK`; `RefCountsExact`; `FreeListExact` (with the counts: no page
twice on the list, none in use, none lost when a call gives up half way);
`TablesPrivate`; `TLBFresh`; `UserMemCheckRight`; `MapChangedByFamily` (a map
changes only by a call that its environment or the parent makes at that moment,
on the CPU that makes it) and `NoWriteFromRead` (action properties);
`check_page_free_list` in `unmap_hole`, the kernel's own assertion at boot, which
programs can make false later; `SendFailsOnlyAsListed` in `send_page`.

`Fork`: `TypeOK`; `FaultsAreHandled` (no fault in the middle of the library
kills a program: the upcall is set and its stack mapped and private before
anything can fault, the nested frames fit); `SharedPagesProtected` (a page that
two environments map can be written by none of them); `FaultsOnce` (a handled
fault does not come again); `ImplementsPrivateMemory`.

`Machine`: `TypeOK`; `PagesOnce` (the pages handed out and on the list are each
there once, and are all that nobody has but for those below `MPENTRY_PADDR`);
`StartInOrder`; `TrapStacksApart` (only with a CPU that is on the stack it started
on can another share a stack) and, in `stacks`, `KernelStacksApart` (no two CPUs
share one);
`NoStuckShift`; `InputInOrder`; `ScreenShowsLine`; `LinesWhole`;
`CommandWords`; `BootCompletes` (liveness).

### Bounds, and why they are enough

* Two CPUs: every property relates at most two CPUs and one environment. The
  lock is checked with three, so that a third can come between two.
* Four slots with two CPUs: two idle environments, a parent and a child, which
  is enough for fork, both orders of death, a zombie, a message each way, a
  full table and the reuse of a slot while its old identifier is still around.
  The live run has four user slots, so that a runnable environment can have three
  competitors in front of it.
* `MaxGen = 2`: generations start over at 1 after 2; identifiers of earlier
  generations are passed to every call. In the code a generation has 19 bits.
* In `EnvSched` a `trap` with a page fault that the upcall handles is a return to
  the environment; the memory it writes is in `Fork`.
* `memory`: two environments are a parent and a child, which share pages in
  every way two can; a third would only add further references. One page table
  with two entries each, so that a table is made, filled, emptied and freed;
  nine pages, six of them free at the start: enough for a page of its own in
  each environment, beside directories and tables, and so few that memory runs
  out at each allocation of a call. `RefMod = 16` is out of reach there. One address is
  watched in the TLBs: each is treated alike. Programs keep to the habits of
  `user/` (`Habits = {}`); `unmap_hole` has `hole`. Which page is which makes no
  difference to the program but for the reserved ones, nor which environment and
  which CPU, so the run uses a view in which a mapped page is the first entry
  that maps it, environments are a parent and its child, and CPUs are what they
  execute. The counts, the length of the list, the number of different pages
  among tables, directories, mapped and free pages, what each TLB has and all
  permissions are in the view; the order of the list decides only which page is
  taken next. The properties speak of no page but the reserved ones by name.
* `fork`: grandparent, parent and child in either shape, a page the program
  writes, the page of its stack, a read-only page, `PFTEMP` and the exception
  stack, each fault nested as deep as the stack allows. `Taken` leaves enough
  memory for everything, and three times too little, at any moment. In the view
  a page is the set of places that map it, with what it holds; all environments
  but the first are symmetric.
* `machine`: each machine is small in all but what it is about. Base memory of
  twelve or thirteen pages has seven pages below `MPENTRY_PADDR`, as the code's,
  and four or five above it; extended memory one or three, so that the first
  four pages in a row are those of base memory; the boot takes up to four pages.
  Tables of one to four processors, one more than `cpus[]` holds, with entries
  that `mp_init()` passes over and one that it does not know. One typist has five
  strokes and erases, the other six and does not, in a line of five characters
  (`BUFLEN = 6`) on a screen of a few cells that scrolls, with a ring and device
  buffers small enough to fill: enough for commands of two words with blanks
  anywhere, and of three, one too many (`MAXARGS = 3`). Five strokes of three
  modifiers, with and without the escape byte, in every order of pressing and
  releasing, and with the two bytes of a key read in one poll or in two. `traps` bounds the traps from user mode: with
  three, each of three CPUs can trap while its neighbour is still starting.

### Fairness

`SpinLock!FairSpec`: a CPU executes its next instruction, its stores reach
memory, and a CPU inside its section leaves. No fairness between CPUs that race
for the `xchg` is assumed, and none holds: `LockProgress` promises a winner,
not a turn for each.

`EnvSched!FairSpec`: kernel code makes progress (weak fairness of the boot and
of each CPU's step with the lock); a CPU is interrupted in user mode again and
again by its own LAPIC timer, which is periodic (`lapic_init()`), so
`TrapEnter` and, when it is inside `trap()`, `TrapTimer` are strongly fair; and
each CPU gets the lock when it becomes free again and again. The last is an
assumption about the bus, which arbitrates the `xchg`es: the lock's algorithm
alone does not give it, as said above. Deadlock is not checked in these runs
because the system may really stop: in the monitor with the lock held.

`Machine!Spec`: each CPU's own steps in the kernel are weakly fair: processors
execute instructions, and the waits (`boot_aps()` for a CPU, a CPU for the lock)
are loops that go on once their condition holds. The lock is contended only
after what `BootCompletes` promises. Typing, printing and traps may stop.
`Memory` and `Fork` have no liveness property and no fairness.

`RunnableRuns` is stated for programs that do not exit. With exits it is false:
after an exit `curenv` is NULL and the scan starts at slot 0, and a parent in a low
slot that forks children which exit at once starves a runnable environment in a
higher slot, found by TLC on one CPU and four slots with
`Programs = {"exofork", "start", "exit"}`. The comment in `kern/sched.c:17` ("starting
just after the env this CPU was last running") is the promise that would have
excluded it.

## 4. Findings

* `zombie_trap`: `kern/syscall.c:491` does not look for zombies, so the claim
  of `kern/env.c:480` holds only for `trap()`. The zombie keeps making system
  calls; if it yields it leaves its CPU and stays `ENV_DYING` in the table; if
  it waits for a message it becomes `ENV_NOT_RUNNABLE` and is alive again.
* `destroy_twice`: `env_destroy` treats a second destruction of a zombie as one
  of an environment nobody executes.
* `unmap_hole`: `page_lookup` (`kern/pmap.c:605`) does not look at `PTE_P`; for
  an empty entry it returns page 0, so `page_remove` takes a reference from page
  0 although `kern/pmap.c:610` says it "silently does nothing". A program can do
  this with `sys_page_unmap`, and page 0 ends up on the free list. Sharing such
  an address maps page 0.
* `send_page`: `sys_ipc_try_send` hands the page to `sys_page_map()`
  (`kern/syscall.c:369`), which looks the receiver up with its permission check.
  A page can be sent to oneself and to a child only, although the comment at
  `kern/syscall.c:315` says "No need to check permissions".
* `stacks`: `trap_init_percpu` sets `ts_esp0` to the lower end of a CPU's stack
  (`kern/trap.c:189`), which is the top of its neighbour's, and for CPU 0 is below
  the array. In TLC's trace CPU 2 runs its first environment while CPU 1 still
  waits for the lock on the stack it started on, and a trap of CPU 2 puts its
  frame over those of CPU 1. `TrapStacksApart` says, in the run `machine` and as a
  theorem, that it can happen in no other way.

What follows was seen while modelling and has no run of its own.

* `sys_env_set_status` does not ask what the child is doing (`kern/syscall.c:132`): a
  parent that makes a child RUNNABLE while another CPU executes it lets the next
  `sched_yield()` give it to a second CPU, against `kern/sched.c:25`. It also accepts a
  status outside the two its comment allows: `ENV_FREE` makes a slot that is free
  and not on the free list. Both are in `CarelessUses` (`any_status`); no program of
  `user/` does either.
* After an exit `sched_yield()` scans from slot 0, against `kern/sched.c:17`; see
  *Fairness*.
* `page_free_4pages` makes `page_free_list` the pages it is given and forgets what was
  on the list in front of them (`kern/pmap.c:442`), and `page_alloc_4pages` leaves the
  pages it returns on the list. `check_four_pages()` runs both in `mem_init()`: the
  pages 1 to 6 below `MPENTRY_PADDR` are lost for good. `PagesOnce` states it: exactly
  these are missing, whatever the sizes of memory.
* `pgfault` does not look at `FEC_WR`, and its test for `PTE_U | PTE_P | PTE_COW`
  (`lib/fork.c:45`) lets every mapped page pass, although the comment at
  `lib/fork.c:21` asks for a panic at a write to a page that is not copy-on-write: a
  program that writes to a page it has mapped read-only gets a private copy of it
  that it can write to. `Fork` leaves such writes out, and so neither the run nor
  the theorems say anything of them. (A program without a handler is destroyed
  by such a write, which is in the model.)

* `sys_exofork` ignores the error of `env_alloc` and writes through an
  uninitialised pointer (`TrapExoforkFails`).
* `sys_ipc_try_send` reads through an uninitialised pointer when a page to be sent
  writable has no page table at `srcva` (`kern/syscall.c:363`); `Memory` has the call
  refused and no step for what else may come of it.
* `page_remove` invalidates the TLB of its own CPU only: a parent that changes the
  map of a running child (`edit_running`) leaves the child's CPU with the old
  translation; no program of `user/` does.
* `sys_page_alloc` accepts `va == UTOP` (`utop`).
* In `mpconfig` a list in another order than the APIC numbers would make
  `boot_aps()` wait for the wrong CPU.

## 5. Proofs

TLC checks small machines; the theorems below hold for every number of CPUs,
slots, generations and user environments that satisfies the `ASSUME`s.

**`SpinLockProofs`.** The inductive invariant `LockInv` says for each CPU what
its place in the code means for the fields: a CPU that holds the lock is at one
of `HoldingLabels`, and its buffer and its view of `lk->cpu` are fixed by that
label (`HolderInv`); any other CPU has an empty buffer and never sees itself as
owner (`OtherInv`); proper CPUs hold when they unlock and do not when they lock
(`ProperInv`). Exclusion alone is not inductive: that the store buffer is empty
at the releasing `xchg` is what keeps a late store of the old owner from
overwriting the record of the new one. From it: `LockIsExclusive`,
`ChecksAreRight`, `LockTypes`, `FreeIsClean`, and `LockIsMutex`, the refinement of `Mutex` (initial state to initial state, the
winning `xchg` to `Acquire`, the releasing one to `Release`, all else to a
stutter).

**`EnvSchedProofs`.** Two inductive invariants.

`PlaceInv` holds whatever the programs do: types, the lock held exactly inside
the kernel (`LockMatchesPlace`), and that a CPU which executes something has a
slot in `curenv`. Its proof follows every way out of the kernel
(`SchedYieldEffect` says what the scheduler can do: `env_run` of something
ready, of its own environment or of the CPU's idle one, or stay). It gives
`TypeCorrect` and `LockPaired`.

`UseInv` holds for programs in `ProperUses`, an assumption of each theorem that
the run `destroy_twice` shows to be needed, as does a parent that starts a child
twice. None of `OneCPU`,
`ExecutingIsRunning`, `RunningHasCPU`, `FreeListExact`, `ReceiverBlocked` and
`IdleStaysHome` is inductive alone. An environment must not be taken up twice,
which needs that an executed one is `RUNNING` or `DYING`; that it stays so
needs that a send wakes only environments that wait, that a start reaches only
environments that never ran, that a slot from the free list is free, and that
no call reaches an idle environment. `UseInv` therefore joins them with what
ties them together: a waiting environment has run before (`RecvOk`), so a start
cannot wake it; a live environment has a generation other than 0 (`IdOk`), so
nobody is the parent of the idle environments, whose parent is 0; what a CPU
executes has run (`OnCPU`); a CPU that has not started executes nothing
(`StartInv`); and during the boot the environments made so far fill the first
slots in order (`BootInv`). The middle of a handler is described by `Mid`: the
table it has made, the environment that is then current, the free list. One
lemma takes `Mid` through each way out (`EnvRunUse`, `StaysUse`,
`SchedYieldUse`, `ReturnUse`), one shows `Mid` for a handler that rewrites one
entry (`MidChange`), and one lemma per handler checks the entry. The theorems:
`NobodyRunsTwice`, `NothingFreedWhileRunning`, `NoLostEnvironment`,
`FreeListIsExact`, `ReceiversBlock`, `IdleIsThere`.

**`MemoryProofs`.** For any number of pages, page directory entries,
environments, CPUs and addresses. The invariant `MemInv` joins what no one of
the properties gives alone. `MemOK(m, H)` says of a memory that every count is
the number of its references, the list holds each unused page once, tables and
directories have one place each and are no user's page, and nothing reserved is
a table; `H` is the set of pages taken off the list and not yet referred to,
which makes the statement hold in the middle of a call too, and each function
of `pmap.c` a lemma about it (`PageAllocOK` adds to `H`, `PageFreeOK` and
`PageInsertOK` take from it). Below them are lemmas that say how the number of
references follows one more or one fewer (`MoreTables`, `MoreDirs`, `MorePtes`,
with the library's facts on cardinality). `SpaceOK` says a free slot has no
address space left, `BusyOK` that nobody executes what is being set up or taken
down, `RunsOK` and `WaitOK` what a current and a waiting environment are: these
carry the TLB property. Every call changes a map at one place (`Edited`, with
`Honest` for where write access comes from and the caller for whose it is) or
sets up or takes down one that nobody executes (`SetupStep`), and the two action
properties follow from that alone (`NextMaps`). Theorems: `MemInvAlways`, `MemoryTypes`, `CountsAreExact`,
`FreeListIsExact`, `ReservedStay`, `TablesArePrivate`, `WriteNeedsWrite`,
`FamilyChangesMaps`, `TLBIsFresh`.

They have two hypotheses beyond the `ASSUME`s. `CountsFit`: the places that can
refer to a page are fewer than `pp_ref` can count. The code does not ensure it
(64 full page tables of one page would wrap the count), so the theorems say
what holds short of that. `Polite`: programs name no holes, nor `UTOP`, nor
pages of the kernel other than the one of `envs[]`; `unmap_hole` shows that the
first is needed. `TLBIsFresh` asks for `Habits = {}`, as parents must
also leave running children alone.

`UserMemCheckCorrect` is about an operator, for every memory, environment,
permission and range that ends below the last page of the address space: the
addresses the loop of `user_mem_check()` looks at lie in the range, and one of
them in each of its pages, so that the range is accepted exactly when every byte
of it may be accessed.

**`EnvLifeProofs`.** `KeepsToEnvLife` is the refinement of `EnvLife`, for
programs in `ProperUses`. One lemma for each step of `EnvLife` says which change
of the two mapped variables it is; then the handlers are followed through their
ways out: a handler that changes one entry and stays is `Create`, `Ready`, `Kill`
or a stutter, `env_run()` is `TakeUp` after a wait and a switch from one
environment to another or to itself otherwise. What makes it more than a
rewriting is that a step may change two environments at once, and the entry
that is taken up must be the one that is ready after the handler: `UseInv` gives
that, with `HomeInv` (an idle environment is the current one of its own CPU
only), which `EnvSchedProofs` proves along with it. `MessagesAreKept` needs
`PlaceInv` only and holds whatever the programs call.

**`ForkProofs`.** For any number of environments, pages, writes, forks and any
depth of the exception stack that has room for two frames (`RoomAssumption`).
None of the three safety properties is inductive. `ForkInv` joins

* `Types`;
* `LocalInv`, what one environment's place in the code means: in the program
  (`InProgram`), or in the handler with the frame of the program's fault on top
  of the exception stack (`ProgramFrame`) and possibly that of a fault of
  `push_eip` below it (`FirstLevel`, `SecondLevel`), with how far the page is
  repaired. That there is never a third frame, and that the handler itself does
  not fault anywhere else, is the heart of `EveryFaultIsHandled`;
* `ChildInv`: a child under way is asleep and has one parent;
* `OneAddress`: a physical page is at one address in all programs, so that the
  handler of one cannot write what another sees under a different name;
* `SharedPagesProtected`, with the exception of the page that `duppage()` has
  given to the child and not yet taken the write permission from in the parent;
* `PftempOwn`: the page at `PFTEMP` is nobody else's until it is moved;
* `EipPushed`: the return address that `pfentry.S` has pushed on the program's
  stack is still there when `ret` takes it, though the push itself may break a
  shared page.

The assumptions on constants besides: pages and registers are not the null
pointer (`NullAssumption`, `TodoAssumption`), and the pages of a program are laid
out once each, with the exception stack last, as in memory. Theorems:
`ForkInvAlways`, `TypeCorrect`, `EveryFaultIsHandled`, `SharedPagesStayProtected`,
`ReturnsToNoFault`.

**`ForkPrivateProofs`.** `KeepsMemoryPrivate` is the refinement of
`PrivateMemory`. Beyond `ForkInv` it needs that a running environment has all of
its pages (`Whole`), that a child under way has exactly the pages that the loop
of `fork()` has come past (`Copied`), and that `PFTEMP` holds what is to be copied
when it is mapped over the page (`Filled`). `sys_exofork` maps to the abstract
fork: from then on the child is said to have what the parent had at that moment,
in pages of the parent until the loop comes to them (`Owner`), while the parent
goes on to fault and to write its stack. Starting the child maps to the return
of `fork()`; the store that succeeds, at the first attempt or after the handler
has returned to it, to the abstract write; an exit or a panic to the end of an
environment, with the child it was making. Every step of the handler, of
`duppage()` and of the set-up maps to a stutter, and that is where privacy is at
stake: what each environment sees must not change.

**`BootProofs`.** For any number of CPUs and any set of machines. `BootInv` has
a case for each stage of the boot: `Alone` before the others are woken,
`OneByOne` while CPU `next` is on its way with those before it waiting for the
lock and those after it asleep (this is what protects `mpentry_kstack`), `Done`
afterwards; and for each place of a CPU where its frames and trap stack are
(`FramesOf`). Theorems: `StartsInOrder`, `StacksApart`.

`StacksApart` is about `TrapStacksApart`, with the exception that `stacks` shows to
be needed.

`PagesAreOnce`: `page_init()` links three runs of pages, base memory up to the
page of `mpentry.S`, the rest of it, and extended memory from where `boot_alloc()`
stopped. `PageInit` gives the page at each position of the list. The tests come
next. `check_page()` exchanges two of the first three pages (`ExchangedList`,
`ExchangedOnce`), and `check_four_pages()` makes the list start with the first four
pages in a row, twice. Which these are follows from the positions: nothing at
or before page 6 begins four in a row, once two of the first pages are exchanged
and one or the other is out of the list, and the pages behind
`MPENTRY_PADDR` do (`FirstInARow`). `TestsLeave`, `TestedList` and `FreeListOnce` conclude
that what is left is the list behind that page, each page once. `ListIsWhole`
(what was allocated and what is left are together that list, and there are enough
for the first environments) carries it through the boot, with the last exchange
of `check_page_installed_pgdir()`. `BootTypesCorrect` rests on `Places`, the ranges of the indices.
That `mp_init()` finds at most `NCPU` processors and the booting one first is
computed by a fold over the table, which would need induction over data; it is
the assumption `MpInitAssumption`, which TLC evaluates for the tables of the run.

**`ConsoleProofs`.** For any sizes of the ring, the screen, the line, `argv[]` and
the print buffers, any number of programs, and whatever is typed. Each part of
`ConsoleInv` speaks of variables of its own:

* `InputInv`. `NoStuckShift` speaks only of moments when every byte has been
  read, and says nothing about the next one. `ShiftFollows` looks ahead along
  the bytes still under way: a bit that is set and that none of them will
  clear, or that one of them will set and no later one clear, belongs to a key
  that is down. What a byte will do depends on the escape before it, so
  `KeysWhole` says that every escape is followed by its byte, in the controller,
  on the wire, or in the bit `E0ESC`.
* `RingInv`. `RingHolds` gives the place of each character in the ring and that
  they are fewer than `CONSBUFSIZE`: an overrun makes the two positions meet,
  and the ring is then empty.
* `ScreenInv`. What is left of the line stands before the cursor (`LineBefore`),
  and nothing after it (`BlankAfter`), which erasing and scrolling need of each
  other: one lemma for each of backspace, line feed and a visible character,
  and one for scrolling.
* `ReaderInv`. The kernel does one thing at a time (`OneThing`), and the line
  and `argv[]` stay inside their buffers.
* `PrintInv`. What a program has printed is in one piece and, while
  `sys_cputs()` is at it, at the end of the output, with nothing left to print
  afterwards unless the buffer was full (`ProgramWhole`); what the monitor
  prints is the end of the output (`MonitorWhole`).

Theorems: `MachineTypesCorrect`, `ShiftNeverSticks`, `InputStaysInOrder`,
`ScreenShowsTheLine`, `LinesStayWhole`.

The remaining assumptions are those on the constants: at least one CPU, slots
for the environments the boot creates, at least one generation, a free list
with every page once, buffers with room for a character and a terminator, null
values that are nothing else.

Every invariant of the passing runs, every action property but one, and all three
refinements are proved. Only model-checked: all liveness (`LockProgress`,
`RunnableRuns`, `ZombieFreed`, `BootCompletes`: fairness and ENABLED are out of the
prover's reach); `CommandWords`, whose reference definition counts the words of the
line, so that its proof is an induction over the line; and the five runs that
expect a violation.

## 6. Plan

What is left, in this order:

1. A proof that careless programs cannot harm what `Memory` keeps for others:
   `CountsAreExact` without `Polite`, short of pages named through a hole.
2. A proof that the page a receiver gets was its sender's at the moment of the
   call.
3. The programs of `user/` that talk to each other (`primes.c`, `pingpongs.c`)
   on an abstract kernel with the retry loop of `ipc_send`.

## 7. Not modelled

Nearly all code of `src/lab4` that keeps state or decides something is modelled.
What is not, and why:

* **Labs 1 to 3** are two thirds of the repository and hold earlier, smaller
  versions of the functions of lab 4, or their empty exercises. A second model
  of them would say the same again.
* **`entrypgdir.c`** is a table of constants, a quarter of the rest.
* **The self-tests** of `pmap.c` run once before anything else. What they do to the
  list of free pages is in `Boot`; what they do to page tables is one trace each
  of what `Memory` explores. `check_page_free_list()` is a property of `Memory`.
  `boot_map_region()` runs only in `mem_init()`. `chunck_list`, which
  `page_free_4pages()` sets, is never read.
* **`printfmt.c`, `string.c`, `queue.h`, `x86.h`** format and copy data, sequentially.
* **`kdebug.c`** searches constant data for the backtrace of a stopped kernel.
* **Device access**: the boot loader, PIC, CMOS clock, the APIC registers, the
  search for the MP table in memory, the wait loops and the parallel port of
  the console.
* **In `Memory`**: contents of pages (those are in `Fork`); ELF parsing in
  `load_icode`; the kernel's own mappings above `UTOP`, which are made once and
  shared, except for the table at `UTOP`.
* **In `Fork`**: memory for page tables running out inside `sys_page_map`; writes to
  pages mapped read-only by a program that has a handler; and faults at
  addresses where nothing is mapped, the only ones for which `pgfault()` could
  panic with a wrong entry (`lib/fork.c:41`, `45`).
* **In `Console`**: the keys ALT, NUMLOCK and SCROLLLOCK, which are read as the other
  modifiers and locks are, and Ctrl-Alt-Del, which reboots
  (`kern/console.c:354`); the tab, which is five blanks; the echo of `readline()` in
  user programs, which is that of the monitor through other calls; what
  commands print.
* **In `EnvSched`**: the contents of registers: a switch saves and restores all
  of them.
