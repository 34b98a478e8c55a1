------------------------------ MODULE EnvSched ------------------------------
(***************************************************************************)
(* The environments of JOS and the scheduler that shares them between the  *)
(* processors: kern/env.c, kern/sched.c, the trap path of kern/trap.c, the *)
(* system calls of kern/syscall.c that create, start, stop and connect     *)
(* environments, and the end of i386_init() and mp_main().                 *)
(*                                                                         *)
(* A CPU is in user mode, waits for the big kernel lock, or is inside the  *)
(* kernel with the lock.  What it does between lock_kernel() and the       *)
(* unlock_kernel() of env_run() is one action: everything it reads and     *)
(* writes there is written only under the lock.  Two things happen outside *)
(* the lock and are steps of their own: the wait for it, and env_pop_tf(), *)
(* which still touches the environment after the unlock.  A CPU that       *)
(* enters the monitor or panics keeps the lock forever.                    *)
(*                                                                         *)
(* There are two ways in.  An interrupt or exception goes through trap(),  *)
(* which looks for zombies; SYSENTER goes through syscall_dummy(), which   *)
(* does not.                                                               *)
(***************************************************************************)
EXTENDS Integers, Sequences

CONSTANTS NCPU,       \* processors; CPU 0 boots
          NENV,       \* slots of envs[]
          NUser,      \* environments i386_init() creates after the idle ones
          MaxGen,     \* last generation before env_alloc() starts over at 1
          Programs,   \* what the user programs do, a subset of Uses
          NoEnv,      \* the null struct Env pointer
          NoCPU       \* the lock is free

CPUs  == 0 .. NCPU - 1
Slots == 0 .. NENV - 1

(* Calls and faults as the library and the programs of user/ make them: a  *)
(* child is started once, when its parent has prepared it, and destroyed   *)
(* at most once; sys_exofork() finds a free environment.                   *)
ProperUses == {"exofork", "start", "exit", "destroy", "yield", "send", "recv",
               "fault", "breakpoint"}

(* Calls the kernel accepts besides: set_status with any status, on a      *)
(* child that has run or on oneself; destroying a zombie again;            *)
(* sys_exofork() when env_alloc() fails.  No program of user/ makes the    *)
(* first two; user/primes.c makes the third, it forks until all slots are  *)
(* taken.                                                                  *)
CarelessUses == {"any_status", "destroy_zombie", "exofork_fails"}

ASSUME SizeAssumption ==
  /\ NCPU \in Nat \ {0} /\ NENV \in Nat /\ NUser \in Nat /\ MaxGen \in Nat \ {0}
  /\ NCPU + NUser <= NENV
ASSUME UseAssumption == Programs \subseteq ProperUses \cup CarelessUses
ASSUME NullAssumption == NoEnv \notin Slots /\ NoCPU \notin CPUs

VARIABLES envs,       \* the table of environments
          freeList,   \* env_free_list, first environment first
          curenv,     \* cpus[c].cpu_env: the environment CPU c last switched to
          pc,         \* where each CPU is
          holder,     \* the CPU that holds the big kernel lock
          panicked    \* panicstr is set

vars == <<envs, freeList, curenv, pc, holder, panicked>>

Lock == INSTANCE Mutex
-----------------------------------------------------------------------------
(* Environment identifiers and the table.                                  *)

(* An envid_t is a generation above the index of a slot; the value 0, which*)
(* is the identifier of a slot never used and the parent of the kernel's   *)
(* own environments, stands for the calling environment in a system call.  *)
EnvIds == [gen : 0 .. MaxGen, slot : Slots]
Zero   == [gen |-> 0, slot |-> 0]
ENVX(id) == id.slot

Statuses == {"FREE", "DYING", "RUNNABLE", "RUNNING", "NOT_RUNNABLE"}

Env == [id      : EnvIds,          \* env_id
        parent  : EnvIds,          \* env_parent_id
        type    : {"USER", "IDLE"},
        status  : Statuses,
        started : BOOLEAN,         \* env_runs > 0
        cpunum  : CPUs,            \* env_cpunum
        recving : BOOLEAN,         \* env_ipc_recving
        from    : EnvIds]          \* env_ipc_from

(* Mutant: generations that never start over.                              *)
GenerationUnbounded(gen) == gen + 1

NextGeneration(gen) == IF gen = MaxGen THEN 1 ELSE gen + 1

(* Mutant: the receiving flag of the slot's last environment survives.     *)
RenewedKeepsRecving(old, e, parent, type, status) ==
  [old EXCEPT !.id = [gen |-> NextGeneration(old.id.gen), slot |-> e],
              !.parent = parent, !.type = type, !.status = status, !.started = FALSE]

(* env_alloc(), when the free list gave it slot e.  env_ipc_from and       *)
(* env_cpunum keep what the last environment of the slot left.             *)
Renewed(old, e, parent, type, status) ==
  [old EXCEPT !.id      = [gen |-> NextGeneration(old.id.gen), slot |-> e],
              !.parent  = parent,
              !.type    = type,
              !.status  = status,
              !.started = FALSE,
              !.recving = FALSE]

EnvAlloc(e, parent, type, status) ==
  [envs EXCEPT ![e] = Renewed(envs[e], e, parent, type, status)]

SetStatus(e, status) == [envs EXCEPT ![e].status = status]

(* env_free(): the identifier stays in the slot.                           *)
EnvFree(e) == SetStatus(e, "FREE")

(* Mutant: the slot is not put back.                                       *)
FreeListWithout(e) == freeList

FreeListWith(e) == <<e>> \o freeList

(* envid2env() as CPU c's environment calls it; NoEnv is -E_BAD_ENV.       *)
Envid2Env(c, id, checkperm) ==
  LET e == ENVX(id) IN
  IF id = Zero THEN curenv[c]
  ELSE IF \/ envs[e].status = "FREE" \/ envs[e].id # id
          \/ /\ checkperm
             /\ e # curenv[c]
             /\ envs[e].parent # envs[curenv[c]].id
       THEN NoEnv ELSE e

Init ==
  /\ envs = [e \in Slots |-> [id |-> Zero, parent |-> Zero, type |-> "USER",
                              status |-> "FREE", started |-> FALSE,
                              cpunum |-> 0, recving |-> FALSE, from |-> Zero]]
  /\ freeList = [i \in 1 .. NENV |-> i - 1]
  /\ curenv = [c \in CPUs |-> NoEnv]
  /\ pc = [c \in CPUs |-> IF c = 0 THEN "boot" ELSE "start_lock"]
  /\ holder = 0
  /\ panicked = FALSE
-----------------------------------------------------------------------------
(* The ways out of the kernel.  Each takes the table the caller has so far *)
(* and the environment that is curenv at that point of the code, because   *)
(* env_destroy() and trap() call the scheduler with curenv cleared.        *)

Goto(c, label) == pc' = [pc EXCEPT ![c] = label]

(* Mutant: the environment switched from stays RUNNING.                    *)
NotDescheduled(table, cur) == table

(* env_run(): switch to e, release the lock.                               *)
Descheduled(table, cur) ==
  IF cur # NoEnv /\ table[cur].status = "RUNNING"
  THEN [table EXCEPT ![cur].status = "RUNNABLE"] ELSE table

Switched(table, cur, e) ==
  IF cur = e THEN table
  ELSE [Descheduled(table, cur) EXCEPT ![e].status = "RUNNING", ![e].started = TRUE]

(* Mutant: env_pop_tf() without the unlock_kernel() before it.             *)
EnvRunLocked(c, table, cur, e) ==
  /\ envs' = Switched(table, cur, e)
  /\ curenv' = [curenv EXCEPT ![c] = e]
  /\ Goto(c, "pop")
  /\ UNCHANGED <<holder, panicked>>

EnvRun(c, table, cur, e) ==
  /\ envs' = Switched(table, cur, e)
  /\ curenv' = [curenv EXCEPT ![c] = e]
  /\ Lock!Release(c)
  /\ Goto(c, "pop")
  /\ UNCHANGED panicked

(* monitor() inside the kernel, which no command leaves.                   *)
Monitor(c, table, cur) ==
  /\ envs' = table
  /\ curenv' = [curenv EXCEPT ![c] = cur]
  /\ Goto(c, "monitor")
  /\ UNCHANGED <<holder, panicked>>

Panic(c, table, cur) ==
  /\ envs' = table
  /\ curenv' = [curenv EXCEPT ![c] = cur]
  /\ Goto(c, "monitor")
  /\ panicked' = TRUE
  /\ UNCHANGED holder

(* Mutants: environments that run on another CPU are candidates too; idle  *)
(* environments are; the scan always starts at slot 0.                     *)
CandidatesRunning(table) ==
  {e \in Slots : table[e].type # "IDLE" /\ table[e].status \in {"RUNNABLE", "RUNNING"}}

CandidatesIdle(table) == {e \in Slots : table[e].status = "RUNNABLE"}

ScanFromZero(table, cur) == 0

(* sched_yield(): round robin over the runnable environments.              *)
Candidates(table) ==
  {e \in Slots : table[e].type # "IDLE" /\ table[e].status = "RUNNABLE"}

(* How far the circular scan that starts at start goes to reach e.         *)
Distance(start, e) == IF e >= start THEN e - start ELSE e + NENV - start

ScanStart(table, cur) ==
  IF cur = NoEnv \/ ENVX(table[cur].id) + 1 = NENV THEN 0 ELSE ENVX(table[cur].id) + 1

FirstFrom(start, candidates) ==
  {e \in candidates : \A f \in candidates : Distance(start, e) <= Distance(start, f)}

SomebodyLeft(table) ==
  \E e \in Slots : table[e].type # "IDLE" /\ table[e].status \in {"RUNNABLE", "RUNNING"}

RunIdle(c, table, cur) ==
  IF table[c].status \in {"RUNNABLE", "RUNNING"}
  THEN EnvRun(c, table, cur, c) ELSE Panic(c, table, cur)

SchedYield(c, table, cur) ==
  \/ \E e \in FirstFrom(ScanStart(table, cur), Candidates(table)) : EnvRun(c, table, cur, e)
  \/ /\ Candidates(table) = {}
     /\ IF cur # NoEnv /\ table[cur].status = "RUNNING" THEN EnvRun(c, table, cur, cur)
        ELSE IF SomebodyLeft(table) THEN RunIdle(c, table, cur)
        ELSE Monitor(c, table, cur)

(* The end of trap(): back to the environment if it still runs.            *)
TrapReturn(c, table) ==
  IF table[curenv[c]].status = "RUNNING"
  THEN EnvRun(c, table, curenv[c], curenv[c]) ELSE SchedYield(c, table, curenv[c])

(* The end of syscall_dummy() and of page_fault_handler(): back to the     *)
(* environment, whatever its status.                                       *)
SysReturn(c, table) == EnvRun(c, table, curenv[c], curenv[c])

(* env_destroy() of the calling environment.                               *)
DestroyCurrent(c) ==
  /\ freeList' = FreeListWith(curenv[c])
  /\ SchedYield(c, EnvFree(curenv[c]), NoEnv)
-----------------------------------------------------------------------------
(* Booting.                                                                *)

Created == NENV - Len(freeList)

(* ENV_CREATE in i386_init(): first one idle environment per CPU.          *)
BootCreate ==
  /\ pc[0] = "boot"
  /\ Created < NCPU + NUser
  /\ envs' = EnvAlloc(Head(freeList), Zero, IF Created < NCPU THEN "IDLE" ELSE "USER", "RUNNABLE")
  /\ freeList' = Tail(freeList)
  /\ UNCHANGED <<curenv, pc, holder, panicked>>

(* The sched_yield() of i386_init() and, with the lock, that of mp_main(). *)
BootYield(c) ==
  /\ \/ pc[c] = "boot" /\ Created = NCPU + NUser
     \/ pc[c] = "start"
  /\ SchedYield(c, envs, curenv[c])
  /\ UNCHANGED freeList
-----------------------------------------------------------------------------
(* In and out of user mode.                                                *)

(* env_pop_tf(), after the lock is released.                               *)
Pop(c) ==
  /\ pc[c] = "pop"
  /\ envs' = [envs EXCEPT ![curenv[c]].cpunum = c]
  /\ Goto(c, "user")
  /\ UNCHANGED <<freeList, curenv, holder, panicked>>

(* An interrupt or exception; trap() halts the CPU after a panic.          *)
TrapEnter(c) ==
  /\ pc[c] = "user"
  /\ Goto(c, IF panicked THEN "halted" ELSE "trap_lock")
  /\ UNCHANGED <<envs, freeList, curenv, holder, panicked>>

SysEnter(c) ==
  /\ pc[c] = "user"
  /\ Goto(c, "sys_lock")
  /\ UNCHANGED <<envs, freeList, curenv, holder, panicked>>

(* lock_kernel() in trap(), syscall_dummy() and mp_main().                 *)
Locking == {"trap_lock", "sys_lock", "start_lock"}

LockKernel(c) ==
  /\ pc[c] \in Locking
  /\ Lock!Acquire(c)
  /\ Goto(c, CASE pc[c] = "trap_lock"  -> "trap"
               [] pc[c] = "sys_lock"   -> "sys"
               [] pc[c] = "start_lock" -> "start")
  /\ UNCHANGED <<envs, freeList, curenv, panicked>>
-----------------------------------------------------------------------------
(* trap() with the lock held.                                              *)

(* Mutant: trap() does not look for zombies.                               *)
NoZombie(c) == FALSE

Zombie(c) == envs[curenv[c]].status = "DYING"

TrapZombie(c) ==
  /\ pc[c] = "trap" /\ Zombie(c)
  /\ DestroyCurrent(c)

Trapped(c) == pc[c] = "trap" /\ ~Zombie(c)

(* A trap an environment's own program causes: idle environments only make *)
(* the yield system call.                                                  *)
TrapOf(c, use) == Trapped(c) /\ envs[curenv[c]].type = "USER" /\ use \in Programs

TrapTimer(c) ==
  /\ Trapped(c)
  /\ SchedYield(c, envs, curenv[c])
  /\ UNCHANGED freeList

TrapSpurious(c) ==
  /\ Trapped(c)
  /\ TrapReturn(c, envs)
  /\ UNCHANGED freeList

(* A page fault that the environment's upcall is to handle.                *)
TrapPageFault(c) ==
  /\ Trapped(c) /\ envs[curenv[c]].type = "USER"
  /\ SysReturn(c, envs)
  /\ UNCHANGED freeList

(* Any other exception; T_BRKPT stays in the monitor before it gets there. *)
TrapUnexpected(c) == TrapOf(c, "fault") /\ DestroyCurrent(c)

TrapBreakpoint(c) ==
  /\ TrapOf(c, "breakpoint")
  /\ Monitor(c, envs, curenv[c])
  /\ UNCHANGED freeList

(* sys_exofork(), by int T_SYSCALL.                                        *)
TrapExofork(c) ==
  /\ TrapOf(c, "exofork")
  /\ freeList # << >>
  /\ TrapReturn(c, EnvAlloc(Head(freeList), envs[curenv[c]].id, "USER", "NOT_RUNNABLE"))
  /\ freeList' = Tail(freeList)

(* sys_exofork() ignores the error of env_alloc() and writes through an    *)
(* uninitialised pointer: into some environment, or into a page fault in   *)
(* kernel mode.                                                            *)
TrapExoforkFails(c) ==
  /\ TrapOf(c, "exofork_fails")
  /\ \/ \E e \in Slots : TrapReturn(c, SetStatus(e, "NOT_RUNNABLE"))
     \/ Panic(c, envs, curenv[c])
  /\ UNCHANGED freeList
-----------------------------------------------------------------------------
(* syscall_dummy() with the lock held.                                     *)

SysOf(c, use) == pc[c] = "sys" /\ envs[curenv[c]].type = "USER" /\ use \in Programs

SysYield(c) ==
  /\ pc[c] = "sys" /\ (envs[curenv[c]].type = "IDLE" \/ "yield" \in Programs)
  /\ SchedYield(c, envs, curenv[c])
  /\ UNCHANGED freeList

(* A call that fails, or one that is about memory or the console only.     *)
SysNothing(c) ==
  /\ pc[c] = "sys"
  /\ SysReturn(c, envs)
  /\ UNCHANGED freeList

(* sys_env_destroy() of the caller, and of a child.                        *)
SysExit(c) == SysOf(c, "exit") /\ DestroyCurrent(c)

Children(c) == {Envid2Env(c, id, TRUE) : id \in EnvIds} \ {NoEnv, curenv[c]}

(* Mutant: env_destroy() frees an environment that runs on another CPU.    *)
DestroyAtOnce(c) ==
  /\ SysOf(c, "destroy")
  /\ \E e \in Children(c) : SysReturn(c, EnvFree(e)) /\ freeList' = FreeListWith(e)

SysEnvDestroy(c) ==
  /\ SysOf(c, "destroy")
  /\ \E e \in Children(c) :
       /\ envs[e].status # "DYING" \/ "destroy_zombie" \in Programs
       /\ IF envs[e].status = "RUNNING"
            THEN SysReturn(c, SetStatus(e, "DYING")) /\ UNCHANGED freeList
            ELSE SysReturn(c, EnvFree(e)) /\ freeList' = FreeListWith(e)

(* sys_env_set_status(), which checks no status.                           *)
Fresh(e) == envs[e].status = "NOT_RUNNABLE" /\ ~envs[e].started

MaySetStatus(c, e, status) ==
  \/ "start" \in Programs /\ e # curenv[c] /\ Fresh(e) /\ status = "RUNNABLE"
  \/ "any_status" \in Programs

SysEnvSetStatus(c) ==
  /\ pc[c] = "sys" /\ envs[curenv[c]].type = "USER"
  /\ \E e \in Children(c) \cup {curenv[c]}, status \in Statuses :
       /\ MaySetStatus(c, e, status)
       /\ SysReturn(c, SetStatus(e, status))
  /\ UNCHANGED freeList

Waiting(e) ==
  [envs EXCEPT ![e].recving = TRUE, ![e].from = Zero, ![e].status = "NOT_RUNNABLE"]

Delivered(e, from) ==
  [envs EXCEPT ![e].recving = FALSE, ![e].from = from, ![e].status = "RUNNABLE"]

(* sys_ipc_recv(): wait for a message.                                     *)
SysIpcRecv(c) ==
  /\ SysOf(c, "recv")
  /\ SchedYield(c, Waiting(curenv[c]), curenv[c])
  /\ UNCHANGED freeList

(* Mutant: a send that looks at the status of the receiver instead of its  *)
(* flags.                                                                  *)
CanReceiveStopped(e) == envs[e].status # "RUNNING"

(* sys_ipc_try_send(), when it does not fail; any environment may send.    *)
CanReceive(e) == envs[e].from = Zero /\ envs[e].recving

Receivers(c) ==
  {e \in {Envid2Env(c, id, FALSE) : id \in EnvIds} \ {NoEnv} : CanReceive(e)}

SysIpcTrySend(c) ==
  /\ SysOf(c, "send")
  /\ \E e \in Receivers(c) :
       SysReturn(c, Delivered(e, envs[curenv[c]].id))
  /\ UNCHANGED freeList
-----------------------------------------------------------------------------
KernelStep(c) ==
  \/ BootYield(c)
  \/ TrapZombie(c) \/ TrapTimer(c) \/ TrapSpurious(c) \/ TrapPageFault(c)
  \/ TrapUnexpected(c) \/ TrapBreakpoint(c) \/ TrapExofork(c) \/ TrapExoforkFails(c)
  \/ SysYield(c) \/ SysNothing(c) \/ SysExit(c) \/ SysEnvDestroy(c)
  \/ SysEnvSetStatus(c) \/ SysIpcRecv(c) \/ SysIpcTrySend(c)

Step(c) == Pop(c) \/ TrapEnter(c) \/ SysEnter(c) \/ LockKernel(c) \/ KernelStep(c)

Next == BootCreate \/ \E c \in CPUs : Step(c)

Spec == Init /\ [][Next]_vars

(* What makes the machine go on: every CPU executes the kernel code it is  *)
(* in, gets the lock when it becomes free again and again, and is          *)
(* interrupted by its own periodic LAPIC timer while it is in user mode.   *)
FairSpec ==
  /\ Spec
  /\ WF_vars(BootCreate)
  /\ \A c \in CPUs : /\ WF_vars(Pop(c))
                     /\ WF_vars(KernelStep(c))
                     /\ SF_vars(LockKernel(c))
                     /\ SF_vars(TrapEnter(c))
                     /\ SF_vars(TrapTimer(c))
-----------------------------------------------------------------------------
(* Where a CPU holds the lock, and where it executes its current           *)
(* environment: in user mode, on the way there, or in the kernel for it.   *)
Inside == {"boot", "start", "trap", "sys", "monitor"}
UserSide == {"user", "trap_lock", "sys_lock"}
Labels == Inside \cup UserSide \cup {"start_lock", "pop", "halted"}

Executing(c) == pc[c] \in UserSide \cup {"pop", "trap", "sys"}

(* The table, the CPUs and the lock have values of the right kind.         *)
TypeOK ==
  /\ envs \in [Slots -> Env]
  /\ freeList \in Seq(Slots)
  /\ curenv \in [CPUs -> Slots \cup {NoEnv}]
  /\ pc \in [CPUs -> Labels]
  /\ holder \in CPUs \cup {NoCPU}
  /\ panicked \in BOOLEAN

(* lock_kernel/unlock_kernel are paired on every path through the kernel,  *)
(* those that end in sched_yield() included: a CPU holds the lock exactly  *)
(* while it is inside, and env_pop_tf() always runs after the release.     *)
LockMatchesPlace == \A c \in CPUs : pc[c] \in Inside <=> holder = c

(* env_run(), env_destroy(), the IPC calls: no environment executes on two *)
(* CPUs at once.                                                           *)
OneCPU ==
  \A c, d \in CPUs : Executing(c) /\ Executing(d) /\ c # d => curenv[c] # curenv[d]

(* env_free(), env_destroy(): what a CPU executes is neither freed under   *)
(* it nor scheduled again: it is RUNNING, or DYING once another CPU has    *)
(* destroyed it.                                                           *)
ExecutingIsRunning ==
  \A c \in CPUs : Executing(c) =>
     curenv[c] \in Slots /\ envs[curenv[c]].status \in {"RUNNING", "DYING"}

(* env_run(): no environment is left RUNNING that no CPU has switched to;  *)
(* the scheduler would never choose it again.                              *)
RunningHasCPU ==
  \A e \in Slots : envs[e].status = "RUNNING" => \E c \in CPUs : curenv[c] = e

(* env_alloc(), env_free(): the free list holds the free slots, each once. *)
FreeListExact ==
  /\ \A i, j \in 1 .. Len(freeList) : freeList[i] = freeList[j] => i = j
  /\ {freeList[i] : i \in 1 .. Len(freeList)} = {e \in Slots : envs[e].status = "FREE"}

(* sys_ipc_recv(), sys_ipc_try_send(): an environment that waits for a     *)
(* message can neither be scheduled nor already have one.                  *)
ReceiverBlocked ==
  \A e \in Slots : envs[e].recving /\ envs[e].status # "FREE" =>
     envs[e].status = "NOT_RUNNABLE" /\ envs[e].from = Zero

(* sched_yield(): a CPU's fallback is there when it needs it (no "No idle  *)
(* environment!" panic), because idle environments stay on their own CPU.  *)
IdleStaysHome ==
  /\ \A c, d \in CPUs : Executing(c) /\ curenv[c] = d => c = d
  /\ pc[0] # "boot" => \A c \in CPUs : envs[c].status \in {"RUNNABLE", "RUNNING"}

(* sys_ipc_try_send(): a message stays until its receiver asks for the     *)
(* next; no second sender overwrites it and no other call of anyone.       *)
MessageKept ==
  [][\A e \in Slots : envs[e].from # Zero =>
       \/ envs'[e].from = envs[e].from
       \/ \E c \in CPUs : pc[c] = "sys" /\ curenv[c] = e /\ pc'[c] # "sys"]_vars

(* The whole of it keeps to the life of environments of EnvLife.           *)
Life == INSTANCE EnvLife WITH
          state <- [e \in Slots |-> envs[e].status],
          on    <- [c \in CPUs |-> IF Executing(c) THEN curenv[c] ELSE NoEnv]
ImplementsEnvLife == Life!Spec

(* sched_yield(): as long as no environment exits, every runnable one (but *)
(* the idle ones, in the first slots) is reached by some CPU's round robin.*)
RunnableRuns ==
  \A e \in Slots \ CPUs :
     (envs[e].status = "RUNNABLE") ~> (envs[e].status \in {"RUNNING", "FREE"})

(* env_destroy(), trap(): a zombie that makes no system call is freed by   *)
(* the CPU that executes it.                                               *)
ZombieFreed ==
  \A e \in Slots \ CPUs : (envs[e].status = "DYING") ~> (envs[e].status = "FREE")
-----------------------------------------------------------------------------
(* A claim of a comment in the code that the code does not keep.           *)

(* kern/env.c:480, "A zombie environment will be freed the next time it    *)
(* traps to the kernel".                                                   *)
ZombieFreedAtNextTrap ==
  [][\A c \in CPUs :
       /\ pc[c] \in {"trap", "sys"} /\ Zombie(c)
       /\ pc'[c] \notin {"trap", "sys"}
       => envs'[curenv[c]].status = "FREE"]_vars

=============================================================================
