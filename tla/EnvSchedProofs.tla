--------------------------- MODULE EnvSchedProofs ---------------------------
(***************************************************************************)
(* What holds of EnvSched for any number of processors, environments and   *)
(* generations.  The first part holds whatever the programs do; the second *)
(* for programs that keep to ProperUses.                                   *)
(***************************************************************************)
EXTENDS EnvSched, TLAPS

Tables == [Slots -> Env]
MaybeEnv == Slots \cup {NoEnv}

(* While a CPU executes an environment, curenv names one.                  *)
ExecutesSome == \A c \in CPUs : Executing(c) => curenv[c] \in Slots

(* The boot CPU is CPU 0.                                                  *)
OnlyZeroBoots == \A c \in CPUs : pc[c] = "boot" => c = 0

(* The invariant of the first part.                                        *)
PlaceInv == TypeOK /\ LockMatchesPlace /\ ExecutesSome

(* The idle environment of a CPU has a slot.                               *)
LEMMA CPUsAreSlots == CPUs \subseteq Slots
BY SizeAssumption DEF CPUs, Slots

LEMMA ZeroIsId == Zero \in EnvIds /\ 0 \in Slots
BY SizeAssumption DEF Zero, EnvIds, Slots

(* The operations on the table yield tables.                               *)
LEMMA EnvAllocTable ==
  ASSUME TypeOK, NEW e \in Slots, NEW parent \in EnvIds,
         NEW type \in {"USER", "IDLE"}, NEW status \in Statuses
  PROVE  EnvAlloc(e, parent, type, status) \in Tables
<1>1. envs[e] \in Env /\ envs[e].id.gen \in 0 .. MaxGen
  BY DEF TypeOK, Env, EnvIds
<1>2. [gen |-> NextGeneration(envs[e].id.gen), slot |-> e] \in EnvIds
  BY <1>1, SizeAssumption DEF EnvIds, NextGeneration
<1>3. Renewed(envs[e], e, parent, type, status) \in Env
  BY <1>1, <1>2 DEF Renewed, Env
<1>4. QED
  BY <1>3 DEF EnvAlloc, TypeOK, Tables

LEMMA SetStatusTable ==
  ASSUME TypeOK, NEW e \in Slots, NEW status \in Statuses
  PROVE  SetStatus(e, status) \in Tables
BY DEF SetStatus, TypeOK, Tables, Env

LEMMA EnvFreeTable ==
  ASSUME TypeOK, NEW e \in Slots
  PROVE  EnvFree(e) \in Tables
BY SetStatusTable DEF EnvFree, Statuses

LEMMA WaitingTable ==
  ASSUME TypeOK, NEW e \in Slots
  PROVE  Waiting(e) \in Tables
<1> DEFINE r == [envs[e] EXCEPT !.recving = TRUE, !.from = Zero, !.status = "NOT_RUNNABLE"]
<1>1. envs[e] \in Env /\ Zero \in EnvIds
  BY ZeroIsId DEF TypeOK
<1>2. r \in Env
  BY <1>1 DEF Env, Statuses
<1>3. [envs EXCEPT ![e] = r] \in Tables
  BY <1>2 DEF TypeOK, Tables
<1>4. Waiting(e) = [envs EXCEPT ![e] = r]
  BY DEF TypeOK, Waiting
<1>5. QED
  BY <1>3, <1>4

LEMMA DeliveredTable ==
  ASSUME TypeOK, NEW e \in Slots, NEW from \in EnvIds
  PROVE  Delivered(e, from) \in Tables
<1> DEFINE r == [envs[e] EXCEPT !.recving = FALSE, !.from = from, !.status = "RUNNABLE"]
<1>1. envs[e] \in Env /\ from \in EnvIds
  BY ZeroIsId DEF TypeOK
<1>2. r \in Env
  BY <1>1 DEF Env, Statuses
<1>3. [envs EXCEPT ![e] = r] \in Tables
  BY <1>2 DEF TypeOK, Tables
<1>4. Delivered(e, from) = [envs EXCEPT ![e] = r]
  BY DEF TypeOK, Delivered
<1>5. QED
  BY <1>3, <1>4

LEMMA FreeListTypes ==
  ASSUME TypeOK
  PROVE  /\ \A e \in Slots : FreeListWith(e) \in Seq(Slots)
         /\ freeList # << >> => Head(freeList) \in Slots /\ Tail(freeList) \in Seq(Slots)
BY DEF FreeListWith, TypeOK

(* The scheduler's scan and env_run() yield tables.                        *)
LEMMA SwitchedTable ==
  ASSUME NEW table \in Tables, NEW cur \in MaybeEnv, NEW e \in Slots
  PROVE  Switched(table, cur, e) \in Tables
<1>1. Descheduled(table, cur) \in Tables
  BY NullAssumption DEF Descheduled, Tables, MaybeEnv, Env, Statuses
<1> DEFINE d == Descheduled(table, cur)
           r == [d[e] EXCEPT !.status = "RUNNING", !.started = TRUE]
<1>2. d[e] \in Env
  BY <1>1 DEF Tables
<1>3. r \in Env
  BY <1>2 DEF Env, Statuses
<1>4. [d EXCEPT ![e] = r] \in Tables
  BY <1>1, <1>3 DEF Tables
<1>5. Switched(table, cur, e) = IF cur = e THEN table ELSE [d EXCEPT ![e] = r]
  BY <1>1 DEF Switched, Tables
<1>6. QED
  BY <1>4, <1>5

(* How a CPU leaves the kernel: with env_run() of an environment that was  *)
(* ready, or its own, or its idle one; or not at all.                      *)
Runs(c, table, cur, e) ==
  /\ EnvRun(c, table, cur, e)
  /\ \/ table[e].type # "IDLE" /\ table[e].status = "RUNNABLE"
     \/ e = cur /\ table[e].status = "RUNNING"
     \/ e = c /\ table[e].status \in {"RUNNABLE", "RUNNING"}

Stays(c, table, cur) ==
  /\ envs' = table
  /\ curenv' = [curenv EXCEPT ![c] = cur]
  /\ Goto(c, "monitor")
  /\ UNCHANGED holder
  /\ panicked' \in {panicked, TRUE}

LEMMA SchedYieldEffect ==
  ASSUME NEW c \in CPUs, NEW table \in Tables, NEW cur \in MaybeEnv,
         SchedYield(c, table, cur)
  PROVE  (\E e \in Slots : Runs(c, table, cur, e)) \/ Stays(c, table, cur)
<1>1. ASSUME NEW e \in FirstFrom(ScanStart(table, cur), Candidates(table)),
             EnvRun(c, table, cur, e)
      PROVE  \E f \in Slots : Runs(c, table, cur, f)
  BY <1>1 DEF FirstFrom, Candidates, Runs
<1>2. ASSUME cur # NoEnv, table[cur].status = "RUNNING", EnvRun(c, table, cur, cur)
      PROVE  \E f \in Slots : Runs(c, table, cur, f)
  BY <1>2 DEF MaybeEnv, Runs
<1>3. ASSUME RunIdle(c, table, cur)
      PROVE  (\E f \in Slots : Runs(c, table, cur, f)) \/ Stays(c, table, cur)
  BY <1>3, CPUsAreSlots DEF RunIdle, Runs, Panic, Stays
<1>4. ASSUME Monitor(c, table, cur) PROVE Stays(c, table, cur)
  BY <1>4 DEF Monitor, Stays
<1>5. QED
  BY <1>1, <1>2, <1>3, <1>4 DEF SchedYield
-----------------------------------------------------------------------------
(* Leaving the kernel preserves types, the place of the lock and that a    *)
(* CPU executes something.                                                 *)
LEMMA EnvRunPlace ==
  ASSUME PlaceInv, NEW c \in CPUs, NEW table \in Tables, NEW cur \in MaybeEnv,
         NEW e \in Slots, EnvRun(c, table, cur, e), freeList' \in Seq(Slots)
  PROVE  PlaceInv'
<1>1. envs' \in Tables
  BY SwitchedTable DEF EnvRun
<1>2. holder = c /\ holder' = NoCPU
  BY DEF EnvRun, Lock!Release
<1>3. TypeOK'
  BY <1>1, <1>2 DEF PlaceInv, TypeOK, EnvRun, Goto, Tables, Labels
<1>4. LockMatchesPlace'
  BY <1>2, NullAssumption DEF PlaceInv, TypeOK, LockMatchesPlace, EnvRun, Goto, Inside
<1>5. ExecutesSome'
  BY DEF PlaceInv, TypeOK, ExecutesSome, Executing, EnvRun, Goto
<1>6. QED
  BY <1>3, <1>4, <1>5 DEF PlaceInv

LEMMA StaysPlace ==
  ASSUME PlaceInv, NEW c \in CPUs, NEW table \in Tables, NEW cur \in MaybeEnv,
         holder = c, Stays(c, table, cur), freeList' \in Seq(Slots)
  PROVE  PlaceInv'
<1>1. TypeOK'
  BY DEF PlaceInv, TypeOK, Stays, Goto, Tables, MaybeEnv, Labels, Inside
<1>2. LockMatchesPlace'
  BY DEF PlaceInv, TypeOK, LockMatchesPlace, Stays, Goto, Inside
<1>3. ExecutesSome'
  BY DEF PlaceInv, TypeOK, ExecutesSome, Executing, Stays, Goto, UserSide
<1>4. QED
  BY <1>1, <1>2, <1>3 DEF PlaceInv

LEMMA LeavePlace ==
  ASSUME PlaceInv, NEW c \in CPUs, NEW table \in Tables, NEW cur \in MaybeEnv,
         holder = c, freeList' \in Seq(Slots),
         \/ SchedYield(c, table, cur)
         \/ \E e \in Slots : EnvRun(c, table, cur, e)
         \/ Monitor(c, table, cur)
         \/ Panic(c, table, cur)
  PROVE  PlaceInv'
<1>1. Stays(c, table, cur) => PlaceInv'
  BY StaysPlace
<1>2. ASSUME NEW e \in Slots, EnvRun(c, table, cur, e) PROVE PlaceInv'
  BY <1>2, EnvRunPlace
<1>3. (\E e \in Slots : Runs(c, table, cur, e)) => PlaceInv'
  BY <1>2 DEF Runs
<1>4. CASE SchedYield(c, table, cur)
  BY <1>4, <1>1, <1>3, SchedYieldEffect
<1>5. CASE Monitor(c, table, cur) \/ Panic(c, table, cur)
  BY <1>5, <1>1 DEF Monitor, Panic, Stays
<1>6. QED
  BY <1>2, <1>4, <1>5

(* What a handler finds when it starts, and what envid2env() gives it.     *)
LEMMA InKernel ==
  ASSUME PlaceInv, NEW c \in CPUs, pc[c] \in {"trap", "sys"}
  PROVE  /\ holder = c /\ curenv[c] \in Slots /\ curenv[c] \in MaybeEnv
         /\ envs \in Tables /\ freeList \in Seq(Slots) /\ curenv[c] # NoEnv
BY NullAssumption
   DEF PlaceInv, TypeOK, LockMatchesPlace, ExecutesSome, Executing, Inside, Tables, MaybeEnv

LEMMA Envid2EnvTypes ==
  ASSUME PlaceInv, NEW c \in CPUs, curenv[c] \in Slots
  PROVE  /\ Children(c) \subseteq Slots
         /\ Receivers(c) \subseteq Slots
<1>1. ASSUME NEW id \in EnvIds, NEW perm \in BOOLEAN
      PROVE  Envid2Env(c, id, perm) \in Slots \cup {NoEnv}
  BY <1>1 DEF Envid2Env, ENVX, EnvIds
<1>2. QED
  BY <1>1 DEF Children, Receivers

(* Back to the caller with a table, or to somebody else with it.           *)
LEMMA ReturnPlace ==
  ASSUME PlaceInv, NEW c \in CPUs, pc[c] \in {"trap", "sys"}, NEW table \in Tables,
         freeList' \in Seq(Slots),
         \/ SysReturn(c, table)
         \/ TrapReturn(c, table)
         \/ SchedYield(c, table, curenv[c])
         \/ Monitor(c, table, curenv[c])
         \/ Panic(c, table, curenv[c])
  PROVE  PlaceInv'
<1>1. holder = c /\ curenv[c] \in Slots /\ curenv[c] \in MaybeEnv
  BY InKernel
<1>2. QED
  BY <1>1, LeavePlace DEF SysReturn, TrapReturn

LEMMA DestroyCurrentPlace ==
  ASSUME PlaceInv, NEW c \in CPUs, pc[c] \in {"trap", "sys"}, DestroyCurrent(c)
  PROVE  PlaceInv'
<1>1. holder = c /\ curenv[c] \in Slots
  BY InKernel
<1>2. EnvFree(curenv[c]) \in Tables /\ freeList' \in Seq(Slots)
  BY <1>1, EnvFreeTable, FreeListTypes DEF DestroyCurrent, PlaceInv
<1>3. NoEnv \in MaybeEnv
  BY DEF MaybeEnv
<1>4. QED
  BY <1>1, <1>2, <1>3, LeavePlace DEF DestroyCurrent
-----------------------------------------------------------------------------
LEMMA PlaceInvInit == Init => PlaceInv
<1> SUFFICES ASSUME Init PROVE PlaceInv
  OBVIOUS
<1>1. 0 \in CPUs /\ 0 \in Slots /\ 0 \in 0 .. MaxGen
  BY SizeAssumption DEF CPUs, Slots
<1>2. envs \in [Slots -> Env]
  <2>1. Zero \in EnvIds
    BY ZeroIsId
  <2>2. QED
    BY <2>1, <1>1 DEF Init, Env, Statuses
<1>3. freeList \in Seq(Slots)
  <2>1. \A i \in 1 .. NENV : i - 1 \in Slots
    BY SizeAssumption DEF Slots
  <2>2. QED
    BY <2>1, SizeAssumption DEF Init
<1>4. TypeOK
  BY <1>1, <1>2, <1>3 DEF Init, TypeOK, Labels, Inside
<1>5. LockMatchesPlace
  BY <1>1 DEF Init, LockMatchesPlace, Inside
<1>6. ExecutesSome
  BY DEF Init, ExecutesSome, Executing, UserSide
<1>7. QED
  BY <1>4, <1>5, <1>6 DEF PlaceInv

LEMMA KernelStepPlace ==
  ASSUME PlaceInv, NEW c \in CPUs, KernelStep(c)
  PROVE  PlaceInv'
<1> USE DEF PlaceInv
<1>1. freeList \in Seq(Slots) /\ envs \in Tables /\ TypeOK /\ (UNCHANGED freeList => freeList' \in Seq(Slots))
  BY DEF TypeOK, Tables
<1>2. CASE BootYield(c)
  <2>1. holder = c /\ curenv[c] \in MaybeEnv
    BY <1>2 DEF BootYield, LockMatchesPlace, Inside, TypeOK, MaybeEnv
  <2>2. QED
    BY <1>1, <1>2, <2>1, LeavePlace DEF BootYield
<1>3. CASE TrapZombie(c) \/ TrapUnexpected(c) \/ SysExit(c)
  BY <1>3, DestroyCurrentPlace DEF TrapZombie, TrapUnexpected, TrapOf, Trapped, SysExit, SysOf
<1>4. CASE TrapTimer(c) \/ TrapSpurious(c) \/ TrapPageFault(c) \/ TrapBreakpoint(c)
           \/ SysYield(c) \/ SysNothing(c)
  BY <1>1, <1>4, ReturnPlace
     DEF TrapTimer, TrapSpurious, TrapPageFault, TrapBreakpoint, TrapOf, Trapped, SysYield, SysNothing
<1>5. CASE TrapExofork(c)
  <2>1. curenv[c] \in Slots /\ pc[c] = "trap"
    BY <1>5, InKernel DEF TrapExofork, TrapOf, Trapped
  <2>2. Head(freeList) \in Slots /\ freeList' \in Seq(Slots)
    BY <1>1, <1>5, FreeListTypes DEF TrapExofork
  <2>3. envs[curenv[c]].id \in EnvIds
    BY <2>1 DEF TypeOK, Env
  <2>4. EnvAlloc(Head(freeList), envs[curenv[c]].id, "USER", "NOT_RUNNABLE") \in Tables
    BY <1>1, <2>2, <2>3, EnvAllocTable DEF Statuses
  <2>5. QED
    BY <1>5, <2>1, <2>2, <2>4, ReturnPlace DEF TrapExofork
<1>6. CASE TrapExoforkFails(c)
  <2>1. pc[c] = "trap"
    BY <1>6 DEF TrapExoforkFails, TrapOf, Trapped
  <2>2. \A e \in Slots : SetStatus(e, "NOT_RUNNABLE") \in Tables
    BY <1>1, SetStatusTable DEF Statuses
  <2>3. QED
    BY <1>1, <1>6, <2>1, <2>2, ReturnPlace DEF TrapExoforkFails
<1>7. CASE SysEnvDestroy(c)
  <2>1. curenv[c] \in Slots /\ pc[c] = "sys"
    BY <1>7, InKernel DEF SysEnvDestroy, SysOf
  <2>2. PICK e \in Children(c) :
          IF envs[e].status = "RUNNING"
            THEN SysReturn(c, SetStatus(e, "DYING")) /\ UNCHANGED freeList
            ELSE SysReturn(c, EnvFree(e)) /\ freeList' = FreeListWith(e)
    BY <1>7 DEF SysEnvDestroy
  <2>3. e \in Slots
    BY <2>1, Envid2EnvTypes
  <2>4. SetStatus(e, "DYING") \in Tables /\ EnvFree(e) \in Tables
        /\ FreeListWith(e) \in Seq(Slots)
    BY <1>1, <2>3, SetStatusTable, EnvFreeTable, FreeListTypes DEF Statuses
  <2>5. QED
    BY <1>1, <2>1, <2>2, <2>4, ReturnPlace
<1>8. CASE SysEnvSetStatus(c)
  <2>1. curenv[c] \in Slots /\ pc[c] = "sys"
    BY <1>8, InKernel DEF SysEnvSetStatus
  <2>2. PICK e \in Children(c) \cup {curenv[c]}, status \in Statuses :
          SysReturn(c, SetStatus(e, status))
    BY <1>8 DEF SysEnvSetStatus
  <2>3. SetStatus(e, status) \in Tables
    BY <1>1, <2>1, Envid2EnvTypes, SetStatusTable
  <2>4. QED
    BY <1>1, <1>8, <2>1, <2>2, <2>3, ReturnPlace DEF SysEnvSetStatus
<1>9. CASE SysIpcRecv(c)
  <2>1. curenv[c] \in Slots /\ pc[c] = "sys"
    BY <1>9, InKernel DEF SysIpcRecv, SysOf
  <2>2. Waiting(curenv[c]) \in Tables
    BY <1>1, <2>1, WaitingTable
  <2>3. QED
    BY <1>1, <1>9, <2>1, <2>2, ReturnPlace DEF SysIpcRecv
<1>10. CASE SysIpcTrySend(c)
  <2>1. curenv[c] \in Slots /\ pc[c] = "sys"
    BY <1>10, InKernel DEF SysIpcTrySend, SysOf
  <2>2. PICK e \in Receivers(c) :
          SysReturn(c, Delivered(e, envs[curenv[c]].id))
    BY <1>10 DEF SysIpcTrySend
  <2>3. e \in Slots /\ envs[curenv[c]].id \in EnvIds
    BY <1>1, <2>1, Envid2EnvTypes DEF TypeOK, Env
  <2>4. Delivered(e, envs[curenv[c]].id) \in Tables
    BY <1>1, <2>3, DeliveredTable
  <2>5. QED
    BY <1>1, <1>10, <2>1, <2>2, <2>4, ReturnPlace DEF SysIpcTrySend
<1>11. QED
  BY <1>2, <1>3, <1>4, <1>5, <1>6, <1>7, <1>8, <1>9, <1>10 DEF KernelStep

LEMMA PlaceInvNext == PlaceInv /\ [Next]_vars => PlaceInv'
<1> SUFFICES ASSUME PlaceInv, [Next]_vars PROVE PlaceInv'
  OBVIOUS
<1>1. TypeOK /\ LockMatchesPlace /\ ExecutesSome
  BY DEF PlaceInv
<1>2. CASE BootCreate
  <2>1. Len(freeList) # 0 /\ freeList \in Seq(Slots)
    BY <1>1, <1>2, SizeAssumption DEF BootCreate, Created, TypeOK
  <2>2. freeList # << >>
    BY <2>1
  <2>3. Head(freeList) \in Slots /\ Tail(freeList) \in Seq(Slots)
    BY <1>1, <2>2, FreeListTypes
  <2>4. envs' \in Tables
    BY <1>1, <1>2, <2>3, ZeroIsId, EnvAllocTable DEF BootCreate, Statuses
  <2>5. QED
    BY <1>1, <1>2, <2>3, <2>4
       DEF BootCreate, PlaceInv, TypeOK, LockMatchesPlace, ExecutesSome, Executing, Tables
<1>3. ASSUME NEW c \in CPUs, Pop(c) PROVE PlaceInv'
  <2>1. curenv[c] \in Slots
    BY <1>1, <1>3 DEF Pop, ExecutesSome, Executing
  <2>2. envs' \in [Slots -> Env]
    <3>1. [envs[curenv[c]] EXCEPT !.cpunum = c] \in Env
      BY <1>1, <2>1 DEF TypeOK, Env
    <3>2. envs' = [envs EXCEPT ![curenv[c]] = [envs[curenv[c]] EXCEPT !.cpunum = c]]
      BY <1>1, <1>3, <2>1 DEF Pop, TypeOK
    <3>3. QED
      BY <1>1, <3>1, <3>2 DEF TypeOK
  <2>3. TypeOK' /\ LockMatchesPlace'
    BY <1>1, <1>3, <2>2 DEF Pop, Goto, TypeOK, LockMatchesPlace, Labels, UserSide, Inside
  <2>4. ExecutesSome'
    BY <1>1, <1>3, <2>1 DEF Pop, Goto, TypeOK, ExecutesSome, Executing
  <2>5. QED
    BY <2>3, <2>4 DEF PlaceInv
<1>4. ASSUME NEW c \in CPUs, TrapEnter(c) \/ SysEnter(c) PROVE PlaceInv'
  <2>1. TypeOK'
    BY <1>1, <1>4 DEF TrapEnter, SysEnter, Goto, TypeOK, Labels, UserSide
  <2>2. LockMatchesPlace'
    BY <1>1, <1>4 DEF TrapEnter, SysEnter, Goto, TypeOK, LockMatchesPlace, Inside
  <2>3. ExecutesSome'
    BY <1>1, <1>4 DEF TrapEnter, SysEnter, Goto, TypeOK, ExecutesSome, Executing, UserSide
  <2>4. QED
    BY <2>1, <2>2, <2>3 DEF PlaceInv
<1>5. ASSUME NEW c \in CPUs, LockKernel(c) PROVE PlaceInv'
  <2>1. holder = NoCPU /\ holder' = c /\ pc[c] \in Locking
    BY <1>5 DEF LockKernel, Lock!Acquire
  <2>2. TypeOK'
    BY <1>1, <1>5, <2>1 DEF LockKernel, Locking, Goto, TypeOK, Labels, Inside
  <2>3. LockMatchesPlace'
    BY <1>1, <1>5, <2>1, NullAssumption
       DEF LockKernel, Locking, Goto, TypeOK, LockMatchesPlace, Inside
  <2>4. ExecutesSome'
    BY <1>1, <1>5, <2>1
       DEF LockKernel, Locking, Goto, TypeOK, ExecutesSome, Executing, UserSide
  <2>5. QED
    BY <2>2, <2>3, <2>4 DEF PlaceInv
<1>6. CASE UNCHANGED vars
  BY <1>1, <1>6 DEF vars, PlaceInv, TypeOK, LockMatchesPlace, ExecutesSome, Executing
<1>7. QED
  BY <1>2, <1>3, <1>4, <1>5, <1>6, KernelStepPlace DEF Next, Step

LEMMA PlaceInvAlways == Spec => []PlaceInv
BY PlaceInvInit, PlaceInvNext, PTL DEF Spec

(* The table, the free list, the CPUs and the lock keep values of their    *)
(* kind whatever the programs call: every index the kernel computes is a   *)
(* slot.                                                                   *)
THEOREM TypeCorrect == Spec => []TypeOK
BY PlaceInvAlways, PTL DEF PlaceInv

(* lock_kernel() and unlock_kernel() are paired on every path through the  *)
(* kernel, for any number of CPUs and whatever the programs call.          *)
THEOREM LockPaired == Spec => []LockMatchesPlace
BY PlaceInvAlways, PTL DEF PlaceInv
-----------------------------------------------------------------------------
(* The second part: programs that use the kernel as the library does.      *)

(* What an entry of the table must look like: an environment that waits    *)
(* for a message cannot run, and only one that has run can wait; a live    *)
(* environment has a generation, so it is nobody's parent 0.               *)
RecvOk(r) == r.recving /\ r.status # "FREE" =>
               r.status = "NOT_RUNNABLE" /\ r.from = Zero /\ r.started
IdOk(r) == r.status # "FREE" => r.id.gen # 0
TableOk(table) == \A e \in Slots : RecvOk(table[e]) /\ IdOk(table[e])

(* The entry of an environment a CPU executes, and that of an idle one,    *)
(* which is no child of anybody and so out of reach of every system call.  *)
OnCPU(r) == r.status \in {"RUNNING", "DYING"} /\ r.started
IdleOk(r) == r.type = "IDLE" /\ r.parent = Zero /\ r.status \in {"RUNNABLE", "RUNNING"}

Exact(list, table) ==
  /\ \A i, j \in 1 .. Len(list) : list[i] = list[j] => i = j
  /\ {list[i] : i \in 1 .. Len(list)} = {e \in Slots : table[e].status = "FREE"}

ExecInv == \A c \in CPUs : Executing(c) => OnCPU(envs[curenv[c]])

(* An idle environment is only ever the current one of its own CPU, even   *)
(* after that CPU has stopped.                                             *)
HomeInv == \A c \in CPUs : curenv[c] \in CPUs => curenv[c] = c

StartInv == \A c \in CPUs : pc[c] \in {"boot", "start_lock", "start"} => curenv[c] = NoEnv
IdleInv == pc[0] # "boot" => \A c \in CPUs : IdleOk(envs[c])

(* While CPU 0 boots the others wait for the lock, and the environments    *)
(* made so far are in the first slots, the idle ones before the others.    *)
BootInv ==
  /\ OnlyZeroBoots
  /\ pc[0] = "boot" =>
       /\ \A c \in CPUs : c # 0 => pc[c] = "start_lock"
       /\ \A i \in 1 .. Len(freeList) : freeList[i] = Created + i - 1
       /\ \A c \in CPUs : c < Created => IdleOk(envs[c])

(* The invariant of the second part.                                       *)
UseInv ==
  /\ PlaceInv /\ ExecInv /\ OneCPU /\ HomeInv /\ RunningHasCPU
  /\ Exact(freeList, envs) /\ TableOk(envs) /\ IdleInv /\ StartInv /\ BootInv

(* What a handler has established on CPU c when it leaves the kernel with  *)
(* a new table, the environment that is curenv then, and a new free list.  *)
Mid(c, table, cur, list) ==
  /\ table \in Tables /\ list \in Seq(Slots) /\ cur \in MaybeEnv
  /\ cur \in {NoEnv, curenv[c]}
  /\ \A d \in CPUs : Executing(d) /\ d # c => OnCPU(table[curenv[d]]) /\ curenv[d] # cur
  /\ cur # NoEnv => /\ table[cur].started
                    /\ table[cur].status \in {"RUNNING", "DYING", "NOT_RUNNABLE"}
                    /\ cur \in CPUs => cur = c
  /\ \A e \in Slots : table[e].status = "RUNNING" =>
                         e = cur \/ \E d \in CPUs : d # c /\ curenv[d] = e
  /\ Exact(list, table) /\ TableOk(table)
  /\ \A d \in CPUs : IdleOk(table[d])

(* env_run() changes status and started of two entries only.               *)
LEMMA SwitchedFields ==
  ASSUME NEW table \in Tables, NEW cur \in MaybeEnv, NEW e \in Slots,
         cur # NoEnv => table[cur].status # "RUNNABLE", NEW x \in Slots
  PROVE  LET r == Switched(table, cur, e)[x] IN
         /\ r.id = table[x].id /\ r.parent = table[x].parent /\ r.type = table[x].type
         /\ r.recving = table[x].recving /\ r.from = table[x].from
         /\ cur = e \/ (x # e /\ x # cur) => r = table[x]
         /\ cur # e /\ x = e => r.status = "RUNNING" /\ r.started
         /\ cur # e /\ x # e /\ x = cur =>
              /\ r.started = table[x].started
              /\ r.status = IF table[x].status = "RUNNING" THEN "RUNNABLE" ELSE table[x].status
<1> DEFINE d == Descheduled(table, cur)
<1>1. d \in Tables
  BY NullAssumption DEF Descheduled, Tables, MaybeEnv, Env, Statuses
<1>2. /\ x # cur => d[x] = table[x]
      /\ x = cur => /\ d[x].id = table[x].id /\ d[x].parent = table[x].parent
                    /\ d[x].type = table[x].type /\ d[x].recving = table[x].recving
                    /\ d[x].from = table[x].from /\ d[x].started = table[x].started
                    /\ d[x].status = IF table[x].status = "RUNNING" THEN "RUNNABLE"
                                                                    ELSE table[x].status
  BY NullAssumption DEF Descheduled, Tables, MaybeEnv, Env
<1>3. ASSUME cur # e
      PROVE  /\ x # e => Switched(table, cur, e)[x] = d[x]
             /\ x = e => Switched(table, cur, e)[x]
                           = [d[x] EXCEPT !.status = "RUNNING", !.started = TRUE]
  BY <1>1, <1>3 DEF Switched, Tables
<1>4. CASE cur = e
  BY <1>4 DEF Switched
<1>5. CASE cur # e /\ x # e
  BY <1>2, <1>3, <1>5
<1>6. CASE cur # e /\ x = e
  <2>1. x # cur /\ d[x] = table[x] /\ d[x] \in Env
    BY <1>1, <1>2, <1>6 DEF Tables
  <2>2. Switched(table, cur, e)[x] = [d[x] EXCEPT !.status = "RUNNING", !.started = TRUE]
    BY <1>3, <1>6
  <2>3. QED
    BY <2>1, <2>2, <1>6 DEF Env
<1>7. QED
  BY <1>4, <1>5, <1>6
-----------------------------------------------------------------------------
(* Leaving the kernel with env_run() of an environment nobody else has.    *)
LEMMA EnvRunUse ==
  ASSUME UseInv, PlaceInv', NEW c \in CPUs, NEW table, NEW cur, Mid(c, table, cur, freeList'),
         NEW e \in Slots, EnvRun(c, table, cur, e),
         \A d \in CPUs : Executing(d) /\ d # c => curenv[d] # e,
         e \in CPUs => e = c,
         IF e = cur THEN table[e].status \in {"RUNNING", "DYING"}
                    ELSE table[e].status \in {"RUNNABLE", "RUNNING"}
  PROVE  UseInv'
<1>1. /\ table \in Tables /\ cur \in MaybeEnv /\ freeList' \in Seq(Slots)
      /\ envs' = Switched(table, cur, e) /\ envs' \in Tables
  BY SwitchedTable DEF Mid, EnvRun
<1>2. cur # NoEnv => cur \in Slots
  BY <1>1 DEF MaybeEnv
<1>3. /\ curenv' = [curenv EXCEPT ![c] = e] /\ pc' = [pc EXCEPT ![c] = "pop"]
      /\ holder = c
      /\ curenv \in [CPUs -> Slots \cup {NoEnv}] /\ pc \in [CPUs -> Labels]
  BY DEF EnvRun, Goto, Lock!Release, UseInv, PlaceInv, TypeOK
<1>4. cur # NoEnv => table[cur].status # "RUNNABLE"
  BY DEF Mid
<1>5. ASSUME NEW d \in CPUs, d # c
      PROVE  /\ Executing(d)' <=> Executing(d)
             /\ curenv'[d] = curenv[d] /\ pc'[d] = pc[d]
  BY <1>3, <1>5 DEF Executing
<1>6. Executing(c)' /\ curenv'[c] = e /\ pc'[c] = "pop"
  BY <1>3 DEF Executing
<1>7. ASSUME NEW x \in Slots
      PROVE  /\ envs'[x].id = table[x].id /\ envs'[x].parent = table[x].parent
             /\ envs'[x].type = table[x].type /\ envs'[x].recving = table[x].recving
             /\ envs'[x].from = table[x].from
             /\ cur = e \/ (x # e /\ x # cur) => envs'[x] = table[x]
             /\ cur # e /\ x = e => envs'[x].status = "RUNNING" /\ envs'[x].started
             /\ cur # e /\ x # e /\ x = cur =>
                  /\ envs'[x].started = table[x].started
                  /\ envs'[x].status = IF table[x].status = "RUNNING" THEN "RUNNABLE"
                                                                     ELSE table[x].status
  BY <1>1, <1>4, SwitchedFields
<1>8. ExecInv'
  <2> SUFFICES ASSUME NEW d \in CPUs, Executing(d)' PROVE OnCPU(envs'[curenv'[d]])
    BY DEF ExecInv
  <2>1. CASE d = c
    <3>1. CASE e = cur
      <4>1. envs'[e] = table[e] /\ cur # NoEnv
        BY <3>1, <1>7, NullAssumption
      <4>2. table[e].started
        BY <3>1, <4>1 DEF Mid
      <4>3. QED
        BY <2>1, <3>1, <4>1, <4>2, <1>6 DEF OnCPU
    <3>2. CASE e # cur
      BY <2>1, <3>2, <1>6, <1>7 DEF OnCPU
    <3>3. QED
      BY <3>1, <3>2
  <2>2. CASE d # c
    <3>1. Executing(d) /\ curenv'[d] = curenv[d]
      BY <1>5, <2>2
    <3>2. curenv[d] \in Slots /\ OnCPU(table[curenv[d]]) /\ curenv[d] # cur /\ curenv[d] # e
      BY <2>2, <3>1 DEF Mid, UseInv, PlaceInv, ExecutesSome
    <3>3. envs'[curenv[d]] = table[curenv[d]]
      BY <3>2, <1>7
    <3>4. QED
      BY <3>1, <3>2, <3>3
  <2>3. QED
    BY <2>1, <2>2
<1>9. OneCPU'
  BY <1>5, <1>6 DEF OneCPU, UseInv
<1>10. HomeInv'
  BY <1>5, <1>6 DEF HomeInv, UseInv
<1>11. RunningHasCPU'
  <2> SUFFICES ASSUME NEW x \in Slots, envs'[x].status = "RUNNING"
               PROVE  \E d \in CPUs : curenv'[d] = x
    BY DEF RunningHasCPU
  <2>1. CASE x = e
    BY <2>1, <1>6
  <2>2. CASE x # e /\ x = cur
    BY <2>2, <1>7
  <2>3. CASE x # e /\ x # cur
    <3>1. table[x].status = "RUNNING"
      BY <2>3, <1>7
    <3>2. PICK d \in CPUs : d # c /\ curenv[d] = x
      BY <2>3, <3>1 DEF Mid
    <3>3. QED
      BY <3>2, <1>5
  <2>4. QED
    BY <2>1, <2>2, <2>3
<1>12. Exact(freeList', envs')
  <2>1. ASSUME NEW x \in Slots
        PROVE  envs'[x].status = "FREE" <=> table[x].status = "FREE"
    BY <1>7
  <2>2. {x \in Slots : envs'[x].status = "FREE"} = {x \in Slots : table[x].status = "FREE"}
    BY <2>1
  <2>3. Exact(freeList', table)
    BY DEF Mid
  <2>4. QED
    BY <2>2, <2>3 DEF Exact
<1>13. TableOk(envs')
  <2> SUFFICES ASSUME NEW x \in Slots PROVE RecvOk(envs'[x]) /\ IdOk(envs'[x])
    BY DEF TableOk
  <2>1. RecvOk(table[x]) /\ IdOk(table[x])
    BY DEF Mid, TableOk
  <2>2. QED
    BY <2>1, <1>7 DEF RecvOk, IdOk
<1>14. \A d \in CPUs : IdleOk(envs'[d])
  <2> SUFFICES ASSUME NEW d \in CPUs PROVE IdleOk(envs'[d])
    OBVIOUS
  <2>1. IdleOk(table[d]) /\ d \in Slots
    BY CPUsAreSlots DEF Mid
  <2>2. QED
    BY <2>1, <1>7 DEF IdleOk
<1>15. StartInv'
  BY <1>5, <1>6 DEF StartInv, UseInv
<1>16. pc'[0] # "boot" /\ OnlyZeroBoots'
  <2>1. 0 \in CPUs
    BY SizeAssumption DEF CPUs
  <2>2. pc[0] = "boot" => c = 0
    BY <1>3, <2>1 DEF UseInv, PlaceInv, LockMatchesPlace, Inside
  <2>3. OnlyZeroBoots'
    BY <1>5, <1>6 DEF UseInv, BootInv, OnlyZeroBoots
  <2>4. QED
    BY <1>5, <1>6, <2>1, <2>2, <2>3
<1>17. QED
  BY <1>8, <1>9, <1>10, <1>11, <1>12, <1>13, <1>14, <1>15, <1>16
     DEF UseInv, IdleInv, BootInv

(* Stopping in the monitor.                                                *)
LEMMA StaysUse ==
  ASSUME UseInv, PlaceInv', NEW c \in CPUs, NEW table, NEW cur, Mid(c, table, cur, freeList'),
         holder = c, Stays(c, table, cur)
  PROVE  UseInv'
<1>1. /\ curenv' = [curenv EXCEPT ![c] = cur] /\ pc' = [pc EXCEPT ![c] = "monitor"]
      /\ envs' = table
      /\ curenv \in [CPUs -> Slots \cup {NoEnv}] /\ pc \in [CPUs -> Labels]
  BY DEF Stays, Goto, UseInv, PlaceInv, TypeOK
<1>2. ASSUME NEW d \in CPUs, d # c
      PROVE  /\ Executing(d)' <=> Executing(d)
             /\ curenv'[d] = curenv[d] /\ pc'[d] = pc[d]
  BY <1>1, <1>2 DEF Executing
<1>3. ~Executing(c)' /\ curenv'[c] = cur /\ pc'[c] = "monitor"
  BY <1>1 DEF Executing, UserSide
<1>4. ExecInv'
  BY <1>1, <1>2, <1>3 DEF ExecInv, Mid
<1>5. OneCPU' /\ StartInv'
  BY <1>2, <1>3 DEF OneCPU, StartInv, UseInv
<1>6. RunningHasCPU'
  BY <1>1, <1>2, <1>3 DEF RunningHasCPU, Mid
<1>7. pc'[0] # "boot" /\ OnlyZeroBoots'
  <2>1. 0 \in CPUs
    BY SizeAssumption DEF CPUs
  <2>2. pc[0] = "boot" => c = 0
    BY <2>1 DEF UseInv, PlaceInv, LockMatchesPlace, Inside
  <2>3. QED
    BY <1>2, <1>3, <2>1, <2>2 DEF UseInv, BootInv, OnlyZeroBoots
<1>8. HomeInv'
  BY <1>2, <1>3, CPUsAreSlots, NullAssumption DEF HomeInv, UseInv, Mid
<1>9. QED
  BY <1>1, <1>4, <1>5, <1>6, <1>7, <1>8 DEF UseInv, IdleInv, BootInv, Mid

(* The scheduler takes nothing another CPU has.                            *)
LEMMA SchedYieldUse ==
  ASSUME UseInv, PlaceInv', NEW c \in CPUs, NEW table, NEW cur, Mid(c, table, cur, freeList'),
         holder = c, SchedYield(c, table, cur)
  PROVE  UseInv'
<1>1. table \in Tables /\ cur \in MaybeEnv /\ (cur # NoEnv => cur \in Slots)
  BY DEF Mid, MaybeEnv
<1>2. CASE Stays(c, table, cur)
  BY <1>2, StaysUse
<1>3. ASSUME NEW e \in Slots, Runs(c, table, cur, e) PROVE UseInv'
  <2>1. e # NoEnv /\ EnvRun(c, table, cur, e)
    BY <1>3, NullAssumption DEF Runs
  <2>2. CASE table[e].type # "IDLE" /\ table[e].status = "RUNNABLE"
    <3>1. \A d \in CPUs : Executing(d) /\ d # c => curenv[d] # e
      BY <2>2 DEF Mid, OnCPU
    <3>2. e \notin CPUs
      BY <2>2 DEF Mid, IdleOk
    <3>3. e # cur
      BY <2>1, <2>2 DEF Mid
    <3>4. QED
      BY <2>1, <2>2, <3>1, <3>2, <3>3, EnvRunUse
  <2>3. CASE e = cur /\ table[e].status = "RUNNING"
    <3>1. \A d \in CPUs : Executing(d) /\ d # c => curenv[d] # e
      BY <2>3 DEF Mid
    <3>2. e \in CPUs => e = c
      BY <2>1, <2>3 DEF Mid
    <3>3. QED
      BY <2>1, <2>3, <3>1, <3>2, EnvRunUse
  <2>4. CASE e = c /\ table[e].status \in {"RUNNABLE", "RUNNING"}
    <3>1. \A d \in CPUs : Executing(d) /\ d # c => curenv[d] # e
      BY <2>4 DEF UseInv, HomeInv
    <3>2. e = cur => table[e].status = "RUNNING"
      BY <2>1, <2>4 DEF Mid
    <3>3. QED
      BY <2>1, <2>4, <3>1, <3>2, EnvRunUse
  <2>5. QED
    BY <1>3, <2>2, <2>3, <2>4 DEF Runs
<1>4. QED
  BY <1>1, <1>2, <1>3, SchedYieldEffect

(* Back to the environment, running or just destroyed by another CPU.      *)
LEMMA EnvRunCurrentUse ==
  ASSUME UseInv, PlaceInv', NEW c \in CPUs, NEW table, pc[c] \in {"trap", "sys"},
         Mid(c, table, curenv[c], freeList'), OnCPU(table[curenv[c]]),
         EnvRun(c, table, curenv[c], curenv[c])
  PROVE  UseInv'
<1>1. curenv[c] \in Slots /\ curenv[c] # NoEnv
  BY InKernel DEF UseInv
<1>2. \A d \in CPUs : Executing(d) /\ d # c => curenv[d] # curenv[c]
  BY DEF Mid
<1>3. curenv[c] \in CPUs => curenv[c] = c
  BY <1>1 DEF Mid
<1>4. QED
  BY <1>1, <1>2, <1>3, EnvRunUse DEF OnCPU

(* The ends of a handler that has left the environment as it was.          *)
LEMMA ReturnUse ==
  ASSUME UseInv, PlaceInv', NEW c \in CPUs, NEW table, pc[c] \in {"trap", "sys"},
         Mid(c, table, curenv[c], freeList'),
         \/ SysReturn(c, table) /\ OnCPU(table[curenv[c]])
         \/ TrapReturn(c, table)
         \/ SchedYield(c, table, curenv[c])
         \/ Monitor(c, table, curenv[c])
  PROVE  UseInv'
<1>1. holder = c /\ curenv[c] # NoEnv
  BY InKernel DEF UseInv
<1>2. CASE SysReturn(c, table) /\ OnCPU(table[curenv[c]])
  BY <1>2, EnvRunCurrentUse DEF SysReturn
<1>3. CASE SchedYield(c, table, curenv[c])
  BY <1>1, <1>3, SchedYieldUse
<1>4. CASE TrapReturn(c, table)
  <2>1. CASE table[curenv[c]].status = "RUNNING" /\ EnvRun(c, table, curenv[c], curenv[c])
    <3>1. OnCPU(table[curenv[c]])
      BY <1>1, <2>1 DEF Mid, OnCPU
    <3>2. QED
      BY <2>1, <3>1, EnvRunCurrentUse
  <2>2. QED
    BY <1>3, <1>4, <2>1 DEF TrapReturn
<1>5. CASE Monitor(c, table, curenv[c])
  BY <1>1, <1>5, StaysUse DEF Monitor, Stays
<1>6. QED
  BY <1>2, <1>3, <1>4, <1>5
-----------------------------------------------------------------------------
(* The table with the entry of x replaced.                                 *)
With(x, r) == [envs EXCEPT ![x] = r]

LEMMA WithTable ==
  ASSUME TypeOK, NEW x \in Slots, NEW r \in Env
  PROVE  /\ With(x, r) \in Tables /\ With(x, r)[x] = r
         /\ \A e \in Slots : e # x => With(x, r)[e] = envs[e]
BY DEF With, TypeOK, Tables

(* The free list after an entry x of the table has changed.                *)
LEMMA ExactKept ==
  ASSUME TypeOK, Exact(freeList, envs), NEW x \in Slots, NEW r \in Env,
         r.status = "FREE" <=> envs[x].status = "FREE"
  PROVE  Exact(freeList, With(x, r))
<1>1. \A e \in Slots : With(x, r)[e].status = "FREE" <=> envs[e].status = "FREE"
  BY WithTable
<1>2. {e \in Slots : With(x, r)[e].status = "FREE"} = {e \in Slots : envs[e].status = "FREE"}
  BY <1>1
<1>3. QED
  BY <1>2 DEF Exact

LEMMA ExactHead ==
  ASSUME NEW list \in Seq(Slots), NEW table, Exact(list, table), list # << >>
  PROVE  Head(list) \in Slots /\ table[Head(list)].status = "FREE"
<1>1. 1 \in 1 .. Len(list) /\ Head(list) = list[1]
  OBVIOUS
<1>2. list[1] \in {e \in Slots : table[e].status = "FREE"}
  BY <1>1 DEF Exact
<1>3. QED
  BY <1>1, <1>2

LEMMA ExactTail ==
  ASSUME TypeOK, Exact(freeList, envs), freeList # << >>, NEW r \in Env, r.status # "FREE"
  PROVE  Exact(Tail(freeList), With(Head(freeList), r))
<1> DEFINE list == freeList
           table == envs
           x == Head(list)
           new == With(x, r)
<1>0. list \in Seq(Slots)
  BY DEF TypeOK
<1>1. /\ Len(list) \in Nat /\ Len(list) >= 1 /\ Len(Tail(list)) = Len(list) - 1
      /\ x = list[1] /\ \A i \in 1 .. Len(list) - 1 : Tail(list)[i] = list[i + 1]
  BY <1>0
<1>2. \A i, j \in 1 .. Len(Tail(list)) : Tail(list)[i] = Tail(list)[j] => i = j
  BY <1>1 DEF Exact
<1>3. x \in Slots
  BY <1>0, ExactHead
<1>4. ASSUME NEW e \in Slots
      PROVE  new[e].status = "FREE" <=> \E i \in 1 .. Len(Tail(list)) : Tail(list)[i] = e
  <2>1. table[e].status = "FREE" <=> \E i \in 1 .. Len(list) : list[i] = e
    BY DEF Exact
  <2>2. CASE e = x
    <3>1. new[e].status # "FREE"
      BY <2>2, <1>3, WithTable
    <3>2. \A i \in 1 .. Len(list) - 1 : list[i + 1] # list[1]
      BY <1>1 DEF Exact
    <3>3. QED
      BY <2>2, <3>1, <3>2, <1>1
  <2>3. CASE e # x
    <3>1. new[e] = table[e]
      BY <2>3, <1>3, WithTable
    <3>2. ASSUME NEW i \in 1 .. Len(list), list[i] = e
          PROVE  \E j \in 1 .. Len(Tail(list)) : Tail(list)[j] = e
      <4>1. i - 1 \in 1 .. Len(Tail(list)) /\ Tail(list)[i - 1] = list[i]
        BY <1>1, <2>3, <3>2
      <4>2. QED
        BY <3>2, <4>1
    <3>3. ASSUME NEW j \in 1 .. Len(Tail(list)), Tail(list)[j] = e
          PROVE  \E i \in 1 .. Len(list) : list[i] = e
      <4>1. j + 1 \in 1 .. Len(list) /\ list[j + 1] = e
        BY <1>1, <3>3
      <4>2. QED
        BY <4>1
    <3>4. QED
      BY <2>1, <3>1, <3>2, <3>3
  <2>4. QED
    BY <2>2, <2>3
<1>5. \A i \in 1 .. Len(Tail(list)) : Tail(list)[i] \in Slots
  BY <1>0, <1>1
<1>6. {Tail(list)[i] : i \in 1 .. Len(Tail(list))} = {e \in Slots : new[e].status = "FREE"}
  BY <1>4, <1>5
<1>7. QED
  BY <1>2, <1>6 DEF Exact

LEMMA ExactFree ==
  ASSUME TypeOK, Exact(freeList, envs), NEW x \in Slots, envs[x].status # "FREE"
  PROVE  Exact(FreeListWith(x), EnvFree(x))
<1> DEFINE new == EnvFree(x)
           list == <<x>> \o freeList
<1>1. /\ Len(freeList) \in Nat /\ freeList \in Seq(Slots) /\ Len(list) = Len(freeList) + 1
      /\ list[1] = x /\ \A i \in 1 .. Len(freeList) : list[i + 1] = freeList[i]
  BY DEF TypeOK
<1>2. ASSUME NEW i \in 1 .. Len(list), i # 1 PROVE i - 1 \in 1 .. Len(freeList) /\ list[i] = freeList[i - 1]
  BY <1>1, <1>2
<1>3. \A i \in 1 .. Len(freeList) : freeList[i] \in Slots /\ freeList[i] # x
  <2>1. \A i \in 1 .. Len(freeList) : freeList[i] \in {e \in Slots : envs[e].status = "FREE"}
    BY DEF Exact
  <2>2. QED
    BY <2>1
<1>4. ASSUME NEW i \in 1 .. Len(list), NEW j \in 1 .. Len(list), list[i] = list[j]
      PROVE  i = j
  <2>1. CASE i = 1 \/ j = 1
    BY <2>1, <1>1, <1>2, <1>3, <1>4
  <2>2. CASE i # 1 /\ j # 1
    <3>1. freeList[i - 1] = freeList[j - 1] /\ i - 1 \in 1 .. Len(freeList)
            /\ j - 1 \in 1 .. Len(freeList)
      BY <2>2, <1>2, <1>4
    <3>2. i - 1 = j - 1
      BY <3>1 DEF Exact
    <3>3. QED
      BY <3>2, <1>1
  <2>3. QED
    BY <2>1, <2>2
<1>5. ASSUME NEW e \in Slots
      PROVE  new[e].status = "FREE" <=> \E i \in 1 .. Len(list) : list[i] = e
  <2>1. CASE e = x
    <3>1. new[e].status = "FREE"
      BY <2>1 DEF EnvFree, SetStatus, TypeOK, Env
    <3>2. 1 \in 1 .. Len(list) /\ list[1] = e
      BY <2>1, <1>1
    <3>3. QED
      BY <3>1, <3>2
  <2>2. CASE e # x
    <3>1. new[e] = envs[e]
      BY <2>2 DEF EnvFree, SetStatus, TypeOK
    <3>2. envs[e].status = "FREE" <=> \E i \in 1 .. Len(freeList) : freeList[i] = e
      BY DEF Exact
    <3>3. ASSUME NEW i \in 1 .. Len(freeList), freeList[i] = e
          PROVE  \E j \in 1 .. Len(list) : list[j] = e
      <4>1. i + 1 \in 1 .. Len(list) /\ list[i + 1] = e
        BY <1>1, <3>3
      <4>2. QED
        BY <4>1
    <3>4. ASSUME NEW j \in 1 .. Len(list), list[j] = e
          PROVE  \E i \in 1 .. Len(freeList) : freeList[i] = e
      <4>1. j # 1
        BY <1>1, <2>2, <3>4
      <4>2. j - 1 \in 1 .. Len(freeList) /\ freeList[j - 1] = e
        BY <1>2, <3>4, <4>1
      <4>3. QED
        BY <4>2
    <3>5. QED
      BY <3>1, <3>2, <3>3, <3>4
  <2>3. QED
    BY <2>1, <2>2
<1>6. \A i \in 1 .. Len(list) : list[i] \in Slots
  BY <1>1, <1>2, <1>3
<1>7. {list[i] : i \in 1 .. Len(list)} = {e \in Slots : new[e].status = "FREE"}
  BY <1>5, <1>6
<1>8. QED
  BY <1>4, <1>7 DEF Exact, FreeListWith
-----------------------------------------------------------------------------
(* What a handler finds when it starts: the boot is over, and its own      *)
(* environment is one that runs.                                           *)
LEMMA InKernelUse ==
  ASSUME UseInv, NEW c \in CPUs, pc[c] \in {"trap", "sys"}
  PROVE  /\ holder = c /\ curenv[c] \in Slots /\ curenv[c] # NoEnv /\ envs \in Tables
         /\ freeList \in Seq(Slots) /\ TypeOK
         /\ Executing(c) /\ OnCPU(envs[curenv[c]]) /\ envs[curenv[c]].status # "FREE"
         /\ \A d \in CPUs : IdleOk(envs[d]) /\ d \in Slots
         /\ \A d \in CPUs : Executing(d) /\ d # c =>
               OnCPU(envs[curenv[d]]) /\ curenv[d] # curenv[c] /\ curenv[d] \in Slots
<1>1. /\ holder = c /\ curenv[c] \in Slots /\ curenv[c] # NoEnv /\ envs \in Tables
      /\ freeList \in Seq(Slots)
  BY InKernel DEF UseInv
<1>2. Executing(c) /\ OnCPU(envs[curenv[c]])
  BY DEF UseInv, Executing, ExecInv
<1>3. 0 \in CPUs
  BY SizeAssumption DEF CPUs
<1>4. pc[0] # "boot"
  BY <1>1, <1>3 DEF UseInv, PlaceInv, LockMatchesPlace, Inside
<1>5. \A d \in CPUs : Executing(d) /\ d # c =>
          OnCPU(envs[curenv[d]]) /\ curenv[d] # curenv[c] /\ curenv[d] \in Slots
  BY <1>2 DEF UseInv, ExecInv, OneCPU, PlaceInv, ExecutesSome
<1>6. QED
  BY <1>1, <1>2, <1>4, <1>5, CPUsAreSlots DEF UseInv, PlaceInv, IdleInv, OnCPU

LEMMA MidSame ==
  ASSUME UseInv, NEW c \in CPUs, pc[c] \in {"trap", "sys"}
  PROVE  Mid(c, envs, curenv[c], freeList)
BY InKernelUse DEF Mid, UseInv, HomeInv, RunningHasCPU, OnCPU, MaybeEnv

(* A handler that changes the entry of an environment x.                   *)
LEMMA MidChange ==
  ASSUME UseInv, NEW c \in CPUs, pc[c] \in {"trap", "sys"},
         NEW x \in Slots \ CPUs, NEW r \in Env, NEW list \in Seq(Slots),
         NEW cur \in {NoEnv, curenv[c]},
         r.status # "RUNNING", RecvOk(r), IdOk(r), Exact(list, With(x, r)),
         \A d \in CPUs : Executing(d) /\ d # c /\ curenv[d] = x => OnCPU(r),
         cur = NoEnv => x = curenv[c],
         cur # NoEnv /\ x = cur => r.started /\ r.status \in {"DYING", "NOT_RUNNABLE"}
  PROVE  Mid(c, With(x, r), cur, list)
<1> DEFINE new == With(x, r)
<1>1. /\ curenv[c] \in Slots /\ curenv[c] # NoEnv /\ TypeOK
      /\ Executing(c) /\ OnCPU(envs[curenv[c]])
      /\ \A d \in CPUs : IdleOk(envs[d]) /\ d \in Slots
      /\ \A d \in CPUs : Executing(d) /\ d # c =>
            OnCPU(envs[curenv[d]]) /\ curenv[d] # curenv[c] /\ curenv[d] \in Slots
  BY InKernelUse
<1>2. /\ new \in Tables /\ new[x] = r
      /\ \A e \in Slots : e # x => new[e] = envs[e]
  BY <1>1, WithTable
<1>3. cur \in MaybeEnv
  BY <1>1 DEF MaybeEnv
<1>4. ASSUME NEW d \in CPUs, Executing(d), d # c PROVE OnCPU(new[curenv[d]]) /\ curenv[d] # cur
  BY <1>1, <1>2, <1>4, NullAssumption
<1>5. cur # NoEnv => /\ new[cur].started
                     /\ new[cur].status \in {"RUNNING", "DYING", "NOT_RUNNABLE"}
                     /\ cur \in CPUs => cur = c
  BY <1>1, <1>2 DEF OnCPU, UseInv, HomeInv
<1>6. ASSUME NEW e \in Slots, new[e].status = "RUNNING"
      PROVE  e = cur \/ \E d \in CPUs : d # c /\ curenv[d] = e
  <2>1. e # x /\ envs[e].status = "RUNNING"
    BY <1>2, <1>6
  <2>2. PICK d \in CPUs : curenv[d] = e
    BY <2>1 DEF UseInv, RunningHasCPU
  <2>3. QED
    BY <2>1, <2>2
<1>7. TableOk(new)
  BY <1>2 DEF UseInv, TableOk
<1>8. \A d \in CPUs : IdleOk(new[d])
  BY <1>1, <1>2
<1>9. QED
  BY <1>2, <1>3, <1>4, <1>5, <1>6, <1>7, <1>8 DEF Mid
-----------------------------------------------------------------------------
(* The entries handlers write.                                             *)
LEMMA StatusEntry ==
  ASSUME TypeOK, NEW e \in Slots, NEW status \in Statuses
  PROVE  \E r \in Env :
           /\ SetStatus(e, status) = With(e, r)
           /\ r = [envs[e] EXCEPT !.status = status]
           /\ r.status = status /\ r.id = envs[e].id /\ r.started = envs[e].started
           /\ r.recving = envs[e].recving /\ r.from = envs[e].from
<1>1. envs[e] \in Env
  BY DEF TypeOK
<1>2. [envs[e] EXCEPT !.status = status] \in Env
  BY <1>1 DEF Env
<1>3. SetStatus(e, status) = With(e, [envs[e] EXCEPT !.status = status])
  BY DEF SetStatus, With
<1>4. QED
  BY <1>1, <1>2, <1>3 DEF Env

LEMMA WaitingEntry ==
  ASSUME TypeOK, NEW e \in Slots
  PROVE  \E r \in Env :
           /\ Waiting(e) = With(e, r)
           /\ r.status = "NOT_RUNNABLE" /\ r.id = envs[e].id /\ r.started = envs[e].started
           /\ r.recving /\ r.from = Zero
<1> DEFINE r == [envs[e] EXCEPT !.recving = TRUE, !.from = Zero, !.status = "NOT_RUNNABLE"]
<1>1. envs[e] \in Env /\ Zero \in EnvIds
  BY ZeroIsId DEF TypeOK
<1>2. r \in Env
  BY <1>1 DEF Env, Statuses
<1>3. Waiting(e) = With(e, r)
  BY DEF TypeOK, Waiting, With
<1>4. /\ r.status = "NOT_RUNNABLE" /\ r.id = envs[e].id /\ r.started = envs[e].started
      /\ r.recving /\ r.from = Zero
  BY <1>1 DEF Env
<1>5. QED
  BY <1>2, <1>3, <1>4

LEMMA DeliveredEntry ==
  ASSUME TypeOK, NEW e \in Slots, NEW from \in EnvIds
  PROVE  \E r \in Env :
           /\ Delivered(e, from) = With(e, r)
           /\ r.status = "RUNNABLE" /\ r.id = envs[e].id /\ r.started = envs[e].started
           /\ ~r.recving
<1> DEFINE r == [envs[e] EXCEPT !.recving = FALSE, !.from = from, !.status = "RUNNABLE"]
<1>1. envs[e] \in Env /\ from \in EnvIds
  BY ZeroIsId DEF TypeOK
<1>2. r \in Env
  BY <1>1 DEF Env, Statuses
<1>3. Delivered(e, from) = With(e, r)
  BY DEF TypeOK, Delivered, With
<1>4. /\ r.status = "RUNNABLE" /\ r.id = envs[e].id /\ r.started = envs[e].started
      /\ ~r.recving
  BY <1>1 DEF Env
<1>5. QED
  BY <1>2, <1>3, <1>4

LEMMA RenewedEntry ==
  ASSUME TypeOK, NEW e \in Slots, NEW parent \in EnvIds,
         NEW type \in {"USER", "IDLE"}, NEW status \in Statuses
  PROVE  \E r \in Env :
           /\ EnvAlloc(e, parent, type, status) = With(e, r)
           /\ r.status = status /\ r.id.gen # 0 /\ r.parent = parent /\ r.type = type
           /\ ~r.recving /\ ~r.started
<1> DEFINE r == Renewed(envs[e], e, parent, type, status)
<1>1. envs[e] \in Env /\ envs[e].id.gen \in 0 .. MaxGen
  BY DEF TypeOK, Env, EnvIds
<1>2. NextGeneration(envs[e].id.gen) \in 1 .. MaxGen
  BY <1>1, SizeAssumption DEF NextGeneration
<1>3. [gen |-> NextGeneration(envs[e].id.gen), slot |-> e] \in EnvIds
  BY <1>2 DEF EnvIds
<1>4. r \in Env
  BY <1>1, <1>3 DEF Renewed, Env
<1>5. /\ r.status = status /\ r.id = [gen |-> NextGeneration(envs[e].id.gen), slot |-> e]
      /\ r.parent = parent /\ r.type = type /\ ~r.recving /\ ~r.started
  BY <1>1 DEF Renewed, Env
<1>6. r.id.gen # 0
  BY <1>2, <1>5
<1>7. QED
  BY <1>4, <1>5, <1>6 DEF EnvAlloc, With

(* What envid2env() lets a program reach: with the permission check, live  *)
(* children, and never an idle environment.                                *)
LEMMA ChildIsLive ==
  ASSUME UseInv, NEW c \in CPUs, pc[c] \in {"trap", "sys"}, NEW e \in Children(c)
  PROVE  e \in Slots \ CPUs /\ e # curenv[c] /\ envs[e].status # "FREE"
<1>1. /\ curenv[c] \in Slots /\ envs[curenv[c]].status # "FREE"
      /\ \A d \in CPUs : IdleOk(envs[d])
  BY InKernelUse
<1>2. PICK id \in EnvIds : e = Envid2Env(c, id, TRUE)
  BY DEF Children
<1>3. e # NoEnv /\ e # curenv[c]
  BY DEF Children
<1>4. /\ e = ENVX(id) /\ envs[e].status # "FREE"
      /\ envs[e].parent = envs[curenv[c]].id
  BY <1>2, <1>3 DEF Envid2Env
<1>5. e \in Slots
  BY <1>4 DEF ENVX, EnvIds
<1>6. envs[curenv[c]].id.gen # 0
  BY <1>1 DEF UseInv, TableOk, IdOk
<1>7. envs[e].parent # Zero
  BY <1>4, <1>6 DEF Zero
<1>8. QED
  BY <1>1, <1>3, <1>4, <1>5, <1>7 DEF IdleOk

LEMMA ReceiverWaits ==
  ASSUME UseInv, NEW c \in CPUs, pc[c] \in {"trap", "sys"}, NEW e \in Receivers(c)
  PROVE  e \in Slots \ CPUs /\ e # curenv[c] /\ envs[e].status = "NOT_RUNNABLE"
<1>1. /\ curenv[c] \in Slots /\ OnCPU(envs[curenv[c]])
      /\ \A d \in CPUs : IdleOk(envs[d])
  BY InKernelUse
<1>2. PICK id \in EnvIds : e = Envid2Env(c, id, FALSE)
  BY DEF Receivers
<1>3. e # NoEnv /\ envs[e].recving
  BY DEF Receivers, CanReceive
<1>4. e = curenv[c] \/ (e = ENVX(id) /\ envs[e].status # "FREE")
  BY <1>2, <1>3 DEF Envid2Env
<1>5. e \in Slots /\ envs[e].status # "FREE"
  BY <1>1, <1>4 DEF ENVX, EnvIds, OnCPU
<1>6. envs[e].status = "NOT_RUNNABLE"
  BY <1>3, <1>5 DEF UseInv, TableOk, RecvOk
<1>7. QED
  BY <1>1, <1>5, <1>6 DEF OnCPU, IdleOk

LEMMA DestroyCurrentUse ==
  ASSUME UseInv, PlaceInv', NEW c \in CPUs, pc[c] \in {"trap", "sys"},
         curenv[c] \notin CPUs, DestroyCurrent(c)
  PROVE  UseInv'
<1>1. /\ holder = c /\ curenv[c] \in Slots /\ TypeOK /\ envs[curenv[c]].status # "FREE"
      /\ curenv[c] # NoEnv
      /\ \A d \in CPUs : Executing(d) /\ d # c => curenv[d] # curenv[c]
  BY InKernelUse
<1>2. freeList' = FreeListWith(curenv[c]) /\ SchedYield(c, EnvFree(curenv[c]), NoEnv)
  BY DEF DestroyCurrent
<1>3. PICK r \in Env : EnvFree(curenv[c]) = With(curenv[c], r) /\ r.status = "FREE"
  BY <1>1, StatusEntry DEF EnvFree, Statuses
<1>4. RecvOk(r) /\ IdOk(r)
  BY <1>3 DEF RecvOk, IdOk
<1>5. Exact(freeList', EnvFree(curenv[c]))
  BY <1>1, <1>2, ExactFree DEF UseInv
<1>6. freeList' \in Seq(Slots)
  BY <1>1, <1>2, FreeListTypes
<1>7. Mid(c, EnvFree(curenv[c]), NoEnv, freeList')
  BY <1>1, <1>3, <1>4, <1>5, <1>6, MidChange
<1>8. QED
  BY <1>1, <1>2, <1>7, SchedYieldUse

(* A system call that changes the entry of another environment.            *)
LEMMA ChangeOtherUse ==
  ASSUME UseInv, PlaceInv', NEW c \in CPUs, pc[c] \in {"trap", "sys"},
         NEW x \in Slots \ CPUs, x # curenv[c], NEW r \in Env, NEW table,
         table = With(x, r), SysReturn(c, table), freeList' \in Seq(Slots),
         r.status # "RUNNING", RecvOk(r), IdOk(r), Exact(freeList', table),
         \A d \in CPUs : Executing(d) /\ d # c /\ curenv[d] = x => OnCPU(r)
  PROVE  UseInv'
<1>1. curenv[c] \in Slots /\ OnCPU(envs[curenv[c]]) /\ curenv[c] # NoEnv /\ TypeOK
  BY InKernelUse
<1>2. Mid(c, table, curenv[c], freeList')
  BY <1>1, MidChange
<1>3. OnCPU(table[curenv[c]])
  BY <1>1, WithTable
<1>4. EnvRun(c, table, curenv[c], curenv[c])
  BY DEF SysReturn
<1>5. QED
  BY <1>2, <1>3, <1>4, EnvRunCurrentUse
-----------------------------------------------------------------------------
(* Every handler of a program that keeps to ProperUses preserves UseInv.   *)
LEMMA ExoforkUse ==
  ASSUME UseInv, PlaceInv', NEW c \in CPUs, TrapExofork(c)
  PROVE  UseInv'
<1> DEFINE x == Head(freeList)
<1>1. /\ pc[c] \in {"trap", "sys"} /\ freeList # << >> /\ freeList' = Tail(freeList)
      /\ TrapReturn(c, EnvAlloc(x, envs[curenv[c]].id, "USER", "NOT_RUNNABLE"))
  BY DEF TrapExofork, TrapOf, Trapped
<1>2. /\ TypeOK /\ curenv[c] \in Slots /\ OnCPU(envs[curenv[c]]) /\ curenv[c] # NoEnv
      /\ freeList \in Seq(Slots) /\ envs \in Tables
      /\ \A d \in CPUs : IdleOk(envs[d])
      /\ \A d \in CPUs : Executing(d) /\ d # c => OnCPU(envs[curenv[d]])
  BY <1>1, InKernelUse
<1>3. x \in Slots /\ envs[x].status = "FREE"
  BY <1>1, <1>2, ExactHead DEF UseInv
<1>4. x \notin CPUs /\ x # curenv[c] /\ \A d \in CPUs : Executing(d) /\ d # c => curenv[d] # x
  BY <1>2, <1>3 DEF IdleOk, OnCPU
<1>5. envs[curenv[c]].id \in EnvIds
  BY <1>2 DEF TypeOK, Env
<1>6. PICK r \in Env :
        /\ EnvAlloc(x, envs[curenv[c]].id, "USER", "NOT_RUNNABLE") = With(x, r)
        /\ r.status = "NOT_RUNNABLE" /\ r.id.gen # 0 /\ ~r.recving
  <2>1. "NOT_RUNNABLE" \in Statuses /\ "USER" \in {"USER", "IDLE"}
    BY DEF Statuses
  <2>2. QED
    BY <1>2, <1>3, <1>5, <2>1, RenewedEntry
<1>7. RecvOk(r) /\ IdOk(r) /\ r.status \notin {"RUNNING", "FREE"}
  BY <1>6 DEF RecvOk, IdOk
<1>8. Exact(Tail(freeList), With(x, r)) /\ Tail(freeList) \in Seq(Slots)
  BY <1>1, <1>2, <1>7, ExactTail DEF UseInv
<1>9. Mid(c, With(x, r), curenv[c], freeList')
  BY <1>1, <1>2, <1>3, <1>4, <1>7, <1>8, MidChange
<1>10. QED
  BY <1>1, <1>6, <1>9, ReturnUse

LEMMA SysEnvDestroyUse ==
  ASSUME UseInv, PlaceInv', Programs \subseteq ProperUses, NEW c \in CPUs, SysEnvDestroy(c)
  PROVE  UseInv'
<1>1. pc[c] \in {"trap", "sys"}
  BY DEF SysEnvDestroy, SysOf
<1>2. PICK e \in Children(c) :
        /\ envs[e].status # "DYING"
        /\ IF envs[e].status = "RUNNING"
             THEN SysReturn(c, SetStatus(e, "DYING")) /\ UNCHANGED freeList
             ELSE SysReturn(c, EnvFree(e)) /\ freeList' = FreeListWith(e)
  BY DEF SysEnvDestroy, ProperUses
<1>3. e \in Slots \ CPUs /\ e # curenv[c] /\ envs[e].status # "FREE"
  BY <1>1, ChildIsLive
<1>4. /\ TypeOK /\ curenv[c] \in Slots /\ OnCPU(envs[curenv[c]]) /\ curenv[c] # NoEnv
      /\ freeList \in Seq(Slots) /\ envs \in Tables
      /\ \A d \in CPUs : Executing(d) /\ d # c => OnCPU(envs[curenv[d]])
  BY <1>1, InKernelUse
<1>5. RecvOk(envs[e]) /\ IdOk(envs[e])
  BY <1>3 DEF UseInv, TableOk
<1>6. CASE envs[e].status = "RUNNING"
  <2>1. PICK r \in Env :
          /\ SetStatus(e, "DYING") = With(e, r)
          /\ r.status = "DYING" /\ r.id = envs[e].id /\ r.started = envs[e].started
          /\ r.recving = envs[e].recving
    BY <1>3, <1>4, StatusEntry DEF Statuses
  <2>2. RecvOk(r) /\ IdOk(r)
    BY <1>3, <1>5, <1>6, <2>1 DEF RecvOk, IdOk
  <2>3. \A d \in CPUs : Executing(d) /\ d # c /\ curenv[d] = e => OnCPU(r)
    BY <1>4, <2>1 DEF OnCPU
  <2>4. Exact(freeList, With(e, r))
    BY <1>3, <1>4, <1>6, <2>1, ExactKept DEF UseInv
  <2>5. SysReturn(c, SetStatus(e, "DYING")) /\ freeList' = freeList
    BY <1>2, <1>6
  <2>6. QED
    BY <1>1, <1>3, <1>4, <2>1, <2>2, <2>3, <2>4, <2>5, ChangeOtherUse
<1>7. CASE envs[e].status # "RUNNING"
  <2>1. PICK r \in Env : EnvFree(e) = With(e, r) /\ r.status = "FREE"
    BY <1>3, <1>4, StatusEntry DEF EnvFree, Statuses
  <2>2. RecvOk(r) /\ IdOk(r)
    BY <2>1 DEF RecvOk, IdOk
  <2>3. \A d \in CPUs : Executing(d) /\ d # c => curenv[d] # e
    BY <1>2, <1>4, <1>7 DEF OnCPU
  <2>4. Exact(FreeListWith(e), EnvFree(e)) /\ FreeListWith(e) \in Seq(Slots)
    BY <1>3, <1>4, ExactFree, FreeListTypes DEF UseInv
  <2>5. SysReturn(c, EnvFree(e)) /\ freeList' = FreeListWith(e)
    BY <1>2, <1>7
  <2>6. QED
    BY <1>1, <1>3, <1>4, <2>1, <2>2, <2>3, <2>4, <2>5, ChangeOtherUse
<1>8. QED
  BY <1>6, <1>7

LEMMA SysEnvSetStatusUse ==
  ASSUME UseInv, PlaceInv', Programs \subseteq ProperUses, NEW c \in CPUs, SysEnvSetStatus(c)
  PROVE  UseInv'
<1>1. pc[c] \in {"trap", "sys"} /\ freeList' = freeList
  BY DEF SysEnvSetStatus
<1>2. PICK e \in Children(c) : Fresh(e) /\ SysReturn(c, SetStatus(e, "RUNNABLE"))
  BY DEF SysEnvSetStatus, MaySetStatus, ProperUses
<1>3. e \in Slots \ CPUs /\ e # curenv[c] /\ envs[e].status # "FREE"
  BY <1>1, ChildIsLive
<1>4. /\ TypeOK /\ curenv[c] \in Slots /\ OnCPU(envs[curenv[c]]) /\ curenv[c] # NoEnv
      /\ freeList \in Seq(Slots) /\ envs \in Tables
      /\ \A d \in CPUs : Executing(d) /\ d # c => OnCPU(envs[curenv[d]])
  BY <1>1, InKernelUse
<1>5. PICK r \in Env :
        /\ SetStatus(e, "RUNNABLE") = With(e, r)
        /\ r.status = "RUNNABLE" /\ r.id = envs[e].id /\ r.recving = envs[e].recving
  BY <1>3, <1>4, StatusEntry DEF Statuses
<1>6. RecvOk(r) /\ IdOk(r)
  BY <1>2, <1>3, <1>5 DEF UseInv, TableOk, RecvOk, IdOk, Fresh
<1>7. \A d \in CPUs : Executing(d) /\ d # c => curenv[d] # e
  BY <1>2, <1>4 DEF OnCPU, Fresh
<1>8. Exact(freeList, With(e, r))
  BY <1>3, <1>4, <1>5, ExactKept DEF UseInv
<1>9. QED
  BY <1>1, <1>2, <1>3, <1>4, <1>5, <1>6, <1>7, <1>8, ChangeOtherUse

LEMMA SysIpcRecvUse ==
  ASSUME UseInv, PlaceInv', NEW c \in CPUs, SysIpcRecv(c)
  PROVE  UseInv'
<1> DEFINE e == curenv[c]
<1>1. /\ pc[c] \in {"trap", "sys"} /\ freeList' = freeList /\ envs[e].type = "USER"
      /\ SchedYield(c, Waiting(e), e)
  BY DEF SysIpcRecv, SysOf
<1>2. /\ TypeOK /\ e \in Slots /\ OnCPU(envs[e]) /\ e # NoEnv /\ envs[e].status # "FREE"
      /\ freeList \in Seq(Slots) /\ envs \in Tables
      /\ \A d \in CPUs : IdleOk(envs[d])
      /\ \A d \in CPUs : Executing(d) /\ d # c => curenv[d] # e
  BY <1>1, InKernelUse
<1>3. e \notin CPUs
  BY <1>1, <1>2 DEF IdleOk
<1>4. PICK r \in Env :
        /\ Waiting(e) = With(e, r)
        /\ r.status = "NOT_RUNNABLE" /\ r.id = envs[e].id /\ r.started = envs[e].started
        /\ r.recving /\ r.from = Zero
  BY <1>2, WaitingEntry
<1>5. RecvOk(r) /\ IdOk(r) /\ r.started
  BY <1>2, <1>4 DEF UseInv, TableOk, RecvOk, IdOk, OnCPU
<1>6. Exact(freeList, With(e, r))
  BY <1>2, <1>4, ExactKept DEF UseInv
<1>7. Mid(c, With(e, r), e, freeList)
  BY <1>1, <1>2, <1>3, <1>4, <1>5, <1>6, MidChange
<1>8. QED
  <2>1. SchedYield(c, With(e, r), e)
    BY <1>1, <1>4
  <2>2. QED
    BY <1>1, <1>7, <2>1, ReturnUse

LEMMA SysIpcTrySendUse ==
  ASSUME UseInv, PlaceInv', NEW c \in CPUs, SysIpcTrySend(c)
  PROVE  UseInv'
<1>1. pc[c] \in {"trap", "sys"} /\ freeList' = freeList
  BY DEF SysIpcTrySend, SysOf
<1>2. PICK e \in Receivers(c) :
        SysReturn(c, Delivered(e, envs[curenv[c]].id))
  BY DEF SysIpcTrySend
<1>3. e \in Slots \ CPUs /\ e # curenv[c] /\ envs[e].status = "NOT_RUNNABLE"
  BY <1>1, ReceiverWaits
<1>4. /\ TypeOK /\ curenv[c] \in Slots /\ OnCPU(envs[curenv[c]]) /\ curenv[c] # NoEnv
      /\ freeList \in Seq(Slots) /\ envs \in Tables
      /\ \A d \in CPUs : Executing(d) /\ d # c => OnCPU(envs[curenv[d]])
  BY <1>1, InKernelUse
<1>5. envs[curenv[c]].id \in EnvIds
  BY <1>4 DEF TypeOK, Env
<1>6. PICK r \in Env :
        /\ Delivered(e, envs[curenv[c]].id) = With(e, r)
        /\ r.status = "RUNNABLE" /\ r.id = envs[e].id /\ ~r.recving
  BY <1>3, <1>4, <1>5, DeliveredEntry
<1>7. RecvOk(r) /\ IdOk(r)
  BY <1>3, <1>6 DEF UseInv, TableOk, RecvOk, IdOk
<1>8. \A d \in CPUs : Executing(d) /\ d # c => curenv[d] # e
  BY <1>3, <1>4 DEF OnCPU
<1>9. Exact(freeList, With(e, r))
  BY <1>3, <1>4, <1>6, ExactKept DEF UseInv
<1>10. QED
  <2>1. r.status # "RUNNING" /\ SysReturn(c, With(e, r))
    BY <1>2, <1>6
  <2>2. QED
    BY <1>1, <1>3, <1>4, <1>7, <1>8, <1>9, <2>1, ChangeOtherUse DEF With

LEMMA BootYieldMid ==
  ASSUME UseInv, NEW c \in CPUs, BootYield(c)
  PROVE  Mid(c, envs, NoEnv, freeList)
<1>1. /\ pc[c] \in {"boot", "start"} /\ curenv[c] = NoEnv /\ holder = c
      /\ freeList' = freeList /\ SchedYield(c, envs, NoEnv)
      /\ pc[c] = "boot" => Created = NCPU + NUser
  BY DEF BootYield, UseInv, StartInv, PlaceInv, LockMatchesPlace, Inside
<1>2. 0 \in CPUs
  BY SizeAssumption DEF CPUs
<1>3. \A d \in CPUs : IdleOk(envs[d])
  <2>1. CASE pc[0] = "boot"
    <3>1. c = 0
      BY <1>1, <1>2, <2>1 DEF UseInv, PlaceInv, LockMatchesPlace, Inside
    <3>2. \A d \in CPUs : d < Created
      BY <1>1, <2>1, <3>1, SizeAssumption DEF CPUs
    <3>3. QED
      BY <2>1, <3>2 DEF UseInv, BootInv
  <2>2. CASE pc[0] # "boot"
    BY <2>2 DEF UseInv, IdleInv
  <2>3. QED
    BY <2>1, <2>2
<1>4. \A d \in CPUs : Executing(d) /\ d # c => OnCPU(envs[curenv[d]]) /\ curenv[d] # NoEnv
  BY NullAssumption DEF UseInv, ExecInv, PlaceInv, ExecutesSome
<1>5. \A e \in Slots : envs[e].status = "RUNNING" => \E d \in CPUs : d # c /\ curenv[d] = e
  BY <1>1, NullAssumption DEF UseInv, RunningHasCPU
<1>6. QED
  BY <1>3, <1>4, <1>5 DEF Mid, UseInv, PlaceInv, TypeOK, Tables, MaybeEnv

LEMMA BootYieldUse ==
  ASSUME UseInv, PlaceInv', NEW c \in CPUs, BootYield(c)
  PROVE  UseInv'
<1>1. holder = c /\ freeList' = freeList /\ SchedYield(c, envs, NoEnv)
  BY DEF BootYield, UseInv, StartInv, PlaceInv, LockMatchesPlace, Inside
<1>2. Mid(c, envs, NoEnv, freeList)
  BY BootYieldMid
<1>3. QED
  BY <1>1, <1>2, SchedYieldUse

LEMMA KernelStepUse ==
  ASSUME UseInv, Programs \subseteq ProperUses, NEW c \in CPUs, KernelStep(c)
  PROVE  UseInv'
<1>1. PlaceInv'
  BY KernelStepPlace DEF UseInv
<1>2. CASE BootYield(c)
  BY <1>1, <1>2, BootYieldUse
<1>3. CASE TrapZombie(c) \/ TrapUnexpected(c) \/ SysExit(c)
  <2>1. pc[c] \in {"trap", "sys"} /\ DestroyCurrent(c)
    BY <1>3 DEF TrapZombie, TrapUnexpected, TrapOf, Trapped, SysExit, SysOf
  <2>2. envs[curenv[c]].status = "DYING" \/ envs[curenv[c]].type = "USER"
    BY <1>3 DEF TrapZombie, Zombie, TrapUnexpected, TrapOf, SysExit, SysOf
  <2>3. curenv[c] \notin CPUs
    BY <2>1, <2>2, InKernelUse DEF IdleOk
  <2>4. QED
    BY <1>1, <2>1, <2>3, DestroyCurrentUse
<1>4. CASE TrapTimer(c) \/ TrapSpurious(c) \/ TrapPageFault(c) \/ TrapBreakpoint(c)
           \/ SysYield(c) \/ SysNothing(c)
  <2>1. pc[c] \in {"trap", "sys"} /\ freeList' = freeList
    BY <1>4 DEF TrapTimer, TrapSpurious, TrapPageFault, TrapBreakpoint, TrapOf, Trapped, SysYield, SysNothing
  <2>2. Mid(c, envs, curenv[c], freeList')
    BY <2>1, MidSame
  <2>3. OnCPU(envs[curenv[c]])
    BY <2>1, InKernelUse
  <2>4. QED
    BY <1>1, <1>4, <2>1, <2>2, <2>3, ReturnUse
       DEF TrapTimer, TrapSpurious, TrapPageFault, TrapBreakpoint, SysYield, SysNothing
<1>5. ~TrapExoforkFails(c)
  BY DEF TrapExoforkFails, TrapOf, ProperUses
<1>6. QED
  BY <1>1, <1>2, <1>3, <1>4, <1>5, ExoforkUse, SysEnvDestroyUse, SysEnvSetStatusUse,
     SysIpcRecvUse, SysIpcTrySendUse DEF KernelStep
-----------------------------------------------------------------------------
LEMMA UseInvInit == Init => UseInv
<1> SUFFICES ASSUME Init PROVE UseInv
  OBVIOUS
<1>1. PlaceInv
  BY PlaceInvInit
<1>2. 0 \in CPUs /\ \A c \in CPUs : ~Executing(c)
  BY SizeAssumption DEF Init, CPUs, Executing, UserSide
<1>3. ExecInv /\ OneCPU /\ HomeInv
  BY <1>2, CPUsAreSlots, NullAssumption DEF Init, ExecInv, OneCPU, HomeInv
<1>4. \A e \in Slots : envs[e].status = "FREE"
  BY DEF Init
<1>5. RunningHasCPU /\ TableOk(envs)
  BY <1>4 DEF RunningHasCPU, TableOk, RecvOk, IdOk
<1>6. /\ NENV \in Nat /\ freeList = [i \in 1 .. NENV |-> i - 1] /\ Len(freeList) = NENV
  BY SizeAssumption DEF Init
<1>7. Exact(freeList, envs)
  <2>1. \A i, j \in 1 .. Len(freeList) : freeList[i] = freeList[j] => i = j
    BY <1>6
  <2>2. \A e \in Slots : e + 1 \in 1 .. Len(freeList) /\ freeList[e + 1] = e
    BY <1>6 DEF Slots
  <2>3. \A i \in 1 .. Len(freeList) : freeList[i] \in Slots
    BY <1>6 DEF Slots
  <2>4. {freeList[i] : i \in 1 .. Len(freeList)} = Slots
    BY <2>2, <2>3
  <2>5. QED
    BY <1>4, <2>1, <2>4 DEF Exact
<1>8. StartInv
  BY DEF Init, StartInv
<1>9. pc[0] = "boot" /\ OnlyZeroBoots /\ \A c \in CPUs : c # 0 => pc[c] = "start_lock"
  BY <1>2 DEF Init, OnlyZeroBoots
<1>10. Created = 0
  BY <1>6 DEF Created
<1>11. BootInv
  <2>1. \A i \in 1 .. Len(freeList) : freeList[i] = Created + i - 1
    BY <1>6, <1>10
  <2>2. \A c \in CPUs : ~(c < Created)
    BY <1>10 DEF CPUs
  <2>3. QED
    BY <1>9, <2>1, <2>2 DEF BootInv
<1>12. QED
  BY <1>1, <1>3, <1>5, <1>7, <1>8, <1>9, <1>11 DEF UseInv, IdleInv

LEMMA BootCreateUse ==
  ASSUME UseInv, PlaceInv', BootCreate
  PROVE  UseInv'
<1> DEFINE x == Head(freeList)
           type == IF Created < NCPU THEN "IDLE" ELSE "USER"
<1>1. /\ pc[0] = "boot" /\ Created < NCPU + NUser /\ freeList' = Tail(freeList)
      /\ envs' = EnvAlloc(x, Zero, type, "RUNNABLE")
      /\ UNCHANGED <<curenv, pc, holder, panicked>>
  BY DEF BootCreate
<1>2. TypeOK /\ freeList \in Seq(Slots) /\ Exact(freeList, envs)
  BY DEF UseInv, PlaceInv, TypeOK
<1>3. freeList # << >> /\ Len(freeList) \in Nat
  BY <1>1, <1>2, SizeAssumption DEF Created
<1>4. /\ \A c \in CPUs : c # 0 => pc[c] = "start_lock"
      /\ \A i \in 1 .. Len(freeList) : freeList[i] = Created + i - 1
      /\ \A c \in CPUs : c < Created => IdleOk(envs[c])
  BY <1>1 DEF UseInv, BootInv
<1>5. x = Created /\ x \in Slots /\ envs[x].status = "FREE"
  <2>1. 1 \in 1 .. Len(freeList) /\ x = freeList[1]
    BY <1>2, <1>3
  <2>2. Created \in Int
    BY <1>3, SizeAssumption DEF Created
  <2>3. QED
    BY <1>2, <1>3, <1>4, <2>1, <2>2, ExactHead
<1>6. PICK r \in Env :
        /\ EnvAlloc(x, Zero, type, "RUNNABLE") = With(x, r)
        /\ r.status = "RUNNABLE" /\ r.id.gen # 0 /\ r.parent = Zero /\ r.type = type
        /\ ~r.recving
  <2>1. "RUNNABLE" \in Statuses /\ type \in {"USER", "IDLE"}
    BY DEF Statuses
  <2>2. QED
    BY <1>2, <1>5, <2>1, ZeroIsId, RenewedEntry
<1>7. /\ envs'[x] = r
      /\ \A e \in Slots : e # x => envs'[e] = envs[e]
  BY <1>1, <1>2, <1>5, <1>6, WithTable
<1>8. \A c \in CPUs : ~Executing(c) /\ ~Executing(c)'
  BY <1>1, <1>4 DEF Executing, UserSide
<1>9. ExecInv' /\ OneCPU' /\ HomeInv'
  BY <1>1, <1>8 DEF ExecInv, OneCPU, HomeInv, UseInv
<1>10. RunningHasCPU'
  <2>1. \A e \in Slots : envs'[e].status = "RUNNING" => envs[e].status = "RUNNING"
    BY <1>6, <1>7
  <2>2. QED
    BY <1>1, <2>1 DEF UseInv, RunningHasCPU
<1>11. TableOk(envs')
  BY <1>6, <1>7 DEF UseInv, TableOk, RecvOk, IdOk
<1>12. Exact(freeList', envs')
  BY <1>1, <1>2, <1>3, <1>6, ExactTail
<1>13. IdleInv' /\ StartInv'
  BY <1>1 DEF UseInv, IdleInv, StartInv
<1>14. BootInv'
  <2>1. /\ Len(freeList') = Len(freeList) - 1
        /\ \A i \in 1 .. Len(freeList') : i + 1 \in 1 .. Len(freeList) /\ freeList'[i] = freeList[i + 1]
    BY <1>1, <1>2, <1>3
  <2>2. Created' = Created + 1 /\ Created \in Int
    BY <1>3, <2>1, SizeAssumption DEF Created
  <2>3. \A i \in 1 .. Len(freeList') : freeList'[i] = Created' + i - 1
    <3> SUFFICES ASSUME NEW i \in 1 .. Len(freeList') PROVE freeList'[i] = Created' + i - 1
      OBVIOUS
    <3>1. freeList'[i] = Created + (i + 1) - 1
      BY <1>4, <2>1
    <3>2. i \in Int
      BY <1>3, <2>1
    <3>3. QED
      BY <2>2, <3>1, <3>2
  <2>4. ASSUME NEW c \in CPUs, c < Created' PROVE IdleOk(envs'[c])
    <3>1. c \in Int /\ c < NCPU /\ c \in Slots
      BY CPUsAreSlots, SizeAssumption DEF CPUs
    <3>2. CASE c = x
      <4>1. r.type = "IDLE"
        BY <1>5, <1>6, <3>1, <3>2
      <4>2. QED
        BY <1>6, <1>7, <3>2, <4>1 DEF IdleOk
    <3>3. CASE c # x
      <4>1. c < Created
        BY <1>5, <2>2, <2>4, <3>1, <3>3
      <4>2. QED
        BY <1>4, <1>7, <3>1, <3>3, <4>1
    <3>4. QED
      BY <3>2, <3>3
  <2>5. OnlyZeroBoots'
    BY <1>1 DEF UseInv, BootInv, OnlyZeroBoots
  <2>6. QED
    BY <1>1, <1>4, <2>3, <2>4, <2>5 DEF BootInv
<1>15. QED
  BY <1>9, <1>10, <1>11, <1>12, <1>13, <1>14 DEF UseInv

LEMMA PopUse ==
  ASSUME UseInv, PlaceInv', NEW c \in CPUs, Pop(c)
  PROVE  UseInv'
<1> DEFINE x == curenv[c]
<1>1. /\ pc[c] = "pop" /\ pc' = [pc EXCEPT ![c] = "user"]
      /\ envs' = [envs EXCEPT ![x].cpunum = c]
      /\ freeList' = freeList /\ curenv' = curenv
  BY DEF Pop, Goto
<1>2. TypeOK /\ x \in Slots /\ pc \in [CPUs -> Labels]
  BY <1>1 DEF UseInv, PlaceInv, TypeOK, ExecutesSome, Executing
<1>3. ASSUME NEW e \in Slots
      PROVE  /\ envs'[e].id = envs[e].id /\ envs'[e].parent = envs[e].parent
             /\ envs'[e].type = envs[e].type /\ envs'[e].status = envs[e].status
             /\ envs'[e].started = envs[e].started /\ envs'[e].recving = envs[e].recving
             /\ envs'[e].from = envs[e].from
  BY <1>1, <1>2 DEF TypeOK, Env
<1>4. \A d \in CPUs : Executing(d)' <=> Executing(d)
  BY <1>1, <1>2 DEF Executing, UserSide
<1>5. ExecInv'
  BY <1>1, <1>3, <1>4 DEF UseInv, ExecInv, OnCPU, PlaceInv, ExecutesSome
<1>6. OneCPU' /\ HomeInv'
  BY <1>1, <1>4 DEF UseInv, OneCPU, HomeInv
<1>7. RunningHasCPU'
  BY <1>1, <1>3 DEF UseInv, RunningHasCPU
<1>8. Exact(freeList', envs')
  <2>1. {e \in Slots : envs'[e].status = "FREE"} = {e \in Slots : envs[e].status = "FREE"}
    BY <1>3
  <2>2. QED
    BY <1>1, <2>1 DEF UseInv, Exact
<1>9. TableOk(envs')
  BY <1>3 DEF UseInv, TableOk, RecvOk, IdOk
<1>10. \A d \in CPUs : IdleOk(envs'[d]) <=> IdleOk(envs[d])
  BY <1>3, CPUsAreSlots DEF IdleOk
<1>11. \A d \in CPUs : pc'[d] \in {"boot", "start_lock", "start"} => pc'[d] = pc[d]
  BY <1>1, <1>2
<1>12. \A d \in CPUs : pc[d] \in {"boot", "start_lock", "start"} => pc'[d] = pc[d]
  BY <1>1, <1>2
<1>13. 0 \in CPUs /\ Created' = Created
  BY <1>1, SizeAssumption DEF CPUs, Created
<1>14. IdleInv' /\ StartInv'
  BY <1>1, <1>10, <1>11, <1>12, <1>13 DEF UseInv, IdleInv, StartInv
<1>15. BootInv'
  BY <1>1, <1>10, <1>11, <1>12, <1>13 DEF UseInv, BootInv, OnlyZeroBoots
<1>16. QED
  BY <1>5, <1>6, <1>7, <1>8, <1>9, <1>14, <1>15 DEF UseInv

(* Entering the kernel moves a CPU and nothing else.                       *)
LEMMA EnterUse ==
  ASSUME UseInv, PlaceInv', NEW c \in CPUs, NEW label \in Labels,
         pc' = [pc EXCEPT ![c] = label], UNCHANGED <<envs, freeList, curenv>>,
         \/ pc[c] = "user" /\ label \in {"halted", "trap_lock", "sys_lock"}
         \/ pc[c] = "trap_lock" /\ label = "trap" /\ pc[0] # "boot"
         \/ pc[c] = "sys_lock" /\ label = "sys" /\ pc[0] # "boot"
         \/ pc[c] = "start_lock" /\ label = "start" /\ pc[0] # "boot"
  PROVE  UseInv'
<1>1. pc \in [CPUs -> Labels] /\ 0 \in CPUs
  BY SizeAssumption DEF UseInv, PlaceInv, TypeOK, CPUs
<1>2. \A d \in CPUs : Executing(d)' => Executing(d)
  BY <1>1 DEF Executing, UserSide
<1>3. ExecInv' /\ OneCPU' /\ HomeInv' /\ RunningHasCPU'
  BY <1>2 DEF UseInv, ExecInv, OneCPU, HomeInv, RunningHasCPU
<1>4. /\ \A d \in CPUs : pc'[d] = "boot" <=> pc[d] = "boot"
      /\ \A d \in CPUs : pc'[d] \in {"boot", "start_lock", "start"} =>
                          pc[d] \in {"boot", "start_lock", "start"}
      /\ pc[0] = "boot" => \A d \in CPUs : pc[d] = "start_lock" => pc'[d] = "start_lock"
  BY <1>1
<1>5. IdleInv' /\ StartInv'
  BY <1>1, <1>4 DEF UseInv, IdleInv, StartInv
<1>6. BootInv'
  BY <1>1, <1>4 DEF UseInv, BootInv, OnlyZeroBoots, Created
<1>7. QED
  BY <1>3, <1>5, <1>6 DEF UseInv

LEMMA UseInvNext ==
  ASSUME Programs \subseteq ProperUses
  PROVE  UseInv /\ [Next]_vars => UseInv'
<1> SUFFICES ASSUME UseInv, [Next]_vars PROVE UseInv'
  OBVIOUS
<1>1. PlaceInv'
  BY PlaceInvNext DEF UseInv
<1>2. CASE BootCreate
  BY <1>1, <1>2, BootCreateUse
<1>3. ASSUME NEW c \in CPUs, Pop(c) PROVE UseInv'
  BY <1>1, <1>3, PopUse
<1>4. ASSUME NEW c \in CPUs, TrapEnter(c) PROVE UseInv'
  <2>1. PICK label \in {"halted", "trap_lock"} : pc' = [pc EXCEPT ![c] = label]
    BY <1>4 DEF TrapEnter, Goto
  <2>2. label \in Labels
    BY <2>1 DEF Labels, UserSide
  <2>3. QED
    BY <1>1, <1>4, <2>1, <2>2, EnterUse DEF TrapEnter
<1>5. ASSUME NEW c \in CPUs, SysEnter(c) PROVE UseInv'
  <2>1. "sys_lock" \in Labels
    BY DEF Labels, UserSide
  <2>2. QED
    BY <1>1, <1>5, <2>1, EnterUse DEF SysEnter, Goto
<1>6. ASSUME NEW c \in CPUs, LockKernel(c) PROVE UseInv'
  <2>1. holder = NoCPU /\ pc[c] \in Locking /\ UNCHANGED <<envs, freeList, curenv>>
    BY <1>6 DEF LockKernel, Lock!Acquire
  <2>2. pc[0] # "boot"
    <3>1. 0 \in CPUs
      BY SizeAssumption DEF CPUs
    <3>2. QED
      BY <2>1, <3>1, NullAssumption DEF UseInv, PlaceInv, LockMatchesPlace, Inside
  <2>3. PICK label \in {"trap", "sys", "start"} :
          /\ pc' = [pc EXCEPT ![c] = label]
          /\ \/ pc[c] = "trap_lock" /\ label = "trap"
             \/ pc[c] = "sys_lock" /\ label = "sys"
             \/ pc[c] = "start_lock" /\ label = "start"
    BY <1>6, <2>1 DEF LockKernel, Locking, Goto
  <2>4. label \in Labels
    BY <2>3 DEF Labels, Inside
  <2>5. QED
    BY <1>1, <2>1, <2>2, <2>3, <2>4, EnterUse
<1>7. ASSUME NEW c \in CPUs, KernelStep(c) PROVE UseInv'
  BY <1>7, KernelStepUse
<1>8. CASE UNCHANGED vars
  <2>1. ExecInv' /\ OneCPU' /\ HomeInv' /\ RunningHasCPU' /\ IdleInv' /\ StartInv' /\ BootInv'
    BY <1>8 DEF vars, UseInv, ExecInv, OneCPU, HomeInv, RunningHasCPU, IdleInv, StartInv,
                BootInv, OnlyZeroBoots, Created, Executing
  <2>2. QED
    BY <1>1, <1>8, <2>1 DEF vars, UseInv
<1>9. QED
  BY <1>2, <1>3, <1>4, <1>5, <1>6, <1>7, <1>8 DEF Next, Step

LEMMA UseInvAlways ==
  ASSUME Programs \subseteq ProperUses
  PROVE  Spec => []UseInv
BY UseInvInit, UseInvNext, PTL DEF Spec

(* sched_yield(), env_run(): no environment ever executes on two CPUs, for *)
(* programs that start and destroy each child once.                        *)
THEOREM NobodyRunsTwice ==
  ASSUME Programs \subseteq ProperUses
  PROVE  Spec => []OneCPU
<1>1. UseInv => OneCPU
  BY DEF UseInv
<1>2. QED
  BY UseInvAlways, <1>1, PTL

(* env_free(), env_destroy(), env_pop_tf(): what a CPU executes is never   *)
(* freed, nor made ready for another CPU, before its CPU gives it up.      *)
THEOREM NothingFreedWhileRunning ==
  ASSUME Programs \subseteq ProperUses
  PROVE  Spec => []ExecutingIsRunning
<1>1. UseInv => ExecutingIsRunning
  BY DEF UseInv, ExecInv, OnCPU, ExecutingIsRunning, PlaceInv, ExecutesSome
<1>2. QED
  BY UseInvAlways, <1>1, PTL

(* env_run(), trap(): no environment is lost in the status RUNNING.        *)
THEOREM NoLostEnvironment ==
  ASSUME Programs \subseteq ProperUses
  PROVE  Spec => []RunningHasCPU
<1>1. UseInv => RunningHasCPU
  BY DEF UseInv
<1>2. QED
  BY UseInvAlways, <1>1, PTL

(* env_alloc(), env_free(): no slot is freed twice or forgotten.           *)
THEOREM FreeListIsExact ==
  ASSUME Programs \subseteq ProperUses
  PROVE  Spec => []FreeListExact
<1>1. UseInv => FreeListExact
  BY DEF UseInv, Exact, FreeListExact
<1>2. QED
  BY UseInvAlways, <1>1, PTL

(* sys_ipc_recv(), sys_ipc_try_send(): a receiver is woken by a message    *)
(* and by nothing else.                                                    *)
THEOREM ReceiversBlock ==
  ASSUME Programs \subseteq ProperUses
  PROVE  Spec => []ReceiverBlocked
<1>1. UseInv => ReceiverBlocked
  BY DEF UseInv, TableOk, RecvOk, ReceiverBlocked
<1>2. QED
  BY UseInvAlways, <1>1, PTL

(* sched_yield(): every CPU has its idle environment to itself and ready,  *)
(* so the panic "No idle environment!" is never reached.                   *)
THEOREM IdleIsThere ==
  ASSUME Programs \subseteq ProperUses
  PROVE  Spec => []IdleStaysHome
<1>1. UseInv => IdleStaysHome
  BY DEF UseInv, HomeInv, IdleInv, IdleOk, IdleStaysHome
<1>2. QED
  BY UseInvAlways, <1>1, PTL
=============================================================================
