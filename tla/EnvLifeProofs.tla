--------------------------- MODULE EnvLifeProofs ---------------------------
(***************************************************************************)
(* EnvSched keeps to the life of environments of EnvLife, for any number   *)
(* of processors and environments: every step of a handler is one step of  *)
(* EnvLife or changes nothing it speaks of.  And a message stays where it  *)
(* is, whatever the programs call.                                         *)
(***************************************************************************)
EXTENDS EnvSchedProofs

(* The variables of EnvLife, as functions of those of EnvSched.            *)
State == [e \in Slots |-> envs[e].status]
On    == [c \in CPUs |-> IF Executing(c) THEN curenv[c] ELSE NoEnv]

LifeStep == [Life!Next]_(Life!vars)

(* The steps of EnvLife in these terms.                                    *)
LEMMA SameLife == State' = State /\ On' = On => LifeStep
BY DEF State, On, LifeStep, Life!vars

LEMMA CreateLife ==
  ASSUME NEW e \in Slots, NEW how \in {"RUNNABLE", "NOT_RUNNABLE"}, State[e] = "FREE",
         State' = [State EXCEPT ![e] = how], On' = On
  PROVE  LifeStep
<1>1. Life!Create(e, how)
  BY DEF State, On, Life!Create
<1>2. QED
  BY <1>1 DEF LifeStep, Life!Next, Life!Lives

LEMMA ReadyLife ==
  ASSUME NEW e \in Slots, State[e] = "NOT_RUNNABLE",
         State' = [State EXCEPT ![e] = "RUNNABLE"], On' = On
  PROVE  LifeStep
<1>1. Life!Ready(e)
  BY DEF State, On, Life!Ready
<1>2. QED
  BY <1>1 DEF LifeStep, Life!Next

LEMMA KillLife ==
  ASSUME NEW e \in Slots, On' = On,
         \/ State[e] = "RUNNING" /\ State' = [State EXCEPT ![e] = "DYING"]
         \/ /\ State[e] \in {"RUNNABLE", "NOT_RUNNABLE"}
            /\ State' = [State EXCEPT ![e] = "FREE"]
  PROVE  LifeStep
<1>1. Life!Kill(e)
  BY DEF State, On, Life!Kill
<1>2. QED
  BY <1>1 DEF LifeStep, Life!Next

LEMMA TakeUpLife ==
  ASSUME NEW c \in CPUs, NEW f \in Slots, On[c] = NoEnv, State[f] = "RUNNABLE",
         State' = [State EXCEPT ![f] = "RUNNING"], On' = [On EXCEPT ![c] = f]
  PROVE  LifeStep
<1>1. Life!TakeUp(c, f)
  BY DEF State, On, Life!TakeUp
<1>2. QED
  BY <1>1 DEF LifeStep, Life!Next

(* How an environment can leave its processor, in the terms of EnvSched.   *)
Leaving(status) == IF status = "RUNNING" THEN {"RUNNABLE", "NOT_RUNNABLE", "FREE"}
                                         ELSE {"FREE", "DYING", "NOT_RUNNABLE"}

LEMMA ChangeLife ==
  ASSUME NEW c \in CPUs, NEW f \in Slots, NEW how \in Leaving(State[On[c]]),
         On[c] # NoEnv, State[f] = "RUNNABLE",
         State' = [State EXCEPT ![On[c]] = how, ![f] = "RUNNING"], On' = [On EXCEPT ![c] = f]
  PROVE  LifeStep
<1>1. Life!Change(c, how, f)
  BY DEF State, On, Leaving, Life!Change, Life!After
<1>2. how \in Life!Lives
  BY DEF Leaving, Life!Lives
<1>3. QED
  BY <1>1, <1>2 DEF LifeStep, Life!Next

LEMMA StopLife ==
  ASSUME NEW c \in CPUs, On[c] # NoEnv, On' = [On EXCEPT ![c] = NoEnv],
         \/ State' = State
         \/ \E how \in Leaving(State[On[c]]) : State' = [State EXCEPT ![On[c]] = how]
  PROVE  LifeStep
<1>1. Life!Stop(c)
  BY DEF State, On, Leaving, Life!Stop, Life!After
<1>2. QED
  BY <1>1 DEF LifeStep, Life!Next
-----------------------------------------------------------------------------
(* What the ways out of the kernel do to the variables of EnvLife.         *)
LEMMA OnAfterRun ==
  ASSUME TypeOK, NEW c \in CPUs, NEW table, NEW cur, NEW e, EnvRun(c, table, cur, e)
  PROVE  On' = [On EXCEPT ![c] = e]
<1>1. /\ curenv' = [curenv EXCEPT ![c] = e] /\ pc' = [pc EXCEPT ![c] = "pop"]
      /\ curenv \in [CPUs -> Slots \cup {NoEnv}] /\ pc \in [CPUs -> Labels]
  BY DEF EnvRun, Goto, TypeOK
<1>2. QED
  BY <1>1 DEF On, Executing

LEMMA OnAfterStay ==
  ASSUME TypeOK, NEW c \in CPUs, NEW table, NEW cur, Stays(c, table, cur)
  PROVE  On' = [On EXCEPT ![c] = NoEnv]
<1>1. /\ curenv' = [curenv EXCEPT ![c] = cur] /\ pc' = [pc EXCEPT ![c] = "monitor"]
      /\ curenv \in [CPUs -> Slots \cup {NoEnv}] /\ pc \in [CPUs -> Labels]
  BY DEF Stays, Goto, TypeOK
<1>2. QED
  BY <1>1 DEF On, Executing, UserSide

LEMMA StateAfterSwitch ==
  ASSUME NEW c \in CPUs, NEW table \in Tables, NEW cur \in MaybeEnv, NEW e \in Slots,
         cur # NoEnv => table[cur].status # "RUNNABLE", cur # e, EnvRun(c, table, cur, e)
  PROVE  \A x \in Slots : envs'[x].status =
            IF x = e THEN "RUNNING"
            ELSE IF x = cur /\ table[x].status = "RUNNING" THEN "RUNNABLE"
            ELSE table[x].status
<1> TAKE x \in Slots
<1>1. envs' = Switched(table, cur, e)
  BY DEF EnvRun
<1>2. QED
  BY <1>1, SwitchedFields

(* The scheduler leaves with a ready environment, with the caller's own or *)
(* not at all: it never falls back on an idle environment that runs.       *)
LEMMA SchedYieldTakes ==
  ASSUME UseInv, NEW c \in CPUs, NEW table, NEW cur, NEW list, Mid(c, table, cur, list),
         SchedYield(c, table, cur)
  PROVE  \/ \E e \in Slots : /\ EnvRun(c, table, cur, e)
                             /\ table[e].status = "RUNNABLE" /\ e # cur
         \/ cur # NoEnv /\ table[cur].status = "RUNNING" /\ EnvRun(c, table, cur, cur)
         \/ Stays(c, table, cur)
<1>1. cur # NoEnv => table[cur].status # "RUNNABLE"
  BY DEF Mid
<1>2. ASSUME NEW e \in FirstFrom(ScanStart(table, cur), Candidates(table)),
             EnvRun(c, table, cur, e)
      PROVE  e \in Slots /\ table[e].status = "RUNNABLE" /\ e # cur
  BY <1>1, <1>2, NullAssumption DEF FirstFrom, Candidates
<1>3. ASSUME RunIdle(c, table, cur), ~(cur # NoEnv /\ table[cur].status = "RUNNING")
      PROVE  \/ /\ EnvRun(c, table, cur, c) /\ c \in Slots
                /\ table[c].status = "RUNNABLE" /\ c # cur
             \/ Stays(c, table, cur)
  <2>1. c \in Slots /\ c # NoEnv
    BY CPUsAreSlots, NullAssumption
  <2>2. CASE table[c].status = "RUNNING"
    <3>1. PICK d \in CPUs : d # c /\ curenv[d] = c
      BY <1>3, <2>1, <2>2 DEF Mid
    <3>2. QED
      BY <3>1 DEF UseInv, HomeInv
  <2>3. CASE table[c].status = "RUNNABLE"
    BY <1>1, <1>3, <2>1, <2>3 DEF RunIdle
  <2>4. CASE table[c].status \notin {"RUNNABLE", "RUNNING"}
    BY <1>3, <2>4 DEF RunIdle, Panic, Stays
  <2>5. QED
    BY <2>2, <2>3, <2>4
<1>4. Monitor(c, table, cur) => Stays(c, table, cur)
  BY DEF Monitor, Stays
<1>5. QED
  BY <1>2, <1>3, <1>4 DEF SchedYield
-----------------------------------------------------------------------------
(* Leaving the kernel is one step of EnvLife: for a CPU that executes      *)
(* nothing yet, ...                                                        *)
LEMMA FirstYieldLife ==
  ASSUME UseInv, NEW c \in CPUs, ~Executing(c), NEW list, Mid(c, envs, NoEnv, list),
         SchedYield(c, envs, NoEnv)
  PROVE  LifeStep
<1>1. TypeOK /\ envs \in Tables /\ NoEnv \in MaybeEnv /\ On[c] = NoEnv
  BY DEF UseInv, PlaceInv, Mid, On
<1>2. ASSUME NEW e \in Slots, EnvRun(c, envs, NoEnv, e), envs[e].status = "RUNNABLE"
      PROVE  LifeStep
  <2>1. NoEnv # e
    BY NullAssumption
  <2>2. \A x \in Slots : envs'[x].status = IF x = e THEN "RUNNING" ELSE envs[x].status
    BY <1>1, <1>2, <2>1, NullAssumption, StateAfterSwitch
  <2>3. State' = [State EXCEPT ![e] = "RUNNING"] /\ State[e] = "RUNNABLE"
    BY <1>2, <2>2 DEF State
  <2>4. On' = [On EXCEPT ![c] = e]
    BY <1>1, <1>2, OnAfterRun
  <2>5. QED
    BY <1>1, <2>3, <2>4, TakeUpLife
<1>3. ASSUME Stays(c, envs, NoEnv) PROVE LifeStep
  <2>1. On' = [On EXCEPT ![c] = NoEnv]
    BY <1>1, <1>3, OnAfterStay
  <2>2. On' = On
    BY <1>1, <2>1 DEF On
  <2>3. State' = State
    BY <1>3 DEF Stays, State
  <2>4. QED
    BY <2>2, <2>3, SameLife
<1>4. QED
  BY <1>2, <1>3, SchedYieldTakes

(* ... for a CPU whose handler may have changed its own environment only.  *)
OwnChange(c, table, cur) ==
  /\ table[curenv[c]].status \in {envs[curenv[c]].status, "FREE", "NOT_RUNNABLE"}
  /\ \A x \in Slots : x # curenv[c] => table[x].status = envs[x].status
  /\ \/ cur = curenv[c]
     \/ cur = NoEnv /\ table[curenv[c]].status = "FREE"

LEMMA StayLife ==
  ASSUME UseInv, NEW c \in CPUs, pc[c] \in {"trap", "sys"}, NEW table, NEW cur,
         OwnChange(c, table, cur), Stays(c, table, cur)
  PROVE  LifeStep
<1>1. /\ curenv[c] \in Slots /\ curenv[c] # NoEnv /\ TypeOK /\ Executing(c)
      /\ OnCPU(envs[curenv[c]])
  BY InKernelUse
<1> DEFINE own == curenv[c]
           how == table[own].status
<1>2. On[c] = own /\ State[own] = envs[own].status /\ State[own] \in {"RUNNING", "DYING"}
  BY <1>1 DEF On, State, OnCPU
<1>3. On' = [On EXCEPT ![c] = NoEnv]
  BY <1>1, OnAfterStay
<1>4. State' = [State EXCEPT ![own] = how]
  BY DEF Stays, State, OwnChange
<1>5. how = State[own] => State' = State
  BY <1>1, <1>4 DEF State
<1>6. how # State[own] => how \in Leaving(State[own])
  BY <1>2 DEF OwnChange, Leaving
<1>7. QED
  BY <1>1, <1>2, <1>3, <1>4, <1>5, <1>6, StopLife

LEMMA YieldLife ==
  ASSUME UseInv, NEW c \in CPUs, pc[c] \in {"trap", "sys"}, NEW table, NEW cur, NEW list,
         Mid(c, table, cur, list), OwnChange(c, table, cur), SchedYield(c, table, cur)
  PROVE  LifeStep
<1>1. /\ curenv[c] \in Slots /\ curenv[c] # NoEnv /\ TypeOK /\ Executing(c)
      /\ OnCPU(envs[curenv[c]]) /\ table \in Tables /\ cur \in MaybeEnv
      /\ cur # NoEnv => table[cur].status # "RUNNABLE"
  BY InKernelUse DEF Mid
<1> DEFINE own == curenv[c]
<1>2. On[c] = own /\ State[own] = envs[own].status /\ State[own] \in {"RUNNING", "DYING"}
  BY <1>1 DEF On, State, OnCPU
<1>3. ASSUME NEW e \in Slots, EnvRun(c, table, cur, e), table[e].status = "RUNNABLE", e # cur
      PROVE  LifeStep
  <2> DEFINE how == IF table[own].status = "RUNNING" THEN "RUNNABLE" ELSE table[own].status
  <2>1. \A x \in Slots : envs'[x].status =
            IF x = e THEN "RUNNING"
            ELSE IF x = cur /\ table[x].status = "RUNNING" THEN "RUNNABLE"
            ELSE table[x].status
    BY <1>1, <1>3, StateAfterSwitch
  <2>2. e # own /\ table[e].status = envs[e].status
    BY <1>3 DEF OwnChange
  <2>3. \A x \in Slots : envs'[x].status = IF x = e THEN "RUNNING"
                                           ELSE IF x = own THEN how ELSE envs[x].status
    <3>1. CASE cur = own
      BY <2>1, <3>1 DEF OwnChange
    <3>2. CASE cur = NoEnv /\ table[own].status = "FREE"
      BY <2>1, <3>2, NullAssumption DEF OwnChange
    <3>3. QED
      BY <3>1, <3>2 DEF OwnChange
  <2>4. State' = [State EXCEPT ![own] = how, ![e] = "RUNNING"] /\ State[e] = "RUNNABLE"
    BY <1>3, <2>2, <2>3 DEF State
  <2>5. how \in Leaving(State[own])
    BY <1>2 DEF OwnChange, Leaving
  <2>6. On' = [On EXCEPT ![c] = e]
    BY <1>1, <1>3, OnAfterRun
  <2>7. QED
    BY <1>1, <1>2, <2>4, <2>5, <2>6, ChangeLife
<1>4. ASSUME cur # NoEnv, table[cur].status = "RUNNING", EnvRun(c, table, cur, cur)
      PROVE  LifeStep
  <2>1. cur = own /\ envs[own].status = "RUNNING" /\ envs' = table
    BY <1>2, <1>4 DEF OwnChange, EnvRun, Switched
  <2>2. State' = State
    BY <1>4, <2>1 DEF State, OwnChange
  <2>3. On' = [On EXCEPT ![c] = own]
    BY <1>1, <1>4, <2>1, OnAfterRun
  <2>4. On' = On
    BY <1>2, <2>3 DEF On
  <2>5. QED
    BY <2>2, <2>4, SameLife
<1>5. Stays(c, table, cur) => LifeStep
  BY StayLife
<1>6. QED
  BY <1>3, <1>4, <1>5, SchedYieldTakes

(* Back to the calling environment: EnvLife sees what the handler did to   *)
(* the table.                                                              *)
LEMMA BackLife ==
  ASSUME UseInv, NEW c \in CPUs, pc[c] \in {"trap", "sys"}, NEW table,
         EnvRun(c, table, curenv[c], curenv[c])
  PROVE  envs' = table /\ On' = On
<1>1. curenv[c] \in Slots /\ TypeOK /\ Executing(c)
  BY InKernelUse
<1>2. On' = [On EXCEPT ![c] = curenv[c]] /\ On[c] = curenv[c]
  BY <1>1, OnAfterRun DEF On
<1>3. On' = On
  BY <1>2 DEF On
<1>4. QED
  BY <1>3 DEF EnvRun, Switched
-----------------------------------------------------------------------------
(* The handlers, one by one.                                               *)
LEMMA DestroyCurrentLife ==
  ASSUME UseInv, NEW c \in CPUs, pc[c] \in {"trap", "sys"}, curenv[c] \notin CPUs,
         DestroyCurrent(c)
  PROVE  LifeStep
<1>1. /\ curenv[c] \in Slots /\ TypeOK /\ envs[curenv[c]].status # "FREE"
      /\ curenv[c] # NoEnv
      /\ \A d \in CPUs : Executing(d) /\ d # c => curenv[d] # curenv[c]
  BY InKernelUse
<1>2. freeList' = FreeListWith(curenv[c]) /\ SchedYield(c, EnvFree(curenv[c]), NoEnv)
  BY DEF DestroyCurrent
<1>3. PICK r \in Env : EnvFree(curenv[c]) = With(curenv[c], r) /\ r.status = "FREE"
  BY <1>1, StatusEntry DEF EnvFree, Statuses
<1>4. RecvOk(r) /\ IdOk(r)
  BY <1>3 DEF RecvOk, IdOk
<1>5. Exact(freeList', EnvFree(curenv[c])) /\ freeList' \in Seq(Slots)
  BY <1>1, <1>2, ExactFree, FreeListTypes DEF UseInv
<1>6. Mid(c, EnvFree(curenv[c]), NoEnv, freeList')
  BY <1>1, <1>3, <1>4, <1>5, MidChange
<1>7. OwnChange(c, EnvFree(curenv[c]), NoEnv)
  BY <1>1, <1>3, WithTable DEF OwnChange
<1>8. QED
  BY <1>2, <1>6, <1>7, YieldLife

LEMMA SysIpcRecvLife ==
  ASSUME UseInv, NEW c \in CPUs, SysIpcRecv(c)
  PROVE  LifeStep
<1> DEFINE e == curenv[c]
<1>1. /\ pc[c] \in {"trap", "sys"} /\ freeList' = freeList /\ envs[e].type = "USER"
      /\ SchedYield(c, Waiting(e), e)
  BY DEF SysIpcRecv, SysOf
<1>2. /\ TypeOK /\ e \in Slots /\ OnCPU(envs[e]) /\ e # NoEnv /\ envs[e].status # "FREE"
      /\ freeList \in Seq(Slots) /\ envs \in Tables
      /\ \A d \in CPUs : IdleOk(envs[d])
      /\ \A d \in CPUs : Executing(d) /\ d # c => curenv[d] # e
  BY <1>1, InKernelUse
<1>3. e \notin CPUs
  BY <1>1, <1>2 DEF IdleOk
<1>4. PICK r \in Env :
        /\ Waiting(e) = With(e, r)
        /\ r.status = "NOT_RUNNABLE" /\ r.id = envs[e].id /\ r.started = envs[e].started
        /\ r.recving /\ r.from = Zero
  BY <1>2, WaitingEntry
<1>5. RecvOk(r) /\ IdOk(r) /\ r.started
  BY <1>2, <1>4 DEF UseInv, TableOk, RecvOk, IdOk, OnCPU
<1>6. Exact(freeList, With(e, r))
  BY <1>2, <1>4, ExactKept DEF UseInv
<1>7. Mid(c, With(e, r), e, freeList)
  BY <1>1, <1>2, <1>3, <1>4, <1>5, <1>6, MidChange
<1>8. OwnChange(c, With(e, r), e)
  BY <1>2, <1>4, WithTable DEF OwnChange
<1>9. SchedYield(c, With(e, r), e)
  BY <1>1, <1>4
<1>10. QED
  BY <1>1, <1>7, <1>8, <1>9, YieldLife

(* What a handler finds that has changed nothing.                          *)
LEMMA SameTable ==
  ASSUME UseInv, NEW c \in CPUs, pc[c] \in {"trap", "sys"}
  PROVE  OwnChange(c, envs, curenv[c]) /\ Mid(c, envs, curenv[c], freeList)
BY MidSame DEF OwnChange

LEMMA TrapReturnLife ==
  ASSUME UseInv, NEW c \in CPUs, Trapped(c), NEW table,
         table[curenv[c]].status = envs[curenv[c]].status, TrapReturn(c, table)
  PROVE  envs' = table /\ On' = On
<1>1. pc[c] \in {"trap", "sys"} /\ ~Zombie(c)
  BY DEF Trapped
<1>2. envs[curenv[c]].status = "RUNNING"
  BY <1>1, InKernelUse DEF OnCPU, Zombie
<1>3. EnvRun(c, table, curenv[c], curenv[c])
  BY <1>2 DEF TrapReturn
<1>4. QED
  BY <1>1, <1>3, BackLife

LEMMA TrapExoforkLife ==
  ASSUME UseInv, NEW c \in CPUs, TrapExofork(c)
  PROVE  LifeStep
<1> DEFINE x == Head(freeList)
           table == EnvAlloc(x, envs[curenv[c]].id, "USER", "NOT_RUNNABLE")
<1>1. Trapped(c) /\ pc[c] \in {"trap", "sys"} /\ freeList # << >> /\ TrapReturn(c, table)
  BY DEF TrapExofork, TrapOf, Trapped
<1>2. /\ TypeOK /\ curenv[c] \in Slots /\ OnCPU(envs[curenv[c]]) /\ freeList \in Seq(Slots)
      /\ envs \in Tables
  BY <1>1, InKernelUse
<1>3. x \in Slots /\ envs[x].status = "FREE" /\ x # curenv[c]
  BY <1>1, <1>2, ExactHead DEF UseInv, OnCPU
<1>4. envs[curenv[c]].id \in EnvIds
  BY <1>2 DEF TypeOK, Env
<1>5. PICK r \in Env : table = With(x, r) /\ r.status = "NOT_RUNNABLE"
  <2>1. "NOT_RUNNABLE" \in Statuses /\ "USER" \in {"USER", "IDLE"}
    BY DEF Statuses
  <2>2. QED
    BY <1>2, <1>3, <1>4, <2>1, RenewedEntry
<1>6. table[x].status = "NOT_RUNNABLE" /\ \A e \in Slots : e # x => table[e] = envs[e]
  BY <1>2, <1>3, <1>5, WithTable
<1>7. envs' = table /\ On' = On
  <2>1. table[curenv[c]].status = envs[curenv[c]].status
    BY <1>2, <1>3, <1>6
  <2>2. QED
    BY <1>1, <2>1, TrapReturnLife
<1>8. State[x] = "FREE" /\ State' = [State EXCEPT ![x] = "NOT_RUNNABLE"]
  BY <1>3, <1>6, <1>7 DEF State
<1>9. QED
  BY <1>3, <1>7, <1>8, CreateLife

(* A system call that changes the entry of another environment.            *)
LEMMA OtherLife ==
  ASSUME UseInv, NEW c \in CPUs, pc[c] \in {"trap", "sys"}, NEW x \in Slots, NEW r \in Env,
         NEW table, table = With(x, r), SysReturn(c, table),
         \/ envs[x].status = "NOT_RUNNABLE" /\ r.status = "RUNNABLE"
         \/ envs[x].status = "RUNNING" /\ r.status = "DYING"
         \/ envs[x].status \in {"RUNNABLE", "NOT_RUNNABLE"} /\ r.status = "FREE"
  PROVE  LifeStep
<1>1. TypeOK
  BY DEF UseInv, PlaceInv
<1>2. table[x] = r /\ \A e \in Slots : e # x => table[e] = envs[e]
  BY <1>1, WithTable
<1>3. envs' = table /\ On' = On
  BY BackLife DEF SysReturn
<1>4. State[x] = envs[x].status /\ State' = [State EXCEPT ![x] = r.status]
  BY <1>2, <1>3 DEF State
<1>5. QED
  BY <1>3, <1>4, ReadyLife, KillLife

LEMMA SysEnvDestroyLife ==
  ASSUME UseInv, Programs \subseteq ProperUses, NEW c \in CPUs, SysEnvDestroy(c)
  PROVE  LifeStep
<1>1. pc[c] \in {"trap", "sys"} /\ TypeOK
  BY DEF SysEnvDestroy, SysOf, UseInv, PlaceInv
<1>2. PICK e \in Children(c) :
        /\ envs[e].status # "DYING"
        /\ IF envs[e].status = "RUNNING"
             THEN SysReturn(c, SetStatus(e, "DYING")) /\ UNCHANGED freeList
             ELSE SysReturn(c, EnvFree(e)) /\ freeList' = FreeListWith(e)
  BY DEF SysEnvDestroy, ProperUses
<1>3. e \in Slots \ CPUs /\ e # curenv[c] /\ envs[e].status # "FREE"
  BY <1>1, ChildIsLive
<1>4. envs[e].status \in Statuses
  BY <1>1, <1>3 DEF TypeOK, Env
<1>5. CASE envs[e].status = "RUNNING"
  <2>1. PICK r \in Env : SetStatus(e, "DYING") = With(e, r) /\ r.status = "DYING"
    BY <1>1, <1>3, StatusEntry DEF Statuses
  <2>2. QED
    BY <1>1, <1>2, <1>3, <1>5, <2>1, OtherLife
<1>6. CASE envs[e].status # "RUNNING"
  <2>1. PICK r \in Env : EnvFree(e) = With(e, r) /\ r.status = "FREE"
    BY <1>1, <1>3, StatusEntry DEF EnvFree, Statuses
  <2>2. envs[e].status \in {"RUNNABLE", "NOT_RUNNABLE"}
    BY <1>2, <1>3, <1>4, <1>6 DEF Statuses
  <2>3. SysReturn(c, EnvFree(e))
    BY <1>2, <1>6
  <2>4. QED
    BY <1>1, <1>3, <2>1, <2>2, <2>3, OtherLife
<1>7. QED
  BY <1>5, <1>6

LEMMA SysEnvSetStatusLife ==
  ASSUME UseInv, Programs \subseteq ProperUses, NEW c \in CPUs, SysEnvSetStatus(c)
  PROVE  LifeStep
<1>1. pc[c] \in {"trap", "sys"} /\ TypeOK
  BY DEF SysEnvSetStatus, UseInv, PlaceInv
<1>2. PICK e \in Children(c) : Fresh(e) /\ SysReturn(c, SetStatus(e, "RUNNABLE"))
  BY DEF SysEnvSetStatus, MaySetStatus, ProperUses
<1>3. e \in Slots
  BY <1>1, ChildIsLive
<1>4. PICK r \in Env : SetStatus(e, "RUNNABLE") = With(e, r) /\ r.status = "RUNNABLE"
  BY <1>1, <1>3, StatusEntry DEF Statuses
<1>5. QED
  BY <1>1, <1>2, <1>3, <1>4, OtherLife DEF Fresh

LEMMA SysIpcTrySendLife ==
  ASSUME UseInv, NEW c \in CPUs, SysIpcTrySend(c)
  PROVE  LifeStep
<1>1. pc[c] \in {"trap", "sys"} /\ TypeOK
  BY DEF SysIpcTrySend, SysOf, UseInv, PlaceInv
<1>2. PICK e \in Receivers(c) : SysReturn(c, Delivered(e, envs[curenv[c]].id))
  BY DEF SysIpcTrySend
<1>3. e \in Slots /\ envs[e].status = "NOT_RUNNABLE"
  BY <1>1, ReceiverWaits
<1>4. curenv[c] \in Slots /\ envs[curenv[c]].id \in EnvIds
  BY <1>1, InKernelUse DEF TypeOK, Env
<1>5. PICK r \in Env : Delivered(e, envs[curenv[c]].id) = With(e, r) /\ r.status = "RUNNABLE"
  BY <1>1, <1>3, <1>4, DeliveredEntry
<1>6. QED
  BY <1>1, <1>2, <1>3, <1>5, OtherLife

LEMMA BootYieldLife ==
  ASSUME UseInv, NEW c \in CPUs, BootYield(c)
  PROVE  LifeStep
<1>1. /\ pc[c] \in {"boot", "start"} /\ curenv[c] = NoEnv /\ holder = c
      /\ freeList' = freeList /\ SchedYield(c, envs, NoEnv)
      /\ pc[c] = "boot" => Created = NCPU + NUser
  BY DEF BootYield, UseInv, StartInv, PlaceInv, LockMatchesPlace, Inside
<1>2. Mid(c, envs, NoEnv, freeList)
  BY <1>1, BootYieldMid
<1>3. ~Executing(c)
  BY <1>1 DEF Executing, UserSide
<1>4. QED
  BY <1>1, <1>2, <1>3, FirstYieldLife

LEMMA KernelStepLife ==
  ASSUME UseInv, Programs \subseteq ProperUses, NEW c \in CPUs, KernelStep(c)
  PROVE  LifeStep
<1>1. CASE BootYield(c)
  BY <1>1, BootYieldLife
<1>2. CASE TrapZombie(c) \/ TrapUnexpected(c) \/ SysExit(c)
  <2>1. pc[c] \in {"trap", "sys"} /\ DestroyCurrent(c)
    BY <1>2 DEF TrapZombie, TrapUnexpected, TrapOf, Trapped, SysExit, SysOf
  <2>2. envs[curenv[c]].status = "DYING" \/ envs[curenv[c]].type = "USER"
    BY <1>2 DEF TrapZombie, Zombie, TrapUnexpected, TrapOf, SysExit, SysOf
  <2>3. curenv[c] \notin CPUs
    BY <2>1, <2>2, InKernelUse DEF IdleOk
  <2>4. QED
    BY <2>1, <2>3, DestroyCurrentLife
<1>3. CASE TrapTimer(c) \/ SysYield(c)
  <2>1. pc[c] \in {"trap", "sys"} /\ SchedYield(c, envs, curenv[c])
    BY <1>3 DEF TrapTimer, Trapped, SysYield
  <2>2. QED
    BY <2>1, SameTable, YieldLife
<1>4. CASE TrapSpurious(c) \/ TrapPageFault(c) \/ SysNothing(c)
  <2>1. envs' = envs /\ On' = On
    BY <1>4, TrapReturnLife, BackLife DEF TrapSpurious, TrapPageFault, SysNothing, SysReturn, Trapped
  <2>2. QED
    BY <2>1, SameLife DEF State
<1>5. CASE TrapBreakpoint(c)
  <2>1. pc[c] \in {"trap", "sys"} /\ Monitor(c, envs, curenv[c])
    BY <1>5 DEF TrapBreakpoint, TrapOf, Trapped
  <2>2. QED
    BY <2>1, SameTable, StayLife DEF Monitor, Stays
<1>6. ~TrapExoforkFails(c)
  BY DEF TrapExoforkFails, TrapOf, ProperUses
<1>7. QED
  BY <1>1, <1>2, <1>3, <1>4, <1>5, <1>6, TrapExoforkLife, SysEnvDestroyLife,
     SysEnvSetStatusLife, SysIpcRecvLife, SysIpcTrySendLife DEF KernelStep

(* ENV_CREATE of the boot makes an environment out of a free slot.         *)
LEMMA BootCreateLife ==
  ASSUME UseInv, BootCreate
  PROVE  LifeStep
<1> DEFINE x == Head(freeList)
           type == IF Created < NCPU THEN "IDLE" ELSE "USER"
<1>1. /\ Created < NCPU + NUser /\ envs' = EnvAlloc(x, Zero, type, "RUNNABLE")
      /\ UNCHANGED <<curenv, pc>>
  BY DEF BootCreate
<1>2. TypeOK /\ freeList \in Seq(Slots) /\ Exact(freeList, envs)
  BY DEF UseInv, PlaceInv, TypeOK
<1>3. freeList # << >>
  BY <1>1, <1>2, SizeAssumption DEF Created
<1>4. x \in Slots /\ envs[x].status = "FREE"
  BY <1>2, <1>3, ExactHead
<1>5. PICK r \in Env : EnvAlloc(x, Zero, type, "RUNNABLE") = With(x, r) /\ r.status = "RUNNABLE"
  <2>1. "RUNNABLE" \in Statuses /\ type \in {"USER", "IDLE"}
    BY DEF Statuses
  <2>2. QED
    BY <1>2, <1>4, <2>1, ZeroIsId, RenewedEntry
<1>6. envs'[x] = r /\ \A e \in Slots : e # x => envs'[e] = envs[e]
  BY <1>1, <1>2, <1>4, <1>5, WithTable
<1>7. State[x] = "FREE" /\ State' = [State EXCEPT ![x] = "RUNNABLE"]
  BY <1>4, <1>5, <1>6 DEF State
<1>8. On' = On
  BY <1>1 DEF On, Executing
<1>9. QED
  BY <1>4, <1>7, <1>8, CreateLife

(* Outside the kernel nothing happens that EnvLife speaks of, but that a   *)
(* CPU halts when another one has panicked.                                *)
LEMMA PopLife ==
  ASSUME UseInv, NEW c \in CPUs, Pop(c)
  PROVE  LifeStep
<1>1. TypeOK /\ curenv[c] \in Slots
  BY DEF UseInv, PlaceInv, ExecutesSome, Executing, Pop
<1>2. State' = State
  BY <1>1 DEF Pop, State, TypeOK, Env
<1>3. On' = On
  BY <1>1 DEF Pop, Goto, On, Executing, UserSide, TypeOK
<1>4. QED
  BY <1>2, <1>3, SameLife

LEMMA LockKernelLife ==
  ASSUME UseInv, NEW c \in CPUs, LockKernel(c)
  PROVE  LifeStep
<1>1. PICK label \in {"trap", "sys", "start"} :
        /\ pc' = [pc EXCEPT ![c] = label]
        /\ \/ pc[c] = "trap_lock" /\ label = "trap"
           \/ pc[c] = "sys_lock" /\ label = "sys"
           \/ pc[c] = "start_lock" /\ label = "start"
  BY DEF LockKernel, Locking, Goto
<1>2. pc \in [CPUs -> Labels] /\ UNCHANGED <<envs, curenv>>
  BY DEF UseInv, PlaceInv, TypeOK, LockKernel
<1>3. On' = On /\ State' = State
  BY <1>1, <1>2 DEF On, State, Executing, UserSide
<1>4. QED
  BY <1>3, SameLife

LEMMA EnterLife ==
  ASSUME UseInv, NEW c \in CPUs, TrapEnter(c) \/ SysEnter(c)
  PROVE  LifeStep
<1>1. /\ pc \in [CPUs -> Labels] /\ pc[c] = "user" /\ UNCHANGED <<envs, curenv>>
      /\ Executing(c) /\ curenv[c] \in Slots /\ On[c] = curenv[c]
  BY DEF UseInv, PlaceInv, ExecutesSome, TypeOK, TrapEnter, SysEnter, Executing, UserSide, On
<1>2. PICK label \in {"halted", "trap_lock", "sys_lock"} : pc' = [pc EXCEPT ![c] = label]
  BY DEF TrapEnter, SysEnter, Goto
<1>3. State' = State
  BY <1>1 DEF State
<1>4. CASE label = "halted"
  <2>1. On' = [On EXCEPT ![c] = NoEnv]
    BY <1>1, <1>2, <1>4 DEF On, Executing, UserSide
  <2>2. QED
    BY <1>1, <1>3, <2>1, NullAssumption, StopLife
<1>5. CASE label # "halted"
  <2>1. On' = On
    BY <1>1, <1>2, <1>5 DEF On, Executing, UserSide
  <2>2. QED
    BY <1>3, <2>1, SameLife
<1>6. QED
  BY <1>4, <1>5

(* env.c, sched.c, trap.c and syscall.c together keep to EnvLife, for      *)
(* programs that start and destroy each child once: an environment is      *)
(* taken up only when it is ready, and only its own processor ends its run.*)
THEOREM KeepsToEnvLife ==
  ASSUME Programs \subseteq ProperUses
  PROVE  Spec => ImplementsEnvLife
<1>1. Init => Life!Init
  <2>1. Init => \A c \in CPUs : ~Executing(c)
    BY DEF Init, Executing, UserSide
  <2>2. QED
    BY <2>1 DEF Init, Life!Init
<1>2. UseInv /\ [Next]_vars => [Life!Next]_(Life!vars)
  <2> SUFFICES ASSUME UseInv, [Next]_vars PROVE LifeStep
    BY DEF LifeStep
  <2>1. CASE BootCreate
    BY <2>1, BootCreateLife
  <2>2. ASSUME NEW c \in CPUs, Step(c) PROVE LifeStep
    BY <2>2, PopLife, EnterLife, LockKernelLife, KernelStepLife DEF Step
  <2>3. CASE UNCHANGED vars
    <3>1. State' = State /\ On' = On
      BY <2>3 DEF vars, State, On, Executing
    <3>2. QED
      BY <3>1, SameLife
  <2>4. QED
    BY <2>1, <2>2, <2>3 DEF Next
<1>3. QED
  BY <1>1, <1>2, UseInvAlways, PTL DEF Spec, ImplementsEnvLife, Life!Spec
-----------------------------------------------------------------------------
(* Messages.  Nothing on the way out of the kernel touches env_ipc_from.   *)
LEMMA SwitchedFrom ==
  ASSUME NEW table \in Tables, NEW cur \in MaybeEnv, NEW e \in Slots, NEW x \in Slots
  PROVE  Switched(table, cur, e)[x].from = table[x].from
<1> DEFINE d == Descheduled(table, cur)
<1>1. d \in Tables /\ d[x].from = table[x].from
  BY NullAssumption DEF Descheduled, Tables, MaybeEnv, Env, Statuses
<1>2. x # e \/ cur = e => Switched(table, cur, e)[x] = IF cur = e THEN table[x] ELSE d[x]
  BY <1>1 DEF Switched, Tables
<1>3. x = e /\ cur # e => Switched(table, cur, e)[x]
                            = [d[x] EXCEPT !.status = "RUNNING", !.started = TRUE]
  BY <1>1 DEF Switched, Tables
<1>4. [d[x] EXCEPT !.status = "RUNNING", !.started = TRUE].from = d[x].from
  BY <1>1 DEF Tables, Env
<1>5. QED
  BY <1>1, <1>2, <1>3, <1>4

LEMMA LeaveFrom ==
  ASSUME NEW c \in CPUs, NEW table \in Tables, NEW cur \in MaybeEnv,
         \/ SchedYield(c, table, cur)
         \/ \E e \in Slots : EnvRun(c, table, cur, e)
         \/ Monitor(c, table, cur)
         \/ Panic(c, table, cur)
  PROVE  \A x \in Slots : envs'[x].from = table[x].from
<1>1. ASSUME NEW e \in Slots, EnvRun(c, table, cur, e)
      PROVE  \A x \in Slots : envs'[x].from = table[x].from
  BY <1>1, SwitchedFrom DEF EnvRun
<1>2. Stays(c, table, cur) \/ Monitor(c, table, cur) \/ Panic(c, table, cur)
        => \A x \in Slots : envs'[x].from = table[x].from
  BY DEF Stays, Monitor, Panic
<1>3. (\E e \in Slots : Runs(c, table, cur, e)) => \E e \in Slots : EnvRun(c, table, cur, e)
  BY DEF Runs
<1>4. QED
  BY <1>1, <1>2, <1>3, SchedYieldEffect

(* The same for the ways back that a handler with an environment takes.    *)
LEMMA ReturnFrom ==
  ASSUME PlaceInv, NEW c \in CPUs, pc[c] \in {"trap", "sys"}, NEW table \in Tables,
         \/ SysReturn(c, table)
         \/ TrapReturn(c, table)
         \/ SchedYield(c, table, curenv[c])
         \/ Monitor(c, table, curenv[c])
         \/ Panic(c, table, curenv[c])
  PROVE  \A x \in Slots : envs'[x].from = table[x].from
<1>1. curenv[c] \in Slots /\ curenv[c] \in MaybeEnv
  BY InKernel
<1>2. QED
  BY <1>1, LeaveFrom DEF SysReturn, TrapReturn

(* A table with the messages of envs.                                      *)
SameFrom(table) == \A x \in Slots : table[x].from = envs[x].from

LEMMA SetStatusFrom ==
  ASSUME TypeOK, NEW e \in Slots, NEW status \in Statuses
  PROVE  /\ SetStatus(e, status) \in Tables /\ SameFrom(SetStatus(e, status))
         /\ EnvFree(e) \in Tables /\ SameFrom(EnvFree(e))
<1>1. ASSUME NEW s \in Statuses PROVE SetStatus(e, s) \in Tables /\ SameFrom(SetStatus(e, s))
  BY <1>1, SetStatusTable DEF SetStatus, SameFrom, TypeOK, Env
<1>2. QED
  BY <1>1 DEF EnvFree, Statuses

LEMMA EnvAllocFrom ==
  ASSUME TypeOK, NEW e \in Slots, NEW parent \in EnvIds,
         NEW type \in {"USER", "IDLE"}, NEW status \in Statuses
  PROVE  /\ EnvAlloc(e, parent, type, status) \in Tables
         /\ SameFrom(EnvAlloc(e, parent, type, status))
<1>1. envs[e] \in Env /\ envs \in [Slots -> Env]
  BY DEF TypeOK
<1>2. Renewed(envs[e], e, parent, type, status).from = envs[e].from
  BY <1>1 DEF Renewed, Env
<1>3. QED
  BY <1>1, <1>2, EnvAllocTable DEF EnvAlloc, SameFrom

(* What a step of CPU c may do to the message of x.                        *)
MessageStays(c, x) == \/ envs[x].from = Zero
                      \/ envs'[x].from = envs[x].from
                      \/ pc[c] = "sys" /\ curenv[c] = x /\ pc'[c] # "sys"

LEMMA KernelStepMessage ==
  ASSUME PlaceInv, NEW c \in CPUs, KernelStep(c), NEW x \in Slots
  PROVE  MessageStays(c, x)
<1> USE DEF PlaceInv
<1>1. envs \in Tables /\ TypeOK /\ SameFrom(envs)
  BY DEF TypeOK, Tables, SameFrom
<1>2. ASSUME pc[c] \in {"trap", "sys"}, NEW table \in Tables, SameFrom(table),
             \/ SysReturn(c, table)
             \/ TrapReturn(c, table)
             \/ SchedYield(c, table, curenv[c])
             \/ Monitor(c, table, curenv[c])
             \/ Panic(c, table, curenv[c])
      PROVE  MessageStays(c, x)
  BY <1>2, ReturnFrom DEF SameFrom, MessageStays
<1>3. CASE BootYield(c)
  <2>1. curenv[c] \in MaybeEnv /\ SchedYield(c, envs, curenv[c])
    BY <1>3 DEF BootYield, TypeOK, MaybeEnv
  <2>2. QED
    BY <1>1, <2>1, LeaveFrom DEF MessageStays
<1>4. CASE TrapZombie(c) \/ TrapUnexpected(c) \/ SysExit(c)
  <2>1. pc[c] \in {"trap", "sys"} /\ SchedYield(c, EnvFree(curenv[c]), NoEnv)
    BY <1>4 DEF TrapZombie, TrapUnexpected, TrapOf, Trapped, SysExit, SysOf, DestroyCurrent
  <2>2. EnvFree(curenv[c]) \in Tables /\ SameFrom(EnvFree(curenv[c])) /\ NoEnv \in MaybeEnv
    BY <1>1, <2>1, InKernel, SetStatusFrom DEF MaybeEnv, Statuses
  <2>3. QED
    BY <2>1, <2>2, LeaveFrom DEF SameFrom, MessageStays
<1>5. CASE TrapTimer(c) \/ TrapSpurious(c) \/ TrapPageFault(c) \/ TrapBreakpoint(c)
           \/ SysYield(c) \/ SysNothing(c)
  BY <1>1, <1>2, <1>5
     DEF TrapTimer, TrapSpurious, TrapPageFault, TrapBreakpoint, TrapOf, Trapped, SysYield, SysNothing
<1>6. CASE TrapExofork(c)
  <2>1. pc[c] \in {"trap", "sys"} /\ curenv[c] \in Slots
    BY <1>6, InKernel DEF TrapExofork, TrapOf, Trapped
  <2>2. Head(freeList) \in Slots /\ envs[curenv[c]].id \in EnvIds
    BY <1>1, <1>6, <2>1, FreeListTypes DEF TrapExofork, TypeOK, Env
  <2>3. QED
    BY <1>1, <1>2, <1>6, <2>1, <2>2, EnvAllocFrom DEF TrapExofork, Statuses
<1>7. CASE TrapExoforkFails(c)
  <2>1. pc[c] \in {"trap", "sys"}
    BY <1>7 DEF TrapExoforkFails, TrapOf, Trapped
  <2>2. QED
    BY <1>1, <1>2, <1>7, <2>1, SetStatusFrom DEF TrapExoforkFails, Statuses
<1>8. CASE SysEnvDestroy(c) \/ SysEnvSetStatus(c)
  <2>1. pc[c] \in {"trap", "sys"} /\ curenv[c] \in Slots
    BY <1>8, InKernel DEF SysEnvDestroy, SysEnvSetStatus, SysOf
  <2>2. PICK e \in Children(c) \cup {curenv[c]}, status \in Statuses :
          SysReturn(c, SetStatus(e, status)) \/ SysReturn(c, EnvFree(e))
    BY <1>8 DEF SysEnvDestroy, SysEnvSetStatus, Statuses
  <2>3. e \in Slots
    BY <2>1, Envid2EnvTypes
  <2>4. QED
    BY <1>1, <1>2, <2>1, <2>2, <2>3, SetStatusFrom
<1>9. CASE SysIpcRecv(c)
  <2>1. /\ pc[c] = "sys" /\ curenv[c] \in Slots /\ curenv[c] \in MaybeEnv
        /\ SchedYield(c, Waiting(curenv[c]), curenv[c])
    BY <1>9, InKernel DEF SysIpcRecv, SysOf
  <2>2. Waiting(curenv[c]) \in Tables
    BY <1>1, <2>1, WaitingTable
  <2>3. CASE x = curenv[c]
    <3>1. pc'[c] \in {"pop", "monitor"}
      BY <2>1, <2>2, SchedYieldEffect DEF Runs, EnvRun, Stays, Goto, TypeOK
    <3>2. QED
      BY <2>1, <2>3, <3>1 DEF MessageStays
  <2>4. CASE x # curenv[c]
    <3>1. envs'[x].from = Waiting(curenv[c])[x].from
      BY <2>1, <2>2, LeaveFrom
    <3>2. Waiting(curenv[c])[x] = envs[x]
      BY <2>4 DEF Waiting, TypeOK
    <3>3. QED
      BY <3>1, <3>2 DEF MessageStays
  <2>5. QED
    BY <2>3, <2>4
<1>10. CASE SysIpcTrySend(c)
  <2>1. pc[c] \in {"trap", "sys"} /\ curenv[c] \in Slots
    BY <1>10, InKernel DEF SysIpcTrySend, SysOf
  <2>2. PICK e \in Receivers(c) : SysReturn(c, Delivered(e, envs[curenv[c]].id))
    BY <1>10 DEF SysIpcTrySend
  <2>3. e \in Slots /\ envs[curenv[c]].id \in EnvIds /\ envs[e].from = Zero
    BY <2>1, <2>2, Envid2EnvTypes DEF Receivers, CanReceive, TypeOK, Env
  <2>4. Delivered(e, envs[curenv[c]].id) \in Tables
    BY <1>1, <2>3, DeliveredTable
  <2>5. x # e => envs'[x].from = envs[x].from
    <3>1. envs'[x].from = Delivered(e, envs[curenv[c]].id)[x].from
      BY <2>1, <2>2, <2>4, ReturnFrom
    <3>2. x # e => Delivered(e, envs[curenv[c]].id)[x] = envs[x]
      BY DEF Delivered, TypeOK
    <3>3. QED
      BY <3>1, <3>2
  <2>6. QED
    BY <2>3, <2>5 DEF MessageStays
<1>11. QED
  BY <1>3, <1>4, <1>5, <1>6, <1>7, <1>8, <1>9, <1>10 DEF KernelStep

(* sys_ipc_try_send(), env_alloc(), env_free() and the rest of the kernel  *)
(* leave a message where it is until its receiver makes a system call,     *)
(* whatever the programs call: senders cannot overwrite each other, and an *)
(* exit, a fork or a switch of environments does not lose a message.       *)
THEOREM MessagesAreKept == Spec => MessageKept
<1> DEFINE Kept == \A e \in Slots : envs[e].from # Zero =>
       \/ envs'[e].from = envs[e].from
       \/ \E c \in CPUs : pc[c] = "sys" /\ curenv[c] = e /\ pc'[c] # "sys"
<1>1. ASSUME PlaceInv, [Next]_vars PROVE Kept
  <2> SUFFICES ASSUME NEW x \in Slots, envs[x].from # Zero
               PROVE  \/ envs'[x].from = envs[x].from
                      \/ \E c \in CPUs : pc[c] = "sys" /\ curenv[c] = x /\ pc'[c] # "sys"
    OBVIOUS
  <2>1. TypeOK
    BY <1>1 DEF PlaceInv
  <2>2. CASE BootCreate
    <3>1. freeList # << >>
      BY <2>1, <2>2, SizeAssumption DEF BootCreate, Created, TypeOK
    <3>2. Head(freeList) \in Slots /\ Zero \in EnvIds
      BY <2>1, <3>1, FreeListTypes, ZeroIsId
    <3>3. "RUNNABLE" \in Statuses
          /\ (IF Created < NCPU THEN "IDLE" ELSE "USER") \in {"USER", "IDLE"}
      BY DEF Statuses
    <3>4. QED
      BY <2>1, <2>2, <3>2, <3>3, EnvAllocFrom DEF BootCreate, SameFrom
  <2>3. ASSUME NEW c \in CPUs, Pop(c) PROVE envs'[x].from = envs[x].from
    BY <2>1, <2>3 DEF Pop, TypeOK, Env
  <2>4. ASSUME NEW c \in CPUs, KernelStep(c) PROVE MessageStays(c, x)
    BY <1>1, <2>4, KernelStepMessage
  <2>5. QED
    BY <1>1, <2>2, <2>3, <2>4
       DEF Next, Step, TrapEnter, SysEnter, LockKernel, vars, MessageStays
<1>2. QED
  BY <1>1, PlaceInvAlways, PTL DEF Spec, MessageKept
=============================================================================
