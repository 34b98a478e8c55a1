----------------------------- MODULE BootProofs -----------------------------
(***************************************************************************)
(* For any number of CPUs and any machine: the CPUs start one at a time,   *)
(* each on its own stack, and none schedules before there is something to  *)
(* run; once they have left those stacks no two are on one; and of all     *)
(* pages the boot hands out or keeps in the list each one once, but those  *)
(* in use and those that its own tests forget.                             *)
(***************************************************************************)
EXTENDS Machine, SequenceTheorems, TLAPS

(* Places of a CPU: of the one that boots, of the others on their way, and *)
(* of all of them when they run programs.                                  *)
Booting  == {"start", "mp_init", "lock_kernel"}
Waking   == {"boot_aps", "wait"}
Entering == {"mpentry"}
Running  == {"user", "trap", "kernel"}
OnStart  == {"mp_main", "started", "lock"}

PcOfBsp == Booting \cup Waking \cup {"sched_yield"} \cup Running
PcOfAp  == {"halted"} \cup Entering \cup OnStart \cup {"sched_yield"} \cup Running

(* The stack each CPU starts on.                                           *)
StartStack(c) == IF c = 0 THEN Bootstack ELSE c

Types ==
  /\ machine \in Machines
  /\ pc \in [CPU -> PcOfBsp \cup PcOfAp]
  /\ pc[0] \in PcOfBsp /\ \A c \in CPU \ {0} : pc[c] \in PcOfAp
  /\ frames \in [CPU -> Int \cup {None}] /\ esp0 \in [CPU -> Int \cup {None}]
  /\ status \in [CPU -> {"CPU_UNUSED", "CPU_STARTED"}]
  /\ next \in Int /\ mp.ncpu \in 0 .. NCPU

(* Where the frames of a CPU are.                                          *)
FramesOf(c) ==
  /\ pc[c] \in Booting \cup Waking \cup OnStart \cup {"sched_yield"} => frames[c] = StartStack(c)
  /\ pc[c] \in {"trap", "kernel"} => frames[c] = c - 1
  /\ pc[c] \in {"halted", "user"} \cup Entering => frames[c] = None
  /\ pc[c] \in Waking \cup {"lock_kernel", "started", "lock", "sched_yield"} \cup Running => esp0[c] = c - 1

(* How far the boot is: before the other CPUs, ...                         *)
Alone == pc[0] \in Booting =>
  /\ ~envs /\ lock = None
  /\ \A c \in CPU \ {0} : pc[c] = "halted"

(* ... while it wakes them one by one with the lock held, those before     *)
(* next waiting for the lock and those after it asleep, ...                *)
OneByOne == pc[0] \in Waking =>
  /\ ~envs /\ lock = 0 /\ next > 0
  /\ \A c \in CPU \ {0} : c < next => pc[c] = "lock"
  /\ \A c \in CPU \ {0} : c > next => pc[c] = "halted"
AtNext ==
  /\ pc[0] = "boot_aps" => \A c \in CPU \ {0} : c = next => pc[c] = "halted"
  /\ pc[0] = "wait" => /\ next \in CPU \ {0} /\ kstack = next
                       /\ pc[next] \in Entering \cup OnStart

(* ... and when it is done.                                                *)
Done == pc[0] \notin Booting \cup Waking =>
  /\ envs
  /\ \A c \in CPU \ {0} : pc[c] \in {"halted", "lock", "sched_yield"} \cup Running

Reported == \A c \in CPU \ {0} : status[c] = "CPU_STARTED" => pc[c] \notin Starting \cup {"halted"}
Locked   == \A c \in CPU : pc[c] \in Scheduling => lock = c

BootInv ==
  /\ Types
  /\ \A c \in CPU : FramesOf(c)
  /\ Alone /\ OneByOne /\ AtNext /\ Done
  /\ Reported /\ Locked

LEMMA ZeroIsCPU == 0 \in CPU
BY SizeAssumption DEF CPU

LEMMA CPUsAreNumbers == CPU \subseteq Int /\ NCPU \in Int /\ None \notin CPU
BY SizeAssumption DEF CPU

LEMMA BootInvInit == Init => BootInv
<1> SUFFICES ASSUME BootInit PROVE BootInv
  BY DEF Init
<1> USE ZeroIsCPU, CPUsAreNumbers DEF BootInit
<1>1. Types
  BY SizeAssumption DEF Types, PcOfBsp, PcOfAp, Booting, Bootstack
<1>2. ASSUME NEW c \in CPU PROVE FramesOf(c)
  BY DEF FramesOf, StartStack, Booting, Waking, OnStart, Running, Entering
<1>3. Alone /\ OneByOne /\ AtNext /\ Done /\ Reported /\ Locked
  BY DEF Alone, OneByOne, AtNext, Done, Reported, Locked, Booting, Waking, Scheduling, Starting
<1>4. QED
  BY <1>1, <1>2, <1>3 DEF BootInv

-----------------------------------------------------------------------------
(* Each step of the boot CPU, ...                                          *)
LEMMA MemInitStep == BootInv /\ MemInit => BootInv'
<1> SUFFICES ASSUME BootInv, MemInit PROVE BootInv'
  OBVIOUS
<1> USE ZeroIsCPU, CPUsAreNumbers DEF BootInv, MemInit, Jump, table, stacks
<1>1. Types'
  BY DEF Types, PcOfBsp, Booting
<1>2. ASSUME NEW c \in CPU PROVE FramesOf(c)'
  BY DEF Types, FramesOf, Booting, Waking, OnStart, Running, Entering
<1>3. (Alone /\ OneByOne /\ AtNext /\ Done /\ Reported /\ Locked)'
  BY DEF Types, Alone, OneByOne, AtNext, Done, Reported, Locked, Booting, Waking, Scheduling, Starting
<1>4. QED
  BY <1>1, <1>2, <1>3

LEMMA MpInitStep == BootInv /\ MpInit => BootInv'
<1> SUFFICES ASSUME BootInv, MpInit PROVE BootInv'
  OBVIOUS
<1> USE ZeroIsCPU, CPUsAreNumbers DEF BootInv, MpInit, Jump, TrapInitPercpu, TrapStack, memory
<1>1. mp'.ncpu \in 0 .. NCPU /\ mp_init(machine).bootcpu = 0
  BY MpInitAssumption DEF Types
<1>2. Types'
  BY <1>1 DEF Types, PcOfBsp, Booting
<1>3. ASSUME NEW c \in CPU PROVE FramesOf(c)'
  BY DEF Types, FramesOf, Booting, Waking, OnStart, Running, Entering
<1>4. Reported'
  BY <1>1 DEF Types, Reported
<1>5. (Alone /\ OneByOne /\ AtNext /\ Done /\ Locked)'
  BY DEF Types, Alone, OneByOne, AtNext, Done, Locked, Booting, Waking, Scheduling
<1>6. QED
  BY <1>2, <1>3, <1>4, <1>5

LEMMA LockBootStep == BootInv /\ LockBoot => BootInv'
<1> SUFFICES ASSUME BootInv, LockBoot PROVE BootInv'
  OBVIOUS
<1> USE ZeroIsCPU, CPUsAreNumbers DEF BootInv, LockBoot, Jump, memory, table, stacks
<1>1. Types'
  BY DEF Types, PcOfBsp, Waking
<1>2. ASSUME NEW c \in CPU PROVE FramesOf(c)'
  BY DEF Types, FramesOf, Booting, Waking, OnStart, Running, Entering
<1>3. OneByOne' /\ AtNext'
  BY DEF Types, Alone, OneByOne, AtNext, Booting, Waking, CPU
<1>4. (Alone /\ Done /\ Reported /\ Locked)'
  BY DEF Types, Alone, Done, Reported, Locked, Booting, Waking, Scheduling, Starting
<1>5. QED
  BY <1>1, <1>2, <1>3, <1>4

LEMMA StartApStep == BootInv /\ StartAp => BootInv'
<1> SUFFICES ASSUME BootInv, StartAp PROVE BootInv'
  OBVIOUS
<1> USE ZeroIsCPU, CPUsAreNumbers DEF BootInv, StartAp, memory, table, stacks
<1>1. next \in CPU \ {0} /\ pc[next] = "halted"
  BY DEF Types, OneByOne, AtNext, Waking, CPU
<1>2. pc' \in [CPU -> PcOfBsp \cup PcOfAp] /\ pc'[0] = "wait" /\ pc'[next] = "mpentry"
      /\ \A c \in CPU \ {0, next} : pc'[c] = pc[c]
  BY <1>1 DEF Types, PcOfBsp, PcOfAp, Waking, Entering
<1>3. Types'
  BY <1>1, <1>2 DEF Types, PcOfBsp, PcOfAp, Waking, Entering
<1>4. ASSUME NEW c \in CPU PROVE FramesOf(c)'
  BY <1>1, <1>2 DEF Types, FramesOf, Booting, Waking, OnStart, Running, Entering
<1>5. OneByOne' /\ AtNext'
  BY <1>1, <1>2 DEF OneByOne, AtNext, Waking, Entering
<1>6. (Alone /\ Done /\ Reported /\ Locked)'
  BY <1>1, <1>2 DEF Alone, Done, Reported, Locked, Booting, Waking, Scheduling, Starting
<1>7. QED
  BY <1>3, <1>4, <1>5, <1>6

LEMMA WaitApStep == BootInv /\ WaitAp => BootInv'
<1> SUFFICES ASSUME BootInv, WaitAp PROVE BootInv'
  OBVIOUS
<1> USE ZeroIsCPU, CPUsAreNumbers DEF BootInv, WaitAp, ApIsUp, Jump, memory, table, stacks
<1>1. pc[next] = "lock"
  BY DEF AtNext, Reported, Starting, Entering, OnStart
<1>2. Types'
  BY DEF Types, PcOfBsp, Waking
<1>3. ASSUME NEW c \in CPU PROVE FramesOf(c)'
  BY DEF Types, FramesOf, Booting, Waking, OnStart, Running, Entering
<1>4. OneByOne'
  BY <1>1 DEF Types, OneByOne, AtNext, Waking
<1>5. AtNext'
  BY DEF Types, OneByOne, AtNext, Waking
<1>6. (Alone /\ Done /\ Reported /\ Locked)'
  BY DEF Types, Alone, Done, Reported, Locked, Booting, Waking, Scheduling, Starting
<1>7. QED
  BY <1>2, <1>3, <1>4, <1>5, <1>6

LEMMA EnvCreateStep == BootInv /\ EnvCreate => BootInv'
<1> SUFFICES ASSUME BootInv, EnvCreate PROVE BootInv'
  OBVIOUS
<1> USE ZeroIsCPU, CPUsAreNumbers DEF BootInv, EnvCreate, Jump, table, stacks
<1>1. Types'
  BY DEF Types, PcOfBsp
<1>2. ASSUME NEW c \in CPU PROVE FramesOf(c)'
  BY DEF Types, FramesOf, Booting, Waking, OnStart, Running, Entering
<1>3. \A c \in CPU \ {0} : pc[c] \in {"halted", "lock"}
  BY DEF Types, OneByOne, AtNext, Waking
<1>4. Done'
  BY <1>3 DEF Types, Done, Booting, Waking, Running
<1>5. Reported' /\ Locked'
  BY <1>3 DEF Types, OneByOne, Reported, Locked, Waking, Scheduling, Starting
<1>6. Alone' /\ OneByOne' /\ AtNext'
  BY DEF Types, Alone, OneByOne, AtNext, Booting, Waking
<1>7. QED
  BY <1>1, <1>2, <1>4, <1>5, <1>6
-----------------------------------------------------------------------------
(* ... of another CPU on its way, ...                                      *)
LEMMA ApIsNext ==
  ASSUME BootInv, NEW c \in CPU, pc[c] \in Entering \cup {"mp_main", "started"}
  PROVE  c # 0 /\ pc[0] = "wait" /\ c = next /\ lock = 0 /\ ~envs
<1> USE ZeroIsCPU, CPUsAreNumbers DEF BootInv
<1>1. c # 0
  BY DEF Types, PcOfBsp, Booting, Waking, Running, Entering
<1>2. pc[0] \in Waking
  BY <1>1 DEF Types, Alone, Done, Booting, Waking, Running, Entering
<1>3. c = next
  BY <1>1, <1>2 DEF Types, OneByOne, Entering
<1>4. QED
  BY <1>1, <1>2, <1>3 DEF OneByOne, AtNext, Waking, Entering

LEMMA MpentryStep == ASSUME BootInv, NEW c \in CPU, Mpentry(c) PROVE BootInv'
<1> USE ZeroIsCPU, CPUsAreNumbers DEF BootInv, Mpentry, Jump, memory, table
<1>1. c # 0 /\ pc[0] = "wait" /\ c = next /\ kstack = c
  BY ApIsNext DEF AtNext, Entering
<1>2. Types'
  BY <1>1 DEF Types, PcOfAp, OnStart
<1>3. ASSUME NEW d \in CPU PROVE FramesOf(d)'
  BY <1>1 DEF Types, FramesOf, StartStack, Booting, Waking, OnStart, Running, Entering
<1>4. OneByOne' /\ AtNext'
  BY <1>1 DEF Types, OneByOne, AtNext, Waking, Entering, OnStart
<1>5. (Alone /\ Done /\ Reported /\ Locked)'
  BY <1>1 DEF Types, Alone, Done, Reported, Locked, Booting, Waking, Scheduling, Starting
<1>6. QED
  BY <1>2, <1>3, <1>4, <1>5

LEMMA MpMainStep == ASSUME BootInv, NEW c \in CPU, MpMain(c) PROVE BootInv'
<1> USE ZeroIsCPU, CPUsAreNumbers DEF BootInv, MpMain, TrapInitPercpu, TrapStack, Jump, memory, table
<1>1. c # 0 /\ pc[0] = "wait" /\ c = next
  BY ApIsNext
<1>2. Types'
  BY <1>1 DEF Types, PcOfAp, OnStart
<1>3. ASSUME NEW d \in CPU PROVE FramesOf(d)'
  BY <1>1 DEF Types, FramesOf, StartStack, Booting, Waking, OnStart, Running, Entering
<1>4. OneByOne' /\ AtNext'
  BY <1>1 DEF Types, OneByOne, AtNext, Waking, Entering, OnStart
<1>5. (Alone /\ Done /\ Reported /\ Locked)'
  BY <1>1 DEF Types, Alone, Done, Reported, Locked, Booting, Waking, Scheduling, Starting
<1>6. QED
  BY <1>2, <1>3, <1>4, <1>5

LEMMA StartedStep == ASSUME BootInv, NEW c \in CPU, Started(c) PROVE BootInv'
<1> USE ZeroIsCPU, CPUsAreNumbers DEF BootInv, Started, Jump, memory, table, stacks
<1>1. c # 0 /\ pc[0] = "wait" /\ c = next
  BY ApIsNext
<1>2. Types'
  BY <1>1 DEF Types, PcOfAp, OnStart
<1>3. ASSUME NEW d \in CPU PROVE FramesOf(d)'
  BY <1>1 DEF Types, FramesOf, StartStack, Booting, Waking, OnStart, Running, Entering
<1>4. OneByOne' /\ AtNext'
  BY <1>1 DEF Types, OneByOne, AtNext, Waking, Entering, OnStart
<1>5. (Alone /\ Done /\ Reported /\ Locked)'
  BY <1>1 DEF Types, Alone, Done, Reported, Locked, Booting, Waking, Scheduling, Starting
<1>6. QED
  BY <1>2, <1>3, <1>4, <1>5

LEMMA LockApStep == ASSUME BootInv, NEW c \in CPU, LockAp(c) PROVE BootInv'
<1> USE ZeroIsCPU, CPUsAreNumbers DEF BootInv, LockAp, Jump, memory, table, stacks
<1>1. c # 0
  BY DEF Types, PcOfBsp, Booting, Waking, Running
<1>2. pc[0] \notin Booting \cup Waking
  BY <1>1 DEF Alone, OneByOne
<1>3. Types'
  BY <1>1 DEF Types, PcOfAp
<1>4. ASSUME NEW d \in CPU PROVE FramesOf(d)'
  BY <1>1 DEF Types, FramesOf, StartStack, Booting, Waking, OnStart, Running, Entering
<1>5. (Alone /\ OneByOne /\ AtNext /\ Done /\ Reported)'
  BY <1>1, <1>2 DEF Types, Alone, OneByOne, AtNext, Done, Reported, Booting, Waking, Starting
<1>6. Locked'
  BY DEF Types, Locked, Scheduling
<1>7. QED
  BY <1>3, <1>4, <1>5, <1>6
-----------------------------------------------------------------------------
(* ... and of any CPU that runs programs.                                  *)
LEMMA RunsProgram ==
  ASSUME BootInv, NEW c \in CPU, pc[c] \in {"sched_yield"} \cup Running
  PROVE  pc[0] \notin Booting \cup Waking /\ envs
<1>1. pc[0] \notin Booting \cup Waking
  <2>1. CASE c = 0
    BY <2>1 DEF Booting, Waking, Running
  <2>2. CASE c # 0
    <3>1. pc[0] \notin Booting
      BY <2>2 DEF BootInv, Alone, Running
    <3>2. pc[0] \notin Waking
      BY <2>2, CPUsAreNumbers DEF BootInv, Types, OneByOne, AtNext, Waking, Running, OnStart, Entering
    <3>3. QED
      BY <3>1, <3>2
  <2>3. QED
    BY <2>1, <2>2
<1>2. QED
  BY <1>1 DEF BootInv, Done

LEMMA EnvRunStep == ASSUME BootInv, NEW c \in CPU, EnvRun(c) PROVE BootInv'
<1> USE ZeroIsCPU, CPUsAreNumbers DEF BootInv, EnvRun, Jump, memory, table
<1>1. pc[0] \notin Booting \cup Waking /\ lock = c
  BY RunsProgram DEF Running, Locked, Scheduling
<1>2. Types'
  BY DEF Types, PcOfBsp, PcOfAp, Running
<1>3. ASSUME NEW d \in CPU PROVE FramesOf(d)'
  BY DEF Types, FramesOf, Booting, Waking, OnStart, Running, Entering
<1>4. (Alone /\ OneByOne /\ AtNext /\ Done /\ Reported)'
  BY <1>1 DEF Types, Alone, OneByOne, AtNext, Done, Reported, Booting, Waking, Running, Starting
<1>5. Locked'
  BY <1>1 DEF Types, Locked, Scheduling
<1>6. QED
  BY <1>2, <1>3, <1>4, <1>5

LEMMA TrapStep == ASSUME BootInv, NEW c \in CPU, Trap(c) PROVE BootInv'
<1> USE ZeroIsCPU, CPUsAreNumbers DEF BootInv, Trap, Jump, memory, table
<1>1. pc[0] \notin Booting \cup Waking
  BY RunsProgram DEF Running
<1>2. Types'
  BY DEF Types, PcOfBsp, PcOfAp, Running
<1>3. ASSUME NEW d \in CPU PROVE FramesOf(d)'
  BY DEF Types, FramesOf, Booting, Waking, OnStart, Running, Entering
<1>4. (Alone /\ OneByOne /\ AtNext /\ Done /\ Reported /\ Locked)'
  BY <1>1 DEF Types, Alone, OneByOne, AtNext, Done, Reported, Locked, Booting, Waking, Running, Starting, Scheduling
<1>5. QED
  BY <1>2, <1>3, <1>4

LEMMA TrapLockStep == ASSUME BootInv, NEW c \in CPU, TrapLock(c) PROVE BootInv'
<1> USE ZeroIsCPU, CPUsAreNumbers DEF BootInv, TrapLock, Jump, memory, table, stacks
<1>1. pc[0] \notin Booting \cup Waking
  BY RunsProgram DEF Running
<1>2. Types'
  BY DEF Types, PcOfBsp, PcOfAp, Running
<1>3. ASSUME NEW d \in CPU PROVE FramesOf(d)'
  BY DEF Types, FramesOf, Booting, Waking, OnStart, Running, Entering
<1>4. (Alone /\ OneByOne /\ AtNext /\ Done /\ Reported /\ Locked)'
  BY <1>1 DEF Types, Alone, OneByOne, AtNext, Done, Reported, Locked, Booting, Waking, Running, Starting, Scheduling
<1>5. QED
  BY <1>2, <1>3, <1>4

(* Nothing else of the machine touches what the invariant is about.        *)
LEMMA BootInvNext == BootInv /\ [Next]_vars => BootInv'
<1> SUFFICES ASSUME BootInv, [Next]_vars PROVE BootInv'
  OBVIOUS
<1>1. CASE UNCHANGED bootVars
  BY <1>1 DEF BootInv, bootVars, Types, FramesOf, Alone, OneByOne, AtNext, Done, Reported, Locked
<1>2. ASSUME NEW c \in CPU, CpuStep(c) PROVE BootInv'
  BY <1>2, MemInitStep, MpInitStep, LockBootStep, StartApStep, WaitApStep, EnvCreateStep,
     MpentryStep, MpMainStep, StartedStep, LockApStep, EnvRunStep, TrapLockStep
     DEF CpuStep, Bsp, Ap
<1>3. ASSUME NEW c \in CPU, Trap(c) PROVE BootInv'
  BY <1>3, TrapStep
<1>4. QED
  BY <1>1, <1>2, <1>3 DEF Next, vars, Computes, Interrupted, Serves, Prints, Typed
-----------------------------------------------------------------------------
(* boot_aps() and mp_main(): every CPU starts on the stack meant for it,   *)
(* one at a time, and the scheduler waits for the first environments.      *)
THEOREM StartsInOrder == Spec => []StartInOrder
<1>1. BootInv => OwnStartStack
  <2> SUFFICES ASSUME BootInv PROVE OwnStartStack
    OBVIOUS
  <2>1. \A c \in CPU \ {0} : pc[c] \in {"mp_main", "started", "lock"} => frames[c] = c
    BY DEF BootInv, FramesOf, StartStack, OnStart
  <2>2. \A c \in CPU : pc[c] \in Starting => c = next
    BY ApIsNext DEF Starting, Entering
  <2>3. QED
    BY <2>1, <2>2 DEF OwnStartStack
<1>2. BootInv => NothingRunsEarly
  <2> SUFFICES ASSUME BootInv PROVE NothingRunsEarly
    OBVIOUS
  <2>1. \A c \in CPU : pc[c] = "sched_yield" => envs
    BY RunsProgram
  <2>2. QED
    BY <2>1 DEF BootInv, Locked, NothingRunsEarly
<1>3. BootInv => StartInOrder
  BY <1>1, <1>2 DEF StartInOrder
<1>4. QED
  BY BootInvInit, BootInvNext, <1>3, PTL DEF Spec

(* Neither the stacks CPUs start on nor those they trap on are shared, and *)
(* nobody traps on the stack the machine booted with.                      *)
LEMMA StacksDiffer ==
  ASSUME NEW c \in CPU, NEW d \in CPU, c # d
  PROVE  StartStack(c) # StartStack(d) /\ c - 1 # d - 1 /\ c - 1 # StartStack(0)
BY SizeAssumption DEF StartStack, Bootstack, CPU

(* trap_init_percpu(): the stack for traps of a CPU is the one its         *)
(* neighbour started on, and that is the only way two CPUs meet on one.    *)
THEOREM StacksApart == Spec => []TrapStacksApart
<1>1. BootInv => TrapStacksApart
  <2> DEFINE Traps(c)  == pc[c] \in {"trap", "kernel"} /\ frames[c] = c - 1
             Starts(c) == /\ pc[c] \in Booting \cup Waking \cup OnStart \cup {"sched_yield"}
                          /\ frames[c] = StartStack(c)
  <2> SUFFICES ASSUME BootInv, NEW c \in CPU, NEW d \in CPU, c # d,
                      frames[c] # None, frames[c] = frames[d]
               PROVE  OnStartStack(c) \/ OnStartStack(d)
    BY DEF TrapStacksApart
  <2>1. ASSUME NEW e \in CPU, frames[e] # None PROVE Traps(e) \/ Starts(e)
    BY <2>1 DEF BootInv, Types, FramesOf, PcOfBsp, PcOfAp, Running, Entering
  <2>2. ASSUME NEW e \in CPU, NEW f \in CPU, e # f, frames[e] = frames[f], Traps(e), Starts(f)
        PROVE  OnStartStack(f)
    <3>1. pc[0] \notin Booting \cup Waking
      BY <2>2, RunsProgram DEF Running
    <3>2. f # 0
      BY <2>2, StacksDiffer
    <3>3. pc[f] \in {"lock", "sched_yield"}
      BY <2>2, <3>1, <3>2 DEF BootInv, Done, Booting, Waking, OnStart, Running
    <3>4. QED
      BY <2>2, <3>2, <3>3 DEF OnStartStack, StartStack
  <2>3. ~(Traps(c) /\ Traps(d)) /\ ~(Starts(c) /\ Starts(d))
    BY StacksDiffer
  <2> HIDE DEF Traps, Starts
  <2>4. QED
    BY <2>1, <2>2, <2>3
<1>2. QED
  BY BootInvInit, BootInvNext, <1>1, PTL DEF Spec
-----------------------------------------------------------------------------
(* The list that page_init() links, page by page: base memory up to the    *)
(* page at MPENTRY_PADDR, base memory from there on, and what the kernel   *)
(* leaves of extended memory.                                              *)
Below(m)  == MPENTRY - 1
Base(m)   == m.basemem - 2
Length(m) == Base(m) + (m.extmem - m.taken)
PageAt(m, i) == IF i <= Below(m) THEN i ELSE IF i <= Base(m) THEN i + 1 ELSE mile(m) + (i - Base(m)) - 1

LEMMA MachineNumbers ==
  ASSUME NEW m \in Machines
  PROVE  /\ m.basemem \in Nat /\ m.extmem \in Nat /\ m.taken \in Nat \ {0}
         /\ MPENTRY = 7 /\ EXTPAGES \in Nat
         /\ MPENTRY + 4 < m.basemem /\ m.basemem <= EXTPAGES /\ m.taken <= m.extmem
         /\ m.tables \in Nat /\ m.images \in Nat
         /\ m.tables + 3 <= Linkable(m) /\ m.tables + m.images <= Linkable(m)
BY MachineAssumption, SizeAssumption DEF MPENTRY, Linkable

(* A list of n pages from first on, and then those of others.              *)
Continues(list, n, first, others) ==
  /\ list \in Seq(Nat) /\ Len(list) = n + Len(others)
  /\ \A i \in 1 .. n : list[i] = first + i - 1
  /\ \A i \in 1 .. Len(others) : list[n + i] = others[i]

Runs(list, l, h, y, e, x) ==
  /\ list \in Seq(Nat) /\ Len(list) = l + (h + e)
  /\ \A i \in 1 .. l : list[i] = i
  /\ \A i \in 1 .. h : list[l + i] = y + i - 1
  /\ \A i \in 1 .. e : list[l + (h + i)] = x + i - 1

LEMMA LinkedPages ==
  ASSUME NEW list \in Seq(Nat), NEW n \in Nat, NEW first \in Nat, NEW last \in Int, last = first + n - 1
  PROVE  Continues(Linked(list, first, last), n, first, list)
<1> DEFINE run == [i \in 1 .. n |-> first + i - 1]
<1>1. last - first + 1 = n
  OBVIOUS
<1>2. run \in Seq(Nat) /\ Len(run) = n
  OBVIOUS
<1>3. \A i \in 1 .. n : run[i] = first + i - 1
  OBVIOUS
<1> HIDE DEF run
<1>4. /\ run \o list \in Seq(Nat) /\ Len(run \o list) = Len(run) + Len(list)
      /\ \A i \in 1 .. Len(run) : (run \o list)[i] = run[i]
      /\ \A i \in 1 .. Len(list) : (run \o list)[Len(run) + i] = list[i]
  <2>1. run \o list \in Seq(Nat) /\ Len(run \o list) = Len(run) + Len(list)
    BY <1>2, ConcatProperties
  <2>2. \A i \in 1 .. Len(run) : (run \o list)[i] = run[i]
    BY <1>2, ConcatProperties
  <2>3. \A i \in 1 .. Len(list) : (run \o list)[Len(run) + i] = list[i]
    <3> SUFFICES ASSUME NEW i \in 1 .. Len(list) PROVE (run \o list)[Len(run) + i] = list[i]
      OBVIOUS
    <3>1. Len(run) \in Nat /\ Len(list) \in Nat
      BY <1>2
    <3>2. PICK k \in Int : k = Len(run) + i
      BY <3>1
    <3>3. k \in 1 .. Len(run) + Len(list) /\ k > Len(run) /\ k - Len(run) = i
      BY <3>1, <3>2
    <3>4. (run \o list)[k] = list[k - Len(run)]
      BY <1>2, <3>1, <3>3, ConcatProperties
    <3>5. QED
      BY <3>2, <3>3, <3>4
  <2>4. QED
    BY <2>1, <2>2, <2>3
<1>5. Linked(list, first, last) = run \o list
  BY <1>1 DEF Linked, run
<1>6. QED
  BY <1>2, <1>3, <1>4, <1>5 DEF Continues

LEMMA ThreeRuns ==
  ASSUME NEW e \in Nat, NEW h \in Nat, NEW l \in Nat, NEW x \in Nat, NEW y \in Nat,
         NEW ext, Continues(ext, e, x, <<>>),
         NEW high, Continues(high, h, y, ext),
         NEW list, Continues(list, l, 1, high)
  PROVE  Runs(list, l, h, y, e, x)
<1>1. /\ ext \in Seq(Nat) /\ Len(ext) = e
      /\ \A i \in 1 .. e : ext[i] = x + i - 1
  BY DEF Continues
<1>2. /\ high \in Seq(Nat) /\ Len(high) = h + e
      /\ \A i \in 1 .. h : high[i] = y + i - 1
      /\ \A i \in 1 .. e : high[h + i] = ext[i]
  BY <1>1 DEF Continues
<1>3. /\ list \in Seq(Nat) /\ Len(list) = l + (h + e)
      /\ \A i \in 1 .. l : list[i] = 1 + i - 1
      /\ \A i \in 1 .. h + e : list[l + i] = high[i]
  BY <1>2 DEF Continues
<1>4. ASSUME NEW i \in 1 .. l PROVE list[i] = i
  BY <1>3
<1>5. ASSUME NEW i \in 1 .. h PROVE list[l + i] = y + i - 1
  <2>1. i \in 1 .. h + e
    OBVIOUS
  <2>2. list[l + i] = high[i] /\ high[i] = y + i - 1
    BY <1>2, <1>3, <2>1
  <2>3. QED
    BY <2>2
<1>6. ASSUME NEW i \in 1 .. e PROVE list[l + (h + i)] = x + i - 1
  <2>1. PICK k \in 1 .. h + e : k = h + i
    OBVIOUS
  <2>2. list[l + k] = high[k]
    BY <1>3
  <2>3. high[h + i] = ext[i] /\ ext[i] = x + i - 1
    BY <1>1, <1>2
  <2>4. QED
    BY <2>1, <2>2, <2>3
<1>7. QED
  BY <1>3, <1>4, <1>5, <1>6 DEF Runs

LEMMA PageInit ==
  ASSUME NEW m \in Machines
  PROVE  /\ page_init(m) \in Seq(Nat) /\ Len(page_init(m)) = Length(m)
         /\ \A i \in 1 .. Length(m) : page_init(m)[i] = PageAt(m, i)
<1>1. PICK e \in Nat, h \in Nat, l \in Nat :
        /\ e = m.extmem - m.taken /\ h = m.basemem - 1 - MPENTRY /\ l = MPENTRY - 1
  BY MachineNumbers
<1>2. /\ mile(m) \in Nat /\ npages(m) - 1 \in Int /\ npages(m) - 1 = mile(m) + e - 1
      /\ MPENTRY + 1 \in Nat /\ m.basemem - 1 \in Int /\ m.basemem - 1 = (MPENTRY + 1) + h - 1
      /\ 1 \in Nat /\ MPENTRY - 1 \in Int /\ MPENTRY - 1 = 1 + l - 1
  BY <1>1, MachineNumbers DEF mile, npages
<1>3. PICK x \in Nat, y \in Nat : x = mile(m) /\ y = MPENTRY + 1
  BY <1>2
<1> DEFINE list == page_init(m)
<1>4. /\ list \in Seq(Nat) /\ Len(list) = l + (h + e)
      /\ \A i \in 1 .. l : list[i] = i
      /\ \A i \in 1 .. h : list[l + i] = y + i - 1
      /\ \A i \in 1 .. e : list[l + (h + i)] = x + i - 1
  <2>1. PICK last \in Int, z \in Int, w \in Int :
           last = npages(m) - 1 /\ z = m.basemem - 1 /\ w = MPENTRY - 1
    BY <1>2
  <2>2. PICK ext, high : ext = Linked(<<>>, x, last) /\ high = Linked(ext, y, z)
    OBVIOUS
  <2>3. list = Linked(high, 1, w)
    BY <1>3, <2>1, <2>2 DEF page_init, BaseMemory
  <2> HIDE DEF list
  <2>4. last = x + e - 1 /\ z = y + h - 1 /\ w = 1 + l - 1
    BY <1>2, <1>3, <2>1
  <2>5. Continues(Linked(<<>>, x, last), e, x, <<>>)
    <3>1. <<>> \in Seq(Nat)
      OBVIOUS
    <3>2. QED
      BY <2>4, <3>1, LinkedPages
  <2>6. Continues(Linked(ext, y, z), h, y, ext)
    <3>1. ext \in Seq(Nat)
      BY <2>2, <2>5 DEF Continues
    <3>2. QED
      BY <2>4, <3>1, LinkedPages
  <2>7. Continues(Linked(high, 1, w), l, 1, high)
    <3>1. high \in Seq(Nat) /\ 1 \in Nat
      BY <2>2, <2>6 DEF Continues
    <3>2. QED
      BY <2>4, <3>1, LinkedPages
  <2>8. /\ Continues(ext, e, x, <<>>) /\ Continues(high, h, y, ext)
        /\ Continues(list, l, 1, high)
    BY <2>2, <2>3, <2>5, <2>6, <2>7
  <2>9. Runs(list, l, h, y, e, x)
    BY <2>8, ThreeRuns
  <2>10. QED
    BY <2>9 DEF Runs
<1> HIDE DEF list
<1>5. Below(m) = l /\ Base(m) = l + h /\ Length(m) = l + (h + e) /\ y = l + 2
  BY <1>1, <1>3, MachineNumbers DEF Below, Base, Length
<1>6. ASSUME NEW i \in 1 .. Length(m) PROVE list[i] = PageAt(m, i)
  <2>1. i \in Int /\ 1 <= i /\ i <= l + (h + e)
    BY <1>5
  <2>2. CASE i <= l
    BY <2>1, <2>2, <1>4, <1>5 DEF PageAt
  <2>3. CASE i > l /\ i <= l + h
    <3>1. i - l \in 1 .. h /\ i = l + (i - l)
      BY <2>1, <2>3
    <3>2. list[l + (i - l)] = y + (i - l) - 1
      BY <3>1, <1>4
    <3>3. QED
      BY <3>1, <3>2, <1>5, <2>1, <2>3 DEF PageAt
  <2>4. CASE i > l + h
    <3>1. PICK j \in Int : j = i - (l + h)
      BY <2>1
    <3>2. j \in 1 .. e /\ i = l + (h + j)
      BY <2>1, <2>4, <3>1
    <3>3. list[l + (h + j)] = x + j - 1
      BY <3>2, <1>4
    <3>4. PageAt(m, i) = x + j - 1
      BY <1>3, <1>5, <2>1, <2>4, <3>1 DEF PageAt
    <3>5. QED
      BY <3>2, <3>3, <3>4
  <2>5. QED
    BY <2>1, <2>2, <2>3, <2>4
<1>7. list \in Seq(Nat) /\ Len(list) = Length(m)
  BY <1>4, <1>5
<1>8. QED
  BY <1>6, <1>7 DEF list
-----------------------------------------------------------------------------
(* Lists of pages: one page in front, what follows a place, two exchanged. *)
LEMMA InFront ==
  ASSUME NEW x \in Nat, NEW s \in Seq(Nat)
  PROVE  /\ <<x>> \o s \in Seq(Nat) /\ Len(<<x>> \o s) = 1 + Len(s)
         /\ (<<x>> \o s)[1] = x
         /\ \A i \in 1 .. Len(s) : (<<x>> \o s)[1 + i] = s[i]
<1>1. <<x>> \in Seq(Nat) /\ Len(<<x>>) = 1 /\ <<x>>[1] = x
  OBVIOUS
<1>2. <<x>> \o s \in Seq(Nat) /\ Len(<<x>> \o s) = 1 + Len(s)
  BY <1>1, ConcatProperties
<1>3. (<<x>> \o s)[1] = x
  OBVIOUS
<1>4. \A i \in 1 .. Len(s) : (<<x>> \o s)[1 + i] = s[i]
  OBVIOUS
<1>5. QED
  BY <1>2, <1>3, <1>4

LEMMA From ==
  ASSUME NEW s \in Seq(Nat), NEW k \in 1 .. Len(s) + 1
  PROVE  /\ SubSeq(s, k, Len(s)) \in Seq(Nat) /\ Len(SubSeq(s, k, Len(s))) = Len(s) - k + 1
         /\ \A i \in 1 .. Len(s) - k + 1 : SubSeq(s, k, Len(s))[i] = s[k + i - 1]
<1>1. \A i \in k .. Len(s) : s[i] \in Nat
  OBVIOUS
<1>2. SubSeq(s, k, Len(s)) \in Seq(Nat)
  BY <1>1, SubSeqProperties
<1>3. Len(SubSeq(s, k, Len(s))) = Len(s) - k + 1
  OBVIOUS
<1>4. \A i \in 1 .. Len(s) - k + 1 : SubSeq(s, k, Len(s))[i] = s[k + i - 1]
  OBVIOUS
<1>5. QED
  BY <1>2, <1>3, <1>4

LEMMA ExchangedList ==
  ASSUME NEW s \in Seq(Nat), NEW i \in 1 .. Len(s), NEW j \in 1 .. Len(s)
  PROVE  /\ Exchanged(s, i, j) \in Seq(Nat) /\ Len(Exchanged(s, i, j)) = Len(s)
         /\ Exchanged(s, i, j)[i] = s[j] /\ Exchanged(s, i, j)[j] = s[i]
         /\ \A k \in 1 .. Len(s) : k # i /\ k # j => Exchanged(s, i, j)[k] = s[k]
BY DEF Exchanged

(* Exchanging two pages of a list loses none and repeats none.             *)
LEMMA ExchangedOnce ==
  ASSUME NEW s \in Seq(Nat), NEW i \in 1 .. Len(s), NEW j \in 1 .. Len(s), IsInjective(s)
  PROVE  IsInjective(Exchanged(s, i, j)) /\ ToSet(Exchanged(s, i, j)) = ToSet(s)
<1> DEFINE t == Exchanged(s, i, j)
<1>1. /\ DOMAIN t = 1 .. Len(s) /\ DOMAIN s = 1 .. Len(s)
      /\ t[i] = s[j] /\ t[j] = s[i]
      /\ \A k \in 1 .. Len(s) : k # i /\ k # j => t[k] = s[k]
  BY ExchangedList
<1> HIDE DEF t
<1>2. IsInjective(t)
  BY <1>1 DEF IsInjective
<1>3. \A k \in DOMAIN t : \E l \in DOMAIN s : s[l] = t[k]
  BY <1>1
<1>4. \A k \in DOMAIN s : \E l \in DOMAIN t : t[l] = s[k]
  BY <1>1
<1>5. ToSet(t) = ToSet(s)
  BY <1>3, <1>4 DEF ToSet
<1>6. QED
  BY <1>2, <1>5 DEF t

(* Concatenation, with places of the second list counted from its end.     *)
LEMMA Behind ==
  ASSUME NEW u \in Seq(Nat), NEW s \in Seq(Nat)
  PROVE  /\ u \o s \in Seq(Nat) /\ Len(u \o s) = Len(u) + Len(s)
         /\ \A k \in 1 .. Len(u) : (u \o s)[k] = u[k]
         /\ \A k \in 1 .. Len(s) : (u \o s)[Len(u) + k] = s[k]
<1>1. u \o s \in Seq(Nat) /\ Len(u \o s) = Len(u) + Len(s)
  BY ConcatProperties
<1>2. \A k \in 1 .. Len(u) : (u \o s)[k] = u[k]
  BY ConcatProperties
<1>3. ASSUME NEW i \in 1 .. Len(s) PROVE (u \o s)[Len(u) + i] = s[i]
  <2>1. Len(u) \in Nat /\ Len(s) \in Nat
    OBVIOUS
  <2>2. PICK k \in Int : k = Len(u) + i
    BY <2>1
  <2>3. k \in 1 .. Len(u) + Len(s) /\ k > Len(u) /\ k - Len(u) = i
    BY <2>1, <2>2
  <2>4. (u \o s)[k] = s[k - Len(u)]
    BY <2>1, <2>3, ConcatProperties
  <2>5. QED
    BY <2>2, <2>3, <2>4
<1>4. QED
  BY <1>1, <1>2, <1>3

LEMMA ExchangedBehind ==
  ASSUME NEW u \in Seq(Nat), NEW s \in Seq(Nat), NEW i \in 1 .. Len(s), NEW j \in 1 .. Len(s)
  PROVE  /\ Len(u) + i \in 1 .. Len(u \o s) /\ Len(u) + j \in 1 .. Len(u \o s)
         /\ u \o Exchanged(s, i, j) = Exchanged(u \o s, Len(u) + i, Len(u) + j)
<1> DEFINE t == Exchanged(s, i, j)
           w == u \o s
           v == Exchanged(w, Len(u) + i, Len(u) + j)
<1>1. /\ t \in Seq(Nat) /\ Len(t) = Len(s) /\ t[i] = s[j] /\ t[j] = s[i]
      /\ \A k \in 1 .. Len(s) : k # i /\ k # j => t[k] = s[k]
  BY ExchangedList
<1> HIDE DEF t
<1>2. /\ w \in Seq(Nat) /\ Len(w) = Len(u) + Len(s)
      /\ \A k \in 1 .. Len(u) : w[k] = u[k]
      /\ \A k \in 1 .. Len(s) : w[Len(u) + k] = s[k]
  BY Behind
<1> HIDE DEF w
<1>3. /\ Len(u) \in Nat /\ Len(s) \in Nat /\ i \in 1 .. Len(s) /\ j \in 1 .. Len(s)
      /\ Len(u) + i \in 1 .. Len(w) /\ Len(u) + j \in 1 .. Len(w)
  <2>1. Len(u) \in Nat /\ Len(s) \in Nat
    OBVIOUS
  <2>2. Len(w) = Len(u) + Len(s)
    BY <1>2
  <2>3. QED
    BY <2>1, <2>2
<1>4. /\ v \in Seq(Nat) /\ Len(v) = Len(w)
      /\ v[Len(u) + i] = w[Len(u) + j] /\ v[Len(u) + j] = w[Len(u) + i]
      /\ \A k \in 1 .. Len(w) : k # Len(u) + i /\ k # Len(u) + j => v[k] = w[k]
  BY <1>2, <1>3, ExchangedList
<1> HIDE DEF v
<1>5. /\ u \o t \in Seq(Nat) /\ Len(u \o t) = Len(u) + Len(s)
      /\ \A k \in 1 .. Len(u) : (u \o t)[k] = u[k]
      /\ \A k \in 1 .. Len(s) : (u \o t)[Len(u) + k] = t[k]
  <2>1. /\ u \o t \in Seq(Nat) /\ Len(u \o t) = Len(u) + Len(t)
        /\ \A k \in 1 .. Len(u) : (u \o t)[k] = u[k]
        /\ \A k \in 1 .. Len(t) : (u \o t)[Len(u) + k] = t[k]
    BY <1>1, Behind
  <2>2. QED
    BY <1>1, <2>1
<1>6. ASSUME NEW k \in 1 .. Len(u) + Len(s) PROVE (u \o t)[k] = v[k]
  <2>1. k \in Int /\ 1 <= k /\ k <= Len(u) + Len(s)
    BY <1>3
  <2>2. CASE k <= Len(u)
    <3>1. k \in 1 .. Len(u)
      BY <1>3, <2>1, <2>2
    <3>2. k \in 1 .. Len(w)
      BY <1>2, <1>3, <2>1
    <3>3. \A l \in 1 .. Len(s) : k # Len(u) + l
      BY <1>3, <2>1, <2>2
    <3>4. QED
      BY <3>1, <3>2, <3>3, <1>2, <1>4, <1>5
  <2>3. CASE k > Len(u)
    <3> DEFINE l == k - Len(u)
    <3>1. l = k - Len(u) /\ l \in Int
      BY <1>3, <2>1
    <3> HIDE DEF l
    <3>2. l \in 1 .. Len(s) /\ k = Len(u) + l /\ k \in 1 .. Len(w)
      BY <1>2, <1>3, <2>1, <2>3, <3>1
    <3>3. (u \o t)[k] = t[l] /\ w[k] = s[l]
      BY <3>2, <1>2, <1>5
    <3>4. w[Len(u) + i] = s[i] /\ w[Len(u) + j] = s[j]
      BY <1>2
    <3>5. CASE l = i \/ l = j
      BY <3>2, <3>3, <3>4, <3>5, <1>1, <1>4
    <3>6. CASE l # i /\ l # j
      <4>1. k # Len(u) + i /\ k # Len(u) + j
        BY <1>3, <3>2, <3>6
      <4>2. v[k] = w[k] /\ t[l] = s[l]
        BY <4>1, <3>2, <3>6, <1>1, <1>4
      <4>3. QED
        BY <3>3, <4>2
    <3>7. QED
      BY <3>5, <3>6
  <2>4. k <= Len(u) \/ k > Len(u)
    BY <1>3, <2>1
  <2>5. QED
    BY <2>2, <2>3, <2>4
<1>7. u \o t = v
  <2>1. /\ u \o t \in Seq(Nat) /\ v \in Seq(Nat) /\ Len(u \o t) = Len(v)
        /\ \A k \in 1 .. Len(u \o t) : (u \o t)[k] = v[k]
    BY <1>2, <1>4, <1>5, <1>6
  <2>2. QED
    BY <2>1, SeqEqual
<1>8. QED
  BY <1>3, <1>7 DEF t, v, w
-----------------------------------------------------------------------------
(* page_alloc_4pages() returns the first place where four pages in a row   *)
(* start.                                                                  *)
InARow(list, i) == list[i + 3] - list[i] = 3

LEMMA FirstInARow ==
  ASSUME NEW list \in Seq(Nat), NEW i \in 1 .. Len(list) - 3,
         InARow(list, i), \A j \in 1 .. i - 1 : ~InARow(list, j)
  PROVE  page_alloc_4pages(list) = i /\ page_free_4pages(list) = SubSeq(list, i, Len(list))
<1> DEFINE First(k) == InARow(list, k) /\ \A j \in 1 .. k - 1 : ~InARow(list, j)
<1>1. First(i)
  OBVIOUS
<1>2. \A k \in 1 .. Len(list) - 3 : First(k) => k = i
  <2> SUFFICES ASSUME NEW k \in 1 .. Len(list) - 3, First(k), k # i PROVE FALSE
    OBVIOUS
  <2> HIDE DEF InARow
  <2>1. i \in 1 .. k - 1 \/ k \in 1 .. i - 1
    OBVIOUS
  <2>2. QED
    BY <2>1
<1>3. page_alloc_4pages(list) = CHOOSE k \in 1 .. Len(list) - 3 : First(k)
  BY DEF page_alloc_4pages, InARow
<1> HIDE DEF First
<1>4. QED
  BY <1>1, <1>2, <1>3 DEF page_free_4pages

(* The tests leave of a list that starts like that of page_init() what     *)
(* follows MPENTRY_PADDR, where the first four pages in a row are.         *)
StartsLikePageInit(p) ==
  /\ p[1] = 1 /\ p[2] = 2 /\ p[3] = 3 /\ p[4] = 4 /\ p[5] = 5 /\ p[6] = 6
  /\ p[7] = 8 /\ p[8] = 9 /\ p[9] = 10 /\ p[10] = 11

LEMMA TestsLeave ==
  ASSUME NEW p \in Seq(Nat), Len(p) >= 10, StartsLikePageInit(p)
  PROVE  check_four_pages(check_page(p)) = SubSeq(p, 7, Len(p))
<1> DEFINE n == Len(p)
           s == SubSeq(p, 7, n)
           q == check_page(p)
           u == SubSeq(q, 3, n)
           r == <<q[1]>> \o u
           t == <<q[2]>> \o s
<1>1. n \in Nat /\ n >= 10 /\ Len(p) = n
  OBVIOUS
<1>2. /\ p[1] = 1 /\ p[2] = 2 /\ p[3] = 3 /\ p[4] = 4 /\ p[5] = 5 /\ p[6] = 6
      /\ p[7] = 8 /\ p[8] = 9 /\ p[9] = 10 /\ p[10] = 11
  BY DEF StartsLikePageInit
<1> HIDE DEF n
<1>3. /\ q \in Seq(Nat) /\ Len(q) = n
      /\ q[1] = 3 /\ q[2] = 2 /\ q[3] = 1
      /\ \A i \in 4 .. n : q[i] = p[i]
  <2>1. 1 \in 1 .. Len(p) /\ 3 \in 1 .. Len(p)
    BY <1>1
  <2>2. q = Exchanged(p, 1, 3)
    BY DEF check_page
  <2> HIDE DEF q
  <2>3. /\ q \in Seq(Nat) /\ Len(q) = n /\ q[1] = p[3] /\ q[3] = p[1]
        /\ \A i \in 1 .. n : i # 1 /\ i # 3 => q[i] = p[i]
    <3>1. /\ Exchanged(p, 1, 3) \in Seq(Nat) /\ Len(Exchanged(p, 1, 3)) = Len(p)
          /\ Exchanged(p, 1, 3)[1] = p[3] /\ Exchanged(p, 1, 3)[3] = p[1]
          /\ \A i \in 1 .. Len(p) : i # 1 /\ i # 3 => Exchanged(p, 1, 3)[i] = p[i]
      BY <2>1, ExchangedList
    <3>2. QED
      BY <3>1, <2>2, <1>1
  <2>4. q[2] = p[2]
    BY <1>1, <2>3
  <2>5. \A i \in 4 .. n : q[i] = p[i]
    BY <1>1, <2>3
  <2>6. QED
    BY <1>2, <2>3, <2>4, <2>5
<1> HIDE DEF q
<1>4. /\ r \in Seq(Nat) /\ Len(r) = n - 1
      /\ r[1] = 3 /\ \A i \in 2 .. n - 1 : r[i] = q[i + 1]
  <2>1. u \in Seq(Nat) /\ Len(u) = n - 2 /\ \A i \in 1 .. n - 2 : u[i] = q[3 + i - 1]
    <3>1. 3 \in 1 .. Len(q) + 1 /\ Len(q) - 3 + 1 = n - 2
      BY <1>1, <1>3
    <3>2. u = SubSeq(q, 3, Len(q))
      BY <1>3
    <3> HIDE DEF u
    <3>3. QED
      BY <1>3, <3>1, <3>2, From
  <2> HIDE DEF u
  <2>2. /\ r \in Seq(Nat) /\ Len(r) = 1 + (n - 2) /\ r[1] = 3
        /\ \A i \in 1 .. n - 2 : r[1 + i] = u[i]
    <3>1. /\ r \in Seq(Nat) /\ Len(r) = 1 + Len(u) /\ r[1] = q[1]
          /\ \A i \in 1 .. Len(u) : r[1 + i] = u[i]
      <4>1. q[1] \in Nat /\ u \in Seq(Nat)
        BY <1>3, <2>1
      <4>2. QED
        BY <4>1, InFront
    <3> HIDE DEF r
    <3>2. QED
      BY <3>1, <1>3, <2>1
  <2> HIDE DEF r
  <2>3. ASSUME NEW i \in 2 .. n - 1 PROVE r[i] = q[i + 1]
    <3>1. PICK k \in 1 .. n - 2 : i = 1 + k /\ 3 + k - 1 = i + 1
      BY <1>1
    <3>2. r[1 + k] = u[k] /\ u[k] = q[3 + k - 1]
      BY <2>1, <2>2
    <3>3. QED
      BY <3>1, <3>2
  <2>4. Len(r) = n - 1
    BY <1>1, <2>2
  <2>5. QED
    BY <2>2, <2>3, <2>4
<1>5. /\ s \in Seq(Nat) /\ Len(s) = n - 6
      /\ \A i \in 1 .. n - 6 : s[i] = p[i + 6]
  <2>1. 7 \in 1 .. Len(p) + 1
    BY <1>1
  <2>2. s \in Seq(Nat) /\ Len(s) = n - 7 + 1 /\ \A i \in 1 .. n - 7 + 1 : s[i] = p[7 + i - 1]
    BY <1>1, <2>1, From
  <2> HIDE DEF s
  <2>3. QED
    BY <1>1, <2>2
<1> HIDE DEF u, r, s
<1>6. page_free_4pages(r) = s
  <2>1. r[1] = 3 /\ r[2] = 1 /\ r[3] = 4 /\ r[4] = 5 /\ r[5] = 6 /\ r[6] = 8 /\ r[7] = 9 /\ r[8] = 10 /\ r[9] = 11
    <3>1. /\ q[4] = 4 /\ q[5] = 5 /\ q[6] = 6
          /\ q[7] = 8 /\ q[8] = 9 /\ q[9] = 10 /\ q[10] = 11
      BY <1>1, <1>2, <1>3
    <3>2. /\ r[2] = q[3] /\ r[3] = q[4] /\ r[4] = q[5] /\ r[5] = q[6]
          /\ r[6] = q[7] /\ r[7] = q[8] /\ r[8] = q[9] /\ r[9] = q[10]
      <4>1. \A i \in 2 .. 9 : r[i] = q[i + 1]
        BY <1>1, <1>4
      <4>2. QED
        BY <4>1
    <3>3. QED
      BY <1>3, <1>4, <3>1, <3>2
  <2>2. 6 \in 1 .. Len(r) - 3 /\ InARow(r, 6)
    BY <1>1, <1>4, <2>1 DEF InARow
  <2>3. ASSUME NEW j \in 1 .. 6 - 1 PROVE ~InARow(r, j)
    <3>1. ~InARow(r, 1) /\ ~InARow(r, 2) /\ ~InARow(r, 3) /\ ~InARow(r, 4) /\ ~InARow(r, 5)
      <4>1. /\ r[4] - r[1] # 3 /\ r[5] - r[2] # 3 /\ r[6] - r[3] # 3
            /\ r[7] - r[4] # 3 /\ r[8] - r[5] # 3
        BY <2>1
      <4>2. 1 + 3 = 4 /\ 2 + 3 = 5 /\ 3 + 3 = 6 /\ 4 + 3 = 7 /\ 5 + 3 = 8
        OBVIOUS
      <4>3. QED
        BY <4>1, <4>2 DEF InARow
    <3>2. j = 1 \/ j = 2 \/ j = 3 \/ j = 4 \/ j = 5
      OBVIOUS
    <3>3. QED
      BY <3>1, <3>2
  <2>4. page_free_4pages(r) = SubSeq(r, 6, Len(r))
    BY <1>4, <2>2, <2>3, FirstInARow
  <2>5. 6 \in 1 .. Len(r) + 1
    BY <1>1, <1>4
  <2>6. /\ SubSeq(r, 6, Len(r)) \in Seq(Nat) /\ Len(SubSeq(r, 6, Len(r))) = Len(r) - 6 + 1
        /\ \A i \in 1 .. Len(r) - 6 + 1 : SubSeq(r, 6, Len(r))[i] = r[6 + i - 1]
    BY <1>4, <2>5, From
  <2>7. ASSUME NEW i \in 1 .. n - 6 PROVE SubSeq(r, 6, Len(r))[i] = s[i]
    <3>1. i + 5 \in 2 .. n - 1 /\ i + 6 \in 4 .. n /\ (i + 5) + 1 = i + 6 /\ 6 + i - 1 = i + 5
      BY <1>1
    <3>2. r[i + 5] = q[i + 6] /\ q[i + 6] = p[i + 6]
      BY <3>1, <1>3, <1>4
    <3>3. QED
      BY <3>1, <3>2, <2>6, <1>1, <1>4, <1>5
  <2>8. SubSeq(r, 6, Len(r)) = s
    BY <1>1, <1>4, <1>5, <2>6, <2>7, SeqEqual
  <2>9. QED
    BY <2>4, <2>8
<1>7. /\ t \in Seq(Nat) /\ Len(t) = n - 5 /\ t[1] = 2
      /\ \A i \in 1 .. n - 6 : t[1 + i] = s[i]
  BY <1>1, <1>3, <1>5, InFront
<1> HIDE DEF t
<1>8. page_free_4pages(t) = s
  <2>1. t[2] = 8 /\ t[4] = 10 /\ t[5] = 11
    <3>1. s[1] = 8 /\ s[3] = 10 /\ s[4] = 11
      <4>1. s[1] = p[1 + 6] /\ s[3] = p[3 + 6] /\ s[4] = p[4 + 6]
        BY <1>1, <1>5
      <4>2. QED
        BY <1>2, <4>1
    <3>2. t[1 + 1] = s[1] /\ t[1 + 3] = s[3] /\ t[1 + 4] = s[4]
      BY <1>1, <1>7
    <3>3. QED
      BY <3>1, <3>2
  <2>2. 2 \in 1 .. Len(t) - 3 /\ InARow(t, 2) /\ \A j \in 1 .. 2 - 1 : ~InARow(t, j)
    <3>1. 2 \in 1 .. Len(t) - 3
      BY <1>1, <1>7
    <3>2. InARow(t, 2) /\ ~InARow(t, 1)
      BY <1>7, <2>1 DEF InARow
    <3>3. \A j \in 1 .. 2 - 1 : j = 1
      OBVIOUS
    <3>4. QED
      BY <3>1, <3>2, <3>3
  <2>3. page_free_4pages(t) = SubSeq(t, 2, Len(t))
    BY <1>7, <2>2, FirstInARow
  <2>4. 2 \in 1 .. Len(t) + 1
    BY <1>1, <1>7
  <2>5. /\ SubSeq(t, 2, Len(t)) \in Seq(Nat) /\ Len(SubSeq(t, 2, Len(t))) = Len(t) - 2 + 1
        /\ \A i \in 1 .. Len(t) - 2 + 1 : SubSeq(t, 2, Len(t))[i] = t[2 + i - 1]
    BY <1>7, <2>4, From
  <2>6. ASSUME NEW i \in 1 .. n - 6 PROVE SubSeq(t, 2, Len(t))[i] = s[i]
    <3>1. 2 + i - 1 = 1 + i /\ i \in 1 .. Len(t) - 2 + 1
      BY <1>1, <1>7
    <3>2. QED
      BY <3>1, <2>5, <1>7
  <2>7. SubSeq(t, 2, Len(t)) = s
    BY <1>1, <1>5, <1>7, <2>5, <2>6, SeqEqual
  <2>8. QED
    BY <2>3, <2>7
<1>9. check_four_pages(q) = page_free_4pages(<<q[2]>> \o page_free_4pages(<<q[1]>> \o SubSeq(q, 3, Len(q))))
  BY DEF check_four_pages
<1>10. check_four_pages(q) = s
  BY <1>3, <1>6, <1>8, <1>9 DEF u, r, t
<1>11. QED
  BY <1>10 DEF s, q, n

LEMMA TestedList ==
  ASSUME NEW m \in Machines
  PROVE  page_free_list(m) = SubSeq(page_init(m), 7, Len(page_init(m)))
<1>1. Length(m) \in Nat /\ Length(m) >= 10 /\ Base(m) >= 10 /\ Below(m) = 6
  BY MachineNumbers DEF Length, Base, Below
<1>2. /\ page_init(m) \in Seq(Nat) /\ Len(page_init(m)) = Length(m)
      /\ \A i \in 1 .. Length(m) : page_init(m)[i] = PageAt(m, i)
  BY PageInit
<1>3. Base(m) \in Int
  BY MachineNumbers DEF Base
<1>4. /\ PageAt(m, 1) = 1 /\ PageAt(m, 2) = 2 /\ PageAt(m, 3) = 3
      /\ PageAt(m, 4) = 4 /\ PageAt(m, 5) = 5 /\ PageAt(m, 6) = 6
      /\ PageAt(m, 7) = 8 /\ PageAt(m, 8) = 9 /\ PageAt(m, 9) = 10 /\ PageAt(m, 10) = 11
  BY <1>1, <1>3 DEF PageAt
<1>5. StartsLikePageInit(page_init(m))
  <2>1. \A i \in 1 .. 10 : page_init(m)[i] = PageAt(m, i)
    BY <1>1, <1>2
  <2>2. /\ page_init(m)[1] = PageAt(m, 1) /\ page_init(m)[2] = PageAt(m, 2)
        /\ page_init(m)[3] = PageAt(m, 3) /\ page_init(m)[4] = PageAt(m, 4)
        /\ page_init(m)[5] = PageAt(m, 5) /\ page_init(m)[6] = PageAt(m, 6)
        /\ page_init(m)[7] = PageAt(m, 7) /\ page_init(m)[8] = PageAt(m, 8)
        /\ page_init(m)[9] = PageAt(m, 9) /\ page_init(m)[10] = PageAt(m, 10)
    BY <2>1
  <2>3. QED
    BY <1>4, <2>2 DEF StartsLikePageInit
<1>6. QED
  BY <1>1, <1>2, <1>5, TestsLeave DEF page_free_list

(* The pages that the boot gives out or leaves free.                       *)
Pages(m) == (0 .. npages(m) - 1) \ (Kept(m) \cup Forgotten)

(* After the tests the list has each of them once.                         *)
LEMMA FreeListOnce ==
  ASSUME NEW m \in Machines
  PROVE  /\ page_free_list(m) \in Seq(Nat) /\ Len(page_free_list(m)) = Linkable(m)
         /\ IsInjective(page_free_list(m)) /\ ToSet(page_free_list(m)) = Pages(m)
<1> USE MachineNumbers
<1> DEFINE p    == page_init(m)
           list == page_free_list(m)
           At(i) == PageAt(m, i + 6)
<1>1. p \in Seq(Nat) /\ Len(p) = Length(m) /\ \A i \in 1 .. Length(m) : p[i] = PageAt(m, i)
  BY PageInit
<1>2. Length(m) \in Nat /\ Linkable(m) = Length(m) - 6 /\ Linkable(m) \in Nat
  BY DEF Length, Base, Linkable
<1>3. list = SubSeq(p, 7, Len(p))
  BY TestedList
<1> HIDE DEF p, list
<1>4. list \in Seq(Nat) /\ Len(list) = Linkable(m) /\ \A i \in 1 .. Linkable(m) : list[i] = At(i)
  <2>1. 7 \in 1 .. Len(p) + 1
    BY <1>1, <1>2
  <2>2. /\ list \in Seq(Nat) /\ Len(list) = Len(p) - 7 + 1
        /\ \A i \in 1 .. Len(p) - 7 + 1 : list[i] = p[7 + i - 1]
    BY <1>1, <1>3, <2>1, From
  <2>3. ASSUME NEW i \in 1 .. Linkable(m) PROVE list[i] = At(i)
    <3>1. 7 + i - 1 = i + 6 /\ i + 6 \in 1 .. Length(m) /\ i \in 1 .. Length(m) - 7 + 1
      BY <1>2
    <3>2. list[i] = p[i + 6] /\ p[i + 6] = PageAt(m, i + 6)
      BY <3>1, <2>2, <1>1
    <3>3. QED
      BY <3>2
  <2>4. Len(list) = Linkable(m)
    BY <1>1, <1>2, <2>2
  <2>5. QED
    BY <2>2, <2>3, <2>4
<1>5. \A i, j \in 1 .. Linkable(m) : At(i) = At(j) => i = j
  BY <1>2 DEF PageAt, Below, Base, mile
<1>6. IsInjective(list)
  BY <1>2, <1>4, <1>5 DEF IsInjective
<1>7. \A i \in 1 .. Linkable(m) : At(i) \in Pages(m)
  BY <1>2 DEF PageAt, Below, Base, Length, mile, npages, Pages, Kept, Forgotten
<1>8. ASSUME NEW page \in Pages(m) PROVE \E i \in 1 .. Linkable(m) : At(i) = page
  <2>1. page \in Nat /\ page > MPENTRY /\ (page < m.basemem \/ page >= mile(m)) /\ page < npages(m)
    BY <1>8 DEF Pages, Kept, Forgotten, npages, mile
  <2>2. CASE page < m.basemem
    <3>1. page - 7 \in 1 .. Linkable(m) /\ At(page - 7) = page
      BY <1>2, <2>1, <2>2 DEF PageAt, Below, Length, Base
    <3>2. QED
      BY <3>1
  <2>3. CASE page >= mile(m)
    <3>1. PICK i \in Int : i = page - mile(m) + 1 + Base(m) - 6
      BY <2>1 DEF mile, Base
    <3>2. i + 6 > Base(m) /\ i + 6 > Below(m) /\ i <= Linkable(m) /\ 1 <= i
          /\ page = mile(m) + ((i + 6) - Base(m)) - 1
      BY <1>2, <2>1, <2>3, <3>1 DEF Below, Length, Base, mile, npages
    <3>3. At(i) = page /\ i \in 1 .. Linkable(m)
      BY <1>2, <3>2 DEF PageAt, Base, Below
    <3>4. QED
      BY <3>3
  <2>4. QED
    BY <2>1, <2>2, <2>3
<1> HIDE DEF At
<1>9. ToSet(list) = Pages(m)
  <2>1. DOMAIN list = 1 .. Linkable(m)
    BY <1>4
  <2>2. \A i \in DOMAIN list : list[i] \in Pages(m)
    BY <2>1, <1>4, <1>7
  <2>3. \A page \in Pages(m) : \E i \in DOMAIN list : list[i] = page
    BY <2>1, <1>4, <1>8
  <2>4. QED
    BY <2>2, <2>3 DEF ToSet
<1>10. QED
  BY <1>4, <1>6, <1>9 DEF list
-----------------------------------------------------------------------------
(* What has been taken from the list and what is left of it are these      *)
(* pages, each once; and there is enough for the first environments.       *)
BeforeEnvs == {"mp_init", "lock_kernel", "boot_aps", "wait"}
ListIsWhole ==
  /\ machine \in Machines
  /\ used \in Seq(Nat) /\ free \in Seq(Nat)
  /\ pc[0] # "start" => IsInjective(used \o free) /\ ToSet(used \o free) = Pages(machine)
  /\ pc[0] \in BeforeEnvs => machine.images <= Len(free)
  /\ DOMAIN pc = CPU

LEMMA Split ==
  ASSUME NEW list \in Seq(Nat), NEW n \in 0 .. Len(list)
  PROVE  /\ SubSeq(list, 1, n) \in Seq(Nat) /\ SubSeq(list, n + 1, Len(list)) \in Seq(Nat)
         /\ SubSeq(list, 1, n) \o SubSeq(list, n + 1, Len(list)) = list
         /\ Len(SubSeq(list, n + 1, Len(list))) = Len(list) - n
<1>1. \A i \in 1 .. n : list[i] \in Nat
  OBVIOUS
<1>2. n + 1 \in 1 .. Len(list) + 1
  OBVIOUS
<1>3. SubSeq(list, 1, n) \in Seq(Nat)
  BY <1>1, SubSeqProperties
<1>4. /\ SubSeq(list, n + 1, Len(list)) \in Seq(Nat)
      /\ Len(SubSeq(list, n + 1, Len(list))) = Len(list) - n
  BY <1>2, From
<1>5. SubSeq(list, 1, n) \o SubSeq(list, n + 1, Len(list)) = SubSeq(list, 1, Len(list))
  <2>1. /\ 1 \in 1 .. Len(list) + 1 /\ n \in 1 - 1 .. Len(list)
        /\ Len(list) \in n .. Len(list)
    OBVIOUS
  <2>2. QED
    BY <2>1, ConcatAdjacentSubSeq
<1>6. SubSeq(list, 1, Len(list)) = list
  BY SubSeqFull
<1>7. QED
  BY <1>3, <1>4, <1>5, <1>6

LEMMA Associative ==
  ASSUME NEW s \in Seq(Nat), NEW t \in Seq(Nat), NEW u \in Seq(Nat)
  PROVE  (s \o t) \o u = s \o (t \o u)
BY ConcatAssociative, SMTT(30)

LEMMA ListInit == Init => ListIsWhole
<1> SUFFICES ASSUME BootInit PROVE ListIsWhole
  BY DEF Init
<1>1. <<>> \in Seq(Nat)
  OBVIOUS
<1>2. pc[0] = "start" /\ DOMAIN pc = CPU
  BY ZeroIsCPU DEF BootInit
<1>3. QED
  BY <1>1, <1>2 DEF BootInit, ListIsWhole, BeforeEnvs

LEMMA MemInitList == ListIsWhole /\ MemInit => ListIsWhole'
<1> SUFFICES ASSUME ListIsWhole, MemInit PROVE ListIsWhole'
  OBVIOUS
<1> DEFINE list == page_free_list(machine)
           n    == machine.tables
           onList == SubSeq(list, n + 1, Len(list))
           taken == SubSeq(list, 1, n)
<1>1. machine \in Machines /\ machine' = machine /\ DOMAIN pc' = CPU /\ pc'[0] = "mp_init"
  BY ZeroIsCPU DEF ListIsWhole, MemInit, Jump, table
<1>2. /\ list \in Seq(Nat) /\ Len(list) = Linkable(machine)
      /\ IsInjective(list) /\ ToSet(list) = Pages(machine)
  BY <1>1, FreeListOnce
<1>3. /\ n \in Nat /\ machine.images \in Nat
      /\ n + 3 <= Len(list) /\ n + machine.images <= Len(list)
  BY <1>1, <1>2, MachineNumbers
<1>4. used' = taken /\ free' = Exchanged(onList, 2, 3)
  BY DEF MemInit, check_page_installed_pgdir
<1> HIDE DEF list, n
<1>5. taken \in Seq(Nat) /\ onList \in Seq(Nat) /\ taken \o onList = list /\ Len(onList) = Len(list) - n
  <2>1. n \in 0 .. Len(list)
    BY <1>2, <1>3
  <2>2. QED
    BY <1>2, <2>1, Split
<1> HIDE DEF taken, onList
<1>6. 2 \in 1 .. Len(onList) /\ 3 \in 1 .. Len(onList)
  <2>1. Len(list) \in Nat /\ Len(onList) = Len(list) - n
    BY <1>2, <1>5
  <2>2. QED
    BY <2>1, <1>3
<1>7. free' \in Seq(Nat) /\ Len(free') = Len(onList)
  BY <1>4, <1>5, <1>6, ExchangedList
<1>8. IsInjective(used' \o free') /\ ToSet(used' \o free') = Pages(machine)
  <2>1. /\ Len(taken) + 2 \in 1 .. Len(list) /\ Len(taken) + 3 \in 1 .. Len(list)
        /\ used' \o free' = Exchanged(list, Len(taken) + 2, Len(taken) + 3)
    BY <1>4, <1>5, <1>6, ExchangedBehind
  <2>2. QED
    BY <1>2, <2>1, ExchangedOnce
<1>9. machine.images <= Len(free')
  <2>1. Len(list) \in Nat /\ Len(free') = Len(list) - n
    BY <1>2, <1>5, <1>7
  <2>2. QED
    BY <2>1, <1>3
<1>10. Pages(machine)' = Pages(machine)
  BY <1>1 DEF Pages
<1>11. QED
  BY <1>1, <1>4, <1>5, <1>7, <1>8, <1>9, <1>10 DEF ListIsWhole

LEMMA EnvCreateList == ListIsWhole /\ EnvCreate => ListIsWhole'
<1> SUFFICES ASSUME ListIsWhole, EnvCreate PROVE ListIsWhole'
  OBVIOUS
<1> DEFINE n      == machine.images
           first  == SubSeq(free, 1, n)
           others == SubSeq(free, n + 1, Len(free))
<1>1. /\ used \in Seq(Nat) /\ free \in Seq(Nat) /\ machine \in Machines
      /\ IsInjective(used \o free) /\ ToSet(used \o free) = Pages(machine)
  BY DEF ListIsWhole, EnvCreate
<1>2. n \in 0 .. Len(free)
  BY <1>1, MachineNumbers DEF ListIsWhole, BeforeEnvs, EnvCreate
<1>3. free' = others /\ used' = used \o first
  BY DEF EnvCreate
<1>4. machine' = machine /\ DOMAIN pc' = CPU /\ pc'[0] = "sched_yield"
  BY ZeroIsCPU DEF EnvCreate, ListIsWhole, table, Jump
<1> HIDE DEF n
<1>5. first \in Seq(Nat) /\ others \in Seq(Nat) /\ first \o others = free
  BY <1>1, <1>2, Split
<1> HIDE DEF first, others
<1>6. (used \o first) \o others = used \o free
  BY <1>1, <1>5, Associative
<1>7. used' \in Seq(Nat) /\ free' \in Seq(Nat) /\ used' \o free' = used \o free
  BY <1>1, <1>3, <1>5, <1>6, ConcatProperties
<1>8. Pages(machine)' = Pages(machine)
  BY <1>4 DEF Pages
<1>9. QED
  BY <1>1, <1>4, <1>7, <1>8 DEF ListIsWhole, BeforeEnvs

(* Nothing else touches the list or goes back to the start.                *)
LEMMA ListNext == ListIsWhole /\ [Next]_vars => ListIsWhole'
<1> SUFFICES ASSUME ListIsWhole, [Next]_vars PROVE ListIsWhole'
  OBVIOUS
<1> DEFINE Untouched == /\ UNCHANGED <<machine, used, free>> /\ DOMAIN pc' = CPU
                        /\ pc'[0] = "start" \/ pc[0] # "start"
                        /\ pc'[0] \in BeforeEnvs => pc[0] \in BeforeEnvs
<1>1. CASE UNCHANGED bootVars
  BY <1>1 DEF ListIsWhole, bootVars
<1>2. ASSUME Untouched PROVE ListIsWhole'
  BY <1>2 DEF ListIsWhole
<1>3. ASSUME NEW c \in CPU, CpuStep(c) PROVE ListIsWhole'
  <2>1. CASE MemInit \/ EnvCreate
    BY <2>1, MemInitList, EnvCreateList
  <2>2. CASE MpInit \/ LockBoot \/ WaitAp
    BY <2>2, <1>2, ZeroIsCPU DEF ListIsWhole, BeforeEnvs, MpInit, LockBoot, WaitAp, Jump, memory, table
  <2>3. CASE StartAp
    BY <2>3, <1>2, ZeroIsCPU DEF ListIsWhole, BeforeEnvs, StartAp, memory, table
  <2>4. CASE Ap(c)
    BY <2>4, <1>2, ZeroIsCPU DEF ListIsWhole, BeforeEnvs, Ap, Mpentry, MpMain, Started, LockAp, Jump, memory, table
  <2>5. CASE EnvRun(c) \/ TrapLock(c)
    BY <2>5, <1>2, ZeroIsCPU DEF ListIsWhole, BeforeEnvs, EnvRun, TrapLock, Jump, memory, table
  <2>6. QED
    BY <1>3, <2>1, <2>2, <2>3, <2>4, <2>5 DEF CpuStep, Bsp
<1>4. ASSUME NEW c \in CPU, Trap(c) PROVE ListIsWhole'
  BY <1>4, <1>2, ZeroIsCPU DEF ListIsWhole, BeforeEnvs, Trap, Jump, memory, table
<1>5. QED
  BY <1>1, <1>3, <1>4 DEF Next, vars, Computes, Interrupted, Serves, Prints, Typed

(* page_init() and the tests of mem_init(): pages that somebody has are    *)
(* never handed out, none of the others twice, and those that the tests    *)
(* forget are the ones below MPENTRY_PADDR, whatever the sizes of base and *)
(* of extended memory and the number of pages that the boot takes.         *)
THEOREM PagesAreOnce == Spec => []PagesOnce
<1>1. ListIsWhole => PagesOnce
  BY DEF ListIsWhole, PagesOnce, Pages
<1>2. QED
  BY ListInit, ListNext, <1>1, PTL DEF Spec
-----------------------------------------------------------------------------
(* The indices of CPUs and stacks.                                         *)
Places ==
  /\ mp.ncpu \in 0 .. NCPU /\ mp.bootcpu \in CPU
  /\ status \in [CPU -> {"CPU_UNUSED", "CPU_STARTED"}]
  /\ kstack \in CPU \cup {None} /\ next \in 0 .. NCPU
  /\ frames \in [CPU -> (-1 .. Bootstack) \cup {None}]
  /\ esp0 \in [CPU -> (-1 .. NCPU - 1) \cup {None}] /\ tss \in [CPU -> CPU \cup {None}]
  /\ lock \in CPU \cup {None}

LEMMA PlacesInit == Init => Places
<1> SUFFICES ASSUME BootInit PROVE Places
  BY DEF Init
<1>1. QED
  BY SizeAssumption, ZeroIsCPU DEF BootInit, Places, Bootstack

LEMMA TrapInitPlaces ==
  ASSUME Places, NEW c \in CPU, TrapInitPercpu(c)
  PROVE  /\ esp0' \in [CPU -> (-1 .. NCPU - 1) \cup {None}]
         /\ tss' \in [CPU -> CPU \cup {None}]
<1>1. c - 1 \in -1 .. NCPU - 1
  BY SizeAssumption DEF CPU
<1>2. esp0' = [esp0 EXCEPT ![c] = c - 1] /\ tss' = [tss EXCEPT ![c] = c]
  BY DEF TrapInitPercpu, TrapStack
<1>3. QED
  BY <1>1, <1>2 DEF Places

LEMMA BspPlaces == BootInv /\ Places /\ Bsp => Places'
<1> SUFFICES ASSUME BootInv, Places, Bsp PROVE Places'
  OBVIOUS
<1> USE ZeroIsCPU, CPUsAreNumbers
<1>1. CASE MemInit \/ EnvCreate
  BY <1>1 DEF MemInit, EnvCreate, Places, table, stacks
<1>2. CASE MpInit
  <2>1. mp'.ncpu \in 0 .. NCPU /\ mp'.bootcpu = 0 /\ mp_init(machine).bootcpu = 0
    BY <1>2, MpInitAssumption DEF MpInit, BootInv, Types
  <2>2. status' \in [CPU -> {"CPU_UNUSED", "CPU_STARTED"}]
    BY <1>2, <2>1 DEF MpInit, Places
  <2>3. QED
    BY <1>2, <2>1, <2>2, TrapInitPlaces DEF MpInit, Places
<1>3. CASE LockBoot
  BY <1>3, SizeAssumption DEF LockBoot, Places, table, stacks
<1>4. CASE StartAp
  <2>1. next \in CPU
    BY <1>4 DEF StartAp, Places, CPU
  <2>2. QED
    BY <1>4, <2>1 DEF StartAp, Places, table, stacks
<1>5. CASE WaitAp
  <2>1. next + 1 \in 0 .. NCPU
    BY <1>5 DEF WaitAp, BootInv, AtNext, CPU
  <2>2. QED
    BY <1>5, <2>1 DEF WaitAp, Places, table, stacks
<1>6. QED
  BY <1>1, <1>2, <1>3, <1>4, <1>5 DEF Bsp

LEMMA ApPlaces == ASSUME Places, NEW c \in CPU, Ap(c) \/ EnvRun(c) \/ TrapLock(c) \/ Trap(c) PROVE Places'
<1> USE CPUsAreNumbers
<1>1. CASE Mpentry(c)
  <2>1. kstack \in (-1 .. Bootstack) \cup {None}
    BY SizeAssumption DEF Places, Bootstack, CPU
  <2>2. QED
    BY <1>1, <2>1 DEF Mpentry, Places, table
<1>2. CASE MpMain(c)
  BY <1>2, TrapInitPlaces DEF MpMain, Places, table
<1>3. CASE Started(c) \/ LockAp(c) \/ TrapLock(c)
  BY <1>3 DEF Started, LockAp, TrapLock, Places, table, stacks
<1>4. CASE EnvRun(c)
  BY <1>4 DEF EnvRun, Places, table
<1>5. CASE Trap(c)
  <2>1. esp0[c] \in (-1 .. Bootstack) \cup {None}
    BY SizeAssumption DEF Places, Bootstack
  <2>2. QED
    BY <1>5, <2>1 DEF Trap, Places, table
<1>6. QED
  BY <1>1, <1>2, <1>3, <1>4, <1>5 DEF Ap

LEMMA PlacesNext == BootInv /\ Places /\ [Next]_vars => Places'
<1> SUFFICES ASSUME BootInv, Places, [Next]_vars PROVE Places'
  OBVIOUS
<1>1. CASE UNCHANGED bootVars
  BY <1>1 DEF bootVars, Places
<1>2. QED
  BY <1>1, BspPlaces, ApPlaces DEF Next, vars, Computes, Interrupted, Serves, Prints, Typed, CpuStep

(* Indices of CPUs and stacks stay in cpus[] and percpu_kstacks[], and     *)
(* what is on page_free_list are numbers of pages.                         *)
THEOREM BootTypesCorrect == Spec => []BootTypeOK
<1>1. ListIsWhole /\ Places => BootTypeOK
  <2> SUFFICES ASSUME ListIsWhole, Places PROVE BootTypeOK
    OBVIOUS
  <2>1. used \o free \in Seq(Nat)
    BY ConcatProperties DEF ListIsWhole
  <2>2. QED
    BY <2>1 DEF ListIsWhole, Places, BootTypeOK
<1>2. QED
  BY BootInvInit, BootInvNext, ListInit, ListNext, PlacesInit, PlacesNext, <1>1, PTL DEF Spec
=============================================================================
