------------------------------ MODULE SpinLock ------------------------------
(***************************************************************************)
(* kern/spinlock.c, one memory access per step.  Every CPU runs a client   *)
(* that calls spin_lock(), is in its critical section for a while, and     *)
(* calls spin_unlock().                                                    *)
(*                                                                         *)
(* The lock has two fields that matter: locked, which only the locked xchg *)
(* instruction writes, and cpu, the debugging record of DEBUG_SPINLOCK,    *)
(* which plain stores write.  A plain store of an x86 CPU waits in that    *)
(* CPU's store buffer and reaches memory later; the CPU's own loads see it *)
(* at once, and xchg does not execute before the buffer is empty.  This is *)
(* the ordering the comment in spin_unlock() argues about.                 *)
(*                                                                         *)
(* Careless CPUs also misuse the lock: they lock it again while they hold  *)
(* it, and unlock it when they do not, the two cases the code tests for    *)
(* and answers with a panic.  A panicking CPU stays in the monitor forever *)
(* and releases nothing.                                                   *)
(***************************************************************************)
EXTENDS Naturals, Sequences

CONSTANTS CPUs,       \* the processors
          NoCPU,      \* the null struct Cpu pointer
          Careless    \* the CPUs whose code misuses the lock

ASSUME CPUsAssumption == NoCPU \notin CPUs /\ Careless \subseteq CPUs

VARIABLES locked,     \* lk->locked, in memory
          owner,      \* lk->cpu, in memory
          buffer,     \* stores to lk->cpu each CPU has made and memory lacks
          pc,         \* the next access of each CPU
          holders     \* CPUs whose xchg returned 0 and that have not released

vars == <<locked, owner, buffer, pc, holders>>

Init ==
  /\ locked = 0                              \* __spin_initlock
  /\ owner = NoCPU
  /\ buffer = [c \in CPUs |-> << >>]
  /\ pc = [c \in CPUs |-> "outside"]
  /\ holders = {}

(* The value a load of lk->cpu by c returns: c's newest buffered store, or *)
(* else memory.                                                            *)
View(c) == IF buffer[c] = << >> THEN owner ELSE buffer[c][Len(buffer[c])]

Store(c, value) ==
  /\ buffer' = [buffer EXCEPT ![c] = Append(@, value)]
  /\ UNCHANGED owner

(* The oldest buffered store of c reaches memory.                          *)
Drain(c) ==
  /\ buffer[c] # << >>
  /\ owner' = Head(buffer[c])
  /\ buffer' = [buffer EXCEPT ![c] = Tail(@)]
  /\ UNCHANGED <<locked, pc, holders>>

Goto(c, label) == pc' = [pc EXCEPT ![c] = label]

(* A call of spin_lock(): from outside, or again from inside.              *)
CallLock(c) ==
  /\ pc[c] = "outside" \/ (c \in Careless /\ pc[c] = "inside")
  /\ Goto(c, "lock_read_locked")
  /\ UNCHANGED <<locked, owner, buffer, holders>>

(* A call of spin_unlock(): from inside, or by a CPU that holds nothing.   *)
CallUnlock(c) ==
  /\ pc[c] = "inside" \/ (c \in Careless /\ pc[c] = "outside")
  /\ Goto(c, "unlock_read_locked")
  /\ UNCHANGED <<locked, owner, buffer, holders>>

(* holding(): the && reads lk->locked first, and lk->cpu only if it is 1.  *)
ReadLocked(c, from, ifLocked, ifFree) ==
  /\ pc[c] = from
  /\ Goto(c, IF locked = 1 THEN ifLocked ELSE ifFree)
  /\ UNCHANGED <<locked, owner, buffer, holders>>

ReadOwner(c, from, ifMine, ifNot) ==
  /\ pc[c] = from
  /\ Goto(c, IF View(c) = c THEN ifMine ELSE ifNot)
  /\ UNCHANGED <<locked, owner, buffer, holders>>

LockReadLocked(c)   == ReadLocked(c, "lock_read_locked", "lock_read_owner", "xchg")
LockReadOwner(c)    == ReadOwner(c, "lock_read_owner", "panic", "xchg")
UnlockReadLocked(c) == ReadLocked(c, "unlock_read_locked", "unlock_read_owner", "panic")
UnlockReadOwner(c)  == ReadOwner(c, "unlock_read_owner", "clear", "panic")

(* Mutants: counting instead of exchanging; ignoring what xchg returned.   *)
TryAcquireByCounting(c) ==
  /\ pc[c] = "xchg"
  /\ locked' = locked + 1
  /\ IF locked = 0 THEN Goto(c, "record") /\ holders' = holders \cup {c}
                   ELSE UNCHANGED <<pc, holders>>
  /\ UNCHANGED <<owner, buffer>>

TryAcquireOnce(c) ==
  /\ pc[c] = "xchg"
  /\ locked' = 1 /\ holders' = holders \cup {c}
  /\ Goto(c, "record")
  /\ UNCHANGED <<owner, buffer>>

(* One turn of the loop while (xchg(&lk->locked, 1) != 0).                 *)
TryAcquire(c) ==
  /\ pc[c] = "xchg"
  /\ buffer[c] = << >>
  /\ locked' = 1
  /\ IF locked = 0
       THEN Goto(c, "record") /\ holders' = holders \cup {c}
       ELSE UNCHANGED <<pc, holders>>
  /\ UNCHANGED <<owner, buffer>>

(* lk->cpu = thiscpu                                                       *)
RecordOwner(c) ==
  /\ pc[c] = "record"
  /\ Store(c, c)
  /\ Goto(c, "inside")
  /\ UNCHANGED <<locked, holders>>

(* Mutant: the owner's record is not cleared.                              *)
ClearNothing(c) ==
  pc[c] = "clear" /\ Goto(c, "release") /\ UNCHANGED <<locked, owner, buffer, holders>>

(* lk->cpu = 0                                                             *)
ClearOwner(c) ==
  /\ pc[c] = "clear"
  /\ Store(c, NoCPU)
  /\ Goto(c, "release")
  /\ UNCHANGED <<locked, holders>>

(* Mutants: a release that overtakes the stores before it; one that leaves *)
(* the lock taken.                                                         *)
ReleaseOvertakes(c) ==
  /\ pc[c] = "release"
  /\ locked' = 0 /\ holders' = holders \ {c}
  /\ Goto(c, "outside")
  /\ UNCHANGED <<owner, buffer>>

ReleaseNothing(c) ==
  /\ pc[c] = "release"
  /\ holders' = holders \ {c}
  /\ Goto(c, "outside")
  /\ UNCHANGED <<locked, owner, buffer>>

(* xchg(&lk->locked, 0)                                                    *)
ReleaseXchg(c) ==
  /\ pc[c] = "release"
  /\ buffer[c] = << >>
  /\ locked' = 0
  /\ holders' = holders \ {c}
  /\ Goto(c, "outside")
  /\ UNCHANGED <<owner, buffer>>

SpinLockSteps(c) ==
  \/ LockReadLocked(c) \/ LockReadOwner(c) \/ TryAcquire(c) \/ RecordOwner(c)

SpinUnlockSteps(c) ==
  \/ UnlockReadLocked(c) \/ UnlockReadOwner(c) \/ ClearOwner(c) \/ ReleaseXchg(c)

Step(c) ==
  \/ CallLock(c)
  \/ CallUnlock(c)
  \/ SpinLockSteps(c)
  \/ SpinUnlockSteps(c)
  \/ Drain(c)

Next == \E c \in CPUs : Step(c)

Spec == Init /\ [][Next]_vars

(* A CPU executes its next instruction, its stores reach memory, and a CPU *)
(* that is inside leaves; nobody has to want the lock, and the bus picks   *)
(* the winner of a race for it as it likes.                                *)
FairSpec ==
  /\ Spec
  /\ \A c \in CPUs : /\ WF_vars(SpinLockSteps(c))
                     /\ WF_vars(SpinUnlockSteps(c))
                     /\ WF_vars(Drain(c))
                     /\ WF_vars(pc[c] = "inside" /\ CallUnlock(c))
-----------------------------------------------------------------------------
Labels == {"outside", "lock_read_locked", "lock_read_owner", "xchg", "record",
           "inside", "unlock_read_locked", "unlock_read_owner", "clear",
           "release", "panic"}

(* The fields and program counters have values of the right kind.          *)
TypeOK ==
  /\ locked \in {0, 1}
  /\ owner \in CPUs \cup {NoCPU}
  /\ buffer \in [CPUs -> Seq(CPUs \cup {NoCPU})]
  /\ pc \in [CPUs -> Labels]
  /\ holders \subseteq CPUs

(* spin_lock: two CPUs never both return from it without a release in      *)
(* between, whatever careless callers do.                                  *)
MutualExclusion == \A c, d \in holders : c = d

(* The debugging checks are right.  holding() reads two fields without     *)
(* holding the lock while other CPUs write them: a CPU that uses the lock  *)
(* properly is never stopped by it; one that locks twice is told ("already *)
(* holding") instead of spinning on the lock it holds itself; and one that *)
(* unlocks what it does not hold is stopped ("cannot release") before it   *)
(* writes to the lock.                                                     *)
NoFalsePanic   == \A c \in CPUs \ Careless : pc[c] # "panic"
NoSelfDeadlock == \A c \in holders : pc[c] # "xchg"
NoStrayRelease == \A c \in CPUs : pc[c] \in {"clear", "release"} => c \in holders
ChecksAreExact == NoFalsePanic /\ NoSelfDeadlock /\ NoStrayRelease

(* A release is complete: when the lock is free no stale record of an      *)
(* owner is left, in memory or on its way there.                           *)
FreeHasNoOwner ==
  locked = 0 => owner = NoCPU /\ \A c \in CPUs : buffer[c] = << >>

(* Only one of the locked xchg of spin_lock and that of spin_unlock starts *)
(* and ends a critical section: the lock is the mutex the kernel assumes.  *)
Holder == IF holders = {} THEN NoCPU ELSE CHOOSE c \in holders : TRUE
Abstract == INSTANCE Mutex WITH holder <- Holder
ImplementsMutex == Abstract!Spec

(* While some CPU spins the lock does not stay free: as the others leave   *)
(* their sections, somebody gets it; and a CPU that calls spin_unlock()    *)
(* while it holds the lock does release it.                                *)
SomebodyEnters == (\E c \in CPUs : pc[c] = "xchg") ~> (holders # {})
ReleaseCompletes ==
  \A c \in CPUs \ Careless : (pc[c] = "unlock_read_locked") ~> (c \notin holders)
LockProgress == SomebodyEnters /\ ReleaseCompletes
=============================================================================
