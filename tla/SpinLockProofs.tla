--------------------------- MODULE SpinLockProofs ---------------------------
(***************************************************************************)
(* The lock of SpinLock is a mutex, and its debugging checks never accuse  *)
(* a CPU that uses it properly, for any set of CPUs.                       *)
(***************************************************************************)
EXTENDS SpinLock, SequenceTheorems, TLAPS

(* Where a CPU that holds the lock, or does not, can be.                   *)
HoldingLabels  == Labels \ {"outside", "xchg"}
NotHolding     == {"outside", "lock_read_locked", "lock_read_owner", "xchg",
                   "unlock_read_locked", "unlock_read_owner", "panic"}
RecordedLabels == HoldingLabels \ {"record", "release"}

(* The record of the owner is nobody's until the holder's store, in its    *)
(* buffer or in memory, makes it the holder's, and the holder's second     *)
(* store makes it nobody's again.                                          *)
NotRecorded(c)  == buffer[c] = << >> /\ owner = NoCPU
Recorded(c)     == \/ buffer[c] = << >> /\ owner = c
                   \/ buffer[c] = <<c>> /\ owner = NoCPU
Cleared(c)      == \/ buffer[c] = << >> /\ owner = NoCPU
                   \/ buffer[c] = <<NoCPU>> /\ owner = c
                   \/ buffer[c] = <<c, NoCPU>> /\ owner = NoCPU

HolderInv(c) ==
  /\ pc[c] \in HoldingLabels
  /\ pc[c] = "record" => NotRecorded(c)
  /\ pc[c] \in RecordedLabels => Recorded(c)
  /\ pc[c] = "release" => Cleared(c)

OtherInv(c) ==
  /\ pc[c] \in NotHolding
  /\ buffer[c] = << >>
  /\ owner # c

ProperInv(c) ==
  /\ pc[c] # "panic"
  /\ pc[c] \in {"lock_read_locked", "lock_read_owner"} => c \notin holders
  /\ pc[c] \in {"unlock_read_locked", "unlock_read_owner"} => c \in holders

(* The inductive invariant: what memory and the store buffers hold at each *)
(* point of the critical section.                                          *)
LockInv ==
  /\ TypeOK
  /\ MutualExclusion
  /\ locked = IF holders = {} THEN 0 ELSE 1
  /\ holders = {} => owner = NoCPU
  /\ \A c \in holders : HolderInv(c)
  /\ \A c \in CPUs \ holders : OtherInv(c)
  /\ \A c \in CPUs \ Careless : ProperInv(c)

(* The invariant holds when the lock has been initialised.                 *)
LEMMA LockInvInit == Init => LockInv
BY CPUsAssumption
   DEF Init, LockInv, TypeOK, Labels, MutualExclusion, OtherInv, NotHolding, ProperInv

(* Two stores in a buffer.                                                 *)
LEMMA AppendToOne == \A a, b : Append(<<a>>, b) = <<a, b>>
<1> TAKE a, b
<1> DEFINE S == {a, b}
<1>1. <<a>> \in Seq(S) /\ <<a, b>> \in Seq(S) /\ Len(<<a>>) = 1 /\ Len(<<a, b>>) = 2
  OBVIOUS
<1>2. /\ Append(<<a>>, b) \in Seq(S)
      /\ Len(Append(<<a>>, b)) = 2
      /\ Append(<<a>>, b)[1] = a /\ Append(<<a>>, b)[2] = b
  BY <1>1
<1>3. \A i \in 1 .. 2 : Append(<<a>>, b)[i] = <<a, b>>[i]
  BY <1>2
<1>4. QED
  BY <1>1, <1>2, <1>3, SeqEqual

(* Every access of every CPU preserves the invariant.                      *)
LEMMA LockInvNext == LockInv /\ [Next]_vars => LockInv'
<1> SUFFICES ASSUME LockInv, [Next]_vars PROVE LockInv'
  OBVIOUS
<1> USE CPUsAssumption DEF LockInv, MutualExclusion
<1>1. CASE UNCHANGED vars
  BY <1>1 DEF vars, TypeOK, HolderInv, OtherInv, ProperInv, NotRecorded, Recorded, Cleared
<1>2. ASSUME NEW c \in CPUs, CallLock(c) PROVE LockInv'
  BY <1>2 DEF CallLock, Goto, TypeOK, Labels, HoldingLabels, NotHolding, RecordedLabels,
              HolderInv, OtherInv, ProperInv, NotRecorded, Recorded, Cleared
<1>3. ASSUME NEW c \in CPUs, CallUnlock(c) PROVE LockInv'
  BY <1>3 DEF CallUnlock, Goto, TypeOK, Labels, HoldingLabels, NotHolding, RecordedLabels,
              HolderInv, OtherInv, ProperInv, NotRecorded, Recorded, Cleared
<1>4. ASSUME NEW c \in CPUs, LockReadLocked(c) PROVE LockInv'
  BY <1>4 DEF LockReadLocked, ReadLocked, Goto, TypeOK, Labels, HoldingLabels, NotHolding, RecordedLabels,
              HolderInv, OtherInv, ProperInv, NotRecorded, Recorded, Cleared
<1>5. ASSUME NEW c \in CPUs, LockReadOwner(c) PROVE LockInv'
  BY <1>5 DEF LockReadOwner, ReadOwner, View, Goto, TypeOK, Labels, HoldingLabels, NotHolding, RecordedLabels,
              HolderInv, OtherInv, ProperInv, NotRecorded, Recorded, Cleared
<1>6. ASSUME NEW c \in CPUs, UnlockReadLocked(c) PROVE LockInv'
  BY <1>6 DEF UnlockReadLocked, ReadLocked, Goto, TypeOK, Labels, HoldingLabels, NotHolding, RecordedLabels,
              HolderInv, OtherInv, ProperInv, NotRecorded, Recorded, Cleared
<1>7. ASSUME NEW c \in CPUs, UnlockReadOwner(c) PROVE LockInv'
  <2>1. /\ pc' = [pc EXCEPT ![c] = IF View(c) = c THEN "clear" ELSE "panic"]
        /\ UNCHANGED <<locked, owner, buffer, holders>>
    BY <1>7 DEF UnlockReadOwner, ReadOwner, Goto
  <2>2. pc[c] = "unlock_read_owner"
    BY <1>7 DEF UnlockReadOwner, ReadOwner
  <2>3. View(c) = c <=> c \in holders
    <3>1. ASSUME c \in holders PROVE View(c) = c
      <4>1. Recorded(c)
        BY <3>1, <2>2 DEF HolderInv, RecordedLabels, HoldingLabels, Labels
      <4>2. QED
        BY <4>1 DEF Recorded, View
    <3>2. ASSUME c \notin holders PROVE View(c) # c
      BY <3>2 DEF OtherInv, View
    <3>3. QED
      BY <3>1, <3>2
  <2>4. TypeOK'
    BY <2>1 DEF TypeOK, Labels
  <2>5. \A d \in holders : HolderInv(d)'
    BY <2>1, <2>2, <2>3 DEF TypeOK, HolderInv, HoldingLabels, RecordedLabels, Labels,
                            NotRecorded, Recorded, Cleared
  <2>6. \A d \in CPUs \ holders : OtherInv(d)'
    BY <2>1, <2>3 DEF TypeOK, OtherInv, NotHolding
  <2>7. \A d \in CPUs \ Careless : ProperInv(d)'
    BY <2>1, <2>2, <2>3 DEF TypeOK, ProperInv
  <2>8. QED
    BY <2>1, <2>4, <2>5, <2>6, <2>7
<1>8. ASSUME NEW c \in CPUs, TryAcquire(c) PROVE LockInv'
  BY <1>8 DEF TryAcquire, Goto, TypeOK, Labels, HoldingLabels, NotHolding, RecordedLabels,
              HolderInv, OtherInv, ProperInv, NotRecorded, Recorded, Cleared
<1>9. ASSUME NEW c \in CPUs, RecordOwner(c) PROVE LockInv'
  <2>1. c \in holders /\ NotRecorded(c)
    BY <1>9 DEF RecordOwner, OtherInv, NotHolding, HolderInv
  <2>2. buffer' = [buffer EXCEPT ![c] = <<c>>] /\ owner' = owner
    BY <1>9, <2>1 DEF RecordOwner, Store, NotRecorded
  <2>3. pc' = [pc EXCEPT ![c] = "inside"] /\ UNCHANGED <<locked, holders>>
    BY <1>9 DEF RecordOwner, Goto
  <2>4. TypeOK'
    BY <2>2, <2>3 DEF TypeOK, Labels
  <2>5. HolderInv(c)' /\ holders = {c}
    BY <2>1, <2>2, <2>3 DEF TypeOK, HolderInv, HoldingLabels, RecordedLabels, Labels,
                            NotRecorded, Recorded
  <2>6. QED
    BY <2>1, <2>2, <2>3, <2>4, <2>5 DEF TypeOK, OtherInv, ProperInv
<1>10. ASSUME NEW c \in CPUs, ClearOwner(c) PROVE LockInv'
  <2>1. c \in holders /\ Recorded(c)
    BY <1>10 DEF ClearOwner, OtherInv, NotHolding, HolderInv, RecordedLabels,
                 HoldingLabels, Labels
  <2>2. buffer' = [buffer EXCEPT ![c] = Append(buffer[c], NoCPU)] /\ owner' = owner
    BY <1>10 DEF ClearOwner, Store
  <2>3. pc' = [pc EXCEPT ![c] = "release"] /\ UNCHANGED <<locked, holders>>
    BY <1>10 DEF ClearOwner, Goto
  <2>4. TypeOK'
    BY <2>2, <2>3 DEF TypeOK, Labels
  <2>5. Cleared(c)'
    <3>1. CASE buffer[c] = << >> /\ owner = c
      BY <3>1, <2>2 DEF TypeOK, Cleared
    <3>2. CASE buffer[c] = <<c>> /\ owner = NoCPU
      <4>1. buffer'[c] = Append(<<c>>, NoCPU)
        BY <3>2, <2>2 DEF TypeOK
      <4>2. Append(<<c>>, NoCPU) = <<c, NoCPU>>
        BY AppendToOne
      <4>3. QED
        BY <3>2, <2>2, <4>1, <4>2 DEF Cleared
    <3>3. QED
      BY <3>1, <3>2, <2>1 DEF Recorded
  <2>6. HolderInv(c)' /\ holders = {c}
    BY <2>1, <2>3, <2>5 DEF TypeOK, HolderInv, HoldingLabels, RecordedLabels, Labels
  <2>7. QED
    <3>1. \A d \in CPUs \ holders : OtherInv(d)'
      BY <2>1, <2>2, <2>3 DEF TypeOK, OtherInv
    <3>2. \A d \in CPUs \ Careless : ProperInv(d)'
      BY <2>3 DEF TypeOK, ProperInv
    <3>3. QED
      BY <2>2, <2>3, <2>4, <2>6, <3>1, <3>2
<1>11. ASSUME NEW c \in CPUs, ReleaseXchg(c) PROVE LockInv'
  <2>1. c \in holders /\ Cleared(c)
    BY <1>11 DEF ReleaseXchg, OtherInv, NotHolding, HolderInv
  <2>2. buffer[c] = << >> /\ owner = NoCPU
    BY <1>11, <2>1, <<NoCPU>> # << >>, <<c, NoCPU>> # << >> DEF ReleaseXchg, Cleared
  <2>3. holders' = {} /\ locked' = 0
    BY <1>11, <2>1 DEF ReleaseXchg
  <2>4. pc' = [pc EXCEPT ![c] = "outside"] /\ UNCHANGED <<buffer, owner>>
    BY <1>11 DEF ReleaseXchg, Goto
  <2>5. TypeOK'
    BY <2>3, <2>4 DEF TypeOK, Labels
  <2>6. \A d \in CPUs : OtherInv(d)'
    BY <2>1, <2>2, <2>4 DEF TypeOK, OtherInv, NotHolding
  <2>7. QED
    BY <2>1, <2>2, <2>3, <2>4, <2>5, <2>6 DEF TypeOK, ProperInv
<1>12. ASSUME NEW c \in CPUs, Drain(c) PROVE LockInv'
  <2>1. /\ buffer[c] # << >>
        /\ owner' = Head(buffer[c])
        /\ buffer' = [buffer EXCEPT ![c] = Tail(@)]
        /\ UNCHANGED <<locked, pc, holders>>
    BY <1>12 DEF Drain
  <2>2. c \in holders /\ holders = {c}
    BY <2>1 DEF OtherInv
  <2>3. TypeOK'
    BY <2>1 DEF TypeOK
  <2>4. NotRecorded(c) => FALSE
    BY <2>1 DEF NotRecorded
  <2>5. ASSUME Recorded(c) PROVE Recorded(c)'
    <3>1. buffer[c] = <<c>>
      BY <2>1, <2>5 DEF Recorded
    <3>2. QED
      BY <2>1, <3>1 DEF TypeOK, Recorded
  <2>6. ASSUME Cleared(c) PROVE Cleared(c)'
    <3>1. CASE buffer[c] = <<NoCPU>>
      BY <2>1, <3>1 DEF TypeOK, Cleared
    <3>2. CASE buffer[c] = <<c, NoCPU>>
      BY <2>1, <3>2 DEF TypeOK, Cleared
    <3>3. QED
      BY <2>1, <2>6, <3>1, <3>2 DEF Cleared
  <2>7. HolderInv(c)'
    BY <2>1, <2>2, <2>4, <2>5, <2>6 DEF HolderInv
  <2>8. QED
    <3>1. \A d \in CPUs \ holders : owner' # d
      <4>1. owner' \in {c, NoCPU}
        BY <2>1, <2>2 DEF HolderInv, HoldingLabels, RecordedLabels, NotRecorded, Recorded, Cleared
      <4>2. QED
        BY <2>2, <4>1
    <3>2. QED
      BY <2>1, <2>2, <2>3, <2>7, <3>1 DEF TypeOK, OtherInv, ProperInv
<1>13. QED
  BY <1>1, <1>2, <1>3, <1>4, <1>5, <1>6, <1>7, <1>8, <1>9, <1>10, <1>11, <1>12
     DEF Next, Step, SpinLockSteps, SpinUnlockSteps

(* spin_lock admits one CPU at a time, whatever careless callers do.       *)
THEOREM LockIsExclusive == Spec => []MutualExclusion
<1>1. LockInv => MutualExclusion
  BY DEF LockInv
<1>2. QED
  BY LockInvInit, LockInvNext, <1>1, PTL DEF Spec

(* The debugging checks stop the CPUs they are for and no other.           *)
THEOREM ChecksAreRight == Spec => []ChecksAreExact
<1>1. LockInv => NoFalsePanic
  BY DEF LockInv, ProperInv, NoFalsePanic
<1>2. LockInv => NoSelfDeadlock
  BY DEF LockInv, HolderInv, HoldingLabels, NoSelfDeadlock
<1>3. LockInv => NoStrayRelease
  BY CPUsAssumption DEF LockInv, OtherInv, NotHolding, NoStrayRelease
<1>4. LockInv => ChecksAreExact
  BY <1>1, <1>2, <1>3 DEF ChecksAreExact
<1>5. QED
  BY LockInvInit, LockInvNext, <1>4, PTL DEF Spec

(* The fields keep values of their kind.                                   *)
THEOREM LockTypes == Spec => []TypeOK
<1>1. LockInv => TypeOK
  BY DEF LockInv
<1>2. QED
  BY LockInvInit, LockInvNext, <1>1, PTL DEF Spec

(* A free lock carries no record of an owner, in memory or in a buffer.    *)
THEOREM FreeIsClean == Spec => []FreeHasNoOwner
<1>1. LockInv => FreeHasNoOwner
  BY DEF LockInv, OtherInv, FreeHasNoOwner
<1>2. QED
  BY LockInvInit, LockInvNext, <1>1, PTL DEF Spec

(* The lock implements the mutex the kernel is written on: a critical      *)
(* section starts with the winning xchg of spin_lock and ends with the     *)
(* xchg of spin_unlock.                                                    *)
THEOREM LockIsMutex == Spec => ImplementsMutex
<1>1. Init => Abstract!Init
  BY DEF Init, Abstract!Init, Holder
<1>2. LockInv /\ LockInv' /\ [Next]_vars => [Abstract!Next]_Holder
  <2> SUFFICES ASSUME LockInv, LockInv', [Next]_vars PROVE [Abstract!Next]_Holder
    OBVIOUS
  <2>1. ASSUME NEW c \in CPUs, TryAcquire(c) PROVE [Abstract!Next]_Holder
    <3>1. CASE locked = 0
      <4>1. holders = {} /\ holders' = {c}
        BY <2>1, <3>1 DEF LockInv, TryAcquire
      <4>2. Holder = NoCPU /\ Holder' = c
        BY <4>1 DEF Holder
      <4>3. QED
        BY <4>2 DEF Abstract!Next, Abstract!Acquire
    <3>2. CASE locked # 0
      BY <2>1, <3>2 DEF TryAcquire, Holder
    <3>3. QED
      BY <3>1, <3>2
  <2>2. ASSUME NEW c \in CPUs, ReleaseXchg(c) PROVE [Abstract!Next]_Holder
    <3>1. c \in holders
      BY <2>2 DEF LockInv, ReleaseXchg, OtherInv, NotHolding
    <3>2. holders = {c} /\ holders' = {}
      BY <2>2, <3>1 DEF LockInv, MutualExclusion, ReleaseXchg
    <3>3. Holder = c /\ Holder' = NoCPU
      BY <3>2 DEF Holder
    <3>4. QED
      BY <3>3 DEF Abstract!Next, Abstract!Release
  <2>3. ASSUME UNCHANGED holders PROVE [Abstract!Next]_Holder
    BY <2>3 DEF Holder
  <2>4. QED
    BY <2>1, <2>2, <2>3
       DEF Next, Step, SpinLockSteps, SpinUnlockSteps, vars, CallLock, CallUnlock,
           LockReadLocked, LockReadOwner, UnlockReadLocked, UnlockReadOwner,
           ReadLocked, ReadOwner, RecordOwner, ClearOwner, Drain
<1>3. QED
  BY LockInvInit, LockInvNext, <1>1, <1>2, PTL DEF Spec, ImplementsMutex, Abstract!Spec
=============================================================================
