---------------------------- MODULE MemoryProofs ----------------------------
(***************************************************************************)
(* Reference counts, the free list, page tables and TLBs, for any number   *)
(* of pages, environments and CPUs: as long as 16 bits hold the counts and *)
(* programs keep to the habits of those in user/.  At the end, what        *)
(* user_mem_check() finds out of a range of addresses, for any table.      *)
(***************************************************************************)
EXTENDS Memory, FiniteSetTheorems, TLAPS

(* Everything that can refer to a page.                                    *)
TablePlaces == Env \X (0 .. NPD - 1)
PtePlaces   == Env \X UserVA

(* pp_ref is wide enough for all references a page can have.               *)
CountsFit == 1 + Cardinality(TablePlaces) + Cardinality(Env) + Cardinality(PtePlaces) < RefMod

Present(m, e, va) == "P" \in EntryAt(m, e, va).perm
Listed(m, f)  == \E i \in DOMAIN m.free : m.free[i] = f
IsTable(m, f) == \E e \in Env : m.dir[e] = f \/ \E d \in 0 .. NPD - 1 : m.pde[e][d] = f

-----------------------------------------------------------------------------
(* The sets of references, and how their number follows them.              *)

LEMMA Sizes == NPD \in Nat /\ NPT \in Nat /\ RefMod \in Nat /\ RefMod > 1
BY SizeAssumption

LEMMA PlacesFinite == IsFiniteSet(TablePlaces) /\ IsFiniteSet(PtePlaces) /\ IsFiniteSet(Env)
<1>1. IsFiniteSet(0 .. NPD - 1) /\ IsFiniteSet(Slot)
  BY Sizes, FS_Interval DEF Slot
<1>2. IsFiniteSet(Env)
  BY EnvAssumption
<1>3. IsFiniteSet(TablePlaces)
  BY <1>1, <1>2, FS_Product DEF TablePlaces
<1>4. IsFiniteSet(UserVA)
  BY <1>1, FS_Product DEF UserVA
<1>5. IsFiniteSet(PtePlaces)
  BY <1>2, <1>4, FS_Product DEF PtePlaces
<1>6. QED
  BY <1>2, <1>3, <1>5

LEMMA RefsFinite ==
  ASSUME NEW m, NEW f
  PROVE  /\ IsFiniteSet(TableRefs(m, f)) /\ IsFiniteSet(DirRefs(m, f)) /\ IsFiniteSet(PteRefs(m, f))
         /\ Cardinality(TableRefs(m, f)) \in 0 .. Cardinality(TablePlaces)
         /\ Cardinality(DirRefs(m, f)) \in 0 .. Cardinality(Env)
         /\ Cardinality(PteRefs(m, f)) \in 0 .. Cardinality(PtePlaces)
<1>1. /\ TableRefs(m, f) \in SUBSET TablePlaces /\ DirRefs(m, f) \in SUBSET Env
      /\ PteRefs(m, f) \in SUBSET PtePlaces
  BY DEF TableRefs, DirRefs, PteRefs, TablePlaces, PtePlaces
<1>2. ASSUME NEW S, IsFiniteSet(S), NEW T \in SUBSET S
      PROVE  IsFiniteSet(T) /\ Cardinality(T) \in 0 .. Cardinality(S)
  BY <1>2, FS_Subset, FS_CardinalityType
<1>3. QED
  BY <1>1, <1>2, PlacesFinite

LEMMA UsesIsNat == \A m, f : Uses(m, f) \in Nat
BY RefsFinite DEF Uses

LEMMA UsesFit ==
  ASSUME CountsFit, NEW m, NEW f
  PROVE  Pinned(f) + Uses(m, f) \in 0 .. RefMod - 1
<1>1. /\ Cardinality(TablePlaces) \in Nat /\ Cardinality(Env) \in Nat
      /\ Cardinality(PtePlaces) \in Nat
  BY PlacesFinite, FS_CardinalityType
<1>2. Pinned(f) \in 0 .. 1
  BY DEF Pinned
<1>3. QED
  BY <1>1, <1>2, RefsFinite, Sizes DEF Uses, CountsFit

(* A page without uses is nowhere referred to.                             *)
LEMMA UnusedPage ==
  ASSUME NEW m, NEW f
  PROVE  Uses(m, f) = 0 <=> TableRefs(m, f) = {} /\ DirRefs(m, f) = {} /\ PteRefs(m, f) = {}
<1> DEFINE a == Cardinality(TableRefs(m, f))
           b == Cardinality(DirRefs(m, f))
           c == Cardinality(PteRefs(m, f))
<1>1. a \in Nat /\ b \in Nat /\ c \in Nat
  BY RefsFinite
<1>2. /\ a = 0 <=> TableRefs(m, f) = {}
      /\ b = 0 <=> DirRefs(m, f) = {}
      /\ c = 0 <=> PteRefs(m, f) = {}
  BY FS_EmptySet, RefsFinite
<1>3. Uses(m, f) = a + b + c
  BY DEF Uses
<1> HIDE DEF a, b, c
<1>4. Uses(m, f) = 0 <=> a = 0 /\ b = 0 /\ c = 0
  BY <1>1, <1>3
<1>5. QED
  BY <1>2, <1>4

LEMMA SameUses ==
  ASSUME NEW m, NEW n, NEW f, TableRefs(n, f) = TableRefs(m, f), DirRefs(n, f) = DirRefs(m, f),
         PteRefs(n, f) = PteRefs(m, f)
  PROVE  Uses(n, f) = Uses(m, f)
BY DEF Uses

(* One more reference of one of the three kinds.                           *)
LEMMA MoreTables ==
  ASSUME NEW m, NEW n, NEW f, NEW x, x \notin TableRefs(m, f), TableRefs(n, f) = TableRefs(m, f) \cup {x},
         DirRefs(n, f) = DirRefs(m, f), PteRefs(n, f) = PteRefs(m, f)
  PROVE  Uses(n, f) = Uses(m, f) + 1
<1>1. Cardinality(TableRefs(n, f)) = Cardinality(TableRefs(m, f)) + 1
  BY FS_AddElement, RefsFinite
<1>2. QED
  BY <1>1, RefsFinite DEF Uses

LEMMA MoreDirs ==
  ASSUME NEW m, NEW n, NEW f, NEW x, x \notin DirRefs(m, f), DirRefs(n, f) = DirRefs(m, f) \cup {x},
         TableRefs(n, f) = TableRefs(m, f), PteRefs(n, f) = PteRefs(m, f)
  PROVE  Uses(n, f) = Uses(m, f) + 1
<1>1. Cardinality(DirRefs(n, f)) = Cardinality(DirRefs(m, f)) + 1
  BY FS_AddElement, RefsFinite
<1>2. QED
  BY <1>1, RefsFinite DEF Uses

LEMMA MorePtes ==
  ASSUME NEW m, NEW n, NEW f, NEW x, x \notin PteRefs(m, f), PteRefs(n, f) = PteRefs(m, f) \cup {x},
         TableRefs(n, f) = TableRefs(m, f), DirRefs(n, f) = DirRefs(m, f)
  PROVE  Uses(n, f) = Uses(m, f) + 1
<1>1. Cardinality(PteRefs(n, f)) = Cardinality(PteRefs(m, f)) + 1
  BY FS_AddElement, RefsFinite
<1>2. QED
  BY <1>1, RefsFinite DEF Uses
-----------------------------------------------------------------------------
(* A memory in order, with the pages H handed out but not yet referred to. *)

Counted(m) == \A f \in Frame : m.ref[f] = Pinned(f) + Uses(m, f)
ListedOnce(m) == \A i, j \in DOMAIN m.free : m.free[i] = m.free[j] => i = j
ListExact(m, H) == \A f \in Frame : Listed(m, f) <=> Pinned(f) + Uses(m, f) = 0 /\ f \notin H
Unused(m, H) == H \subseteq Frame /\ \A f \in H : Pinned(f) + Uses(m, f) = 0

(* Page tables and directories have one place each, and are no user's page *)
(* and none of the reserved ones.                                          *)
Private(m) ==
  /\ \A e, x \in Env, d, y \in 0 .. NPD - 1 :
        m.pde[e][d] = m.pde[x][y] /\ m.pde[e][d] # None => e = x /\ d = y
  /\ \A e, x \in Env : m.dir[e] = m.dir[x] /\ m.dir[e] # None => e = x
  /\ \A e, x \in Env, d \in 0 .. NPD - 1 : m.pde[e][d] # None => m.pde[e][d] # m.dir[x]
  /\ \A e \in Env, va \in UserVA : Present(m, e, va) => ~IsTable(m, EntryAt(m, e, va).page)
  /\ \A f \in Reserved : ~IsTable(m, f)

MemOK(m, H) ==
  m \in Mem /\ Counted(m) /\ ListedOnce(m) /\ ListExact(m, H) /\ Unused(m, H) /\ Private(m)

LEMMA ModSmall ==
  ASSUME NEW a \in 0 .. RefMod - 1
  PROVE  a % RefMod = a
BY Sizes

LEMMA Constants ==
  /\ Reserved \subseteq Frame /\ None \notin Frame /\ Page0 \in Frame /\ EnvsPage \in Frame
  /\ UtopTable \in Frame /\ None \notin Env /\ None \notin UserVA
  /\ Empty \in Pte /\ Cleared \in [Slot -> Pte]
BY PageAssumption, EnvAssumption DEF Reserved, Empty, Pte, Cleared

LEMMA Split == \A va \in UserVA : va[1] \in 0 .. NPD - 1 /\ va[1] \in 0 .. NPD /\ va[2] \in Slot /\ va = <<va[1], va[2]>>
BY Sizes DEF UserVA

(* The first page of a list taken off, and a page put before it.           *)
LEMMA TailOfList ==
  ASSUME NEW m \in Mem, NEW n, n.free = Tail(m.free), m.free # << >>, ListedOnce(m)
  PROVE  /\ Head(m.free) \in Frame /\ Listed(m, Head(m.free))
         /\ ListedOnce(n)
         /\ \A f \in Frame : Listed(n, f) <=> Listed(m, f) /\ f # Head(m.free)
<1> DEFINE s == m.free
           t == Tail(s)
<1>1. s \in Seq(Frame) /\ s # << >>
  BY DEF Mem
<1>2. /\ t \in Seq(Frame) /\ Len(s) \in Nat \ {0} /\ Len(t) = Len(s) - 1
      /\ DOMAIN s = 1 .. Len(s) /\ DOMAIN t = 1 .. Len(s) - 1
      /\ \A i \in 1 .. Len(s) - 1 : t[i] = s[i + 1]
      /\ Head(s) = s[1] /\ s[1] \in Frame
  BY <1>1
<1> HIDE DEF s, t
<1>3. \A i, j \in 1 .. Len(s) : s[i] = s[j] => i = j
  BY <1>2 DEF ListedOnce, s
<1>4. \A i, j \in 1 .. Len(s) - 1 : t[i] = t[j] => i = j
  <2> SUFFICES ASSUME NEW i \in 1 .. Len(s) - 1, NEW j \in 1 .. Len(s) - 1, t[i] = t[j] PROVE i = j
    OBVIOUS
  <2>1. s[i + 1] = s[j + 1] /\ i + 1 \in 1 .. Len(s) /\ j + 1 \in 1 .. Len(s)
    BY <1>2
  <2>2. i + 1 = j + 1
    BY <2>1, <1>3
  <2>3. QED
    BY <2>2
<1>5. ASSUME NEW f \in Frame
      PROVE  (\E i \in 1 .. Len(s) - 1 : t[i] = f) <=> (\E i \in 1 .. Len(s) : s[i] = f) /\ f # s[1]
  <2>1. ASSUME NEW i \in 1 .. Len(s) - 1, t[i] = f PROVE (\E j \in 1 .. Len(s) : s[j] = f) /\ f # s[1]
    <3>1. i + 1 \in 1 .. Len(s) /\ s[i + 1] = f /\ 1 \in 1 .. Len(s) /\ i + 1 # 1
      BY <1>2, <2>1
    <3>2. QED
      BY <3>1, <1>3
  <2>2. ASSUME NEW i \in 1 .. Len(s), s[i] = f, f # s[1] PROVE \E j \in 1 .. Len(s) - 1 : t[j] = f
    <3>1. i - 1 \in 1 .. Len(s) - 1 /\ (i - 1) + 1 = i
      BY <1>2, <2>2
    <3>2. t[i - 1] = f
      BY <3>1, <1>2, <2>2
    <3>3. QED
      BY <3>1, <3>2
  <2>3. QED
    BY <2>1, <2>2
<1>6. n.free = t /\ m.free = s
  BY DEF s, t
<1>7. Head(m.free) = s[1] /\ s[1] \in Frame /\ 1 \in 1 .. Len(s)
  BY <1>2, <1>6
<1>8. ListedOnce(n)
  BY <1>2, <1>4, <1>6 DEF ListedOnce
<1>9. QED
  BY <1>2, <1>5, <1>6, <1>7, <1>8 DEF Listed

LEMMA ListWith ==
  ASSUME NEW m \in Mem, NEW n, NEW f \in Frame, n.free = <<f>> \o m.free, ListedOnce(m), ~Listed(m, f)
  PROVE  /\ ListedOnce(n) /\ n.free \in Seq(Frame) /\ n.free # << >> /\ Head(n.free) = f
         /\ \A g \in Frame : Listed(n, g) <=> Listed(m, g) \/ g = f
<1> DEFINE s == m.free
           t == <<f>> \o s
<1>1. s \in Seq(Frame)
  BY DEF Mem
<1>2. /\ t \in Seq(Frame) /\ Len(s) \in Nat /\ Len(t) = Len(s) + 1
      /\ DOMAIN s = 1 .. Len(s) /\ DOMAIN t = 1 .. Len(s) + 1
      /\ t[1] = f /\ \A i \in 1 .. Len(s) : t[i + 1] = s[i]
      /\ t # << >> /\ Head(t) = f
  BY <1>1
<1> HIDE DEF s, t
<1>3. /\ \A i, j \in 1 .. Len(s) : s[i] = s[j] => i = j
      /\ \A i \in 1 .. Len(s) : s[i] # f
  BY <1>2 DEF ListedOnce, Listed, s
<1>4. \A i \in 1 .. Len(s) + 1 : i = 1 \/ (i - 1 \in 1 .. Len(s) /\ t[i] = s[i - 1])
  <2> SUFFICES ASSUME NEW i \in 1 .. Len(s) + 1, i # 1 PROVE i - 1 \in 1 .. Len(s) /\ t[i] = s[i - 1]
    OBVIOUS
  <2>1. i - 1 \in 1 .. Len(s) /\ (i - 1) + 1 = i
    BY <1>2
  <2>2. QED
    BY <2>1, <1>2
<1>5. \A i, j \in 1 .. Len(s) + 1 : t[i] = t[j] => i = j
  <2> SUFFICES ASSUME NEW i \in 1 .. Len(s) + 1, NEW j \in 1 .. Len(s) + 1, t[i] = t[j] PROVE i = j
    OBVIOUS
  <2>1. CASE i = 1 \/ j = 1
    BY <2>1, <1>2, <1>3, <1>4
  <2>2. CASE i # 1 /\ j # 1
    <3>1. /\ i - 1 \in 1 .. Len(s) /\ t[i] = s[i - 1]
          /\ j - 1 \in 1 .. Len(s) /\ t[j] = s[j - 1]
      BY <2>2, <1>4
    <3>2. s[i - 1] = s[j - 1]
      BY <3>1
    <3>3. i - 1 = j - 1
      BY <3>1, <3>2, <1>3
    <3>4. QED
      BY <3>3, <1>2
  <2>3. QED
    BY <2>1, <2>2
<1>6. ASSUME NEW g \in Frame
      PROVE  (\E i \in 1 .. Len(s) + 1 : t[i] = g) <=> (\E i \in 1 .. Len(s) : s[i] = g) \/ g = f
  <2>1. ASSUME NEW i \in 1 .. Len(s) + 1, t[i] = g PROVE (\E j \in 1 .. Len(s) : s[j] = g) \/ g = f
    BY <2>1, <1>2, <1>4
  <2>2. ASSUME NEW i \in 1 .. Len(s), s[i] = g PROVE \E j \in 1 .. Len(s) + 1 : t[j] = g
    <3>1. i + 1 \in 1 .. Len(s) + 1 /\ t[i + 1] = g
      BY <1>2, <2>2
    <3>2. QED
      BY <3>1
  <2>3. 1 \in 1 .. Len(s) + 1 /\ t[1] = f
    BY <1>2
  <2>4. QED
    BY <2>1, <2>2, <2>3
<1>7. n.free = t /\ m.free = s
  BY DEF s, t
<1>8. ListedOnce(n)
  BY <1>2, <1>5, <1>7 DEF ListedOnce
<1>9. QED
  BY <1>2, <1>6, <1>7, <1>8 DEF Listed
-----------------------------------------------------------------------------
(* What the operations do to each field.                                   *)

LEMMA Fields ==
  ASSUME NEW m \in Mem
  PROVE  /\ m.free \in Seq(Frame) /\ m.ref \in [Frame -> 0 .. RefMod - 1]
         /\ m.dir \in [Env -> Frame \cup {None}] /\ m.pde \in [Env -> [0 .. NPD -> Frame \cup {None}]]
         /\ m.pte \in [Frame -> [Slot -> Pte]]
BY DEF Mem

LEMMA PdeField ==
  ASSUME NEW m \in Mem, NEW e \in Env, NEW d \in 0 .. NPD
  PROVE  m.pde[e][d] \in Frame \cup {None}
<1>1. m.pde[e] \in [0 .. NPD -> Frame \cup {None}]
  BY Fields
<1>2. QED
  BY <1>1

LEMMA EntryFields ==
  ASSUME NEW m \in Mem, NEW e \in Env, NEW va \in UserVA
  PROVE  EntryAt(m, e, va) \in Pte /\ Table(m, e, va) \in Frame \cup {None}
<1>1. va[1] \in 0 .. NPD /\ va[2] \in Slot
  BY Split
<1>2. Table(m, e, va) \in Frame \cup {None}
  BY <1>1, PdeField DEF Table
<1>3. QED
  BY <1>1, <1>2, Fields, Constants DEF EntryAt

LEMMA PageAllocFields ==
  ASSUME NEW m \in Mem, m.free # << >>
  PROVE  LET n == PageAlloc(m) IN
         /\ n \in Mem /\ n.free = Tail(m.free) /\ n.ref = m.ref /\ n.dir = m.dir /\ n.pde = m.pde
         /\ n.pte = [m.pte EXCEPT ![Head(m.free)] = Cleared]
<1> DEFINE pte == [m.pte EXCEPT ![Head(m.free)] = Cleared]
           t == Tail(m.free)
<1>1. t \in Seq(Frame) /\ pte \in [Frame -> [Slot -> Pte]]
  BY Fields, Constants
<1>2. /\ PageAlloc(m).free = t /\ PageAlloc(m).ref = m.ref /\ PageAlloc(m).dir = m.dir
      /\ PageAlloc(m).pde = m.pde /\ PageAlloc(m).pte = pte
  BY DEF PageAlloc, Mem
<1>3. PageAlloc(m) = [m EXCEPT !.free = t, !.pte = pte]
  BY DEF PageAlloc
<1> HIDE DEF pte, t
<1>4. PageAlloc(m) \in Mem
  BY <1>1, <1>3 DEF Mem
<1>5. QED
  BY <1>2, <1>4 DEF pte, t

LEMMA PageFreeFields ==
  ASSUME NEW m \in Mem, NEW f \in Frame
  PROVE  LET n == PageFree(m, f) IN
         /\ n \in Mem /\ n.free = <<f>> \o m.free /\ n.ref = m.ref /\ n.dir = m.dir /\ n.pde = m.pde
         /\ n.pte = m.pte
<1> DEFINE t == <<f>> \o m.free
<1>1. t \in Seq(Frame)
  BY Fields
<1>2. /\ PageFree(m, f).free = t /\ PageFree(m, f).ref = m.ref /\ PageFree(m, f).dir = m.dir
      /\ PageFree(m, f).pde = m.pde /\ PageFree(m, f).pte = m.pte
  BY DEF PageFree, Mem
<1>3. PageFree(m, f) = [m EXCEPT !.free = t]
  BY DEF PageFree
<1> HIDE DEF t
<1>4. PageFree(m, f) \in Mem
  BY <1>1, <1>3 DEF Mem
<1>5. QED
  BY <1>2, <1>4 DEF t

LEMMA NewRef ==
  ASSUME NEW m \in Mem, NEW f \in Frame, NEW k \in 0 .. RefMod - 1
  PROVE  LET n == [m EXCEPT !.ref[f] = k] IN
         /\ n \in Mem /\ n.free = m.free /\ n.dir = m.dir /\ n.pde = m.pde /\ n.pte = m.pte
         /\ n.ref = [m.ref EXCEPT ![f] = k]
<1> DEFINE ref == [m.ref EXCEPT ![f] = k]
           n == [m EXCEPT !.ref[f] = k]
<1>1. ref \in [Frame -> 0 .. RefMod - 1]
  BY Fields
<1>2. /\ n.free = m.free /\ n.dir = m.dir /\ n.pde = m.pde /\ n.pte = m.pte /\ n.ref = ref
  BY DEF Mem
<1>3. n = [m EXCEPT !.ref = ref]
  BY DEF Mem
<1> HIDE DEF ref
<1>4. n \in Mem
  BY <1>1, <1>3 DEF Mem
<1>5. QED
  BY <1>2, <1>4 DEF ref

(* Counting up and down, where the count does not wrap.                    *)
LEMMA IncRefFields ==
  ASSUME NEW m \in Mem, NEW f \in Frame, m.ref[f] + 1 < RefMod
  PROVE  LET n == IncRef(m, f) IN
         /\ n \in Mem /\ n.free = m.free /\ n.dir = m.dir /\ n.pde = m.pde /\ n.pte = m.pte
         /\ n.ref = [m.ref EXCEPT ![f] = m.ref[f] + 1]
<1>1. m.ref[f] \in 0 .. RefMod - 1 /\ m.ref[f] + 1 \in 0 .. RefMod - 1
  BY Fields, Sizes
<1>2. (m.ref[f] + 1) % RefMod = m.ref[f] + 1
  BY <1>1, ModSmall
<1>3. IncRef(m, f) = [m EXCEPT !.ref[f] = m.ref[f] + 1]
  BY <1>2 DEF IncRef
<1>4. QED
  BY <1>1, <1>3, NewRef

LEMMA DecRefFields ==
  ASSUME NEW m \in Mem, NEW f \in Frame, m.ref[f] > 0
  PROVE  LET n == DecRef(m, f) IN
         /\ n \in Mem /\ n.free = m.free /\ n.dir = m.dir /\ n.pde = m.pde /\ n.pte = m.pte
         /\ n.ref = [m.ref EXCEPT ![f] = m.ref[f] - 1]
<1>1. m.ref[f] \in 0 .. RefMod - 1 /\ m.ref[f] - 1 \in 0 .. RefMod - 1
  BY Fields, Sizes
<1>2. (m.ref[f] - 1) % RefMod = m.ref[f] - 1
  BY <1>1, ModSmall
<1>3. DecRef(m, f) = [m EXCEPT !.ref[f] = m.ref[f] - 1]
  BY <1>2 DEF DecRef
<1>4. QED
  BY <1>1, <1>3, NewRef

LEMMA SetEntryPte ==
  ASSUME NEW m \in Mem, NEW e \in Env, NEW va \in UserVA, Table(m, e, va) # None, NEW entry \in Pte
  PROVE  SetEntry(m, e, va, entry).pte = [m.pte EXCEPT ![Table(m, e, va)][va[2]] = entry]
BY DEF SetEntry, Mem

LEMMA SetEntryKeeps ==
  ASSUME NEW m \in Mem, NEW e \in Env, NEW va \in UserVA, Table(m, e, va) # None, NEW entry \in Pte
  PROVE  LET n == SetEntry(m, e, va, entry) IN
         n \in Mem /\ n.free = m.free /\ n.ref = m.ref /\ n.dir = m.dir /\ n.pde = m.pde
<1> DEFINE t == Table(m, e, va)
           pte == [m.pte EXCEPT ![t][va[2]] = entry]
           n == SetEntry(m, e, va, entry)
<1>1. t \in Frame /\ va[2] \in Slot
  BY Split, EntryFields
<1>2. pte \in [Frame -> [Slot -> Pte]]
  BY <1>1, Fields
<1>3. n.free = m.free /\ n.ref = m.ref /\ n.dir = m.dir /\ n.pde = m.pde
  BY DEF SetEntry, Mem
<1>4. n = [m EXCEPT !.pte = pte]
  BY DEF SetEntry, Mem
<1> HIDE DEF pte
<1>5. n \in Mem
  BY <1>2, <1>4 DEF Mem
<1>6. QED
  BY <1>3, <1>5 DEF pte

(* page_alloc(): nobody's map changes.                                     *)
SamePtes(m, n) == \A e \in Env, va \in UserVA : Present(m, e, va) \/ Present(n, e, va) =>
                     EntryAt(n, e, va) = EntryAt(m, e, va)
SameMaps(m, n) ==
  n.dir = m.dir /\ n.pde = m.pde /\ \A e \in Env, va \in UserVA : EntryAt(n, e, va) = EntryAt(m, e, va)

(* page_insert(), page_remove(): the map of e changes at va only.          *)
Sets(m, n, e, va, entry) ==
  /\ n.dir = m.dir /\ \A x \in Env : x # e => n.pde[x] = m.pde[x]
  /\ \A x \in Env, y \in UserVA : EntryAt(n, x, y) = IF x = e /\ y = va THEN entry ELSE EntryAt(m, x, y)

LEMMA SamePtesRefs ==
  ASSUME NEW m, NEW n, SamePtes(m, n), NEW f
  PROVE  PteRefs(n, f) = PteRefs(m, f)
BY DEF PteRefs, SamePtes, Present

LEMMA SameMapsUses ==
  ASSUME NEW m, NEW n, SameMaps(m, n), NEW f
  PROVE  Uses(n, f) = Uses(m, f)
<1>1. SamePtes(m, n)
  BY DEF SameMaps, SamePtes
<1>2. TableRefs(n, f) = TableRefs(m, f) /\ DirRefs(n, f) = DirRefs(m, f)
  BY DEF SameMaps, TableRefs, DirRefs
<1>3. QED
  BY <1>1, <1>2, SamePtesRefs, SameUses

LEMMA SameMapsPrivate ==
  ASSUME NEW m, NEW n, SameMaps(m, n), Private(m)
  PROVE  Private(n)
<1>1. \A f : IsTable(n, f) <=> IsTable(m, f)
  BY DEF SameMaps, IsTable
<1>2. \A e \in Env, va \in UserVA :
        EntryAt(n, e, va) = EntryAt(m, e, va) /\ (Present(n, e, va) <=> Present(m, e, va))
  BY DEF SameMaps, Present
<1>3. n.dir = m.dir /\ n.pde = m.pde
  BY DEF SameMaps
<1>4. QED
  BY <1>1, <1>2, <1>3 DEF Private

(* A page without uses is no table.                                        *)
LEMMA UnusedIsNoTable ==
  ASSUME NEW m, NEW f \in Frame, Uses(m, f) = 0
  PROVE  /\ ~IsTable(m, f)
         /\ \A e \in Env, va \in UserVA : Present(m, e, va) => EntryAt(m, e, va).page # f
<1>1. TableRefs(m, f) = {} /\ DirRefs(m, f) = {} /\ PteRefs(m, f) = {}
  BY UnusedPage
<1>2. ASSUME NEW e \in Env PROVE m.dir[e] # f
  BY <1>1 DEF DirRefs
<1>3. ASSUME NEW e \in Env, NEW d \in 0 .. NPD - 1 PROVE m.pde[e][d] # f
  <2>1. <<e, d>> \notin TableRefs(m, f)
    BY <1>1
  <2>2. QED
    BY <2>1 DEF TableRefs
<1>4. ASSUME NEW e \in Env, NEW va \in UserVA, Present(m, e, va) PROVE EntryAt(m, e, va).page # f
  <2>1. <<e, va>> \notin PteRefs(m, f)
    BY <1>1
  <2>2. QED
    BY <2>1, <1>4 DEF PteRefs, Present
<1>5. QED
  BY <1>2, <1>3, <1>4 DEF IsTable

(* Tables are pages that somebody uses.                                    *)
LEMMA ListedIsUnused ==
  ASSUME NEW m, NEW H, MemOK(m, H), NEW f \in Frame, Listed(m, f)
  PROVE  Uses(m, f) = 0 /\ f \notin Reserved /\ f \notin H /\ m.ref[f] = 0
<1>1. Pinned(f) + Uses(m, f) = 0 /\ f \notin H
  BY DEF MemOK, ListExact
<1>2. Pinned(f) \in Nat /\ Uses(m, f) \in Nat
  BY UsesIsNat DEF Pinned
<1>3. Pinned(f) = 0 /\ Uses(m, f) = 0
  BY <1>1, <1>2
<1>4. QED
  BY <1>1, <1>3 DEF Pinned, MemOK, Counted

LEMMA HeldIsUnused ==
  ASSUME NEW m, NEW H, MemOK(m, H), NEW f \in H
  PROVE  f \in Frame /\ Uses(m, f) = 0 /\ f \notin Reserved /\ m.ref[f] = 0 /\ ~Listed(m, f)
<1>1. Pinned(f) + Uses(m, f) = 0 /\ f \in Frame /\ ~Listed(m, f)
  BY DEF MemOK, Unused, ListExact
<1>2. Pinned(f) \in Nat /\ Uses(m, f) \in Nat
  BY UsesIsNat DEF Pinned
<1>3. Pinned(f) = 0 /\ Uses(m, f) = 0
  BY <1>1, <1>2
<1>4. QED
  BY <1>1, <1>3 DEF Pinned, MemOK, Counted
LEMMA PageDecrefFields ==
  ASSUME NEW m \in Mem, NEW f \in Frame, m.ref[f] > 0
  PROVE  LET n == PageDecref(m, f) IN
         /\ n \in Mem /\ n.dir = m.dir /\ n.pde = m.pde /\ n.pte = m.pte
         /\ n.ref = [m.ref EXCEPT ![f] = m.ref[f] - 1]
         /\ n.free = IF m.ref[f] = 1 THEN <<f>> \o m.free ELSE m.free
<1> DEFINE k == DecRef(m, f)
<1>1. /\ k \in Mem /\ k.free = m.free /\ k.dir = m.dir /\ k.pde = m.pde /\ k.pte = m.pte
      /\ k.ref = [m.ref EXCEPT ![f] = m.ref[f] - 1]
  BY DecRefFields
<1>2. k.ref[f] = 0 <=> m.ref[f] = 1
  <2>1. m.ref[f] \in Int /\ k.ref[f] = m.ref[f] - 1
    BY <1>1, Fields
  <2>2. QED
    BY <2>1
<1>3. PageDecref(m, f) = IF m.ref[f] = 1 THEN PageFree(k, f) ELSE k
  BY <1>2 DEF PageDecref
<1> HIDE DEF k
<1>4. CASE m.ref[f] = 1
  <2>1. PageDecref(m, f) = PageFree(k, f)
    BY <1>3, <1>4
  <2>2. /\ PageFree(k, f) \in Mem /\ PageFree(k, f).free = <<f>> \o k.free
        /\ PageFree(k, f).ref = k.ref /\ PageFree(k, f).dir = k.dir
        /\ PageFree(k, f).pde = k.pde /\ PageFree(k, f).pte = k.pte
    BY <1>1, PageFreeFields
  <2>3. QED
    BY <2>1, <2>2, <1>1, <1>4
<1>5. CASE m.ref[f] # 1
  <2>1. PageDecref(m, f) = k
    BY <1>3, <1>5
  <2>2. QED
    BY <2>1, <1>1, <1>5
<1>6. QED
  BY <1>4, <1>5

-----------------------------------------------------------------------------
(* Steps that keep a memory in order.                                      *)

LEMMA TableIsTable ==
  ASSUME NEW m, NEW e \in Env, NEW va \in UserVA
  PROVE  IsTable(m, Table(m, e, va))
<1>1. va[1] \in 0 .. NPD - 1
  BY Split
<1>2. QED
  BY <1>1 DEF IsTable, Table

(* A page that is no table does not matter to any map.                     *)
LEMMA OtherTables ==
  ASSUME NEW m \in Mem, NEW n, NEW h, n.dir = m.dir, n.pde = m.pde, ~IsTable(m, h),
         \A f \in Frame : f # h => n.pte[f] = m.pte[f]
  PROVE  SameMaps(m, n)
<1>1. ASSUME NEW e \in Env, NEW va \in UserVA PROVE EntryAt(n, e, va) = EntryAt(m, e, va)
  <2>1. Table(n, e, va) = Table(m, e, va) /\ Table(m, e, va) # h /\ Table(m, e, va) \in Frame \cup {None}
    BY TableIsTable, EntryFields DEF Table
  <2>2. QED
    BY <2>1 DEF EntryAt
<1>2. QED
  BY <1>1 DEF SameMaps

LEMMA PageAllocOK ==
  ASSUME NEW m, NEW H, MemOK(m, H), m.free # << >>
  PROVE  LET h == Head(m.free) IN
         /\ MemOK(PageAlloc(m), H \cup {h}) /\ SameMaps(m, PageAlloc(m))
         /\ h \in Frame /\ h \notin H /\ h \notin Reserved /\ Uses(m, h) = 0
         /\ \A f \in Frame : Listed(PageAlloc(m), f) => Listed(m, f) /\ f # h
<1> DEFINE n == PageAlloc(m)
           h == Head(m.free)
<1>1. m \in Mem /\ ListedOnce(m)
  BY DEF MemOK
<1>2. /\ n \in Mem /\ n.free = Tail(m.free) /\ n.ref = m.ref /\ n.dir = m.dir /\ n.pde = m.pde
      /\ n.pte = [m.pte EXCEPT ![h] = Cleared]
  BY <1>1, PageAllocFields
<1> HIDE DEF n, h
<1>3. /\ h \in Frame /\ Listed(m, h) /\ ListedOnce(n)
      /\ \A f \in Frame : Listed(n, f) <=> Listed(m, f) /\ f # h
  BY <1>1, <1>2, TailOfList DEF h
<1>4. Uses(m, h) = 0 /\ h \notin Reserved /\ h \notin H
  BY <1>3, ListedIsUnused
<1>5. SameMaps(m, n)
  BY <1>1, <1>2, <1>3, <1>4, UnusedIsNoTable, OtherTables, Fields
<1>6. \A f : Uses(n, f) = Uses(m, f)
  BY <1>5, SameMapsUses
<1>7. Private(n)
  BY <1>5, SameMapsPrivate DEF MemOK
<1>8. Counted(n) /\ ListExact(n, H \cup {h}) /\ Unused(n, H \cup {h})
  BY <1>2, <1>3, <1>4, <1>6 DEF MemOK, Counted, ListExact, Unused, Pinned
<1>9. QED
  BY <1>2, <1>3, <1>4, <1>5, <1>7, <1>8 DEF MemOK, n, h

LEMMA PageFreeOK ==
  ASSUME NEW m, NEW H, MemOK(m, H), NEW f \in H
  PROVE  MemOK(PageFree(m, f), H \ {f}) /\ SameMaps(m, PageFree(m, f))
<1> DEFINE n == PageFree(m, f)
<1>1. m \in Mem /\ ListedOnce(m) /\ f \in Frame /\ ~Listed(m, f) /\ Uses(m, f) = 0 /\ f \notin Reserved
  BY HeldIsUnused DEF MemOK
<1>2. /\ n \in Mem /\ n.free = <<f>> \o m.free /\ n.ref = m.ref /\ n.dir = m.dir /\ n.pde = m.pde
      /\ n.pte = m.pte
  BY <1>1, PageFreeFields
<1> HIDE DEF n
<1>3. ListedOnce(n) /\ \A g \in Frame : Listed(n, g) <=> Listed(m, g) \/ g = f
  BY <1>1, <1>2, ListWith
<1>4. SameMaps(m, n)
  BY <1>2 DEF SameMaps, EntryAt, Table
<1>5. \A g : Uses(n, g) = Uses(m, g)
  BY <1>4, SameMapsUses
<1>6. Private(n)
  BY <1>4, SameMapsPrivate DEF MemOK
<1>7. Counted(n) /\ ListExact(n, H \ {f}) /\ Unused(n, H \ {f})
  BY <1>1, <1>2, <1>3, <1>5 DEF MemOK, Counted, ListExact, Unused, Pinned
<1>8. QED
  BY <1>2, <1>3, <1>4, <1>6, <1>7 DEF MemOK, n

(* One reference more to a page that is not listed, ...                    *)
LEMMA RefMore ==
  ASSUME NEW m, NEW H, MemOK(m, H), NEW n \in Mem, NEW f \in Frame, ~Listed(m, f),
         n.free = m.free, n.ref = [m.ref EXCEPT ![f] = m.ref[f] + 1], Private(n),
         Uses(n, f) = Uses(m, f) + 1, \A g \in Frame : g # f => Uses(n, g) = Uses(m, g)
  PROVE  MemOK(n, H \ {f}) /\ \A g \in Frame : Listed(n, g) <=> Listed(m, g)
<1>1. m \in Mem /\ Counted(m) /\ ListedOnce(m) /\ ListExact(m, H) /\ Unused(m, H)
  BY DEF MemOK
<1>2. \A g \in Frame : Uses(m, g) \in Nat /\ Uses(n, g) \in Nat /\ Pinned(g) \in Nat
  BY UsesIsNat DEF Pinned
<1>3. ListedOnce(n) /\ \A g \in Frame : Listed(n, g) <=> Listed(m, g)
  BY <1>1 DEF ListedOnce, Listed
<1>4. m.ref \in [Frame -> 0 .. RefMod - 1]
  BY <1>1, Fields
<1>5. Counted(n)
  <2> SUFFICES ASSUME NEW g \in Frame PROVE n.ref[g] = Pinned(g) + Uses(n, g)
    BY DEF Counted
  <2>1. m.ref[g] = Pinned(g) + Uses(m, g) /\ m.ref[f] = Pinned(f) + Uses(m, f)
    BY <1>1 DEF Counted
  <2>2. n.ref[g] = IF g = f THEN m.ref[f] + 1 ELSE m.ref[g]
    BY <1>4
  <2>3. QED
    BY <2>1, <2>2, <1>2
<1>6. ListExact(n, H \ {f})
  <2> SUFFICES ASSUME NEW g \in Frame PROVE Listed(n, g) <=> Pinned(g) + Uses(n, g) = 0 /\ g \notin H \ {f}
    BY DEF ListExact
  <2>1. Listed(m, g) <=> Pinned(g) + Uses(m, g) = 0 /\ g \notin H
    BY <1>1 DEF ListExact
  <2>2. CASE g = f
    BY <2>2, <1>2, <1>3
  <2>3. CASE g # f
    BY <2>1, <2>3, <1>3
  <2>4. QED
    BY <2>2, <2>3
<1>7. Unused(n, H \ {f})
  BY <1>1 DEF Unused
<1>8. QED
  BY <1>3, <1>5, <1>6, <1>7 DEF MemOK

(* ... or one less, and the last one frees the page.                       *)
LEMMA RefLess ==
  ASSUME NEW m, NEW H, MemOK(m, H), NEW n \in Mem, NEW f \in Frame,
         n.free = PageDecref(m, f).free, n.ref = PageDecref(m, f).ref, Private(n),
         Uses(m, f) = Uses(n, f) + 1, \A g \in Frame : g # f => Uses(n, g) = Uses(m, g)
  PROVE  /\ MemOK(n, H)
         /\ \A g \in Frame : Listed(n, g) => Listed(m, g) \/ (g = f /\ n.free # << >> /\ Head(n.free) = f)
<1>1. m \in Mem /\ Counted(m) /\ ListedOnce(m) /\ ListExact(m, H) /\ Unused(m, H)
  BY DEF MemOK
<1>2. \A g \in Frame : Uses(m, g) \in Nat /\ Uses(n, g) \in Nat /\ Pinned(g) \in Nat
  BY UsesIsNat DEF Pinned
<1>3. m.ref[f] = Pinned(f) + Uses(m, f)
  BY <1>1 DEF Counted
<1>4. m.ref[f] > 0 /\ (m.ref[f] = 1 <=> Pinned(f) + Uses(n, f) = 0)
  BY <1>2, <1>3
<1>5. /\ n.ref = [m.ref EXCEPT ![f] = m.ref[f] - 1]
      /\ n.free = IF m.ref[f] = 1 THEN <<f>> \o m.free ELSE m.free
  BY <1>1, <1>4, PageDecrefFields
<1>6. ~Listed(m, f) /\ f \notin H
  BY <1>1, <1>2, <1>4, <1>3 DEF ListExact, Unused
<1>7. /\ ListedOnce(n)
      /\ \A g \in Frame : Listed(n, g) <=> Listed(m, g) \/ (g = f /\ m.ref[f] = 1)
      /\ m.ref[f] = 1 => n.free # << >> /\ Head(n.free) = f
  <2>1. CASE m.ref[f] = 1
    BY <2>1, <1>1, <1>5, <1>6, ListWith
  <2>2. CASE m.ref[f] # 1
    BY <2>2, <1>1, <1>5 DEF ListedOnce, Listed
  <2>3. QED
    BY <2>1, <2>2
<1>8. m.ref \in [Frame -> 0 .. RefMod - 1]
  BY <1>1, Fields
<1>9. Counted(n)
  <2> SUFFICES ASSUME NEW g \in Frame PROVE n.ref[g] = Pinned(g) + Uses(n, g)
    BY DEF Counted
  <2>1. m.ref[g] = Pinned(g) + Uses(m, g)
    BY <1>1 DEF Counted
  <2>2. n.ref[g] = IF g = f THEN m.ref[f] - 1 ELSE m.ref[g]
    BY <1>5, <1>8
  <2>3. QED
    BY <2>1, <2>2, <1>2, <1>3
<1>10. ListExact(n, H)
  <2> SUFFICES ASSUME NEW g \in Frame PROVE Listed(n, g) <=> Pinned(g) + Uses(n, g) = 0 /\ g \notin H
    BY DEF ListExact
  <2>1. Listed(m, g) <=> Pinned(g) + Uses(m, g) = 0 /\ g \notin H
    BY <1>1 DEF ListExact
  <2>2. CASE g = f
    BY <2>2, <1>4, <1>6, <1>7
  <2>3. CASE g # f
    BY <2>1, <2>3, <1>7
  <2>4. QED
    BY <2>2, <2>3
<1>11. Unused(n, H)
  BY <1>1, <1>6 DEF Unused
<1>12. QED
  BY <1>7, <1>9, <1>10, <1>11 DEF MemOK

-----------------------------------------------------------------------------
(* A page table that is new has nothing mapped.                            *)
LEMMA NewTableOK ==
  ASSUME NEW m, NEW H, MemOK(m, H), NEW e \in Env, NEW va \in UserVA,
         Table(m, e, va) = None, m.free # << >>
  PROVE  LET n == NewTable(m, e, va) IN
         /\ MemOK(n, H) /\ Sets(m, n, e, va, Empty) /\ Table(n, e, va) # None
         /\ \A f \in Frame : Listed(n, f) => Listed(m, f)
         /\ \A f \in Frame : IsTable(n, f) => IsTable(m, f) \/ Listed(m, f)
<1> DEFINE n == NewTable(m, e, va)
           h == Head(m.free)
           k == PageAlloc(m)
           d == va[1]
<1>1. /\ MemOK(k, H \cup {h}) /\ SameMaps(m, k) /\ h \in Frame /\ h \notin H /\ h \notin Reserved
      /\ Uses(m, h) = 0 /\ \A f \in Frame : Listed(k, f) => Listed(m, f) /\ f # h
  BY PageAllocOK
<1>2. /\ k \in Mem /\ k.ref = m.ref /\ k.dir = m.dir /\ k.pde = m.pde
      /\ k.pte = [m.pte EXCEPT ![h] = Cleared] /\ m \in Mem
  BY PageAllocFields DEF MemOK
<1>3. k.ref[h] = 0 /\ ~Listed(k, h)
  BY <1>1, HeldIsUnused
<1>4. d \in 0 .. NPD - 1 /\ d \in 0 .. NPD
  BY Split
<1>5. Listed(m, h)
  BY <1>2, TailOfList, PageAllocFields DEF MemOK
<1> DEFINE j == IncRef(k, h)
           pde == [m.pde EXCEPT ![e][d] = h]
<1>6. /\ j \in Mem /\ j.free = k.free /\ j.dir = m.dir /\ j.pde = m.pde /\ j.pte = k.pte
      /\ j.ref = [k.ref EXCEPT ![h] = k.ref[h] + 1]
  <2>1. k.ref[h] + 1 < RefMod
    BY <1>3, Sizes
  <2> HIDE DEF k, h
  <2>2. QED
    BY <2>1, <1>1, <1>2, IncRefFields
<1>7. pde \in [Env -> [0 .. NPD -> Frame \cup {None}]]
  BY <1>1, <1>2, <1>4, Fields
<1>8. n = [j EXCEPT !.pde[e][d] = h]
  BY DEF NewTable
<1> HIDE DEF n, k, j
<1>9. /\ n.free = k.free /\ n.dir = m.dir /\ n.ref = [k.ref EXCEPT ![h] = k.ref[h] + 1]
      /\ n.pde = pde /\ n.pte = k.pte
  BY <1>6, <1>8 DEF Mem
<1>10. n \in Mem
  <2>1. n = [j EXCEPT !.pde = pde]
    BY <1>6, <1>8 DEF Mem
  <2> HIDE DEF pde
  <2>2. QED
    BY <2>1, <1>6, <1>7 DEF Mem
<1>11. \A x \in Env, y \in 0 .. NPD : n.pde[x][y] = IF x = e /\ y = d THEN h ELSE m.pde[x][y]
  <2>1. m.pde \in [Env -> [0 .. NPD -> Frame \cup {None}]]
    BY <1>2, Fields
  <2>2. n.pde[e] = [m.pde[e] EXCEPT ![d] = h] /\ \A x \in Env : x # e => n.pde[x] = m.pde[x]
    BY <2>1, <1>9
  <2>3. m.pde[e] \in [0 .. NPD -> Frame \cup {None}]
    BY <2>1
  <2>4. QED
    BY <2>2, <2>3, <1>4
<1>12. m.pde[e][d] = None /\ h # None
  BY <1>1, Constants DEF Table
<1>13. ASSUME NEW f \in Frame PROVE IsTable(n, f) <=> IsTable(m, f) \/ f = h
  <2>1. \A x \in Env : n.dir[x] = m.dir[x]
    BY <1>9
  <2>2. f # None /\ 0 .. NPD - 1 \subseteq 0 .. NPD
    BY Constants, Sizes
  <2>3. QED
    BY <2>1, <2>2, <1>4, <1>11, <1>12 DEF IsTable
<1>14. ~IsTable(m, h)
  BY <1>1, UnusedIsNoTable
<1>15. ASSUME NEW x \in Env, NEW y \in UserVA PROVE EntryAt(n, x, y) = EntryAt(m, x, y)
  <2>1. y[1] \in 0 .. NPD /\ y[2] \in Slot
    BY Split
  <2>2. CASE x = e /\ y[1] = d
    <3>1. Table(n, x, y) = h /\ Table(m, x, y) = None
      BY <2>1, <2>2, <1>11, <1>12 DEF Table
    <3>2. n.pte[h][y[2]] = Empty
      BY <2>1, <1>1, <1>2, <1>9, Fields DEF Cleared
    <3>3. QED
      BY <3>1, <3>2, <1>12 DEF EntryAt
  <2>3. CASE ~(x = e /\ y[1] = d)
    <3>1. Table(n, x, y) = Table(m, x, y) /\ Table(m, x, y) # h /\ Table(m, x, y) \in Frame \cup {None}
      BY <2>1, <2>3, <1>2, <1>11, <1>14, TableIsTable, EntryFields DEF Table
    <3>2. Table(m, x, y) # None => n.pte[Table(m, x, y)] = m.pte[Table(m, x, y)]
      BY <3>1, <1>2, <1>9, Fields
    <3>3. QED
      BY <3>1, <3>2 DEF EntryAt
  <2>4. QED
    BY <2>2, <2>3
<1>16. ASSUME NEW f \in Frame
       PROVE  /\ DirRefs(n, f) = DirRefs(k, f) /\ PteRefs(n, f) = PteRefs(k, f)
              /\ TableRefs(n, f) = IF f = h THEN TableRefs(k, f) \cup {<<e, d>>} ELSE TableRefs(k, f)
  <2>1. DirRefs(n, f) = DirRefs(k, f)
    BY <1>2, <1>9 DEF DirRefs
  <2>2. SamePtes(k, n)
    BY <1>1, <1>15 DEF SamePtes, SameMaps
  <2>3. PteRefs(n, f) = PteRefs(k, f)
    BY <2>2, SamePtesRefs
  <2>4. ASSUME NEW x \in Env, NEW y \in 0 .. NPD - 1
        PROVE  n.pde[x][y] = f <=> k.pde[x][y] = f \/ (f = h /\ x = e /\ y = d)
    <3>1. y \in 0 .. NPD /\ f # None
      BY Constants, Sizes
    <3>2. QED
      BY <3>1, <1>2, <1>11, <1>12
  <2>5. TableRefs(n, f) = IF f = h THEN TableRefs(k, f) \cup {<<e, d>>} ELSE TableRefs(k, f)
    BY <2>4, <1>4 DEF TableRefs
  <2>6. QED
    BY <2>1, <2>3, <2>5
<1>17. <<e, d>> \notin TableRefs(k, h)
  BY <1>2, <1>12 DEF TableRefs
<1>18. Uses(n, h) = Uses(k, h) + 1 /\ \A g \in Frame : g # h => Uses(n, g) = Uses(k, g)
  BY <1>1, <1>16, <1>17, MoreTables, SameUses
<1>19. Private(m)
  BY DEF MemOK
<1>20. Private(n)
  <2>1. ASSUME NEW x \in Env, NEW z \in Env, NEW y \in 0 .. NPD - 1, NEW w \in 0 .. NPD - 1,
               n.pde[x][y] = n.pde[z][w], n.pde[x][y] # None
        PROVE  x = z /\ y = w
    <3>1. y \in 0 .. NPD /\ w \in 0 .. NPD /\ m.pde[x][y] # h /\ m.pde[z][w] # h
      BY <1>14, Sizes DEF IsTable
    <3>2. QED
      BY <3>1, <2>1, <1>11, <1>19 DEF Private
  <2>2. ASSUME NEW x \in Env, NEW z \in Env, NEW y \in 0 .. NPD - 1, n.pde[x][y] # None
        PROVE  n.pde[x][y] # n.dir[z]
    <3>1. y \in 0 .. NPD /\ m.dir[z] # h
      BY <1>14, Sizes DEF IsTable
    <3>2. QED
      BY <3>1, <2>2, <1>9, <1>11, <1>19 DEF Private
  <2>3. ASSUME NEW x \in Env, NEW y \in UserVA, Present(n, x, y) PROVE ~IsTable(n, EntryAt(n, x, y).page)
    <3>1. Present(m, x, y) /\ EntryAt(n, x, y) = EntryAt(m, x, y) /\ EntryAt(m, x, y).page \in Frame
      BY <2>3, <1>2, <1>15, EntryFields DEF Present, Pte
    <3>2. EntryAt(m, x, y).page # h
      BY <3>1, <1>1, UnusedIsNoTable
    <3>3. QED
      BY <3>1, <3>2, <1>13, <1>19 DEF Private
  <2>4. ASSUME NEW f \in Reserved PROVE ~IsTable(n, f)
    BY <1>1, <1>13, <1>19, Constants DEF Private
  <2>5. QED
    BY <2>1, <2>2, <2>3, <2>4, <1>9, <1>19 DEF Private
<1>21. MemOK(n, (H \cup {h}) \ {h}) /\ \A g \in Frame : Listed(n, g) <=> Listed(k, g)
  BY <1>1, <1>3, <1>9, <1>10, <1>18, <1>20, RefMore
<1>22. (H \cup {h}) \ {h} = H
  BY <1>1
<1>23. MemOK(n, H)
  BY <1>21, <1>22
<1>24. EntryAt(n, e, va) = Empty
  BY <1>15 DEF EntryAt
<1>25. \A x \in Env : x # e => n.pde[x] = m.pde[x]
  BY <1>2, <1>9, Fields
<1>26. Sets(m, n, e, va, Empty)
  BY <1>9, <1>15, <1>24, <1>25 DEF Sets
<1>27. Table(n, e, va) # None
  BY <1>4, <1>11, <1>12 DEF Table
<1>28. QED
  BY <1>1, <1>5, <1>13, <1>21, <1>23, <1>26, <1>27 DEF n

-----------------------------------------------------------------------------
(* Writing an entry.                                                       *)
LEMMA SetEntryEffect ==
  ASSUME NEW m \in Mem, Private(m), NEW e \in Env, NEW va \in UserVA, Table(m, e, va) # None,
         NEW entry \in Pte
  PROVE  Sets(m, SetEntry(m, e, va, entry), e, va, entry)
<1> DEFINE n == SetEntry(m, e, va, entry)
           t == Table(m, e, va)
<1>1. n.dir = m.dir /\ n.pde = m.pde /\ n.pte = [m.pte EXCEPT ![t][va[2]] = entry]
  BY SetEntryKeeps, SetEntryPte
<1>2. t \in Frame /\ va[1] \in 0 .. NPD - 1 /\ va[2] \in Slot
  BY EntryFields, Split
<1>3. /\ \A f \in Frame : f # t => n.pte[f] = m.pte[f]
      /\ \A i \in Slot : n.pte[t][i] = IF i = va[2] THEN entry ELSE m.pte[t][i]
  <2>1. m.pte \in [Frame -> [Slot -> Pte]]
    BY Fields
  <2>2. n.pte[t] = [m.pte[t] EXCEPT ![va[2]] = entry] /\ m.pte[t] \in [Slot -> Pte]
    BY <2>1, <1>1, <1>2
  <2>3. QED
    BY <2>1, <2>2, <1>1
<1> HIDE DEF n
<1>4. ASSUME NEW x \in Env, NEW y \in UserVA
      PROVE  EntryAt(n, x, y) = IF x = e /\ y = va THEN entry ELSE EntryAt(m, x, y)
  <2>1. Table(n, x, y) = Table(m, x, y) /\ Table(m, x, y) \in Frame \cup {None}
    BY <1>1, EntryFields DEF Table
  <2>2. y[1] \in 0 .. NPD - 1 /\ y[2] \in Slot /\ (y[1] = va[1] /\ y[2] = va[2] => y = va)
    BY Split
  <2>3. CASE x = e /\ y = va
    BY <2>1, <2>3, <1>2, <1>3 DEF EntryAt
  <2>4. CASE Table(m, x, y) = t /\ ~(x = e /\ y = va)
    <3>1. x = e /\ y[1] = va[1]
      BY <2>2, <2>4, <1>2 DEF Private, Table
    <3>2. y[2] # va[2]
      BY <3>1, <2>2, <2>4
    <3>3. QED
      BY <3>2, <2>1, <2>2, <2>4, <1>3 DEF EntryAt
  <2>5. CASE Table(m, x, y) # t
    BY <2>1, <2>5, <1>3 DEF EntryAt
  <2>6. QED
    BY <2>3, <2>4, <2>5
<1>5. QED
  BY <1>1, <1>4 DEF Sets, n

LEMMA EntriesPrivate ==
  ASSUME NEW m, NEW n, NEW e \in Env, NEW va \in UserVA, NEW entry, Private(m),
         n.pde = m.pde, Sets(m, n, e, va, entry), "P" \in entry.perm => ~IsTable(m, entry.page)
  PROVE  Private(n)
<1>1. n.dir = m.dir /\ \A f : IsTable(n, f) <=> IsTable(m, f)
  BY DEF Sets, IsTable
<1>2. \A x \in Env, y \in UserVA : Present(n, x, y) => ~IsTable(n, EntryAt(n, x, y).page)
  BY <1>1 DEF Private, Sets, Present
<1>3. QED
  BY <1>1, <1>2 DEF Private

LEMMA EntryUses ==
  ASSUME NEW m, NEW n, NEW e \in Env, NEW va \in UserVA, NEW entry,
         n.pde = m.pde, Sets(m, n, e, va, entry)
  PROVE  /\ ~Present(m, e, va) /\ "P" \in entry.perm =>
              /\ Uses(n, entry.page) = Uses(m, entry.page) + 1
              /\ \A g : g # entry.page => Uses(n, g) = Uses(m, g)
         /\ Present(m, e, va) /\ "P" \notin entry.perm =>
              /\ Uses(m, EntryAt(m, e, va).page) = Uses(n, EntryAt(m, e, va).page) + 1
              /\ \A g : g # EntryAt(m, e, va).page => Uses(n, g) = Uses(m, g)
<1>1. ASSUME NEW g PROVE TableRefs(n, g) = TableRefs(m, g) /\ DirRefs(n, g) = DirRefs(m, g)
  BY DEF Sets, TableRefs, DirRefs
<1>2. ASSUME NEW g, NEW x \in Env \X UserVA
      PROVE  x \in PteRefs(n, g) <=> IF x = <<e, va>> THEN "P" \in entry.perm /\ entry.page = g
                                     ELSE x \in PteRefs(m, g)
  <2>1. x[1] \in Env /\ x[2] \in UserVA /\ x = <<x[1], x[2]>>
    OBVIOUS
  <2>2. EntryAt(n, x[1], x[2]) = IF x = <<e, va>> THEN entry ELSE EntryAt(m, x[1], x[2])
    BY <2>1 DEF Sets
  <2>3. QED
    BY <2>1, <2>2 DEF PteRefs
<1>3. ASSUME NEW g PROVE PteRefs(m, g) \subseteq Env \X UserVA /\ PteRefs(n, g) \subseteq Env \X UserVA
  BY DEF PteRefs
<1>4. <<e, va>> \in Env \X UserVA
  OBVIOUS
<1>5. ASSUME NEW g PROVE <<e, va>> \in PteRefs(m, g) <=> Present(m, e, va) /\ EntryAt(m, e, va).page = g
  BY DEF PteRefs, Present
<1>6. ASSUME ~Present(m, e, va), "P" \in entry.perm, NEW g
      PROVE  /\ <<e, va>> \notin PteRefs(m, g)
             /\ PteRefs(n, g) = IF g = entry.page THEN PteRefs(m, g) \cup {<<e, va>>} ELSE PteRefs(m, g)
  <2>1. <<e, va>> \notin PteRefs(m, g)
    BY <1>5, <1>6
  <2>2. CASE g = entry.page
    BY <2>1, <2>2, <1>2, <1>3, <1>4, <1>6
  <2>3. CASE g # entry.page
    BY <2>1, <2>3, <1>2, <1>3, <1>4, <1>6
  <2>4. QED
    BY <2>1, <2>2, <2>3
<1>7. ASSUME Present(m, e, va), "P" \notin entry.perm, NEW g
      PROVE  /\ <<e, va>> \notin PteRefs(n, g)
             /\ PteRefs(m, g) = IF g = EntryAt(m, e, va).page THEN PteRefs(n, g) \cup {<<e, va>>} ELSE PteRefs(n, g)
  <2>1. <<e, va>> \notin PteRefs(n, g)
    BY <1>2, <1>4, <1>7
  <2>2. CASE g = EntryAt(m, e, va).page
    BY <2>1, <2>2, <1>2, <1>3, <1>4, <1>5, <1>7
  <2>3. CASE g # EntryAt(m, e, va).page
    BY <2>1, <2>3, <1>2, <1>3, <1>4, <1>5, <1>7
  <2>4. QED
    BY <2>1, <2>2, <2>3
<1>8. ASSUME ~Present(m, e, va), "P" \in entry.perm
      PROVE  /\ Uses(n, entry.page) = Uses(m, entry.page) + 1
             /\ \A g : g # entry.page => Uses(n, g) = Uses(m, g)
  <2>1. Uses(n, entry.page) = Uses(m, entry.page) + 1
    BY <1>1, <1>6, <1>8, MorePtes
  <2>2. ASSUME NEW g, g # entry.page PROVE Uses(n, g) = Uses(m, g)
    BY <1>1, <1>6, <1>8, <2>2, SameUses
  <2>3. QED
    BY <2>1, <2>2
<1>9. ASSUME Present(m, e, va), "P" \notin entry.perm
      PROVE  /\ Uses(m, EntryAt(m, e, va).page) = Uses(n, EntryAt(m, e, va).page) + 1
             /\ \A g : g # EntryAt(m, e, va).page => Uses(n, g) = Uses(m, g)
  <2>1. Uses(m, EntryAt(m, e, va).page) = Uses(n, EntryAt(m, e, va).page) + 1
    BY <1>1, <1>7, <1>9, MorePtes
  <2>2. ASSUME NEW g, g # EntryAt(m, e, va).page PROVE Uses(n, g) = Uses(m, g)
    BY <1>1, <1>7, <1>9, <2>2, SameUses
  <2>3. QED
    BY <2>1, <2>2
<1>10. QED
  BY <1>8, <1>9

-----------------------------------------------------------------------------
(* page_remove() of a page that is mapped.                                 *)
LEMMA PageRemoveOK ==
  ASSUME NEW m, NEW H, MemOK(m, H), NEW e \in Env, NEW va \in UserVA, Present(m, e, va)
  PROVE  LET n == PageRemove(m, e, va)
             f == EntryAt(m, e, va).page IN
         /\ MemOK(n, H) /\ Sets(m, n, e, va, Empty) /\ n.pde = m.pde
         /\ \A g \in Frame : Listed(n, g) => Listed(m, g) \/ (g = f /\ n.free # << >> /\ Head(n.free) = f)
<1> DEFINE n == PageRemove(m, e, va)
           f == EntryAt(m, e, va).page
           k == PageDecref(m, f)
<1>1. m \in Mem /\ Private(m) /\ Counted(m) /\ Empty \in Pte
  BY Constants DEF MemOK
<1>2. Table(m, e, va) # None /\ f \in Frame /\ f = PageLookup(m, e, va) /\ f # None
  <2>1. Table(m, e, va) # None
    BY DEF Present, EntryAt, Empty
  <2>2. EntryAt(m, e, va) \in Pte
    BY <1>1, EntryFields
  <2>3. QED
    BY <2>1, <2>2, Constants DEF PageLookup, EntryAt, Pte
<1>3. m.ref[f] > 0
  <2>1. m.ref[f] = Pinned(f) + Uses(m, f) /\ Uses(m, f) # 0
    BY <1>1, <1>2, UnusedIsNoTable DEF Counted
  <2>2. Pinned(f) \in Nat /\ Uses(m, f) \in Nat
    BY UsesIsNat DEF Pinned
  <2> HIDE DEF f
  <2>3. QED
    BY <2>1, <2>2
<1>4. k \in Mem /\ k.dir = m.dir /\ k.pde = m.pde /\ k.pte = m.pte
  BY <1>1, <1>2, <1>3, PageDecrefFields
<1>5. SameMaps(m, k) /\ Table(k, e, va) # None
  BY <1>2, <1>4 DEF SameMaps, EntryAt, Table
<1>6. n = SetEntry(k, e, va, Empty)
  BY <1>2 DEF PageRemove
<1> HIDE DEF n, k, f
<1>7. Private(k) /\ \A g : Uses(k, g) = Uses(m, g)
  BY <1>1, <1>5, SameMapsPrivate, SameMapsUses
<1>8. Sets(k, n, e, va, Empty)
  BY <1>1, <1>4, <1>5, <1>6, <1>7, SetEntryEffect
<1>9. n \in Mem /\ n.free = k.free /\ n.ref = k.ref /\ n.pde = k.pde
  BY <1>1, <1>4, <1>5, <1>6, SetEntryKeeps
<1>10. "P" \notin Empty.perm /\ Present(k, e, va) /\ EntryAt(k, e, va).page = f
  BY <1>5 DEF Empty, SameMaps, Present, f
<1>11. Private(n)
  BY <1>7, <1>8, <1>9, <1>10, EntriesPrivate
<1>12. Uses(m, f) = Uses(n, f) + 1 /\ \A g : g # f => Uses(n, g) = Uses(m, g)
  BY <1>7, <1>8, <1>9, <1>10, EntryUses
<1>13. /\ MemOK(n, H)
       /\ \A g \in Frame : Listed(n, g) => Listed(m, g) \/ (g = f /\ n.free # << >> /\ Head(n.free) = f)
  BY <1>2, <1>9, <1>11, <1>12, RefLess DEF k
<1>14. Sets(m, n, e, va, Empty) /\ n.pde = m.pde
  BY <1>4, <1>5, <1>8, <1>9 DEF Sets, SameMaps
<1>15. QED
  BY <1>13, <1>14 DEF n, f

(* The page that page_remove() has just freed is taken back.               *)
LEMMA OffListOK ==
  ASSUME NEW m, NEW H, MemOK(m, H), NEW f \in Frame,
         Listed(m, f) => m.free # << >> /\ Head(m.free) = f
  PROVE  LET n == OffList(m, f) IN
         /\ SameMaps(m, n) /\ ~Listed(n, f)
         /\ \E K \in SUBSET Frame : MemOK(n, K) /\ K \ {f} = H \ {f}
         /\ \A g \in Frame : Listed(n, g) => Listed(m, g)
<1> DEFINE n == OffList(m, f)
<1>1. m \in Mem /\ ListedOnce(m) /\ H \subseteq Frame
  BY DEF MemOK, Unused
<1>2. CASE ~Listed(m, f)
  <2>1. ~(m.free # << >> /\ Head(m.free) = f)
    BY <1>1, <1>2, TailOfList, PageAllocFields
  <2>2. n = m
    BY <2>1 DEF OffList
  <2>3. QED
    BY <2>2, <1>1, <1>2 DEF SameMaps
<1>3. CASE Listed(m, f)
  <2> DEFINE t == Tail(m.free)
  <2>1. m.free # << >> /\ Head(m.free) = f
    BY <1>3
  <2>2. n = [m EXCEPT !.free = t]
    BY <2>1 DEF OffList
  <2>3. t \in Seq(Frame)
    BY <1>1, <2>1, Fields
  <2> HIDE DEF t
  <2>4. n \in Mem /\ n.free = t /\ n.ref = m.ref /\ n.dir = m.dir /\ n.pde = m.pde /\ n.pte = m.pte
    BY <1>1, <2>2, <2>3 DEF Mem
  <2> HIDE DEF n
  <2>5. ListedOnce(n) /\ \A g \in Frame : Listed(n, g) <=> Listed(m, g) /\ g # f
    BY <1>1, <2>1, <2>4, TailOfList DEF t
  <2>6. SameMaps(m, n)
    BY <2>4 DEF SameMaps, EntryAt, Table
  <2>7. \A g : Uses(n, g) = Uses(m, g)
    BY <2>6, SameMapsUses
  <2>8. Private(n)
    BY <2>6, SameMapsPrivate DEF MemOK
  <2>9. Counted(n) /\ ListExact(n, H \cup {f})
    BY <2>4, <2>5, <2>7 DEF MemOK, Counted, ListExact
  <2>10. Unused(n, H \cup {f})
    BY <1>3, <2>7 DEF MemOK, Unused, ListExact
  <2>11. MemOK(n, H \cup {f})
    BY <2>4, <2>5, <2>8, <2>9, <2>10 DEF MemOK
  <2>12. H \cup {f} \in SUBSET Frame /\ (H \cup {f}) \ {f} = H \ {f}
    BY <1>1
  <2>13. QED
    BY <2>5, <2>6, <2>11, <2>12 DEF n
<1>4. QED
  BY <1>2, <1>3

(* A page gets one more mapping, at a place that has none.                 *)
LEMMA LinkOK ==
  ASSUME CountsFit, NEW m, NEW H, MemOK(m, H), NEW e \in Env, NEW va \in UserVA, NEW entry \in Pte,
         Table(m, e, va) # None, ~Present(m, e, va), "P" \in entry.perm,
         ~Listed(m, entry.page), ~IsTable(m, entry.page)
  PROVE  LET n == IncRef(SetEntry(m, e, va, entry), entry.page) IN
         /\ MemOK(n, H \ {entry.page}) /\ Sets(m, n, e, va, entry) /\ n.pde = m.pde
         /\ \A g \in Frame : Listed(n, g) => Listed(m, g)
<1> DEFINE f == entry.page
           p == SetEntry(m, e, va, entry)
           n == IncRef(p, f)
<1>1. m \in Mem /\ Private(m) /\ Counted(m) /\ f \in Frame
  BY DEF MemOK, Pte
<1>2. /\ p \in Mem /\ p.free = m.free /\ p.ref = m.ref /\ p.dir = m.dir /\ p.pde = m.pde
      /\ Sets(m, p, e, va, entry)
  <2>1. p = SetEntry(m, e, va, entry)
    OBVIOUS
  <2>2. Sets(m, p, e, va, entry)
    BY <1>1, SetEntryEffect
  <2> HIDE DEF p, n, f
  <2>3. p \in Mem /\ p.free = m.free /\ p.ref = m.ref /\ p.dir = m.dir /\ p.pde = m.pde
    BY <1>1, <2>1, SetEntryKeeps
  <2>4. QED
    BY <2>2, <2>3
<1>3. Uses(p, f) = Uses(m, f) + 1 /\ \A g : g # f => Uses(p, g) = Uses(m, g)
  BY <1>2, EntryUses
<1>4. p.ref[f] + 1 < RefMod
  <2>1. p.ref[f] = Pinned(f) + Uses(m, f)
    BY <1>1, <1>2 DEF Counted
  <2>2. Pinned(f) \in Nat /\ Uses(m, f) \in Nat /\ Pinned(f) + Uses(p, f) \in 0 .. RefMod - 1
    BY UsesIsNat, UsesFit DEF Pinned
  <2> HIDE DEF f, p
  <2>3. QED
    BY <2>1, <2>2, <1>3, Sizes
<1> HIDE DEF f, p
<1>5. /\ n \in Mem /\ n.free = p.free /\ n.dir = p.dir /\ n.pde = p.pde /\ n.pte = p.pte
      /\ n.ref = [p.ref EXCEPT ![f] = p.ref[f] + 1]
  BY <1>1, <1>2, <1>4, IncRefFields
<1> HIDE DEF n
<1>6. SameMaps(p, n)
  BY <1>5 DEF SameMaps, EntryAt, Table
<1>7. Private(p)
  BY <1>1, <1>2, EntriesPrivate DEF f
<1>8. Private(n) /\ \A g : Uses(n, g) = Uses(p, g)
  BY <1>6, <1>7, SameMapsPrivate, SameMapsUses
<1>9. ~Listed(m, f)
  BY DEF f
<1>10. MemOK(n, H \ {f}) /\ \A g \in Frame : Listed(n, g) <=> Listed(m, g)
  BY <1>1, <1>2, <1>3, <1>5, <1>8, <1>9, RefMore
<1>11. Sets(m, n, e, va, entry) /\ n.pde = m.pde
  BY <1>2, <1>5, <1>6 DEF Sets, SameMaps
<1>12. QED
  BY <1>10, <1>11 DEF n, p, f

-----------------------------------------------------------------------------
(* page_insert(), as its callers use it.                                   *)
ReadyFor(m, e, va, f) ==
  /\ Table(m, e, va) # None /\ ~Present(m, e, va) /\ ~IsTable(m, f)
  /\ Listed(m, f) => m.free # << >> /\ Head(m.free) = f

LEMMA MappedOK ==
  ASSUME CountsFit, NEW m, NEW H, MemOK(m, H), NEW e \in Env, NEW va \in UserVA, NEW f \in Frame,
         NEW perm \in SUBSET Perm, ReadyFor(m, e, va, f)
  PROVE  LET n == Mapped(m, e, f, va, perm) IN
         /\ MemOK(n, H \ {f}) /\ Sets(m, n, e, va, [page |-> f, perm |-> perm \cup {"P"}])
         /\ n.pde = m.pde
<1> USE DEF ReadyFor
<1> DEFINE entry == [page |-> f, perm |-> perm \cup {"P"}]
           k == OffList(m, f)
           n == Mapped(m, e, f, va, perm)
<1>1. entry \in Pte /\ entry.page = f /\ "P" \in entry.perm
  BY DEF Pte, Perm
<1>2. SameMaps(m, k) /\ ~Listed(k, f) /\ \E K \in SUBSET Frame : MemOK(k, K) /\ K \ {f} = H \ {f}
  BY OffListOK
<1>3. PICK K \in SUBSET Frame : MemOK(k, K) /\ K \ {f} = H \ {f}
  BY <1>2
<1>4. n = IncRef(SetEntry(k, e, va, entry), entry.page)
  BY <1>1 DEF Mapped
<1> HIDE DEF k, entry, n
<1>5. Table(k, e, va) # None /\ ~Present(k, e, va) /\ ~IsTable(k, f)
  BY <1>2 DEF SameMaps, Table, Present, IsTable
<1>6. MemOK(n, K \ {f}) /\ Sets(k, n, e, va, entry) /\ n.pde = k.pde
  BY <1>1, <1>2, <1>3, <1>4, <1>5, LinkOK
<1>7. Sets(m, n, e, va, entry) /\ n.pde = m.pde
  BY <1>2, <1>6 DEF Sets, SameMaps
<1>8. MemOK(n, H \ {f})
  BY <1>3, <1>6
<1>9. QED
  BY <1>7, <1>8 DEF n, entry

LEMMA PageInsertOK ==
  ASSUME CountsFit, NEW m, NEW H, MemOK(m, H), NEW e \in Env, NEW va \in UserVA, NEW f \in Frame,
         NEW perm \in SUBSET Perm, CanInsert(m, e, va), ~Listed(m, f), ~IsTable(m, f)
  PROVE  LET n == PageInsert(m, e, f, va, perm) IN
         MemOK(n, H \ {f}) /\ Sets(m, n, e, va, [page |-> f, perm |-> perm \cup {"P"}])
<1> DEFINE entry == [page |-> f, perm |-> perm \cup {"P"}]
           n == PageInsert(m, e, f, va, perm)
<1>1. CASE Table(m, e, va) = None
  <2> DEFINE k == NewTable(m, e, va)
  <2>1. m.free # << >>
    BY <1>1 DEF CanInsert
  <2>2. /\ MemOK(k, H) /\ Sets(m, k, e, va, Empty) /\ Table(k, e, va) # None
        /\ ~Listed(k, f) /\ ~IsTable(k, f)
    BY <1>1, <2>1, NewTableOK
  <2>3. n = Mapped(k, e, f, va, perm)
    BY <1>1 DEF PageInsert
  <2> HIDE DEF k, n
  <2>4. ReadyFor(k, e, va, f)
    BY <2>2 DEF ReadyFor, Sets, Present, Empty
  <2>5. MemOK(n, H \ {f}) /\ Sets(k, n, e, va, entry) /\ n.pde = k.pde
    BY <2>2, <2>3, <2>4, MappedOK
  <2>6. Sets(m, n, e, va, entry)
    BY <2>2, <2>5 DEF Sets
  <2>7. QED
    BY <2>5, <2>6 DEF n
<1>2. CASE Table(m, e, va) # None /\ Present(m, e, va)
  <2> DEFINE k == PageRemove(m, e, va)
  <2>1. /\ MemOK(k, H) /\ Sets(m, k, e, va, Empty) /\ k.pde = m.pde
        /\ Listed(k, f) => k.free # << >> /\ Head(k.free) = f
    BY <1>2, PageRemoveOK
  <2>2. n = Mapped(k, e, f, va, perm)
    BY <1>2 DEF PageInsert, Present
  <2> HIDE DEF k, n
  <2>3. ReadyFor(k, e, va, f)
    <3>1. Table(k, e, va) # None /\ ~Present(k, e, va) /\ ~IsTable(k, f)
      BY <1>2, <2>1 DEF Sets, Present, Empty, IsTable, Table
    <3>2. QED
      BY <3>1, <2>1 DEF ReadyFor
  <2>4. MemOK(n, H \ {f}) /\ Sets(k, n, e, va, entry) /\ n.pde = k.pde
    <3>1. MemOK(k, H)
      BY <2>1
    <3>2. QED
      BY <3>1, <2>2, <2>3, MappedOK
  <2>5. Sets(m, n, e, va, entry)
    BY <2>1, <2>4 DEF Sets
  <2>6. QED
    BY <2>4, <2>5 DEF n
<1>3. CASE Table(m, e, va) # None /\ ~Present(m, e, va)
  <2>1. n = Mapped(m, e, f, va, perm)
    BY <1>3 DEF PageInsert, Present
  <2> HIDE DEF n
  <2>2. ReadyFor(m, e, va, f)
    BY <1>3 DEF ReadyFor
  <2>3. MemOK(n, H \ {f}) /\ Sets(m, n, e, va, entry)
    BY <2>1, <2>2, MappedOK
  <2>4. QED
    BY <2>3 DEF n
<1>4. QED
  BY <1>1, <1>2, <1>3

-----------------------------------------------------------------------------
(* Address spaces come and go.  Nothing is mapped in one without tables.   *)
NoTables(m, e) == \A d \in 0 .. NPD - 1 : m.pde[e][d] = None

(* The page directories and the maps of all others stay.                   *)
OthersKept(m, n, e) ==
  /\ \A x \in Env : x # e => n.dir[x] = m.dir[x] /\ n.pde[x] = m.pde[x]
  /\ \A x \in Env, y \in UserVA : x # e => EntryAt(n, x, y) = EntryAt(m, x, y)

(* The map of e loses entries at most.                                     *)
NothingNew(m, n, e) ==
  \A va \in UserVA : EntryAt(n, e, va) = Empty \/ EntryAt(n, e, va) = EntryAt(m, e, va)

LEMMA NoTablesEmpty ==
  ASSUME NEW m, NEW e \in Env, NoTables(m, e), NEW va \in UserVA
  PROVE  EntryAt(m, e, va) = Empty
BY Split DEF NoTables, EntryAt, Table

(* env_setup_vm().                                                         *)
LEMMA EnvSetupVmOK ==
  ASSUME NEW m, NEW H, MemOK(m, H), NEW e \in Env, m.dir[e] = None, NoTables(m, e), m.free # << >>
  PROVE  LET n == EnvSetupVm(m, e) IN
         MemOK(n, H) /\ OthersKept(m, n, e) /\ n.dir[e] # None /\ NoTables(n, e)
<1> DEFINE n == EnvSetupVm(m, e)
           h == Head(m.free)
           k == PageAlloc(m)
           j == IncRef(k, h)
           new == [d \in 0 .. NPD |-> IF d = NPD THEN UtopTable ELSE None]
           dir == [m.dir EXCEPT ![e] = h]
           pde == [m.pde EXCEPT ![e] = new]
<1>1. /\ MemOK(k, H \cup {h}) /\ SameMaps(m, k) /\ h \in Frame /\ h \notin H /\ h \notin Reserved
      /\ Uses(m, h) = 0 /\ m \in Mem
  BY PageAllocOK DEF MemOK
<1>2. k \in Mem /\ k.ref = m.ref /\ k.dir = m.dir /\ k.pde = m.pde /\ k.pte = [m.pte EXCEPT ![h] = Cleared]
  BY <1>1, PageAllocFields
<1>3. k.ref[h] = 0 /\ ~Listed(k, h)
  BY <1>1, HeldIsUnused
<1>4. k.ref[h] + 1 < RefMod
  BY <1>3, Sizes
<1> HIDE DEF n, k, h
<1>5. /\ j \in Mem /\ j.free = k.free /\ j.dir = k.dir /\ j.pde = k.pde /\ j.pte = k.pte
      /\ j.ref = [k.ref EXCEPT ![h] = k.ref[h] + 1]
  BY <1>1, <1>2, <1>4, IncRefFields
<1>6. n = [j EXCEPT !.dir[e] = h, !.pde[e] = new]
  BY DEF EnvSetupVm, n, k, h
<1>7. new \in [0 .. NPD -> Frame \cup {None}] /\ \A d \in 0 .. NPD - 1 : new[d] = None
  BY Constants, Sizes
<1> HIDE DEF j, new
<1>8. /\ n.free = k.free /\ n.ref = [k.ref EXCEPT ![h] = k.ref[h] + 1] /\ n.pte = k.pte
      /\ n.dir = dir /\ n.pde = pde
  BY <1>2, <1>5, <1>6 DEF Mem
<1>9. n \in Mem
  <2>1. dir \in [Env -> Frame \cup {None}] /\ pde \in [Env -> [0 .. NPD -> Frame \cup {None}]]
    BY <1>1, <1>7, Fields
  <2>2. n = [j EXCEPT !.dir = dir, !.pde = pde]
    BY <1>2, <1>5, <1>6 DEF Mem
  <2> HIDE DEF dir, pde
  <2>3. QED
    BY <2>1, <2>2, <1>5 DEF Mem
<1>10. /\ n.dir[e] = h /\ \A x \in Env : x # e => n.dir[x] = m.dir[x]
       /\ n.pde[e] = new /\ \A x \in Env : x # e => n.pde[x] = m.pde[x]
  BY <1>1, <1>8, Fields
<1> HIDE DEF dir, pde
<1>11. NoTables(n, e) /\ h # None
  BY <1>1, <1>7, <1>10, Constants DEF NoTables
<1>12. ~IsTable(m, h)
  BY <1>1, UnusedIsNoTable DEF h
<1>13. ASSUME NEW x \in Env, NEW y \in UserVA PROVE EntryAt(n, x, y) = EntryAt(m, x, y)
  <2>1. CASE x = e
    BY <2>1, <1>11, NoTablesEmpty
  <2>2. CASE x # e
    <3>1. Table(n, x, y) = Table(m, x, y) /\ Table(m, x, y) # h /\ Table(m, x, y) \in Frame \cup {None}
      BY <2>2, <1>1, <1>10, <1>12, TableIsTable, EntryFields DEF Table
    <3>2. Table(m, x, y) # None => n.pte[Table(m, x, y)] = m.pte[Table(m, x, y)]
      BY <3>1, <1>1, <1>2, <1>8, Fields
    <3>3. QED
      BY <3>1, <3>2 DEF EntryAt
  <2>3. QED
    BY <2>1, <2>2
<1>14. OthersKept(m, n, e)
  BY <1>10, <1>13 DEF OthersKept
<1>15. \A x \in Env, d \in 0 .. NPD - 1 : n.pde[x][d] = m.pde[x][d]
  BY <1>10, <1>11 DEF NoTables
<1>16. ASSUME NEW f \in Frame
       PROVE  /\ TableRefs(n, f) = TableRefs(k, f) /\ PteRefs(n, f) = PteRefs(k, f)
              /\ DirRefs(n, f) = IF f = h THEN DirRefs(k, f) \cup {e} ELSE DirRefs(k, f)
  <2>1. TableRefs(n, f) = TableRefs(k, f)
    BY <1>2, <1>15 DEF TableRefs
  <2>2. SamePtes(k, n)
    BY <1>1, <1>13 DEF SamePtes, SameMaps
  <2>3. PteRefs(n, f) = PteRefs(k, f)
    BY <2>2, SamePtesRefs
  <2>4. f # None /\ k.dir[e] = None
    BY <1>2, Constants
  <2>5. DirRefs(n, f) = IF f = h THEN DirRefs(k, f) \cup {e} ELSE DirRefs(k, f)
    BY <2>4, <1>2, <1>10 DEF DirRefs
  <2>6. QED
    BY <2>1, <2>3, <2>5
<1>17. e \notin DirRefs(k, h)
  BY <1>2, <1>11 DEF DirRefs
<1>18. Uses(n, h) = Uses(k, h) + 1 /\ \A g \in Frame : g # h => Uses(n, g) = Uses(k, g)
  BY <1>1, <1>16, <1>17, MoreDirs, SameUses
<1>19. Private(m)
  BY DEF MemOK
<1>20. ASSUME NEW f \in Frame PROVE IsTable(n, f) => IsTable(m, f) \/ f = h
  BY <1>10, <1>15 DEF IsTable
<1>21. Private(n)
  <2>1. ASSUME NEW x \in Env, NEW z \in Env, n.dir[x] = n.dir[z], n.dir[x] # None PROVE x = z
    <3>1. m.dir[x] # h /\ m.dir[z] # h
      BY <1>12 DEF IsTable
    <3>2. QED
      BY <3>1, <2>1, <1>10, <1>19 DEF Private
  <2>2. ASSUME NEW x \in Env, NEW z \in Env, NEW y \in 0 .. NPD - 1, n.pde[x][y] # None
        PROVE  n.pde[x][y] # n.dir[z]
    <3>1. m.pde[x][y] # h
      BY <1>12 DEF IsTable
    <3>2. QED
      BY <3>1, <2>2, <1>10, <1>15, <1>19 DEF Private
  <2>3. ASSUME NEW x \in Env, NEW y \in UserVA, Present(n, x, y) PROVE ~IsTable(n, EntryAt(n, x, y).page)
    <3>1. Present(m, x, y) /\ EntryAt(n, x, y) = EntryAt(m, x, y) /\ EntryAt(m, x, y).page \in Frame
      BY <2>3, <1>1, <1>13, EntryFields DEF Present, Pte
    <3>2. EntryAt(m, x, y).page # h
      BY <3>1, <1>1, UnusedIsNoTable
    <3>3. QED
      BY <3>1, <3>2, <1>19, <1>20 DEF Private
  <2>4. ASSUME NEW f \in Reserved PROVE ~IsTable(n, f)
    BY <1>1, <1>19, <1>20, Constants DEF Private
  <2>5. QED
    BY <2>1, <2>2, <2>3, <2>4, <1>15, <1>19 DEF Private
<1>22. MemOK(n, (H \cup {h}) \ {h})
  BY <1>1, <1>3, <1>8, <1>9, <1>18, <1>21, RefMore
<1>23. (H \cup {h}) \ {h} = H
  BY <1>1
<1>24. QED
  BY <1>10, <1>11, <1>14, <1>22, <1>23 DEF n

(* env_free(): a table without mappings is given back, ...                 *)
LEMMA TableFreedOK ==
  ASSUME NEW m, NEW H, MemOK(m, H), NEW e \in Env, NEW d \in 0 .. NPD - 1,
         m.pde[e][d] # None, PresentIn(m, e, d) = {}
  PROVE  LET n == TableFreed(m, e, d) IN
         MemOK(n, H) /\ OthersKept(m, n, e) /\ NothingNew(m, n, e) /\ n.dir = m.dir
<1> DEFINE n == TableFreed(m, e, d)
           f == m.pde[e][d]
           p == [m EXCEPT !.pde[e][d] = None]
           pde == [m.pde EXCEPT ![e][d] = None]
<1>1. m \in Mem /\ Private(m) /\ Counted(m) /\ d \in 0 .. NPD
  BY Sizes DEF MemOK
<1>2. f \in Frame /\ f # None
  BY <1>1, PdeField, Constants
<1>3. pde \in [Env -> [0 .. NPD -> Frame \cup {None}]]
  BY <1>1, Fields
<1>4. p.free = m.free /\ p.ref = m.ref /\ p.dir = m.dir /\ p.pte = m.pte /\ p.pde = pde
  BY <1>1 DEF Mem
<1>5. p = [m EXCEPT !.pde = pde]
  BY <1>1 DEF Mem
<1>6. p \in Mem
  <2> HIDE DEF pde
  <2>1. QED
    BY <1>1, <1>3, <1>5 DEF Mem
<1>7. \A x \in Env, y \in 0 .. NPD : pde[x][y] = IF x = e /\ y = d THEN None ELSE m.pde[x][y]
  <2>1. m.pde \in [Env -> [0 .. NPD -> Frame \cup {None}]]
    BY <1>1, Fields
  <2>2. pde[e] = [m.pde[e] EXCEPT ![d] = None] /\ \A x \in Env : x # e => pde[x] = m.pde[x]
    BY <2>1
  <2>3. m.pde[e] \in [0 .. NPD -> Frame \cup {None}]
    BY <2>1
  <2> HIDE DEF pde, p, n, f
  <2>4. QED
    BY <2>2, <2>3, <1>1
<1>8. \A x \in Env : x # e => pde[x] = m.pde[x]
  BY <1>1, Fields
<1>9. n = PageDecref(p, f)
  BY DEF TableFreed
<1>10. <<e, d>> \in TableRefs(m, f)
  BY DEF TableRefs
<1>11. m.ref[f] > 0
  <2>1. m.ref[f] = Pinned(f) + Uses(m, f) /\ Uses(m, f) # 0
    BY <1>1, <1>2, <1>10, UnusedPage DEF Counted
  <2>2. Pinned(f) \in Nat /\ Uses(m, f) \in Nat
    BY UsesIsNat DEF Pinned
  <2> HIDE DEF f
  <2>3. QED
    BY <2>1, <2>2
<1> HIDE DEF n, p, f, pde
<1>12. n \in Mem /\ n.dir = m.dir /\ n.pde = pde /\ n.pte = m.pte
  BY <1>2, <1>4, <1>6, <1>9, <1>11, PageDecrefFields
<1>13. n.free = PageDecref(m, f).free /\ n.ref = PageDecref(m, f).ref
  <2>1. /\ n.ref = [p.ref EXCEPT ![f] = p.ref[f] - 1]
        /\ n.free = IF p.ref[f] = 1 THEN <<f>> \o p.free ELSE p.free
    BY <1>2, <1>4, <1>6, <1>9, <1>11, PageDecrefFields
  <2>2. /\ PageDecref(m, f).ref = [m.ref EXCEPT ![f] = m.ref[f] - 1]
        /\ PageDecref(m, f).free = IF m.ref[f] = 1 THEN <<f>> \o m.free ELSE m.free
    BY <1>1, <1>2, <1>11, PageDecrefFields
  <2>3. QED
    BY <2>1, <2>2, <1>4
<1>14. ASSUME NEW x \in Env, NEW y \in UserVA, ~(x = e /\ y[1] = d) PROVE EntryAt(n, x, y) = EntryAt(m, x, y)
  <2>1. y[1] \in 0 .. NPD
    BY Split
  <2>2. Table(n, x, y) = Table(m, x, y)
    BY <2>1, <1>7, <1>12, <1>14 DEF Table
  <2>3. QED
    BY <2>2, <1>12 DEF EntryAt
<1>15. ASSUME NEW y \in UserVA, y[1] = d PROVE EntryAt(n, e, y) = Empty /\ ~Present(m, e, y)
  <2>1. Table(n, e, y) = None
    BY <1>1, <1>7, <1>12, <1>15 DEF Table
  <2>2. y[2] \in Slot /\ Table(m, e, y) # None
    BY <1>15, Split DEF Table
  <2>3. y[2] \notin PresentIn(m, e, d)
    OBVIOUS
  <2>4. ~Present(m, e, y)
    BY <2>2, <2>3, <1>15 DEF PresentIn, Present, EntryAt, Table
  <2>5. QED
    BY <2>1, <2>4 DEF EntryAt
<1>16. SamePtes(m, n)
  BY <1>14, <1>15 DEF SamePtes, Present, Empty
<1>17. OthersKept(m, n, e)
  BY <1>8, <1>12, <1>14 DEF OthersKept
<1>18. ASSUME NEW x \in Env, NEW y \in 0 .. NPD - 1
       PROVE  n.pde[x][y] = IF x = e /\ y = d THEN None ELSE m.pde[x][y]
  BY <1>7, <1>12, Sizes
<1>19. ASSUME NEW g \in Frame
       PROVE  /\ DirRefs(m, g) = DirRefs(n, g) /\ PteRefs(m, g) = PteRefs(n, g)
              /\ TableRefs(m, g) = IF g = f THEN TableRefs(n, g) \cup {<<e, d>>} ELSE TableRefs(n, g)
  <2>1. DirRefs(m, g) = DirRefs(n, g)
    BY <1>12 DEF DirRefs
  <2>2. PteRefs(m, g) = PteRefs(n, g)
    BY <1>16, SamePtesRefs
  <2>3. ASSUME NEW x \in Env, NEW y \in 0 .. NPD - 1
        PROVE  m.pde[x][y] = g <=> n.pde[x][y] = g \/ (g = f /\ x = e /\ y = d)
    BY <1>18, Constants DEF f
  <2>4. TableRefs(m, g) = IF g = f THEN TableRefs(n, g) \cup {<<e, d>>} ELSE TableRefs(n, g)
    BY <2>3 DEF TableRefs
  <2>5. QED
    BY <2>1, <2>2, <2>4
<1>20. <<e, d>> \notin TableRefs(n, f)
  BY <1>2, <1>18 DEF TableRefs
<1>21. Uses(m, f) = Uses(n, f) + 1 /\ \A g \in Frame : g # f => Uses(n, g) = Uses(m, g)
  BY <1>2, <1>19, <1>20, MoreTables, SameUses
<1>22. ASSUME NEW g, g # None PROVE IsTable(n, g) => IsTable(m, g)
  BY <1>12, <1>18, <1>22 DEF IsTable
<1>23. Private(n)
  <2>1. ASSUME NEW x \in Env, NEW y \in UserVA, Present(n, x, y) PROVE ~IsTable(n, EntryAt(n, x, y).page)
    <3>1. EntryAt(n, x, y) = EntryAt(m, x, y) /\ Present(m, x, y)
      BY <2>1, <1>16 DEF SamePtes, Present
    <3>2. EntryAt(m, x, y).page \in Frame
      BY <1>1, EntryFields DEF Pte
    <3>3. QED
      BY <3>1, <3>2, <1>1, <1>22, Constants DEF Private
  <2>2. ASSUME NEW g \in Reserved PROVE ~IsTable(n, g)
    BY <1>1, <1>22, Constants DEF Private
  <2>3. QED
    BY <2>1, <2>2, <1>1, <1>12, <1>18 DEF Private
<1>24. MemOK(n, H)
  BY <1>2, <1>12, <1>13, <1>21, <1>23, RefLess
<1>25. NothingNew(m, n, e)
  BY <1>14, <1>15 DEF NothingNew
<1>26. QED
  BY <1>12, <1>17, <1>24, <1>25 DEF n

(* ... and at last the directory.                                          *)
LEMMA DirFreedOK ==
  ASSUME NEW m, NEW H, MemOK(m, H), NEW e \in Env, m.dir[e] # None, NoTables(m, e)
  PROVE  LET n == DirFreed(m, e) IN
         MemOK(n, H) /\ OthersKept(m, n, e) /\ n.dir[e] = None /\ NoTables(n, e)
<1> DEFINE n == DirFreed(m, e)
           f == m.dir[e]
           none == [d \in 0 .. NPD |-> None]
           dir == [m.dir EXCEPT ![e] = None]
           pde == [m.pde EXCEPT ![e] = none]
           p == [m EXCEPT !.dir[e] = None, !.pde[e] = none]
<1>1. m \in Mem /\ Private(m) /\ Counted(m)
  BY DEF MemOK
<1>2. f \in Frame /\ f # None
  BY <1>1, Fields, Constants
<1>3. /\ dir \in [Env -> Frame \cup {None}]
      /\ none \in [0 .. NPD -> Frame \cup {None}] /\ \A d \in 0 .. NPD - 1 : none[d] = None
  BY <1>1, Fields, Sizes
<1>4. n = PageDecref(p, f)
  BY DEF DirFreed
<1> HIDE DEF none
<1>5. pde \in [Env -> [0 .. NPD -> Frame \cup {None}]]
  BY <1>1, <1>3, Fields
<1>6. p.free = m.free /\ p.ref = m.ref /\ p.dir = dir /\ p.pte = m.pte /\ p.pde = pde
  BY <1>1 DEF Mem
<1>7. p \in Mem
  <2>1. p = [m EXCEPT !.dir = dir, !.pde = pde]
    BY <1>1 DEF Mem
  <2> HIDE DEF dir, pde, p
  <2>2. QED
    BY <2>1, <1>1, <1>3, <1>5 DEF Mem
<1>8. /\ dir[e] = None /\ \A x \in Env : x # e => dir[x] = m.dir[x]
      /\ pde[e] = none /\ \A x \in Env : x # e => pde[x] = m.pde[x]
  BY <1>1, Fields
<1>9. e \in DirRefs(m, f)
  BY DEF DirRefs
<1>10. m.ref[f] > 0
  <2>1. m.ref[f] = Pinned(f) + Uses(m, f) /\ Uses(m, f) # 0
    BY <1>1, <1>2, <1>9, UnusedPage DEF Counted
  <2>2. Pinned(f) \in Nat /\ Uses(m, f) \in Nat
    BY UsesIsNat DEF Pinned
  <2> HIDE DEF f
  <2>3. QED
    BY <2>1, <2>2
<1> HIDE DEF n, p, f, dir, pde
<1>11. n \in Mem /\ n.dir = dir /\ n.pde = pde /\ n.pte = m.pte
  BY <1>2, <1>4, <1>6, <1>7, <1>10, PageDecrefFields
<1>12. n.free = PageDecref(m, f).free /\ n.ref = PageDecref(m, f).ref
  <2>1. /\ n.ref = [p.ref EXCEPT ![f] = p.ref[f] - 1]
        /\ n.free = IF p.ref[f] = 1 THEN <<f>> \o p.free ELSE p.free
    BY <1>2, <1>4, <1>6, <1>7, <1>10, PageDecrefFields
  <2>2. /\ PageDecref(m, f).ref = [m.ref EXCEPT ![f] = m.ref[f] - 1]
        /\ PageDecref(m, f).free = IF m.ref[f] = 1 THEN <<f>> \o m.free ELSE m.free
    BY <1>1, <1>2, <1>10, PageDecrefFields
  <2>3. QED
    BY <2>1, <2>2, <1>6
<1>13. NoTables(n, e) /\ \A x \in Env, d \in 0 .. NPD - 1 : n.pde[x][d] = m.pde[x][d]
  BY <1>3, <1>8, <1>11 DEF NoTables
<1>14. ASSUME NEW x \in Env, NEW y \in UserVA PROVE EntryAt(n, x, y) = EntryAt(m, x, y)
  <2>1. Table(n, x, y) = Table(m, x, y)
    BY <1>13, Split DEF Table
  <2>2. QED
    BY <2>1, <1>11 DEF EntryAt
<1>15. OthersKept(m, n, e)
  BY <1>8, <1>11, <1>14 DEF OthersKept
<1>16. SamePtes(m, n)
  BY <1>14 DEF SamePtes
<1>17. ASSUME NEW g \in Frame
       PROVE  /\ TableRefs(m, g) = TableRefs(n, g) /\ PteRefs(m, g) = PteRefs(n, g)
              /\ DirRefs(m, g) = IF g = f THEN DirRefs(n, g) \cup {e} ELSE DirRefs(n, g)
  <2>1. TableRefs(m, g) = TableRefs(n, g)
    BY <1>13 DEF TableRefs
  <2>2. PteRefs(m, g) = PteRefs(n, g)
    BY <1>16, SamePtesRefs
  <2>3. ASSUME NEW x \in Env PROVE m.dir[x] = g <=> n.dir[x] = g \/ (g = f /\ x = e)
    BY <1>8, <1>11, Constants DEF f
  <2>4. DirRefs(m, g) = IF g = f THEN DirRefs(n, g) \cup {e} ELSE DirRefs(n, g)
    BY <2>3 DEF DirRefs
  <2>5. QED
    BY <2>1, <2>2, <2>4
<1>18. e \notin DirRefs(n, f)
  BY <1>2, <1>8, <1>11 DEF DirRefs
<1>19. Uses(m, f) = Uses(n, f) + 1 /\ \A g \in Frame : g # f => Uses(n, g) = Uses(m, g)
  BY <1>2, <1>17, <1>18, MoreDirs, SameUses
<1>20. ASSUME NEW g, g # None PROVE IsTable(n, g) => IsTable(m, g)
  BY <1>8, <1>11, <1>13, <1>20 DEF IsTable
<1>21. Private(n)
  <2>1. ASSUME NEW x \in Env, NEW y \in UserVA, Present(n, x, y) PROVE ~IsTable(n, EntryAt(n, x, y).page)
    <3>1. EntryAt(n, x, y) = EntryAt(m, x, y) /\ Present(m, x, y)
      BY <2>1, <1>14 DEF Present
    <3>2. EntryAt(m, x, y).page \in Frame
      BY <1>1, EntryFields DEF Pte
    <3>3. QED
      BY <3>1, <3>2, <1>1, <1>20, Constants DEF Private
  <2>2. ASSUME NEW g \in Reserved PROVE ~IsTable(n, g)
    BY <1>1, <1>20, Constants DEF Private
  <2>3. QED
    BY <2>1, <2>2, <1>1, <1>8, <1>11, <1>13 DEF Private
<1>22. MemOK(n, H)
  BY <1>2, <1>11, <1>12, <1>19, <1>21, RefLess
<1>23. n.dir[e] = None
  BY <1>8, <1>11
<1>24. QED
  BY <1>13, <1>15, <1>22, <1>23 DEF n

-----------------------------------------------------------------------------
(* The invariant.  While the kernel is busy with an address space, nobody  *)
(* executes in it; what a CPU executes runs there only; who waits for a    *)
(* message stands still; and a free slot has no address space left.        *)
BusyOK ==
  /\ kernel.op \in {"create", "load"} => \A c \in CPU : curenv[c] = None
  /\ kernel.op \in {"load", "free"} =>
       /\ status[kernel.env] # "FREE"
       /\ \A c \in CPU : curenv[c] # kernel.env
RunsOK ==
  /\ \A c \in CPU : curenv[c] # None => status[curenv[c]] \in {"RUNNING", "DYING"}
  /\ \A c, d \in CPU : curenv[c] = curenv[d] /\ curenv[c] # None => c = d
WaitOK  == \A e \in Env : recv[e] # None /\ status[e] # "FREE" => status[e] = "NOT_RUNNABLE"
SpaceOK == \A e \in Env :
  IF status[e] = "FREE" THEN mem.dir[e] = None /\ NoTables(mem, e) ELSE mem.dir[e] # None

MemInv == MachineOK /\ MemOK(mem, {}) /\ BusyOK /\ RunsOK /\ WaitOK /\ SpaceOK

(* Programs that neither name holes, nor UTOP, nor pages of the kernel.    *)
Polite == Habits \subseteq {"edit_running"}

(* What a writable mapping may come from.                                  *)
Honest(m, e, va, entry) ==
  "W" \in entry.perm /\ entry.page \notin Reserved =>
    \/ entry = EntryAt(m, e, va)
    \/ Uses(m, entry.page) = 0
    \/ \E x \in Env, y \in UserVA :
         EntryAt(m, x, y).page = entry.page /\ "W" \in EntryAt(m, x, y).perm

(* A call that changes the map of e at va, or nothing.                     *)
Edited(m, n, e, va) ==
  MemOK(n, {}) /\ \E entry \in Pte : Sets(m, n, e, va, entry) /\ Honest(m, e, va, entry)

LEMMA InsertEdits ==
  ASSUME CountsFit, NEW m, MemOK(m, {}), NEW e \in Env, NEW va \in UserVA, NEW f \in Frame,
         NEW perm \in SUBSET Perm, CanInsert(m, e, va), ~Listed(m, f), ~IsTable(m, f),
         Honest(m, e, va, [page |-> f, perm |-> perm \cup {"P"}])
  PROVE  Edited(m, PageInsert(m, e, f, va, perm), e, va)
<1> DEFINE n == PageInsert(m, e, f, va, perm)
           entry == [page |-> f, perm |-> perm \cup {"P"}]
<1>1. entry \in Pte
  BY DEF Pte, Perm
<1>2. MemOK(n, {} \ {f}) /\ Sets(m, n, e, va, entry)
  BY PageInsertOK
<1>3. {} \ {f} = {}
  OBVIOUS
<1>4. MemOK(n, {})
  BY <1>2, <1>3
<1> HIDE DEF n
<1>5. QED
  BY <1>1, <1>2, <1>4 DEF Edited, n

LEMMA SameEdits ==
  ASSUME NEW m, NEW n, MemOK(m, {}), MemOK(n, {}), SameMaps(m, n), NEW e \in Env, NEW va \in UserVA
  PROVE  Edited(m, n, e, va)
<1>1. EntryAt(m, e, va) \in Pte
  BY EntryFields DEF MemOK
<1>2. Sets(m, n, e, va, EntryAt(m, e, va)) /\ Honest(m, e, va, EntryAt(m, e, va))
  BY DEF Sets, SameMaps, Honest
<1>3. QED
  BY <1>1, <1>2 DEF Edited

(* A page that is mapped somewhere, or reserved, can be mapped once more.  *)
LEMMA MappedPage ==
  ASSUME NEW m, MemOK(m, {}), NEW e \in Env, NEW va \in UserVA, Present(m, e, va)
  PROVE  LET f == EntryAt(m, e, va).page IN f \in Frame /\ ~Listed(m, f) /\ ~IsTable(m, f)
<1> DEFINE f == EntryAt(m, e, va).page
<1>1. EntryAt(m, e, va) \in Pte
  BY EntryFields DEF MemOK
<1>2. f \in Frame
  BY <1>1 DEF Pte
<1>3. ~IsTable(m, f)
  BY DEF MemOK, Private
<1>4. Uses(m, f) # 0
  BY <1>2, UnusedIsNoTable
<1>5. ~Listed(m, f)
  BY <1>2, <1>4, ListedIsUnused
<1>6. QED
  BY <1>2, <1>3, <1>5

LEMMA ReservedPage ==
  ASSUME NEW m, MemOK(m, {}), NEW f \in Reserved
  PROVE  f \in Frame /\ ~Listed(m, f) /\ ~IsTable(m, f)
<1>1. f \in Frame
  BY Constants
<1>2. QED
  BY <1>1, ListedIsUnused DEF MemOK, Private

(* A new page, mapped.                                                     *)
LEMMA FreshEdits ==
  ASSUME CountsFit, NEW m, MemOK(m, {}), NEW e \in Env, NEW va \in UserVA, NEW perm \in SUBSET Perm,
         m.free # << >>, CanInsert(PageAlloc(m), e, va)
  PROVE  Edited(m, PageInsert(PageAlloc(m), e, Head(m.free), va, perm), e, va)
<1> DEFINE k == PageAlloc(m)
           h == Head(m.free)
           n == PageInsert(k, e, h, va, perm)
           entry == [page |-> h, perm |-> perm \cup {"P"}]
<1>1. MemOK(k, {} \cup {h}) /\ SameMaps(m, k) /\ h \in Frame /\ Uses(m, h) = 0
  BY PageAllocOK
<1>2. {} \cup {h} = {h} /\ {h} \ {h} = {}
  OBVIOUS
<1> HIDE DEF k, h
<1>3. ~Listed(k, h) /\ ~IsTable(k, h) /\ MemOK(k, {h})
  <2>1. MemOK(k, {h}) /\ h \in {h}
    BY <1>1, <1>2
  <2>2. Uses(k, h) = 0 /\ ~Listed(k, h)
    BY <2>1, HeldIsUnused
  <2>3. QED
    BY <2>1, <2>2, <1>1, UnusedIsNoTable
<1>4. CanInsert(k, e, va)
  BY DEF k
<1>5. MemOK(n, {h} \ {h}) /\ Sets(k, n, e, va, entry)
  BY <1>1, <1>3, <1>4, PageInsertOK
<1>6. MemOK(n, {})
  BY <1>2, <1>5
<1>7. entry \in Pte /\ entry.page = h
  BY <1>1 DEF Pte, Perm
<1> HIDE DEF n, entry
<1>8. Sets(m, n, e, va, entry) /\ Honest(m, e, va, entry)
  BY <1>1, <1>5, <1>7 DEF Sets, SameMaps, Honest
<1>9. Edited(m, n, e, va)
  BY <1>6, <1>7, <1>8 DEF Edited
<1>10. QED
  BY <1>9 DEF n, k, h
-----------------------------------------------------------------------------
(* The calls, one by one.                                                  *)
LEMMA SysPageAllocEdits ==
  ASSUME CountsFit, Polite, MemInv, NEW c \in CPU, NEW e \in Env, NEW va \in VA, NEW perm \in PermArgs,
         SysPageAlloc(c, e, va, perm)
  PROVE  va \in UserVA /\ status[e] # "FREE" /\ Edited(mem, mem', e, va)
<1>1. va \in UserVA /\ status[e] # "FREE" /\ mem.free # << >> /\ mem' = PageAlloced(mem, e, va, perm)
  BY DEF SysPageAlloc, Target, Polite
<1>2. MemOK(mem, {}) /\ perm \in SUBSET Perm
  BY EnvAssumption DEF MemInv
<1>3. CASE CanInsert(PageAlloc(mem), e, va)
  BY <1>1, <1>2, <1>3, FreshEdits DEF PageAlloced
<1>4. CASE ~CanInsert(PageAlloc(mem), e, va)
  <2> DEFINE h == Head(mem.free)
             k == PageAlloc(mem)
  <2>1. mem' = PageFree(k, h)
    BY <1>1, <1>4 DEF PageAlloced
  <2>2. MemOK(k, {} \cup {h}) /\ SameMaps(mem, k)
    BY <1>1, <1>2, PageAllocOK
  <2> HIDE DEF h, k
  <2>3. MemOK(mem', ({} \cup {h}) \ {h}) /\ SameMaps(k, mem')
    BY <2>1, <2>2, PageFreeOK
  <2>4. ({} \cup {h}) \ {h} = {}
    OBVIOUS
  <2>5. MemOK(mem', {}) /\ SameMaps(mem, mem')
    BY <2>2, <2>3, <2>4 DEF SameMaps
  <2>6. QED
    BY <2>5, <1>1, <1>2, SameEdits
<1>5. QED
  BY <1>3, <1>4

LEMMA LoadEdits ==
  ASSUME CountsFit, MemInv, LoadIcode, mem' # mem
  PROVE  \E va \in UserVA : Edited(mem, mem', kernel.env, va)
<1> DEFINE va == Image[kernel.next]
<1>1. /\ kernel.op = "load" /\ ~(kernel.next > Len(Image)) /\ mem.free # << >>
      /\ CanInsert(PageAlloc(mem), kernel.env, va) /\ mem' = RegionAlloc(mem, kernel.env, va)
  BY DEF LoadIcode
<1>2. kernel.env \in Env /\ kernel.next \in Nat \ {0} /\ MemOK(mem, {})
  BY <1>1 DEF MemInv, MachineOK
<1>3. va \in UserVA
  BY <1>1, <1>2, EnvAssumption
<1>4. {"U", "W"} \in SUBSET Perm
  BY DEF Perm
<1> HIDE DEF va
<1>5. Edited(mem, mem', kernel.env, va)
  BY <1>1, <1>2, <1>3, <1>4, FreshEdits DEF RegionAlloc
<1>6. QED
  BY <1>3, <1>5

(* What sys_page_map() shares is mapped.                                   *)
LEMMA SharedIsMapped ==
  ASSUME Polite, NEW e \in Env, NEW va \in UserVA, NEW perm, CanShare(e, va, perm), MayName(e, va)
  PROVE  /\ Present(mem, e, va) /\ PageLookup(mem, e, va) = EntryAt(mem, e, va).page
         /\ "W" \in perm => "W" \in EntryAt(mem, e, va).perm
<1>1. PageLookup(mem, e, va) # None /\ ~Hole(e, va)
  BY DEF CanShare, MayName, Polite
<1>2. Table(mem, e, va) # None
  BY <1>1 DEF PageLookup
<1>3. QED
  BY <1>1, <1>2 DEF Hole, Present, PageLookup, EntryAt, CanShare

LEMMA ShareEdits ==
  ASSUME CountsFit, Polite, MemInv, NEW src \in Env, NEW srcva \in UserVA, NEW dst \in Env,
         NEW dstva \in UserVA, NEW perm \in PermArgs, CanShare(src, srcva, perm), MayName(src, srcva),
         CanInsert(mem, dst, dstva)
  PROVE  Edited(mem, PageInsert(mem, dst, PageLookup(mem, src, srcva), dstva, perm), dst, dstva)
<1> DEFINE f == EntryAt(mem, src, srcva).page
<1>1. /\ Present(mem, src, srcva) /\ PageLookup(mem, src, srcva) = f
      /\ "W" \in perm => "W" \in EntryAt(mem, src, srcva).perm
  BY SharedIsMapped
<1>2. MemOK(mem, {}) /\ perm \in SUBSET Perm
  BY EnvAssumption DEF MemInv
<1>3. f \in Frame /\ ~Listed(mem, f) /\ ~IsTable(mem, f)
  BY <1>1, <1>2, MappedPage
<1>4. Honest(mem, dst, dstva, [page |-> f, perm |-> perm \cup {"P"}])
  BY <1>1 DEF Honest
<1> HIDE DEF f
<1>5. QED
  BY <1>1, <1>2, <1>3, <1>4, InsertEdits

LEMMA SysPageMapEdits ==
  ASSUME CountsFit, Polite, MemInv, NEW c \in CPU, NEW src \in Env, NEW srcva \in UserVA,
         NEW dst \in Env, NEW dstva \in UserVA, NEW perm \in PermArgs,
         SysPageMap(c, src, srcva, dst, dstva, perm)
  PROVE  status[dst] # "FREE" /\ Edited(mem, mem', dst, dstva)
BY ShareEdits DEF SysPageMap, Target

LEMMA SysIpcSendPageEdits ==
  ASSUME CountsFit, Polite, MemInv, NEW c \in CPU, NEW e \in Env, NEW srcva \in UserVA,
         NEW perm \in PermArgs, SysIpcSendPage(c, e, srcva, perm)
  PROVE  status[e] # "FREE" /\ recv[e] \in UserVA /\ Edited(mem, mem', e, recv[e])
<1>1. curenv[c] \in Env
  BY DEF MemInv, MachineOK, SysIpcSendPage, Calls
<1>2. QED
  BY <1>1, ShareEdits DEF SysIpcSendPage, SendBadEnv, Target

LEMMA PageUnmapEdits ==
  ASSUME Polite, MemInv, NEW e \in Env, NEW va \in UserVA, ~Hole(e, va)
  PROVE  Edited(mem, PageRemove(mem, e, va), e, va)
<1>1. MemOK(mem, {})
  BY DEF MemInv
<1>2. CASE Table(mem, e, va) = None
  <2>1. PageRemove(mem, e, va) = mem /\ SameMaps(mem, mem)
    BY <1>2 DEF PageRemove, PageLookup, SameMaps
  <2>2. QED
    BY <2>1, <1>1, SameEdits
<1>3. CASE Table(mem, e, va) # None
  <2>1. Present(mem, e, va)
    BY <1>3 DEF Hole, Present
  <2>2. MemOK(PageRemove(mem, e, va), {}) /\ Sets(mem, PageRemove(mem, e, va), e, va, Empty)
    BY <2>1, <1>1, PageRemoveOK
  <2>3. Empty \in Pte /\ Honest(mem, e, va, Empty)
    BY Constants DEF Honest, Empty
  <2>4. QED
    BY <2>2, <2>3 DEF Edited
<1>4. QED
  BY <1>2, <1>3

LEMMA SysPageUnmapEdits ==
  ASSUME Polite, MemInv, NEW c \in CPU, NEW e \in Env, NEW va \in UserVA, SysPageUnmap(c, e, va)
  PROVE  status[e] # "FREE" /\ Edited(mem, mem', e, va)
<1>1. ~Hole(e, va) /\ status[e] # "FREE" /\ mem' = PageRemove(mem, e, va)
  BY DEF SysPageUnmap, MayName, Target, Polite
<1>2. QED
  BY <1>1, PageUnmapEdits

LEMMA SysMapKernelPageEdits ==
  ASSUME CountsFit, Polite, MemInv, NEW c \in CPU, NEW f \in Frame, NEW va \in UserVA,
         SysMapKernelPage(c, f, va)
  PROVE  curenv[c] \in Env /\ status[curenv[c]] # "FREE" /\ Edited(mem, mem', curenv[c], va)
<1>1. /\ f \in Reserved /\ curenv[c] # None /\ CanInsert(mem, curenv[c], va)
      /\ mem' = PageInsert(mem, curenv[c], f, va, {"U", "W"})
  BY DEF SysMapKernelPage, Calls, Polite, Reserved
<1>2. curenv[c] \in Env /\ status[curenv[c]] # "FREE" /\ MemOK(mem, {})
  BY <1>1 DEF MemInv, MachineOK, RunsOK
<1>3. {"U", "W"} \in SUBSET Perm
  BY DEF Perm
<1>4. Honest(mem, curenv[c], va, [page |-> f, perm |-> {"U", "W"} \cup {"P"}])
  BY <1>1 DEF Honest
<1>5. ~Listed(mem, f) /\ ~IsTable(mem, f)
  BY <1>1, <1>2, ReservedPage
<1>6. QED
  BY <1>1, <1>2, <1>3, <1>4, <1>5, InsertEdits

LEMMA FreePteEdits ==
  ASSUME Polite, MemInv, NEW e \in Env, NEW d \in 0 .. NPD - 1, NEW i \in Slot, FreePte(e, d, i)
  PROVE  <<d, i>> \in UserVA /\ Edited(mem, mem', e, <<d, i>>)
<1>1. <<d, i>> \in UserVA /\ i \in PresentIn(mem, e, d) /\ mem' = PageRemove(mem, e, <<d, i>>)
  BY DEF FreePte, UserVA, IsFirst
<1>2. "P" \in EntryAt(mem, e, <<d, i>>).perm
  BY <1>1 DEF PresentIn, EntryAt, Table
<1>3. QED
  BY <1>1, <1>2, PageUnmapEdits DEF Hole
-----------------------------------------------------------------------------
(* The invariant holds at first, and every step keeps it.                  *)

LEMMA NoMapsNoUses ==
  ASSUME NEW m, \A e \in Env : m.dir[e] = None /\ NoTables(m, e), NEW f \in Frame
  PROVE  Uses(m, f) = 0
<1>1. f # None
  BY Constants
<1>2. DirRefs(m, f) = {} /\ TableRefs(m, f) = {}
  BY <1>1 DEF DirRefs, TableRefs, NoTables
<1>3. \A x \in Env \X UserVA : EntryAt(m, x[1], x[2]) = Empty
  BY NoTablesEmpty
<1>4. PteRefs(m, f) = {}
  BY <1>3 DEF PteRefs, Empty
<1>5. QED
  BY <1>2, <1>4, UnusedPage

LEMMA MemAtFirst ==
  ASSUME Init
  PROVE  mem \in Mem /\ mem.free = FreePages /\ \A e \in Env : mem.dir[e] = None /\ NoTables(mem, e)
<1>1. [f \in Frame |-> IF f \in Reserved THEN 1 ELSE 0] \in [Frame -> 0 .. RefMod - 1]
  BY Sizes
<1>2. [page |-> EnvsPage, perm |-> {"P", "U"}] \in Pte
  BY Constants DEF Pte, Perm
<1>3. [f \in Frame |-> IF f = UtopTable
                       THEN [Cleared EXCEPT ![0] = [page |-> EnvsPage, perm |-> {"P", "U"}]]
                       ELSE Cleared] \in [Frame -> [Slot -> Pte]]
  BY <1>2, Constants
<1>4. FreePages \in Seq(Frame)
  BY PageAssumption
<1>5. mem \in Mem
  BY <1>1, <1>3, <1>4 DEF Init, Mem
<1>6. QED
  BY <1>5, Sizes DEF Init, NoTables

LEMMA MemInitOK ==
  ASSUME Init
  PROVE  MemOK(mem, {})
<1>1. mem \in Mem /\ mem.free = FreePages /\ \A e \in Env : mem.dir[e] = None /\ NoTables(mem, e)
  BY MemAtFirst
<1>2. \A f \in Frame : Uses(mem, f) = 0
  BY <1>1, NoMapsNoUses
<1>3. \A f \in Frame : mem.ref[f] = Pinned(f)
  BY DEF Init, Pinned
<1>4. Counted(mem)
  BY <1>2, <1>3 DEF Counted, Pinned
<1>5. ListedOnce(mem)
  BY <1>1, PageAssumption DEF ListedOnce
<1>6. \A f \in Frame : Listed(mem, f) <=> f \notin Reserved
  BY <1>1, PageAssumption DEF Listed
<1>7. ListExact(mem, {})
  BY <1>2, <1>6 DEF ListExact, Pinned
<1>8. \A e \in Env, va \in UserVA : ~Present(mem, e, va)
  BY <1>1, NoTablesEmpty DEF Present, Empty
<1>9. \A f \in Reserved : ~IsTable(mem, f)
  BY <1>1, Constants DEF IsTable, NoTables
<1>10. Private(mem)
  BY <1>1, <1>8, <1>9 DEF Private, NoTables
<1>11. QED
  BY <1>1, <1>4, <1>5, <1>7, <1>10 DEF MemOK, Unused

LEMMA MemInvInit ==
  ASSUME Init
  PROVE  MemInv
<1>1. MemOK(mem, {}) /\ mem \in Mem /\ \A e \in Env : mem.dir[e] = None /\ NoTables(mem, e)
  BY MemInitOK, MemAtFirst
<1>2. Empty \in Pte
  BY Constants
<1>3. MachineOK
  BY <1>1, <1>2 DEF Init, MachineOK
<1>4. BusyOK /\ RunsOK /\ WaitOK
  BY DEF Init, BusyOK, RunsOK, WaitOK
<1>5. SpaceOK
  BY <1>1 DEF SpaceOK, Init
<1>6. QED
  BY <1>1, <1>3, <1>4, <1>5 DEF MemInv

LEMMA EditKeepsSpace ==
  ASSUME MemInv, NEW e \in Env, NEW va \in UserVA, status[e] # "FREE", Edited(mem, mem', e, va),
         \A x \in Env : status'[x] = "FREE" <=> status[x] = "FREE"
  PROVE  mem' \in Mem /\ MemOK(mem', {}) /\ SpaceOK'
<1>1. MemOK(mem', {}) /\ mem'.dir = mem.dir /\ \A x \in Env : x # e => mem'.pde[x] = mem.pde[x]
  BY DEF Edited, Sets
<1>2. SpaceOK
  BY DEF MemInv
<1>3. ASSUME NEW x \in Env
      PROVE  IF status'[x] = "FREE" THEN mem'.dir[x] = None /\ NoTables(mem', x) ELSE mem'.dir[x] # None
  <2>1. CASE status[x] = "FREE"
    BY <2>1, <1>1, <1>2 DEF SpaceOK, NoTables
  <2>2. CASE status[x] # "FREE"
    BY <2>2, <1>1, <1>2 DEF SpaceOK
  <2>3. QED
    BY <2>1, <2>2
<1>4. QED
  BY <1>1, <1>3 DEF SpaceOK, MemOK

LEMMA FlushType ==
  ASSUME MachineOK, NEW c \in CPU
  PROVE  TlbFlush(c) \in [CPU -> [Watched -> Pte]]
BY Constants DEF MachineOK, TlbFlush

LEMMA InvalidateType ==
  ASSUME MachineOK, NEW c \in CPU, NEW e, NEW va
  PROVE  TlbInvalidate(c, e, va) \in [CPU -> [Watched -> Pte]]
BY Constants DEF MachineOK, TlbInvalidate

(* The calls that change a map and nothing else but a TLB.                 *)
LEMMA MapCallKeeps ==
  ASSUME MemInv, NEW c \in CPU, NEW e \in Env, NEW va \in UserVA, status[e] # "FREE",
         Edited(mem, mem', e, va), tlb' \in [CPU -> [Watched -> Pte]], Unchanged
  PROVE  MemInv'
<1>1. mem' \in Mem /\ MemOK(mem', {}) /\ SpaceOK'
  BY EditKeepsSpace DEF Unchanged
<1>2. MachineOK'
  BY <1>1 DEF MemInv, MachineOK, Unchanged
<1>3. BusyOK' /\ RunsOK' /\ WaitOK'
  BY DEF MemInv, BusyOK, RunsOK, WaitOK, Unchanged
<1>4. QED
  BY <1>1, <1>2, <1>3 DEF MemInv

LEMMA MapCallOK ==
  ASSUME CountsFit, Polite, MemInv, NEW c \in CPU, MapCall(c)
  PROVE  MemInv'
<1>1. MachineOK
  BY DEF MemInv
<1>2. ASSUME NEW e \in Env, NEW va \in VA, NEW perm \in PermArgs, SysPageAlloc(c, e, va, perm)
      PROVE  MemInv'
  <2>1. tlb' \in [CPU -> [Watched -> Pte]] /\ Unchanged
    BY <1>1, <1>2, InvalidateType DEF SysPageAlloc
  <2>2. QED
    BY <1>2, <2>1, SysPageAllocEdits, MapCallKeeps
<1>3. ASSUME NEW src \in Env, NEW dst \in Env, NEW srcva \in UserVA, NEW dstva \in UserVA,
             NEW perm \in PermArgs, SysPageMap(c, src, srcva, dst, dstva, perm)
      PROVE  MemInv'
  <2>1. tlb' \in [CPU -> [Watched -> Pte]] /\ Unchanged
    BY <1>1, <1>3, InvalidateType DEF SysPageMap
  <2>2. QED
    BY <1>3, <2>1, SysPageMapEdits, MapCallKeeps
<1>4. ASSUME NEW e \in Env, NEW va \in UserVA, SysPageUnmap(c, e, va)
      PROVE  MemInv'
  <2>1. tlb' \in [CPU -> [Watched -> Pte]] /\ Unchanged
    BY <1>1, <1>4, InvalidateType DEF SysPageUnmap
  <2>2. QED
    BY <1>4, <2>1, SysPageUnmapEdits, MapCallKeeps
<1>5. ASSUME NEW f \in Frame, NEW va \in Window, SysMapKernelPage(c, f, va)
      PROVE  MemInv'
  <2>1. tlb' \in [CPU -> [Watched -> Pte]] /\ Unchanged /\ va \in UserVA
    BY <1>1, <1>5, InvalidateType, EnvAssumption DEF SysMapKernelPage
  <2>2. QED
    BY <1>5, <2>1, SysMapKernelPageEdits, MapCallKeeps
<1>6. QED
  BY <1>2, <1>3, <1>4, <1>5 DEF MapCall

(* env_alloc().                                                            *)
LEMMA AllocKeeps ==
  ASSUME MemInv, NEW e \in Env, NEW by \in Env \cup {None}, NEW st \in {"RUNNABLE", "NOT_RUNNABLE"},
         EnvAlloc(e, by, st), UNCHANGED <<curenv, tlb>>
  PROVE  /\ MemOK(mem', {}) /\ mem' \in Mem /\ SpaceOK' /\ RunsOK' /\ WaitOK' /\ status'[e] # "FREE"
         /\ status' \in [Env -> {"FREE", "NOT_RUNNABLE", "RUNNABLE", "RUNNING", "DYING"}]
         /\ parent' \in [Env -> Env \cup {None}] /\ recv' \in [Env -> UserVA \cup {UTOP, None}]
<1>1. /\ status[e] = "FREE" /\ mem.free # << >> /\ mem' = EnvSetupVm(mem, e)
      /\ status' = [status EXCEPT ![e] = st] /\ parent' = [parent EXCEPT ![e] = by]
      /\ recv' = [recv EXCEPT ![e] = None]
  BY DEF EnvAlloc
<1>2. MachineOK /\ SpaceOK /\ RunsOK /\ WaitOK /\ MemOK(mem, {})
  BY DEF MemInv
<1>3. mem.dir[e] = None /\ NoTables(mem, e)
  BY <1>1, <1>2 DEF SpaceOK
<1>4. MemOK(mem', {}) /\ OthersKept(mem, mem', e) /\ mem'.dir[e] # None /\ NoTables(mem', e)
  BY <1>1, <1>2, <1>3, EnvSetupVmOK
<1>5. /\ status' \in [Env -> {"FREE", "NOT_RUNNABLE", "RUNNABLE", "RUNNING", "DYING"}]
      /\ parent' \in [Env -> Env \cup {None}] /\ recv' \in [Env -> UserVA \cup {UTOP, None}]
      /\ status'[e] = st /\ recv'[e] = None /\ \A x \in Env : x # e => status'[x] = status[x] /\ recv'[x] = recv[x]
  BY <1>1, <1>2 DEF MachineOK
<1>6. SpaceOK'
  <2>1. ASSUME NEW x \in Env
        PROVE  IF status'[x] = "FREE" THEN mem'.dir[x] = None /\ NoTables(mem', x) ELSE mem'.dir[x] # None
    <3>1. CASE x = e
      BY <3>1, <1>4, <1>5
    <3>2. CASE x # e
      BY <3>2, <1>2, <1>4, <1>5 DEF SpaceOK, OthersKept, NoTables
    <3>3. QED
      BY <3>1, <3>2
  <2>2. QED
    BY <2>1 DEF SpaceOK
<1>7. RunsOK'
  <2>1. \A d \in CPU : curenv[d] # None => curenv[d] \in Env /\ curenv[d] # e
    BY <1>1, <1>2 DEF RunsOK, MachineOK
  <2>2. QED
    BY <1>2, <1>5, <2>1 DEF RunsOK
<1>8. WaitOK'
  BY <1>2, <1>5 DEF WaitOK
<1>9. QED
  BY <1>4, <1>5, <1>6, <1>7, <1>8 DEF MemOK

LEMMA CreateOK ==
  ASSUME MemInv, NEW e \in Env, Create(e)
  PROVE  MemInv'
<1>1. EnvAlloc(e, None, "RUNNABLE") /\ UNCHANGED <<curenv, tlb>> /\ kernel = [op |-> "create"]
  BY DEF Create
<1>2. /\ MemOK(mem', {}) /\ mem' \in Mem /\ SpaceOK' /\ RunsOK' /\ WaitOK' /\ status'[e] # "FREE"
      /\ status' \in [Env -> {"FREE", "NOT_RUNNABLE", "RUNNABLE", "RUNNING", "DYING"}]
      /\ parent' \in [Env -> Env \cup {None}] /\ recv' \in [Env -> UserVA \cup {UTOP, None}]
  BY <1>1, AllocKeeps
<1>3. kernel' = [op |-> "load", env |-> e, next |-> 1] /\ 1 \in 1 .. Len(Image) + 1
  BY EnvAssumption DEF Create
<1>4. MachineOK'
  BY <1>1, <1>2, <1>3 DEF MemInv, MachineOK
<1>5. \A c \in CPU : curenv'[c] = None
  BY <1>1 DEF MemInv, BusyOK
<1>6. BusyOK'
  BY <1>2, <1>3, <1>5, Constants DEF BusyOK
<1>7. QED
  BY <1>2, <1>4, <1>6 DEF MemInv

LEMMA SysExoforkOK ==
  ASSUME MemInv, NEW c \in CPU, NEW e \in Env, SysExofork(c, e)
  PROVE  MemInv'
<1>1. EnvAlloc(e, curenv[c], "NOT_RUNNABLE") /\ UNCHANGED <<curenv, tlb, kernel>> /\ kernel.op = "idle"
  BY DEF SysExofork, Calls, Idle
<1>2. curenv[c] \in Env \cup {None}
  BY DEF MemInv, MachineOK
<1>3. /\ MemOK(mem', {}) /\ mem' \in Mem /\ SpaceOK' /\ RunsOK' /\ WaitOK' /\ status'[e] # "FREE"
      /\ status' \in [Env -> {"FREE", "NOT_RUNNABLE", "RUNNABLE", "RUNNING", "DYING"}]
      /\ parent' \in [Env -> Env \cup {None}] /\ recv' \in [Env -> UserVA \cup {UTOP, None}]
  BY <1>1, <1>2, AllocKeeps
<1>4. MachineOK'
  BY <1>1, <1>3 DEF MemInv, MachineOK
<1>5. BusyOK'
  BY <1>1 DEF BusyOK
<1>6. QED
  BY <1>3, <1>4, <1>5 DEF MemInv

LEMMA LoadIcodeOK ==
  ASSUME CountsFit, MemInv, LoadIcode
  PROVE  MemInv'
<1>1. /\ kernel.op = "load" /\ UNCHANGED <<status, parent, recv, curenv, tlb>>
      /\ MachineOK /\ BusyOK /\ RunsOK /\ WaitOK /\ SpaceOK /\ MemOK(mem, {}) /\ mem \in Mem
  BY DEF LoadIcode, MemInv, MemOK
<1>2. kernel \in [op : {"load"}, env : Env, next : 1 .. Len(Image) + 1] /\ status[kernel.env] # "FREE"
  BY <1>1 DEF MachineOK, BusyOK
<1>3. mem' \in Mem /\ MemOK(mem', {}) /\ SpaceOK'
  <2>1. CASE mem' = mem
    BY <2>1, <1>1 DEF SpaceOK, NoTables
  <2>2. CASE mem' # mem
    <3>1. PICK va \in UserVA : Edited(mem, mem', kernel.env, va)
      BY <2>2, LoadEdits
    <3>2. QED
      BY <3>1, <1>1, <1>2, EditKeepsSpace
  <2>3. QED
    BY <2>1, <2>2
<1>4. RunsOK' /\ WaitOK'
  BY <1>1 DEF RunsOK, WaitOK
<1>5. CASE kernel.next > Len(Image)
  <2>1. kernel' = [op |-> "idle"]
    BY <1>5 DEF LoadIcode
  <2>2. MachineOK' /\ BusyOK'
    BY <2>1, <1>1, <1>3 DEF MachineOK, BusyOK
  <2>3. QED
    BY <2>2, <1>3, <1>4 DEF MemInv
<1>6. CASE ~(kernel.next > Len(Image))
  <2>1. kernel' = [kernel EXCEPT !.next = @ + 1]
    BY <1>6 DEF LoadIcode
  <2>2. Len(Image) \in Nat
    BY EnvAssumption
  <2>3. /\ kernel' \in [op : {"load"}, env : Env, next : 1 .. Len(Image) + 1]
        /\ kernel'.op = kernel.op /\ kernel'.env = kernel.env
    BY <2>1, <2>2, <1>2, <1>6
  <2>4. MachineOK'
    BY <2>3, <1>1, <1>3 DEF MachineOK
  <2>5. BusyOK'
    BY <2>3, <1>1 DEF BusyOK
  <2>6. QED
    BY <2>4, <2>5, <1>3, <1>4 DEF MemInv
<1>7. QED
  BY <1>5, <1>6

(* env_free().                                                             *)
LEMMA FreePteOK ==
  ASSUME Polite, MemInv, NEW e \in Env, NEW d \in 0 .. NPD - 1, NEW i \in Slot, FreePte(e, d, i)
  PROVE  MemInv'
<1>1. <<d, i>> \in UserVA /\ Edited(mem, mem', e, <<d, i>>)
  BY FreePteEdits
<1>2. Freeing(e) /\ UNCHANGED <<status, parent, recv, curenv, tlb, kernel>>
  BY DEF FreePte
<1>3. status[e] # "FREE"
  BY <1>2 DEF MemInv, BusyOK, Freeing
<1>4. mem' \in Mem /\ MemOK(mem', {}) /\ SpaceOK'
  BY <1>1, <1>2, <1>3, EditKeepsSpace
<1>5. MachineOK'
  BY <1>2, <1>4 DEF MemInv, MachineOK
<1>6. BusyOK' /\ RunsOK' /\ WaitOK'
  BY <1>2 DEF MemInv, BusyOK, RunsOK, WaitOK
<1>7. QED
  BY <1>4, <1>5, <1>6 DEF MemInv

LEMMA FreeTableOK ==
  ASSUME MemInv, NEW e \in Env, NEW d \in 0 .. NPD - 1, FreeTable(e, d)
  PROVE  MemInv'
<1>1. /\ Freeing(e) /\ mem.pde[e][d] # None /\ PresentIn(mem, e, d) = {} /\ mem' = TableFreed(mem, e, d)
      /\ UNCHANGED <<status, parent, recv, curenv, tlb, kernel>>
  BY DEF FreeTable, IsFirst, TablesLeft
<1>2. MemOK(mem, {}) /\ SpaceOK /\ status[e] # "FREE"
  BY <1>1 DEF MemInv, BusyOK, Freeing
<1>3. MemOK(mem', {}) /\ OthersKept(mem, mem', e) /\ mem'.dir = mem.dir
  BY <1>1, <1>2, TableFreedOK
<1>4. SpaceOK'
  <2>1. ASSUME NEW x \in Env
        PROVE  IF status'[x] = "FREE" THEN mem'.dir[x] = None /\ NoTables(mem', x) ELSE mem'.dir[x] # None
    <3>1. CASE x = e
      BY <3>1, <1>1, <1>2, <1>3 DEF SpaceOK
    <3>2. CASE x # e
      BY <3>2, <1>1, <1>2, <1>3 DEF SpaceOK, OthersKept, NoTables
    <3>3. QED
      BY <3>1, <3>2
  <2>2. QED
    BY <2>1 DEF SpaceOK
<1>5. MachineOK'
  BY <1>1, <1>3 DEF MemInv, MachineOK, MemOK
<1>6. BusyOK' /\ RunsOK' /\ WaitOK'
  BY <1>1 DEF MemInv, BusyOK, RunsOK, WaitOK
<1>7. QED
  BY <1>3, <1>4, <1>5, <1>6 DEF MemInv

LEMMA FreeDirOK ==
  ASSUME MemInv, NEW e \in Env, FreeDir(e)
  PROVE  MemInv'
<1>1. /\ Freeing(e) /\ NoTables(mem, e) /\ mem' = DirFreed(mem, e)
      /\ status' = [status EXCEPT ![e] = "FREE"]
      /\ parent' = [x \in Env |-> IF parent[x] = e THEN None ELSE parent[x]]
      /\ kernel' = [op |-> "idle"] /\ UNCHANGED <<recv, curenv, tlb>>
  BY DEF FreeDir, TablesLeft, NoTables
<1>2. /\ MemOK(mem, {}) /\ MachineOK /\ SpaceOK /\ RunsOK /\ WaitOK /\ status[e] # "FREE"
      /\ \A c \in CPU : curenv[c] # e
  BY <1>1 DEF MemInv, BusyOK, Freeing
<1>3. mem.dir[e] # None
  BY <1>2 DEF SpaceOK
<1>4. MemOK(mem', {}) /\ OthersKept(mem, mem', e) /\ mem'.dir[e] = None /\ NoTables(mem', e)
  BY <1>1, <1>2, <1>3, DirFreedOK
<1>5. status'[e] = "FREE" /\ \A x \in Env : x # e => status'[x] = status[x]
  BY <1>1, <1>2 DEF MachineOK
<1>6. SpaceOK'
  <2>1. ASSUME NEW x \in Env
        PROVE  IF status'[x] = "FREE" THEN mem'.dir[x] = None /\ NoTables(mem', x) ELSE mem'.dir[x] # None
    <3>1. CASE x = e
      BY <3>1, <1>4, <1>5
    <3>2. CASE x # e
      BY <3>2, <1>2, <1>4, <1>5 DEF SpaceOK, OthersKept, NoTables
    <3>3. QED
      BY <3>1, <3>2
  <2>2. QED
    BY <2>1 DEF SpaceOK
<1>7. MachineOK'
  BY <1>1, <1>2, <1>4 DEF MachineOK, MemOK
<1>8. RunsOK'
  <2>1. \A c \in CPU : curenv[c] # None => curenv[c] \in Env /\ status'[curenv[c]] = status[curenv[c]]
    BY <1>2, <1>5 DEF MachineOK
  <2>2. QED
    BY <1>1, <1>2, <2>1 DEF RunsOK
<1>9. WaitOK' /\ BusyOK'
  BY <1>1, <1>2, <1>5 DEF WaitOK, BusyOK
<1>10. QED
  BY <1>4, <1>6, <1>7, <1>8, <1>9 DEF MemInv

LEMMA EnvFreeOK ==
  ASSUME Polite, MemInv, EnvFree
  PROVE  MemInv'
BY FreePteOK, FreeTableOK, FreeDirOK DEF EnvFree

(* Steps that leave memory alone.                                          *)
LEMMA MemStays ==
  ASSUME MemInv, UNCHANGED mem, \A x \in Env : status'[x] = "FREE" <=> status[x] = "FREE"
  PROVE  mem' \in Mem /\ MemOK(mem', {}) /\ SpaceOK'
<1>1. mem' = mem /\ MemOK(mem, {}) /\ SpaceOK
  BY DEF MemInv
<1>2. QED
  BY <1>1 DEF SpaceOK, MemOK, NoTables

LEMMA AccessOK ==
  ASSUME MemInv, NEW c \in CPU, NEW va \in Watched, Access(c, va)
  PROVE  MemInv'
<1>1. /\ curenv[c] # None /\ tlb' = [tlb EXCEPT ![c][va] = EntryAt(mem, curenv[c], va)]
      /\ UNCHANGED <<mem, status, parent, recv, curenv, kernel>> /\ MachineOK
  BY DEF Access, MemInv
<1>2. curenv[c] \in Env /\ va \in UserVA /\ mem \in Mem
  BY <1>1, EnvAssumption DEF MachineOK
<1>3. EntryAt(mem, curenv[c], va) \in Pte
  BY <1>2, EntryFields
<1>4. MachineOK'
  BY <1>1, <1>3 DEF MachineOK
<1>5. QED
  BY <1>1, <1>4 DEF MemInv, BusyOK, RunsOK, WaitOK, SpaceOK, NoTables

LEMMA SwitchOK ==
  ASSUME MemInv, NEW c \in CPU, NEW e \in Env \cup {None}, Switch(c, e)
  PROVE  MemInv'
<1>1. /\ kernel.op = "idle" /\ e # curenv[c]
      /\ e # None => status[e] = "RUNNABLE"
      /\ curenv[c] # None => status[curenv[c]] \in {"RUNNING", "DYING"}
      /\ status' = [x \in Env |-> IF x = e THEN "RUNNING"
                                  ELSE IF x = curenv[c] /\ status[x] = "RUNNING" THEN "RUNNABLE"
                                  ELSE status[x]]
      /\ curenv' = [curenv EXCEPT ![c] = e]
      /\ tlb' = TlbFlush(c) /\ UNCHANGED <<mem, parent, recv, kernel>>
  BY DEF Switch, Idle
<1>2. MachineOK /\ RunsOK /\ WaitOK /\ None \notin Env
  BY Constants DEF MemInv
<1>11. \A x \in Env : x = e => status[x] = "RUNNABLE" /\ status'[x] = "RUNNING"
  BY <1>1, <1>2
<1>13. \A x \in Env : x # e /\ x = curenv[c] =>
           status[x] \in {"RUNNING", "DYING"} /\ status'[x] \in {"RUNNABLE", "DYING"}
  BY <1>1, <1>2
<1>14. \A x \in Env : x # e /\ x # curenv[c] => status'[x] = status[x]
  BY <1>1
<1>3. mem' \in Mem /\ MemOK(mem', {}) /\ SpaceOK'
  <2>1. ASSUME NEW x \in Env PROVE status'[x] = "FREE" <=> status[x] = "FREE"
    <3>1. CASE x = e
      BY <3>1, <1>11
    <3>2. CASE x # e /\ x = curenv[c]
      BY <3>2, <1>13
    <3>3. CASE x # e /\ x # curenv[c]
      BY <3>3, <1>14
    <3>4. QED
      BY <3>1, <3>2, <3>3
  <2>2. QED
    BY <1>1, <2>1, MemStays
<1>4. /\ status' \in [Env -> {"FREE", "NOT_RUNNABLE", "RUNNABLE", "RUNNING", "DYING"}]
      /\ curenv' \in [CPU -> Env \cup {None}]
  BY <1>1, <1>2 DEF MachineOK
<1>5. MachineOK'
  BY <1>1, <1>2, <1>3, <1>4, FlushType DEF MachineOK
<1>6. curenv'[c] = e /\ \A d \in CPU : d # c => curenv'[d] = curenv[d] /\ (curenv[d] # None => curenv[d] \in Env)
  BY <1>1, <1>2 DEF MachineOK
<1>7. ASSUME NEW d \in CPU, d # c, curenv[d] # None
      PROVE  curenv[d] # e /\ curenv[d] # curenv[c] /\ status[curenv[d]] \in {"RUNNING", "DYING"}
  <2>1. status[curenv[d]] \in {"RUNNING", "DYING"}
    BY <1>2, <1>7 DEF RunsOK
  <2>2. curenv[d] # curenv[c]
    BY <1>2, <1>7 DEF RunsOK
  <2>3. curenv[d] # e
    BY <2>1, <1>1, <1>7
  <2>4. QED
    BY <2>1, <2>2, <2>3
<1>8. RunsOK'
  <2>1. ASSUME NEW d \in CPU, curenv'[d] # None PROVE status'[curenv'[d]] \in {"RUNNING", "DYING"}
    <3>1. CASE d = c
      <4>1. curenv'[d] = e /\ e \in Env
        BY <3>1, <2>1, <1>6
      <4>2. QED
        BY <4>1, <1>11
    <3>2. CASE d # c
      <4>1. curenv'[d] = curenv[d] /\ curenv[d] \in Env
        BY <3>2, <2>1, <1>6
      <4>2. status'[curenv[d]] = status[curenv[d]] /\ status[curenv[d]] \in {"RUNNING", "DYING"}
        BY <3>2, <4>1, <2>1, <1>7, <1>14
      <4>3. QED
        BY <4>1, <4>2
    <3>3. QED
      BY <3>1, <3>2
  <2>2. \A d, b \in CPU : curenv'[d] = curenv'[b] /\ curenv'[d] # None => d = b
    BY <1>2, <1>6, <1>7 DEF RunsOK
  <2>3. QED
    BY <2>1, <2>2 DEF RunsOK
<1>9. WaitOK'
  BY <1>1, <1>2, <1>11, <1>13, <1>14 DEF WaitOK
<1>12. BusyOK'
  BY <1>1 DEF BusyOK
<1>10. QED
  BY <1>3, <1>5, <1>8, <1>9, <1>12 DEF MemInv

LEMMA StartFreeOK ==
  ASSUME MemInv, NEW c \in CPU, NEW e \in Env, StartFree(c, e), UNCHANGED status,
         status[e] # "FREE", \A d \in CPU : curenv[d] = e => d = c
  PROVE  MemInv'
<1>1. kernel' = [op |-> "free", env |-> e] /\ UNCHANGED <<mem, parent, recv, status>>
  BY DEF StartFree
<1>2. MachineOK /\ RunsOK /\ WaitOK /\ None \notin Env
  BY Constants DEF MemInv
<1>3. mem' \in Mem /\ MemOK(mem', {}) /\ SpaceOK'
  BY <1>1, MemStays
<1>4. \A d \in CPU : curenv'[d] = IF curenv[d] = e THEN None ELSE curenv[d]
  <2>1. CASE curenv[c] = e
    BY <2>1, <1>2 DEF StartFree, MachineOK
  <2>2. CASE curenv[c] # e
    BY <2>2 DEF StartFree
  <2>3. QED
    BY <2>1, <2>2
<1>5. curenv' \in [CPU -> Env \cup {None}] /\ tlb' \in [CPU -> [Watched -> Pte]]
  <2>1. curenv \in [CPU -> Env \cup {None}] /\ tlb \in [CPU -> [Watched -> Pte]]
    BY <1>2 DEF MachineOK
  <2>2. TlbFlush(c) \in [CPU -> [Watched -> Pte]]
    BY <1>2, FlushType
  <2>3. QED
    BY <2>1, <2>2 DEF StartFree
<1>6. MachineOK'
  BY <1>1, <1>2, <1>3, <1>5 DEF MachineOK
<1>7. BusyOK'
  BY <1>1, <1>2, <1>4 DEF BusyOK
<1>8. RunsOK' /\ WaitOK'
  BY <1>1, <1>2, <1>4 DEF RunsOK, WaitOK
<1>9. QED
  BY <1>3, <1>6, <1>7, <1>8 DEF MemInv

LEMMA SysEnvDestroyOK ==
  ASSUME MemInv, NEW c \in CPU, NEW e \in Env, SysEnvDestroy(c, e)
  PROVE  MemInv'
<1>1. /\ curenv[c] # None /\ kernel.op = "idle" /\ status[e] # "FREE"
      /\ e # curenv[c] => status[e] # "DYING"
  BY DEF SysEnvDestroy, Calls, Idle, Target
<1>2. MachineOK /\ RunsOK /\ WaitOK
  BY DEF MemInv
<1>3. CASE status[e] = "RUNNING" /\ e # curenv[c]
  <2>1. status' = [status EXCEPT ![e] = "DYING"] /\ UNCHANGED <<mem, parent, recv, curenv, tlb, kernel>>
    BY <1>3 DEF SysEnvDestroy
  <2>2. status'[e] = "DYING" /\ \A x \in Env : x # e => status'[x] = status[x]
    BY <2>1, <1>2 DEF MachineOK
  <2>3. mem' \in Mem /\ MemOK(mem', {}) /\ SpaceOK'
    BY <1>3, <2>1, <2>2, MemStays
  <2>4. MachineOK'
    BY <2>1, <1>2, <2>3 DEF MachineOK
  <2>5. \A d \in CPU : curenv[d] # None => curenv[d] \in Env
    BY <1>2 DEF MachineOK
  <2>6. RunsOK' /\ WaitOK' /\ BusyOK'
    BY <1>1, <1>2, <1>3, <2>1, <2>2, <2>5 DEF RunsOK, WaitOK, BusyOK
  <2>7. QED
    BY <2>3, <2>4, <2>6 DEF MemInv
<1>4. CASE ~(status[e] = "RUNNING" /\ e # curenv[c])
  <2>1. StartFree(c, e) /\ UNCHANGED status
    BY <1>4 DEF SysEnvDestroy
  <2>2. None \notin Env
    BY Constants
  <2>3. \A d \in CPU : curenv[d] = e => d = c
    BY <1>1, <1>2, <1>4, <2>2 DEF RunsOK
  <2>4. QED
    BY <1>1, <2>1, <2>3, StartFreeOK
<1>5. QED
  BY <1>3, <1>4

LEMMA TrapZombieOK ==
  ASSUME MemInv, NEW c \in CPU, TrapZombie(c)
  PROVE  MemInv'
<1>1. curenv[c] # None /\ status[curenv[c]] = "DYING" /\ StartFree(c, curenv[c]) /\ UNCHANGED status
  BY DEF TrapZombie, Calls
<1>2. curenv[c] \in Env /\ \A d \in CPU : curenv[d] = curenv[c] => d = c
  BY <1>1 DEF MemInv, MachineOK, RunsOK
<1>3. QED
  BY <1>1, <1>2, StartFreeOK

LEMMA SysStartOK ==
  ASSUME MemInv, NEW c \in CPU, NEW e \in Env, SysStart(c, e)
  PROVE  MemInv'
<1>1. /\ kernel.op = "idle" /\ status[e] = "NOT_RUNNABLE" /\ recv[e] = None
      /\ status' = [status EXCEPT ![e] = "RUNNABLE"]
      /\ UNCHANGED <<mem, parent, recv, curenv, tlb, kernel>>
  BY DEF SysStart, Calls, Idle
<1>2. MachineOK /\ RunsOK /\ WaitOK
  BY DEF MemInv
<1>3. status'[e] = "RUNNABLE" /\ \A x \in Env : x # e => status'[x] = status[x]
  BY <1>1, <1>2 DEF MachineOK
<1>4. mem' \in Mem /\ MemOK(mem', {}) /\ SpaceOK'
  BY <1>1, <1>3, MemStays
<1>5. MachineOK'
  BY <1>1, <1>2, <1>4 DEF MachineOK
<1>6. \A d \in CPU : curenv[d] # None => curenv[d] \in Env /\ curenv[d] # e
  BY <1>1, <1>2 DEF MachineOK, RunsOK
<1>7. RunsOK' /\ WaitOK' /\ BusyOK'
  BY <1>1, <1>2, <1>3, <1>6 DEF RunsOK, WaitOK, BusyOK
<1>8. QED
  BY <1>4, <1>5, <1>7 DEF MemInv

LEMMA SysIpcRecvOK ==
  ASSUME MemInv, NEW c \in CPU, NEW dstva \in Window \cup {UTOP}, SysIpcRecv(c, dstva)
  PROVE  MemInv'
<1>1. /\ kernel.op = "idle" /\ curenv[c] # None /\ status[curenv[c]] # "FREE"
      /\ recv' = [recv EXCEPT ![curenv[c]] = dstva]
      /\ status' = [status EXCEPT ![curenv[c]] = "NOT_RUNNABLE"]
      /\ curenv' = [curenv EXCEPT ![c] = None]
      /\ tlb' = TlbFlush(c) /\ UNCHANGED <<mem, parent, kernel>>
  BY DEF SysIpcRecv, Calls, Idle
<1>2. MachineOK /\ RunsOK /\ WaitOK /\ dstva \in UserVA \cup {UTOP}
  BY EnvAssumption DEF MemInv
<1>3. curenv[c] \in Env
  BY <1>1, <1>2 DEF MachineOK
<1>4. /\ status'[curenv[c]] = "NOT_RUNNABLE"
      /\ \A x \in Env : x # curenv[c] => status'[x] = status[x] /\ recv'[x] = recv[x]
  BY <1>1, <1>2, <1>3 DEF MachineOK
<1>5. mem' \in Mem /\ MemOK(mem', {}) /\ SpaceOK'
  BY <1>1, <1>4, MemStays
<1>6. /\ status' \in [Env -> {"FREE", "NOT_RUNNABLE", "RUNNABLE", "RUNNING", "DYING"}]
      /\ recv' \in [Env -> UserVA \cup {UTOP, None}] /\ curenv' \in [CPU -> Env \cup {None}]
  BY <1>1, <1>2, <1>3 DEF MachineOK
<1>7. MachineOK'
  BY <1>1, <1>2, <1>5, <1>6, FlushType DEF MachineOK
<1>8. /\ curenv'[c] = None /\ \A d \in CPU : d # c => curenv'[d] = curenv[d]
      /\ \A d \in CPU : d # c /\ curenv[d] # None => curenv[d] \in Env /\ curenv[d] # curenv[c]
  BY <1>1, <1>2 DEF MachineOK, RunsOK
<1>9. RunsOK'
  BY <1>2, <1>4, <1>8 DEF RunsOK
<1>10. WaitOK' /\ BusyOK'
  BY <1>1, <1>2, <1>4 DEF WaitOK, BusyOK
<1>11. QED
  BY <1>5, <1>7, <1>9, <1>10 DEF MemInv

LEMMA ReceivedKeeps ==
  ASSUME MemInv, NEW e \in Env, recv[e] # None, status[e] # "FREE", kernel.op = "idle", Received(e)
  PROVE  /\ BusyOK' /\ RunsOK' /\ WaitOK' /\ \A x \in Env : status'[x] = "FREE" <=> status[x] = "FREE"
         /\ status' \in [Env -> {"FREE", "NOT_RUNNABLE", "RUNNABLE", "RUNNING", "DYING"}]
         /\ recv' \in [Env -> UserVA \cup {UTOP, None}]
<1>1. /\ recv' = [recv EXCEPT ![e] = None] /\ status' = [status EXCEPT ![e] = "RUNNABLE"]
      /\ UNCHANGED <<parent, curenv, kernel>>
  BY DEF Received
<1>2. MachineOK /\ RunsOK /\ WaitOK /\ status[e] = "NOT_RUNNABLE"
  BY DEF MemInv, WaitOK
<1>3. /\ status'[e] = "RUNNABLE" /\ recv'[e] = None
      /\ \A x \in Env : x # e => status'[x] = status[x] /\ recv'[x] = recv[x]
      /\ status' \in [Env -> {"FREE", "NOT_RUNNABLE", "RUNNABLE", "RUNNING", "DYING"}]
      /\ recv' \in [Env -> UserVA \cup {UTOP, None}]
  BY <1>1, <1>2 DEF MachineOK
<1>4. \A d \in CPU : curenv[d] # None => curenv[d] \in Env /\ curenv[d] # e
  BY <1>2 DEF MachineOK, RunsOK
<1>5. QED
  BY <1>1, <1>2, <1>3, <1>4 DEF RunsOK, WaitOK, BusyOK

LEMMA SysIpcSendValueOK ==
  ASSUME MemInv, NEW c \in CPU, NEW e \in Env, SysIpcSendValue(c, e)
  PROVE  MemInv'
<1>1. /\ recv[e] # None /\ status[e] # "FREE" /\ kernel.op = "idle" /\ Received(e)
      /\ UNCHANGED <<mem, tlb>>
  BY DEF SysIpcSendValue, Calls, Idle
<1>2. /\ BusyOK' /\ RunsOK' /\ WaitOK' /\ \A x \in Env : status'[x] = "FREE" <=> status[x] = "FREE"
      /\ status' \in [Env -> {"FREE", "NOT_RUNNABLE", "RUNNABLE", "RUNNING", "DYING"}]
      /\ recv' \in [Env -> UserVA \cup {UTOP, None}]
  BY <1>1, ReceivedKeeps
<1>3. mem' \in Mem /\ MemOK(mem', {}) /\ SpaceOK'
  BY <1>1, <1>2, MemStays
<1>4. MachineOK'
  BY <1>1, <1>2, <1>3 DEF MemInv, MachineOK, Received
<1>5. QED
  BY <1>2, <1>3, <1>4 DEF MemInv

LEMMA SysIpcSendPageOK ==
  ASSUME CountsFit, Polite, MemInv, NEW c \in CPU, NEW e \in Env, NEW srcva \in UserVA,
         NEW perm \in PermArgs, SysIpcSendPage(c, e, srcva, perm)
  PROVE  MemInv'
<1>1. status[e] # "FREE" /\ recv[e] \in UserVA /\ Edited(mem, mem', e, recv[e])
  BY SysIpcSendPageEdits
<1>2. kernel.op = "idle" /\ Received(e) /\ tlb' = TlbInvalidate(c, e, recv[e])
  BY DEF SysIpcSendPage, Calls, Idle
<1>3. WaitOK /\ MachineOK /\ recv[e] # None
  BY <1>1, Constants DEF MemInv
<1>4. QED
  <2>1. /\ BusyOK' /\ RunsOK' /\ WaitOK' /\ \A x \in Env : status'[x] = "FREE" <=> status[x] = "FREE"
        /\ status' \in [Env -> {"FREE", "NOT_RUNNABLE", "RUNNABLE", "RUNNING", "DYING"}]
        /\ recv' \in [Env -> UserVA \cup {UTOP, None}]
    BY <1>1, <1>2, <1>3, ReceivedKeeps
  <2>2. mem' \in Mem /\ MemOK(mem', {}) /\ SpaceOK'
    BY <1>1, <2>1, EditKeepsSpace
  <2>3. tlb' \in [CPU -> [Watched -> Pte]]
    BY <1>2, <1>3, InvalidateType
  <2>4. MachineOK'
    BY <1>2, <1>3, <2>1, <2>2, <2>3 DEF MachineOK, Received
  <2>5. QED
    BY <2>1, <2>2, <2>4 DEF MemInv

LEMMA MemInvNext ==
  ASSUME CountsFit, Polite, MemInv, [Next]_vars
  PROVE  MemInv'
<1>1. ASSUME NEW e \in Env, Create(e) PROVE MemInv'
  BY <1>1, CreateOK
<1>2. CASE LoadIcode
  BY <1>2, LoadIcodeOK
<1>3. CASE EnvFree
  BY <1>3, EnvFreeOK
<1>4. ASSUME NEW c \in CPU, UserStep(c) PROVE MemInv'
  BY <1>4, AccessOK, SwitchOK DEF UserStep
<1>5. ASSUME NEW c \in CPU, MapCall(c) PROVE MemInv'
  BY <1>5, MapCallOK
<1>6. ASSUME NEW c \in CPU, EnvCall(c) PROVE MemInv'
  BY <1>6, SysExoforkOK, SysStartOK, SysEnvDestroyOK, TrapZombieOK, SysIpcRecvOK, SysIpcSendValueOK,
     SysIpcSendPageOK DEF EnvCall
<1>7. CASE UNCHANGED vars
  BY <1>7 DEF vars, MemInv, MachineOK, BusyOK, RunsOK, WaitOK, SpaceOK, NoTables
<1>8. QED
  BY <1>1, <1>2, <1>3, <1>4, <1>5, <1>6, <1>7 DEF Next, SysCall

-----------------------------------------------------------------------------
(* How a step changes the maps: not at all; at one place of one            *)
(* environment, by its family or by the kernel that loads it or takes it   *)
(* down; or those of one that nobody executes, which is set up or taken    *)
(* down.                                                                   *)
Away(e) == \A c \in CPU : curenv[c] # e
KernelOf(e) == kernel.op \in {"load", "free"} /\ kernel.env = e

EditStep ==
  \E e \in Env, va \in UserVA :
     Edited(mem, mem', e, va) /\ IF Idle THEN MadeByFamily(e) ELSE Away(e) /\ KernelOf(e)
SetupStep ==
  \E e \in Env : /\ OthersKept(mem, mem', e) /\ NothingNew(mem, mem', e) /\ Away(e)
                 /\ \/ ~Idle /\ KernelOf(e)
                    \/ \A va \in UserVA : EntryAt(mem', e, va) = EntryAt(mem, e, va)

LEMMA AllocMaps ==
  ASSUME MemInv, NEW e \in Env, NEW by, NEW st, EnvAlloc(e, by, st)
  PROVE  SetupStep
<1>1. status[e] = "FREE" /\ mem.free # << >> /\ mem' = EnvSetupVm(mem, e)
  BY DEF EnvAlloc
<1>2. MemOK(mem, {}) /\ mem.dir[e] = None /\ NoTables(mem, e)
  BY <1>1 DEF MemInv, SpaceOK
<1>3. OthersKept(mem, mem', e) /\ NoTables(mem', e)
  BY <1>1, <1>2, EnvSetupVmOK
<1>4. \A va \in UserVA : EntryAt(mem', e, va) = Empty /\ EntryAt(mem, e, va) = Empty
  BY <1>2, <1>3, NoTablesEmpty
<1>5. Away(e)
  BY <1>1, Constants DEF MemInv, RunsOK, Away
<1>6. QED
  BY <1>3, <1>4, <1>5 DEF SetupStep, NothingNew

LEMMA FreeMaps ==
  ASSUME Polite, MemInv, EnvFree
  PROVE  (EditStep \/ SetupStep) /\ ~Idle
<1>1. ASSUME NEW e \in Env, Freeing(e) PROVE Away(e) /\ ~Idle /\ KernelOf(e) /\ status[e] # "FREE"
  BY <1>1 DEF MemInv, BusyOK, Freeing, Away, Idle, KernelOf
<1>2. ASSUME NEW e \in Env, NEW d \in 0 .. NPD - 1, NEW i \in Slot, FreePte(e, d, i)
      PROVE  EditStep /\ ~Idle
  <2>1. Freeing(e)
    BY <1>2 DEF FreePte
  <2>2. <<d, i>> \in UserVA /\ Edited(mem, mem', e, <<d, i>>)
    BY <1>2, FreePteEdits
  <2>3. QED
    BY <2>1, <2>2, <1>1 DEF EditStep
<1>3. ASSUME NEW e \in Env, NEW d \in 0 .. NPD - 1, FreeTable(e, d)
      PROVE  SetupStep /\ ~Idle
  <2>1. Freeing(e) /\ mem.pde[e][d] # None /\ PresentIn(mem, e, d) = {} /\ mem' = TableFreed(mem, e, d)
    BY <1>3 DEF FreeTable, IsFirst, TablesLeft
  <2>2. MemOK(mem, {})
    BY DEF MemInv
  <2>3. OthersKept(mem, mem', e) /\ NothingNew(mem, mem', e)
    BY <2>1, <2>2, TableFreedOK
  <2>4. QED
    BY <2>1, <2>3, <1>1 DEF SetupStep
<1>4. ASSUME NEW e \in Env, FreeDir(e)
      PROVE  SetupStep /\ ~Idle
  <2>1. Freeing(e) /\ NoTables(mem, e) /\ mem' = DirFreed(mem, e)
    BY <1>4 DEF FreeDir, TablesLeft, NoTables
  <2>2. MemOK(mem, {}) /\ mem.dir[e] # None
    BY <2>1, <1>1 DEF MemInv, SpaceOK
  <2>3. OthersKept(mem, mem', e) /\ NoTables(mem', e)
    BY <2>1, <2>2, DirFreedOK
  <2>4. NothingNew(mem, mem', e)
    BY <2>3, NoTablesEmpty DEF NothingNew
  <2>5. QED
    BY <2>1, <2>3, <2>4, <1>1 DEF SetupStep
<1>5. QED
  BY <1>2, <1>3, <1>4 DEF EnvFree

LEMMA TargetIsFamily ==
  ASSUME MachineOK, NEW c \in CPU, NEW e \in Env, Calls(c), Target(c, e), caller' = c
  PROVE  Idle /\ MadeByFamily(e)
<1>1. curenv[c] \in Env
  BY DEF Calls, MachineOK
<1>2. QED
  BY <1>1 DEF Calls, Target, MadeByFamily

LEMMA CallMaps ==
  ASSUME CountsFit, Polite, MemInv, NEW c \in CPU, SysCall(c)
  PROVE  mem' = mem \/ EditStep \/ SetupStep
<1> MachineOK /\ caller' = c
  BY DEF MemInv, SysCall
<1>1. ASSUME NEW e \in Env, NEW va \in VA, NEW perm \in PermArgs, SysPageAlloc(c, e, va, perm)
      PROVE  EditStep
  <2>1. va \in UserVA /\ Edited(mem, mem', e, va)
    BY <1>1, SysPageAllocEdits
  <2>2. Idle /\ MadeByFamily(e)
    BY <1>1, TargetIsFamily DEF SysPageAlloc
  <2>3. QED
    BY <2>1, <2>2 DEF EditStep
<1>2. ASSUME NEW src \in Env, NEW dst \in Env, NEW srcva \in UserVA, NEW dstva \in UserVA,
             NEW perm \in PermArgs, SysPageMap(c, src, srcva, dst, dstva, perm)
      PROVE  EditStep
  <2>1. Edited(mem, mem', dst, dstva)
    BY <1>2, SysPageMapEdits
  <2>2. Idle /\ MadeByFamily(dst)
    BY <1>2, TargetIsFamily DEF SysPageMap
  <2>3. QED
    BY <2>1, <2>2 DEF EditStep
<1>3. ASSUME NEW e \in Env, NEW va \in UserVA, SysPageUnmap(c, e, va)
      PROVE  EditStep
  <2>1. Edited(mem, mem', e, va)
    BY <1>3, SysPageUnmapEdits
  <2>2. Idle /\ MadeByFamily(e)
    BY <1>3, TargetIsFamily DEF SysPageUnmap
  <2>3. QED
    BY <2>1, <2>2 DEF EditStep
<1>4. ASSUME NEW f \in Frame, NEW va \in Window, SysMapKernelPage(c, f, va)
      PROVE  EditStep
  <2>1. va \in UserVA
    BY EnvAssumption
  <2>2. curenv[c] \in Env /\ Edited(mem, mem', curenv[c], va)
    BY <1>4, <2>1, SysMapKernelPageEdits
  <2>3. Idle /\ MadeByFamily(curenv[c])
    BY <1>4, <2>2 DEF SysMapKernelPage, Calls, MadeByFamily
  <2>4. QED
    BY <2>1, <2>2, <2>3 DEF EditStep
<1>5. ASSUME NEW e \in Env, SysExofork(c, e)
      PROVE  SetupStep
  BY <1>5, AllocMaps DEF SysExofork
<1>6. ASSUME NEW e \in Env, NEW srcva \in UserVA, NEW perm \in PermArgs, SysIpcSendPage(c, e, srcva, perm)
      PROVE  EditStep
  <2>1. recv[e] \in UserVA /\ Edited(mem, mem', e, recv[e])
    BY <1>6, SysIpcSendPageEdits
  <2>2. Idle /\ MadeByFamily(e)
    BY <1>6, TargetIsFamily DEF SysIpcSendPage, SendBadEnv
  <2>3. QED
    BY <2>1, <2>2 DEF EditStep
<1>7. CASE MapCall(c)
  BY <1>7, <1>1, <1>2, <1>3, <1>4 DEF MapCall
<1>8. CASE EnvCall(c)
  <2>1. ASSUME NEW e \in Env, SysStart(c, e) \/ SysEnvDestroy(c, e) \/ SysIpcSendValue(c, e) PROVE mem' = mem
    BY <2>1 DEF SysStart, SysEnvDestroy, SysIpcSendValue, StartFree
  <2>2. ASSUME TrapZombie(c) \/ \E dstva \in Window \cup {UTOP} : SysIpcRecv(c, dstva) PROVE mem' = mem
    BY <2>2 DEF TrapZombie, SysIpcRecv, StartFree
  <2>3. QED
    BY <1>5, <1>6, <1>8, <2>1, <2>2 DEF EnvCall
<1>9. QED
  BY <1>7, <1>8 DEF SysCall

LEMMA NextMaps ==
  ASSUME CountsFit, Polite, MemInv, [Next]_vars
  PROVE  mem' = mem \/ EditStep \/ SetupStep
<1>1. ASSUME NEW e \in Env, Create(e) PROVE SetupStep
  BY <1>1, AllocMaps DEF Create
<1>2. ASSUME LoadIcode, mem' # mem PROVE EditStep
  <2>1. PICK va \in UserVA : Edited(mem, mem', kernel.env, va)
    BY <1>2, LoadEdits
  <2>2. kernel.env \in Env /\ Away(kernel.env) /\ ~Idle /\ KernelOf(kernel.env)
    BY <1>2 DEF MemInv, MachineOK, BusyOK, LoadIcode, Away, Idle, KernelOf
  <2>3. QED
    BY <2>1, <2>2 DEF EditStep
<1>3. CASE EnvFree
  BY <1>3, FreeMaps
<1>4. ASSUME NEW c \in CPU, UserStep(c) PROVE mem' = mem
  BY <1>4 DEF UserStep, Access, Switch
<1>5. ASSUME NEW c \in CPU, SysCall(c) PROVE mem' = mem \/ EditStep \/ SetupStep
  BY <1>5, CallMaps
<1>6. QED
  BY <1>1, <1>2, <1>3, <1>4, <1>5 DEF Next, vars
-----------------------------------------------------------------------------
(* The invariant, for every machine whose counts fit, and programs that    *)
(* keep to their habits.                                                   *)
THEOREM MemInvAlways ==
  ASSUME CountsFit, Polite
  PROVE  Spec => []MemInv
<1>1. Init => MemInv
  BY MemInvInit
<1>2. MemInv /\ [Next]_vars => MemInv'
  BY MemInvNext
<1>3. QED
  BY <1>1, <1>2, PTL DEF Spec

(* The kernel's data structures keep their types.                          *)
THEOREM MemoryTypes ==
  ASSUME CountsFit, Polite
  PROVE  Spec => []TypeOK
<1>1. Init => TypeOK
  BY MemInvInit DEF Init, MemInv, TypeOK
<1>2. MemInv /\ MemInv' /\ TypeOK /\ [Next]_vars => TypeOK'
  BY DEF MemInv, TypeOK, Next, SysCall, vars
<1>3. QED
  BY <1>1, <1>2, MemInvAlways, PTL DEF Spec

(* page_insert(), page_remove(), env_free(): pp_ref of a page is always    *)
(* the number of its users.                                                *)
THEOREM CountsAreExact ==
  ASSUME CountsFit, Polite
  PROVE  Spec => []RefCountsExact
<1>1. ASSUME MemInv PROVE RefCountsExact
  <2>1. ASSUME NEW f \in Frame PROVE mem.ref[f] = (Pinned(f) + Uses(mem, f)) % RefMod
    <3>1. mem.ref[f] = Pinned(f) + Uses(mem, f)
      BY <1>1 DEF MemInv, MemOK, Counted
    <3>2. Pinned(f) + Uses(mem, f) \in 0 .. RefMod - 1
      BY UsesFit
    <3>3. (Pinned(f) + Uses(mem, f)) % RefMod = Pinned(f) + Uses(mem, f)
      BY <3>2, ModSmall
    <3>4. QED
      BY <3>1, <3>3
  <2>2. QED
    BY <2>1 DEF RefCountsExact
<1>2. QED
  BY <1>1, MemInvAlways, PTL

(* page_alloc(), page_free(): the list holds every page nobody uses, once, *)
(* and no other.                                                           *)
THEOREM FreeListIsExact ==
  ASSUME CountsFit, Polite
  PROVE  Spec => []FreeListExact
<1>1. ASSUME MemInv PROVE FreeListExact
  <2>1. ListedOnce(mem) /\ ListExact(mem, {})
    BY <1>1 DEF MemInv, MemOK
  <2>2. QED
    BY <2>1 DEF FreeListExact, ListedOnce, ListExact, Listed
<1>2. QED
  BY <1>1, MemInvAlways, PTL

(* check_page_free_list(): no reserved page gets on the list, as long as   *)
(* no program unmaps what it never mapped.                                 *)
THEOREM ReservedStay ==
  ASSUME CountsFit, Polite
  PROVE  Spec => []check_page_free_list
<1>1. ASSUME MemInv PROVE check_page_free_list
  <2>1. MemOK(mem, {}) /\ mem.free \in Seq(Frame)
    BY <1>1, Fields DEF MemInv, MemOK
  <2>2. ASSUME NEW i \in DOMAIN mem.free PROVE mem.free[i] \notin Reserved
    <3>1. mem.free[i] \in Frame /\ Listed(mem, mem.free[i])
      BY <2>1 DEF Listed
    <3>2. QED
      BY <2>1, <3>1, ListedIsUnused
  <2>3. QED
    BY <2>2 DEF check_page_free_list
<1>2. QED
  BY <1>1, MemInvAlways, PTL

LEMMA TableHasOneUse ==
  ASSUME NEW m, MemOK(m, {}), NEW f \in Frame, TableRefs(m, f) \cup DirRefs(m, f) # {}
  PROVE  Uses(m, f) = 1
<1>1. Private(m) /\ f # None
  BY Constants DEF MemOK
<1>2. Cardinality({}) = 0 /\ \A x : Cardinality({x}) = 1
  BY FS_EmptySet, FS_Singleton
<1>3. IsTable(m, f)
  BY DEF TableRefs, DirRefs, IsTable
<1>4. PteRefs(m, f) = {}
  BY <1>1, <1>3 DEF Private, PteRefs, Present
<1>5. CASE TableRefs(m, f) # {}
  <2>1. PICK e \in Env, d \in 0 .. NPD - 1 : m.pde[e][d] = f
    BY <1>5 DEF TableRefs
  <2>2. DirRefs(m, f) = {}
    BY <2>1, <1>1 DEF Private, DirRefs
  <2>3. \A x \in Env, y \in 0 .. NPD - 1 : m.pde[x][y] = f <=> x = e /\ y = d
    BY <2>1, <1>1 DEF Private
  <2>4. TableRefs(m, f) = {<<e, d>>}
    BY <2>3 DEF TableRefs
  <2>5. Cardinality(TableRefs(m, f)) = 1 /\ Cardinality(DirRefs(m, f)) = 0 /\ Cardinality(PteRefs(m, f)) = 0
    BY <2>2, <2>4, <1>2, <1>4
  <2>6. QED
    BY <2>5 DEF Uses
<1>6. CASE TableRefs(m, f) = {}
  <2>1. PICK e \in Env : m.dir[e] = f
    BY <1>6 DEF DirRefs
  <2>2. DirRefs(m, f) = {e}
    BY <2>1, <1>1 DEF Private, DirRefs
  <2>3. Cardinality(TableRefs(m, f)) = 0 /\ Cardinality(DirRefs(m, f)) = 1 /\ Cardinality(PteRefs(m, f)) = 0
    BY <2>2, <1>2, <1>4, <1>6
  <2>4. QED
    BY <2>3 DEF Uses
<1>7. QED
  BY <1>5, <1>6

(* pgdir_walk(), env_setup_vm(): a page that holds a page table or a page  *)
(* directory has no other use.                                             *)
THEOREM TablesArePrivate ==
  ASSUME CountsFit, Polite
  PROVE  Spec => []TablesPrivate
<1>1. ASSUME MemInv PROVE TablesPrivate
  <2>1. MemOK(mem, {})
    BY <1>1 DEF MemInv
  <2>2. QED
    BY <2>1, TableHasOneUse DEF TablesPrivate
<1>2. QED
  BY <1>1, MemInvAlways, PTL

(* sys_page_map(): write access never appears where nobody had it.         *)
THEOREM WriteNeedsWrite ==
  ASSUME CountsFit, Polite
  PROVE  Spec => NoWriteFromRead
<1> DEFINE Right ==
      \A e \in Env, va \in UserVA :
        LET new == EntryAt(mem', e, va) IN
        "W" \in new.perm /\ new # EntryAt(mem, e, va) /\ new.page \notin Reserved =>
          \/ \E x \in Env, xva \in UserVA :
               EntryAt(mem, x, xva).page = new.page /\ "W" \in EntryAt(mem, x, xva).perm
          \/ Uses(mem, new.page) = 0
<1>1. ASSUME MemInv, [Next]_vars PROVE [Right]_mem
  <2>1. CASE mem' = mem
    BY <2>1
  <2>2. CASE EditStep
    <3>1. PICK e \in Env, va \in UserVA : Edited(mem, mem', e, va)
      BY <2>2 DEF EditStep
    <3>2. PICK entry \in Pte : Sets(mem, mem', e, va, entry) /\ Honest(mem, e, va, entry)
      BY <3>1 DEF Edited
    <3>3. ASSUME NEW x \in Env, NEW y \in UserVA, EntryAt(mem', x, y) # EntryAt(mem, x, y)
          PROVE  x = e /\ y = va /\ EntryAt(mem', x, y) = entry
      BY <3>2, <3>3 DEF Sets
    <3>4. QED
      BY <3>2, <3>3 DEF Honest
  <2>3. CASE SetupStep
    <3>1. PICK e \in Env : OthersKept(mem, mem', e) /\ NothingNew(mem, mem', e)
      BY <2>3 DEF SetupStep
    <3>2. ASSUME NEW x \in Env, NEW y \in UserVA, EntryAt(mem', x, y) # EntryAt(mem, x, y)
          PROVE  EntryAt(mem', x, y) = Empty
      BY <3>1, <3>2 DEF OthersKept, NothingNew
    <3>3. QED
      BY <3>2 DEF Empty
  <2>4. QED
    BY <2>1, <2>2, <2>3, <1>1, NextMaps
<1>2. QED
  BY <1>1, MemInvAlways, PTL DEF Spec, NoWriteFromRead

(* envid2env(): the map of an environment is changed only by a system call *)
(* that it makes itself or that its parent makes, or by the kernel that    *)
(* loads it or takes it down.                                              *)
THEOREM FamilyChangesMaps ==
  ASSUME CountsFit, Polite
  PROVE  Spec => MapChangedByFamily
<1> DEFINE Right ==
      \A e \in Env, va \in UserVA :
        EntryAt(mem', e, va) # EntryAt(mem, e, va) =>
          IF Idle THEN MadeByFamily(e) ELSE kernel.env = e
<1>1. ASSUME MemInv, [Next]_vars PROVE [Right]_mem
  <2>1. CASE mem' = mem
    BY <2>1
  <2>2. CASE EditStep
    <3>1. PICK e \in Env, va \in UserVA :
            Edited(mem, mem', e, va) /\ IF Idle THEN MadeByFamily(e) ELSE kernel.env = e
      BY <2>2 DEF EditStep, KernelOf
    <3>2. PICK entry \in Pte : Sets(mem, mem', e, va, entry)
      BY <3>1 DEF Edited
    <3>3. ASSUME NEW x \in Env, NEW y \in UserVA, EntryAt(mem', x, y) # EntryAt(mem, x, y)
          PROVE  x = e
      BY <3>2, <3>3 DEF Sets
    <3>4. QED
      BY <3>1, <3>3
  <2>3. CASE SetupStep
    BY <2>3 DEF SetupStep, OthersKept, KernelOf
  <2>4. QED
    BY <2>1, <2>2, <2>3, <1>1, NextMaps
<1>2. QED
  BY <1>1, MemInvAlways, PTL DEF Spec, MapChangedByFamily

-----------------------------------------------------------------------------
(* The TLBs, when no program changes the map of another that runs.         *)

(* Steps that touch neither a TLB nor the map of what is executed.         *)
LEMMA TlbStays ==
  ASSUME TLBFresh, UNCHANGED <<tlb, curenv>>,
         \A c \in CPU, va \in Watched :
            curenv[c] # None => EntryAt(mem', curenv[c], va) = EntryAt(mem, curenv[c], va)
  PROVE  TLBFresh'
BY DEF TLBFresh

LEMMA TlbFlushed ==
  ASSUME MachineOK, TLBFresh, NEW c \in CPU, tlb' = TlbFlush(c), mem' = mem,
         \A d \in CPU : d # c => curenv'[d] = curenv[d]
  PROVE  TLBFresh'
<1>1. /\ \A va \in Watched : tlb'[c][va] = Empty
      /\ \A d \in CPU : d # c => tlb'[d] = tlb[d]
  BY DEF MachineOK, TlbFlush
<1>2. ASSUME NEW d \in CPU, NEW va \in Watched, tlb'[d][va] # Empty
      PROVE  curenv'[d] # None /\ tlb'[d][va] = EntryAt(mem', curenv'[d], va)
  <2>1. d # c
    BY <1>1, <1>2
  <2>2. QED
    BY <2>1, <1>1, <1>2 DEF TLBFresh
<1>3. QED
  BY <1>2 DEF TLBFresh

LEMMA TlbInvalidated ==
  ASSUME MachineOK, TLBFresh, NEW c \in CPU, curenv[c] # None, NEW e \in Env, NEW va \in UserVA,
         \A d \in CPU : curenv[d] = e => d = c, Edited(mem, mem', e, va),
         tlb' = TlbInvalidate(c, e, va), UNCHANGED curenv
  PROVE  TLBFresh'
<1>1. PICK entry \in Pte : Sets(mem, mem', e, va, entry)
  BY DEF Edited
<1>2. ASSUME NEW d \in CPU, NEW w \in Watched, tlb'[d][w] # Empty
      PROVE  tlb'[d][w] = tlb[d][w] /\ ~(curenv[d] = e /\ w = va)
  <2>1. CASE va \in Watched /\ curenv[c] \in {None, e}
    <3>1. tlb' = [tlb EXCEPT ![c][va] = Empty]
      BY <2>1 DEF TlbInvalidate
    <3>2. tlb[c] \in [Watched -> Pte] /\ tlb \in [CPU -> [Watched -> Pte]]
      BY DEF MachineOK
    <3>3. tlb'[c] = [tlb[c] EXCEPT ![va] = Empty] /\ \A b \in CPU : b # c => tlb'[b] = tlb[b]
      BY <3>1, <3>2
    <3>4. tlb'[c][va] = Empty /\ \A y \in Watched : y # va => tlb'[c][y] = tlb[c][y]
      BY <2>1, <3>2, <3>3
    <3>5. CASE d = c
      BY <3>4, <3>5, <1>2
    <3>6. CASE d # c
      BY <3>3, <3>6
    <3>7. QED
      BY <3>5, <3>6
  <2>2. CASE ~(va \in Watched /\ curenv[c] \in {None, e})
    <3>1. tlb' = tlb
      BY <2>2 DEF TlbInvalidate
    <3>2. QED
      BY <2>2, <3>1
  <2>3. QED
    BY <2>1, <2>2
<1>3. ASSUME NEW d \in CPU, NEW w \in Watched, tlb'[d][w] # Empty
      PROVE  curenv'[d] # None /\ tlb'[d][w] = EntryAt(mem', curenv'[d], w)
  <2>1. tlb'[d][w] = tlb[d][w] /\ ~(curenv[d] = e /\ w = va)
    BY <1>2, <1>3
  <2>2. curenv[d] # None /\ tlb[d][w] = EntryAt(mem, curenv[d], w)
    BY <2>1, <1>3 DEF TLBFresh
  <2>3. curenv[d] \in Env /\ w \in UserVA
    BY <2>2, EnvAssumption DEF MachineOK
  <2>4. EntryAt(mem', curenv[d], w) = EntryAt(mem, curenv[d], w)
    BY <2>1, <2>3, <1>1 DEF Sets
  <2>5. QED
    BY <2>1, <2>2, <2>4
<1>4. QED
  BY <1>3 DEF TLBFresh

(* Setting up or taking down an address space, while the kernel is busy    *)
(* with it, or before it runs.                                             *)
LEMMA QuietMaps ==
  ASSUME MachineOK, TLBFresh, SetupStep \/ (EditStep /\ ~Idle), UNCHANGED <<tlb, curenv>>
  PROVE  TLBFresh'
<1>1. \A c \in CPU, va \in Watched : curenv[c] # None => curenv[c] \in Env /\ va \in UserVA
  BY EnvAssumption DEF MachineOK
<1>2. CASE SetupStep
  <2>1. PICK e \in Env : OthersKept(mem, mem', e) /\ Away(e)
    BY <1>2 DEF SetupStep
  <2>2. QED
    BY <1>1, <2>1, TlbStays DEF OthersKept, Away
<1>3. CASE EditStep /\ ~Idle
  <2>1. PICK e \in Env, va \in UserVA : Edited(mem, mem', e, va) /\ Away(e)
    BY <1>3 DEF EditStep
  <2>2. PICK entry \in Pte : Sets(mem, mem', e, va, entry)
    BY <2>1 DEF Edited
  <2>3. QED
    BY <1>1, <2>1, <2>2, TlbStays DEF Sets, Away
<1>4. QED
  BY <1>2, <1>3

LEMMA OnlyHere ==
  ASSUME Habits = {}, MemInv, NEW c \in CPU, curenv[c] # None, NEW e, MayEdit(c, e)
  PROVE  \A d \in CPU : curenv[d] = e => d = c
BY DEF MayEdit, Executing, MemInv, RunsOK

LEMMA TlbMapCall ==
  ASSUME CountsFit, Habits = {}, MemInv, TLBFresh, NEW c \in CPU, MapCall(c)
  PROVE  TLBFresh'
<1>1. Polite /\ MachineOK /\ curenv[c] \in Env \cup {None}
  BY DEF Polite, MemInv, MachineOK
<1>2. ASSUME NEW e \in Env, NEW va \in VA, NEW perm \in PermArgs, SysPageAlloc(c, e, va, perm)
      PROVE  TLBFresh'
  <2>1. va \in UserVA /\ Edited(mem, mem', e, va)
    BY <1>1, <1>2, SysPageAllocEdits
  <2>2. curenv[c] # None /\ MayEdit(c, e) /\ tlb' = TlbInvalidate(c, e, va) /\ UNCHANGED curenv
    BY <1>2 DEF SysPageAlloc, Calls, Unchanged
  <2>3. \A d \in CPU : curenv[d] = e => d = c
    BY <2>2, OnlyHere
  <2>4. QED
    BY <1>1, <2>1, <2>2, <2>3, TlbInvalidated
<1>3. ASSUME NEW src \in Env, NEW dst \in Env, NEW srcva \in UserVA, NEW dstva \in UserVA,
             NEW perm \in PermArgs, SysPageMap(c, src, srcva, dst, dstva, perm)
      PROVE  TLBFresh'
  <2>1. Edited(mem, mem', dst, dstva)
    BY <1>1, <1>3, SysPageMapEdits
  <2>2. curenv[c] # None /\ MayEdit(c, dst) /\ tlb' = TlbInvalidate(c, dst, dstva) /\ UNCHANGED curenv
    BY <1>3 DEF SysPageMap, Calls, Unchanged
  <2>3. \A d \in CPU : curenv[d] = dst => d = c
    BY <2>2, OnlyHere
  <2>4. QED
    BY <1>1, <2>1, <2>2, <2>3, TlbInvalidated
<1>4. ASSUME NEW e \in Env, NEW va \in UserVA, SysPageUnmap(c, e, va)
      PROVE  TLBFresh'
  <2>1. Edited(mem, mem', e, va)
    BY <1>1, <1>4, SysPageUnmapEdits
  <2>2. curenv[c] # None /\ MayEdit(c, e) /\ tlb' = TlbInvalidate(c, e, va) /\ UNCHANGED curenv
    BY <1>4 DEF SysPageUnmap, Calls, Unchanged
  <2>3. \A d \in CPU : curenv[d] = e => d = c
    BY <2>2, OnlyHere
  <2>4. QED
    BY <1>1, <2>1, <2>2, <2>3, TlbInvalidated
<1>5. ASSUME NEW f \in Frame, NEW va \in Window, SysMapKernelPage(c, f, va)
      PROVE  TLBFresh'
  <2>1. va \in UserVA
    BY EnvAssumption
  <2>2. curenv[c] \in Env /\ Edited(mem, mem', curenv[c], va)
    BY <1>1, <1>5, <2>1, SysMapKernelPageEdits
  <2>3. curenv[c] # None /\ tlb' = TlbInvalidate(c, curenv[c], va) /\ UNCHANGED curenv
    BY <1>5 DEF SysMapKernelPage, Calls, Unchanged
  <2>4. \A d \in CPU : curenv[d] = curenv[c] => d = c
    BY <2>3 DEF MemInv, RunsOK
  <2>5. QED
    BY <1>1, <2>1, <2>2, <2>3, <2>4, TlbInvalidated
<1>6. QED
  BY <1>2, <1>3, <1>4, <1>5 DEF MapCall

LEMMA TlbStartFree ==
  ASSUME MachineOK, TLBFresh, NEW c \in CPU, NEW e, StartFree(c, e)
  PROVE  TLBFresh'
<1>1. CASE curenv[c] = e
  <2>1. tlb' = TlbFlush(c) /\ mem' = mem /\ curenv' = [curenv EXCEPT ![c] = None]
    BY <1>1 DEF StartFree
  <2>2. \A d \in CPU : d # c => curenv'[d] = curenv[d]
    BY <2>1 DEF MachineOK
  <2>3. QED
    BY <2>1, <2>2, TlbFlushed
<1>2. CASE curenv[c] # e
  BY <1>2, TlbStays DEF StartFree
<1>3. QED
  BY <1>1, <1>2

LEMMA TlbEnvCall ==
  ASSUME CountsFit, Habits = {}, MemInv, TLBFresh, NEW c \in CPU, EnvCall(c)
  PROVE  TLBFresh'
<1>1. Polite /\ MachineOK /\ RunsOK /\ WaitOK
  BY DEF Polite, MemInv
<1>2. ASSUME NEW e \in Env, SysExofork(c, e) PROVE TLBFresh'
  <2>1. SetupStep /\ UNCHANGED <<tlb, curenv>>
    BY <1>2, AllocMaps DEF SysExofork
  <2>2. QED
    BY <1>1, <2>1, QuietMaps
<1>3. ASSUME NEW e \in Env, SysStart(c, e) PROVE TLBFresh'
  BY <1>3, TlbStays DEF SysStart
<1>4. ASSUME NEW e \in Env, SysEnvDestroy(c, e) PROVE TLBFresh'
  <2>1. CASE status[e] = "RUNNING" /\ e # curenv[c]
    BY <1>4, <2>1, TlbStays DEF SysEnvDestroy
  <2>2. CASE ~(status[e] = "RUNNING" /\ e # curenv[c])
    BY <1>1, <1>4, <2>2, TlbStartFree DEF SysEnvDestroy
  <2>3. QED
    BY <2>1, <2>2
<1>5. ASSUME TrapZombie(c) PROVE TLBFresh'
  BY <1>1, <1>5, TlbStartFree DEF TrapZombie
<1>6. ASSUME NEW dstva \in Window \cup {UTOP}, SysIpcRecv(c, dstva) PROVE TLBFresh'
  <2>1. tlb' = TlbFlush(c) /\ mem' = mem /\ curenv' = [curenv EXCEPT ![c] = None]
    BY <1>6 DEF SysIpcRecv
  <2>2. \A d \in CPU : d # c => curenv'[d] = curenv[d]
    BY <1>1, <2>1 DEF MachineOK
  <2>3. QED
    BY <1>1, <2>1, <2>2, TlbFlushed
<1>7. ASSUME NEW e \in Env, SysIpcSendValue(c, e) PROVE TLBFresh'
  BY <1>7, TlbStays DEF SysIpcSendValue, Received
<1>8. ASSUME NEW e \in Env, NEW srcva \in UserVA, NEW perm \in PermArgs, SysIpcSendPage(c, e, srcva, perm)
      PROVE  TLBFresh'
  <2>1. status[e] # "FREE" /\ recv[e] \in UserVA /\ Edited(mem, mem', e, recv[e])
    BY <1>1, <1>8, SysIpcSendPageEdits
  <2>2. curenv[c] # None /\ tlb' = TlbInvalidate(c, e, recv[e]) /\ UNCHANGED curenv
    BY <1>8 DEF SysIpcSendPage, Calls, Received
  <2>3. status[e] = "NOT_RUNNABLE"
    BY <2>1, <1>1, Constants DEF WaitOK
  <2>4. \A d \in CPU : curenv[d] # e
    BY <2>3, <1>1, Constants DEF RunsOK
  <2>5. QED
    BY <1>1, <2>1, <2>2, <2>4, TlbInvalidated
<1>9. QED
  BY <1>2, <1>3, <1>4, <1>5, <1>6, <1>7, <1>8 DEF EnvCall

LEMMA TlbUserStep ==
  ASSUME MemInv, TLBFresh, NEW c \in CPU, UserStep(c)
  PROVE  TLBFresh'
<1>1. MachineOK
  BY DEF MemInv
<1>2. ASSUME NEW va \in Watched, Access(c, va) PROVE TLBFresh'
  <2>1. /\ curenv[c] # None /\ tlb' = [tlb EXCEPT ![c][va] = EntryAt(mem, curenv[c], va)]
        /\ mem' = mem /\ curenv' = curenv
    BY <1>2 DEF Access
  <2>2. tlb[c] \in [Watched -> Pte] /\ tlb \in [CPU -> [Watched -> Pte]]
    BY <1>1 DEF MachineOK
  <2>3. tlb'[c] = [tlb[c] EXCEPT ![va] = EntryAt(mem, curenv[c], va)] /\ \A d \in CPU : d # c => tlb'[d] = tlb[d]
    BY <2>1, <2>2
  <2>4. tlb'[c][va] = EntryAt(mem, curenv[c], va) /\ \A w \in Watched : w # va => tlb'[c][w] = tlb[c][w]
    BY <2>2, <2>3
  <2>5. ASSUME NEW d \in CPU, NEW w \in Watched, tlb'[d][w] # Empty
        PROVE  curenv'[d] # None /\ tlb'[d][w] = EntryAt(mem', curenv'[d], w)
    <3>1. CASE d = c /\ w = va
      BY <3>1, <2>1, <2>4
    <3>2. CASE ~(d = c /\ w = va)
      <4>1. tlb'[d][w] = tlb[d][w]
        BY <3>2, <2>3, <2>4
      <4>2. QED
        BY <4>1, <2>1, <2>5 DEF TLBFresh
    <3>3. QED
      BY <3>1, <3>2
  <2>6. QED
    BY <2>5 DEF TLBFresh
<1>3. ASSUME NEW e \in Env \cup {None}, Switch(c, e) PROVE TLBFresh'
  <2>1. tlb' = TlbFlush(c) /\ mem' = mem /\ curenv' = [curenv EXCEPT ![c] = e]
    BY <1>3 DEF Switch
  <2>2. \A d \in CPU : d # c => curenv'[d] = curenv[d]
    BY <1>1, <2>1 DEF MachineOK
  <2>3. QED
    BY <1>1, <2>1, <2>2, TlbFlushed
<1>4. QED
  BY <1>2, <1>3 DEF UserStep

LEMMA TlbNext ==
  ASSUME CountsFit, Habits = {}, MemInv, TLBFresh, [Next]_vars
  PROVE  TLBFresh'
<1>1. Polite /\ MachineOK
  BY DEF Polite, MemInv
<1>2. ASSUME NEW e \in Env, Create(e) PROVE TLBFresh'
  <2>1. SetupStep /\ UNCHANGED <<tlb, curenv>>
    BY <1>2, AllocMaps DEF Create
  <2>2. QED
    BY <1>1, <2>1, QuietMaps
<1>3. CASE LoadIcode
  <2>1. UNCHANGED <<tlb, curenv>> /\ ~Idle
    BY <1>3 DEF LoadIcode, Idle
  <2>2. CASE mem' = mem
    BY <2>1, <2>2, TlbStays
  <2>3. CASE mem' # mem
    <3>1. EditStep
      <4>1. PICK va \in UserVA : Edited(mem, mem', kernel.env, va)
        BY <1>3, <2>3, LoadEdits
      <4>2. kernel.env \in Env /\ Away(kernel.env) /\ KernelOf(kernel.env)
        BY <1>3 DEF MemInv, MachineOK, BusyOK, LoadIcode, Away, KernelOf
      <4>3. QED
        BY <2>1, <4>1, <4>2 DEF EditStep
    <3>2. QED
      BY <1>1, <2>1, <3>1, QuietMaps
  <2>4. QED
    BY <2>2, <2>3
<1>4. CASE EnvFree
  <2>1. UNCHANGED <<tlb, curenv>>
    BY <1>4 DEF EnvFree, FreePte, FreeTable, FreeDir
  <2>2. QED
    BY <1>1, <1>4, <2>1, FreeMaps, QuietMaps
<1>5. ASSUME NEW c \in CPU, UserStep(c) \/ MapCall(c) \/ EnvCall(c) PROVE TLBFresh'
  BY <1>5, TlbUserStep, TlbMapCall, TlbEnvCall
<1>6. CASE UNCHANGED vars
  BY <1>6, TlbStays DEF vars
<1>7. QED
  BY <1>2, <1>3, <1>4, <1>5, <1>6 DEF Next, SysCall

(* tlb_invalidate(), env_run(): user code reaches through a cached         *)
(* translation only what its page table maps now, when no parent changes   *)
(* the map of a child that runs.                                           *)
THEOREM TLBIsFresh ==
  ASSUME CountsFit, Habits = {}
  PROVE  Spec => []TLBFresh
<1>1. Polite
  BY DEF Polite
<1>2. Init => MemInv /\ TLBFresh
  <2>1. Init => TLBFresh
    BY DEF Init, TLBFresh
  <2>2. QED
    BY <2>1, MemInvInit
<1>3. (MemInv /\ TLBFresh) /\ [Next]_vars => (MemInv /\ TLBFresh)'
  BY <1>1, MemInvNext, TlbNext
<1>4. QED
  BY <1>2, <1>3, PTL DEF Spec
-----------------------------------------------------------------------------
(* user_mem_check().  Facts on multiples of the page size.                 *)
LEMMA DivBounds ==
  ASSUME NEW a \in Nat, NEW P \in Nat \ {0}
  PROVE  /\ a \div P \in Nat /\ (a \div P) * P <= a /\ a < (a \div P) * P + P
         /\ a % P = a - (a \div P) * P
OBVIOUS

LEMMA LessMultiple ==
  ASSUME NEW a \in Nat, NEW b \in Nat, NEW P \in Nat \ {0}, a * P < b * P
  PROVE  a < b /\ a * P + P <= b * P
OBVIOUS

LEMMA DivUnique ==
  ASSUME NEW a \in Nat, NEW k \in Nat, NEW P \in Nat \ {0}, k * P <= a, a < k * P + P
  PROVE  a \div P = k /\ (a = k * P => a % P = 0)
<1>1. a \div P = k
  OBVIOUS
<1>2. a % P = a - k * P
  BY <1>1, DivBounds
<1>3. QED
  BY <1>1, <1>2

LEMMA ModBelow ==
  ASSUME NEW a \in Nat, NEW n \in Nat \ {0}, a < n
  PROVE  a % n = a
OBVIOUS

(* The bounds of the address space are multiples of the page size.         *)
LEMMA SpaceMultiples ==
  /\ PGSIZE \in Nat \ {0}
  /\ \E n \in Nat \ {0} : Space = n * PGSIZE
  /\ \E n \in Nat : ULIM = n * PGSIZE
  /\ Space \in Nat \ {0} /\ ULIM \in Nat
<1>1. (NPD + 2) * NPT \in Nat \ {0} /\ (NPD + 1) * NPT \in Nat /\ PGSIZE \in Nat \ {0}
  BY SizeAssumption
<1>2. Space = ((NPD + 2) * NPT) * PGSIZE /\ ULIM = ((NPD + 1) * NPT) * PGSIZE
  BY SizeAssumption DEF Space, ULIM
<1>3. \A n \in Nat, p \in Nat : n * p \in Nat
  OBVIOUS
<1>4. \A n \in Nat \ {0}, p \in Nat \ {0} : n * p # 0
  OBVIOUS
<1>5. QED
  BY <1>1, <1>2, <1>3, <1>4

(* The end of the range the loop goes through, for a range that ends below *)
(* the last page: the next multiple of the page size.                      *)
LEMMA RoundUpEnd ==
  ASSUME NEW end \in Nat, end <= Space - PGSIZE
  PROVE  \E m \in Nat : /\ ROUNDUP(end % Space) = m * PGSIZE
                        /\ end <= m * PGSIZE /\ m * PGSIZE < end + PGSIZE
<1>1. PGSIZE \in Nat \ {0} /\ Space \in Nat \ {0}
  BY SpaceMultiples
<1>2. end % Space = end
  BY <1>1
<1> DEFINE m == (end + PGSIZE - 1) \div PGSIZE
<1>3. /\ m \in Nat /\ m * PGSIZE <= end + PGSIZE - 1
      /\ end + PGSIZE - 1 < m * PGSIZE + PGSIZE
  <2>1. end + PGSIZE - 1 \in Nat
    BY <1>1
  <2>2. QED
    BY <1>1, <2>1, DivBounds
<1> HIDE DEF m
<1>4. m * PGSIZE \in Nat
  BY <1>1, <1>3
<1>5. (m * PGSIZE) % Space = m * PGSIZE
  <2> DEFINE x == m * PGSIZE
  <2>1. x \in Nat /\ x <= end + PGSIZE - 1
    BY <1>3, <1>4
  <2> HIDE DEF x
  <2>2. x < Space
    BY <1>1, <2>1
  <2>3. x % Space = x
    BY <1>1, <2>1, <2>2, ModBelow
  <2>4. QED
    BY <2>3 DEF x
<1>6. ROUNDUP(end % Space) = m * PGSIZE
  BY <1>2, <1>5 DEF ROUNDUP, m
<1>7. QED
  BY <1>1, <1>3, <1>4, <1>6

(* Two addresses of a page are allowed or not together.                    *)
LEMMA SamePageAllows ==
  ASSUME NEW a \in Nat, NEW p \in Nat, a \div PGSIZE = p \div PGSIZE,
         NEW m, NEW e, NEW perm
  PROVE  Allows(m, e, p, perm) => Allows(m, e, a, perm)
<1>1. PGSIZE \in Nat \ {0} /\ \E n \in Nat : ULIM = n * PGSIZE
  BY SpaceMultiples
<1>2. PageOf(a) = PageOf(p)
  BY DEF PageOf
<1>3. p < ULIM => a < ULIM
  <2>1. PICK n \in Nat : ULIM = n * PGSIZE
    BY <1>1
  <2> DEFINE k == p \div PGSIZE
  <2>2. /\ k \in Nat /\ k * PGSIZE <= p /\ p < k * PGSIZE + PGSIZE
        /\ k * PGSIZE <= a /\ a < k * PGSIZE + PGSIZE
    BY <1>1, DivBounds
  <2> HIDE DEF k
  <2>3. k * PGSIZE \in Nat
    BY <1>1, <2>2
  <2>4. ASSUME p < ULIM PROVE a < ULIM
    <3>1. k * PGSIZE < n * PGSIZE
      BY <1>1, <2>1, <2>2, <2>3, <2>4
    <3>2. k * PGSIZE + PGSIZE <= n * PGSIZE
      BY <1>1, <2>2, <3>1, LessMultiple
    <3>3. QED
      BY <1>1, <2>1, <2>2, <2>3, <3>2
  <2>5. QED
    BY <2>4
<1>4. QED
  BY <1>2, <1>3 DEF Allows

(* The addresses user_mem_check() looks at are in the range, and for each  *)
(* address of the range there is one in the same page.                     *)
LEMMA CheckedCovers ==
  ASSUME NEW va \in Nat, NEW len \in Nat \ {0}, va + len <= Space - PGSIZE
  PROVE  /\ Checked[va][len] \subseteq va .. va + len - 1
         /\ \A a \in va .. va + len - 1 :
              \E p \in Checked[va][len] : p \in Nat /\ a \div PGSIZE = p \div PGSIZE
<1>1. PGSIZE \in Nat \ {0} /\ Space \in Nat \ {0}
  BY SpaceMultiples
<1>2. PICK m \in Nat : /\ ROUNDUP((va + len) % Space) = m * PGSIZE
                       /\ va + len <= m * PGSIZE /\ m * PGSIZE < va + len + PGSIZE
  <2>1. va + len \in Nat
    OBVIOUS
  <2>2. QED
    BY <2>1, RoundUpEnd
<1>3. m * PGSIZE \in Nat
  BY <1>1
<1>4. Checked[va][len] = {p \in va .. m * PGSIZE - 1 : p = va \/ p % PGSIZE = 0}
  BY <1>1, <1>2 DEF Checked, Addr
<1>5. ASSUME NEW p \in Checked[va][len] PROVE p \in va .. va + len - 1
  <2>1. p \in Nat /\ va <= p /\ p < m * PGSIZE /\ (p = va \/ p % PGSIZE = 0)
    BY <1>3, <1>4, <1>5
  <2>2. CASE p % PGSIZE = 0
    <3> DEFINE k == p \div PGSIZE
    <3>1. k \in Nat /\ p = k * PGSIZE
      <4>1. k \in Nat /\ p % PGSIZE = p - k * PGSIZE
        BY <1>1, <2>1, DivBounds
      <4> HIDE DEF k
      <4>2. k * PGSIZE \in Nat
        BY <1>1, <4>1
      <4>3. QED
        BY <2>1, <2>2, <4>1, <4>2
    <3> HIDE DEF k
    <3>2. k * PGSIZE + PGSIZE <= m * PGSIZE
      BY <1>1, <2>1, <3>1, LessMultiple
    <3>3. QED
      BY <1>1, <1>2, <1>3, <2>1, <3>1, <3>2
  <2>3. QED
    BY <2>1, <2>2
<1>6. ASSUME NEW a \in va .. va + len - 1
      PROVE  \E p \in Checked[va][len] : p \in Nat /\ a \div PGSIZE = p \div PGSIZE
  <2> DEFINE k == a \div PGSIZE
  <2>1. a \in Nat /\ va <= a /\ a < va + len
    OBVIOUS
  <2>2. k \in Nat /\ k * PGSIZE <= a /\ a < k * PGSIZE + PGSIZE
    BY <1>1, <2>1, DivBounds
  <2> HIDE DEF k
  <2>3. k * PGSIZE \in Nat
    BY <1>1, <2>2
  <2>4. CASE k * PGSIZE >= va
    <3>1. (k * PGSIZE) \div PGSIZE = k /\ (k * PGSIZE) % PGSIZE = 0
      BY <1>1, <2>2, <2>3, DivUnique
    <3>2. k * PGSIZE \in Checked[va][len]
      <4> DEFINE x == k * PGSIZE
                 end == m * PGSIZE
      <4>1. x \in Nat /\ end \in Nat /\ va <= x /\ x <= a /\ va + len <= end
        BY <1>1, <1>2, <1>3, <2>1, <2>2, <2>3, <2>4
      <4>2. /\ x % PGSIZE = 0
            /\ Checked[va][len] = {p \in va .. end - 1 : p = va \/ p % PGSIZE = 0}
        BY <1>4, <3>1
      <4> HIDE DEF x, end
      <4>3. x \in Checked[va][len]
        BY <2>1, <4>1, <4>2
      <4>4. QED
        BY <4>3 DEF x
    <3>3. QED
      BY <2>3, <3>1, <3>2 DEF k
  <2>5. CASE k * PGSIZE < va
    <3>1. va \div PGSIZE = k
      BY <1>1, <2>1, <2>2, <2>3, <2>5, DivUnique
    <3>2. va \in Checked[va][len]
      BY <1>2, <1>3, <1>4
    <3>3. QED
      BY <3>1, <3>2 DEF k
  <2>6. QED
    BY <2>3, <2>4, <2>5
<1>7. QED
  BY <1>5, <1>6

(* user_mem_check(): the pages it looks at tell of every byte of the range,*)
(* for any table: no byte passes unchecked, and none is refused that the   *)
(* program may use.                                                        *)
THEOREM UserMemCheckExact == UserMemCheckRight
<1> SUFFICES ASSUME NEW e, NEW perm,
                    NEW va \in 0 .. Space - PGSIZE, NEW len \in 1 .. Space - PGSIZE - va
             PROVE  UserMemCheck(mem, e, va, len, perm)
                      <=> va .. va + len - 1 \subseteq {a \in Addr : Allows(mem, e, a, perm)}
  BY DEF UserMemCheckRight
<1>1. PGSIZE \in Nat \ {0} /\ Space \in Nat \ {0}
  BY SpaceMultiples
<1>2. va \in Nat /\ len \in Nat \ {0} /\ va + len <= Space - PGSIZE
  BY <1>1
<1>3. /\ Checked[va][len] \subseteq va .. va + len - 1
      /\ \A a \in va .. va + len - 1 :
           \E p \in Checked[va][len] : p \in Nat /\ a \div PGSIZE = p \div PGSIZE
  BY <1>2, CheckedCovers
<1>4. va .. va + len - 1 \subseteq Addr
  BY <1>1, <1>2 DEF Addr
<1>5. ASSUME UserMemCheck(mem, e, va, len, perm), NEW a \in va .. va + len - 1
      PROVE  Allows(mem, e, a, perm)
  <2>1. PICK p \in Checked[va][len] : p \in Nat /\ a \div PGSIZE = p \div PGSIZE
    BY <1>3
  <2>2. Allows(mem, e, p, perm)
    BY <1>5 DEF UserMemCheck
  <2>3. a \in Nat
    BY <1>2
  <2>4. QED
    BY <2>1, <2>2, <2>3, SamePageAllows
<1>6. ASSUME \A a \in va .. va + len - 1 : Allows(mem, e, a, perm)
      PROVE  UserMemCheck(mem, e, va, len, perm)
  BY <1>3, <1>6 DEF UserMemCheck
<1>7. QED
  BY <1>4, <1>5, <1>6

(* The invariant the runs check.                                           *)
THEOREM UserMemCheckCorrect == Spec => []UserMemCheckRight
BY UserMemCheckExact, PTL
=============================================================================
