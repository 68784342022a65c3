---------------------------- MODULE RoundTripProofs ----------------------------
(***************************************************************************)
(* Proofs about RoundTrip: what an archive that may have been left by a    *)
(* killed process stands for, what its lists of strings say of it, what    *)
(* the loads that follow make of the reference counts and of the pointers, *)
(* and that all of it is a store that is written once.                     *)
(***************************************************************************)
EXTENDS RoundTrip, MoveInProofs

-----------------------------------------------------------------------------
(* The dump *)

LEMMA DumpInvariant == Spec => []DumpOK
<1>1. Init => DumpOK
  BY DumpInit DEF Init
<1>2. DumpOK /\ [Next]_vars => DumpOK'
  <2> SUFFICES ASSUME DumpOK, [Next]_vars PROVE DumpOK'
    OBVIOUS
  <2>1. CASE Dump /\ env' = env
    BY <2>1, DumpStep DEF Dump
  <2>2. CASE UNCHANGED <<env, dumpVars>>
    BY <2>2, DumpStays
  <2>3. \/ Dump /\ env' = env
        \/ UNCHANGED <<env, dumpVars>>
    BY DEF Next, Load, vars
  <2> QED
    BY <2>1, <2>2, <2>3
<1> QED
  BY <1>1, <1>2, PTL DEF Spec

\* The dump's invariant of values, beside the one of its steps.
LEMMA ValueInvariant == Spec => [](DumpOK /\ ValuesOK)
<1>1. Init => DumpOK /\ ValuesOK
  BY DumpInit, ValuesInit DEF Init
<1>2. DumpOK /\ ValuesOK /\ [Next]_vars => DumpOK' /\ ValuesOK'
  <2> SUFFICES ASSUME DumpOK, ValuesOK, [Next]_vars PROVE DumpOK' /\ ValuesOK'
    OBVIOUS
  <2>1. MoveOK /\ Pointers
    BY DEF DumpOK, StringsOK
  <2>2. CASE Dump /\ env' = env
    BY <2>1, <2>2, DumpStep, ValuesStep DEF Dump
  <2>3. CASE UNCHANGED <<env, dumpVars>>
    BY <2>1, <2>3, DumpStays, ValuesStay
  <2>4. \/ Dump /\ env' = env
        \/ UNCHANGED <<env, dumpVars>>
    BY DEF Next, Load, vars
  <2> QED
    BY <2>2, <2>3, <2>4
<1> QED
  BY <1>1, <1>2, PTL DEF Spec

\* PublishedIsComplete: whenever the process dies, the file's root is NULL or
\* stands for the whole object that was moved in.
THEOREM PublishedArchiveIsComplete == Spec => []PublishedIsComplete
<1>1. DumpOK /\ ValuesOK => PublishedIsComplete
  BY DEF ValuesOK, Published, PublishedIsComplete
<1> QED
  BY <1>1, ValueInvariant, PTL

\* SourceKeepsValue: _move_in replaces items of the caller's containers by
\* interned strings, and the object that was moved in stands for what it did.
THEOREM SourceIsKept == Spec => SourceKeepsValue
<1>1. DumpOK /\ ValuesOK /\ [Next]_vars => [SourceValue' = SourceValue]_vars
  <2> SUFFICES ASSUME DumpOK, ValuesOK, [Next]_vars PROVE SourceValue' = SourceValue
    OBVIOUS
  <2>1. MoveOK /\ Pointers
    BY DEF DumpOK, StringsOK
  <2>2. CASE Dump /\ env' = env
    BY <2>1, <2>2, ValuesStep DEF Dump
  <2>3. CASE UNCHANGED <<env, dumpVars>>
    BY <2>1, <2>3, ValuesStay
  <2>4. \/ Dump /\ env' = env
        \/ UNCHANGED <<env, dumpVars>>
    BY DEF Next, Load, vars
  <2> QED
    BY <2>2, <2>3, <2>4
<1> QED
  BY <1>1, ValueInvariant, PTL DEF Spec, SourceKeepsValue

\* StringRefsSound: at any moment, also in the file of a killed dump, a
\* recorded slot holds the string it is recorded for.
THEOREM RecordedSlotsHoldTheString == Spec => []StringRefsSound
<1>1. DumpOK => StringRefsSound
  <2> SUFFICES ASSUME DumpOK, NEW l \in ToSet(Lists), NEW s \in ToSet(l.refs)
               PROVE  GetSlot(archive, s) = l.str
    BY DEF StringRefsSound
  <2>1. archive \in Archives /\ Lists \in Seq(RefLists)
    BY ArchiveIs DEF DumpOK, MoveOK, ArchiveOK, Lists
  <2>2. PICK j \in 1..Len(Lists) : l = Lists[j]
    BY <2>1 DEF ToSet
  <2>3. l.refs \in Seq(Nat \X Nat)
    BY <2>1, <2>2, ArchiveIs DEF Lists
  <2>4. PICK i \in 1..Len(l.refs) : s = l.refs[i]
    <3> DEFINE q == l.refs
    <3>1. DOMAIN q = 1..Len(q)
      BY <2>3, LenProperties
    <3>2. s \in ToSet(q)
      OBVIOUS
    <3> HIDE DEF q
    <3>3. \E i \in 1..Len(q) : s = q[i]
      BY <3>1, <3>2 DEF ToSet
    <3> QED
      BY <3>3 DEF q
  <2> QED
    BY <2>2, <2>4 DEF DumpOK, StringsOK, RefsSound
<1> QED
  BY <1>1, DumpInvariant, PTL

\* OneCopyPerString: equal strings of the source share one copy, whether they
\* are interned or not, unless a table cannot record it; and no string is copied
\* whose value the interpreter has a static string for.
THEOREM EqualStringsShareTheirCopy == Spec => []OneCopyPerString
<1>1. ASSUME DumpOK, ~ TableMayFail, NEW a \in HeapStrings, NEW b \in HeapStrings,
             archive.heap[a].val = archive.heap[b].val
      PROVE  a = b
  <2> DEFINE v == archive.heap[a].val
  <2>1. orig_map[interned[v]] = a
    BY <1>1 DEF DumpOK, StringsOK, OneCopy
  <2>2. orig_map[interned[v]] = b
    BY <1>1 DEF DumpOK, StringsOK, OneCopy
  <2> QED
    BY <2>1, <2>2
<1>2. ValuesOK /\ Py312 => \A a \in HeapStrings : archive.heap[a].val \notin StaticStrs
  BY DEF ValuesOK, Copied, NotStatic
<1>3. DumpOK /\ ValuesOK => OneCopyPerString
  BY <1>1, <1>2 DEF OneCopyPerString
<1> QED
  BY <1>3, ValueInvariant, PTL

\* The elements of a sequence without duplicates are as many as it is long.
LEMMA DistinctElements ==
    ASSUME NEW S, NEW q \in Seq(S),
           \A i, k \in 1..Len(q) : q[i] = q[k] => i = k
    PROVE  IsFiniteSet(ToSet(q)) /\ Cardinality(ToSet(q)) = Len(q)
<1> DEFINE n == Len(q)
<1>1. n \in Nat /\ q \in [1..n -> S]
  BY LenProperties
<1>2. ToSet(q) = {q[i] : i \in 1..n}
  BY <1>1 DEF ToSet
<1>3. IsFiniteSet(1..n) /\ Cardinality(1..n) = n
  BY <1>1, FS_Interval
<1>4. q \in Bijection(1..n, ToSet(q))
  BY <1>1, <1>2 DEF Bijection, Injection, Surjection, IsInjective
<1>5. ExistsBijection(1..n, ToSet(q))
  BY <1>4 DEF ExistsBijection
<1> QED
  BY <1>1, <1>3, <1>5, FS_Bijection

\* StringRefsExact: when _move_in has returned every copied string has one list,
\* with each slot that refers to it, once.
THEOREM ListsAreExact == Spec => []StringRefsExact
<1>1. DumpOK => StringRefsExact
  <2> SUFFICES ASSUME DumpOK, dumper = "returned", ~ TableMayFail PROVE
                   /\ {l.str : l \in ToSet(Lists)} = HeapStrings
                   /\ \A j \in 1..Len(Lists) :
                         /\ \A k \in 1..Len(Lists) : Lists[j].str = Lists[k].str => j = k
                         /\ ToSet(Lists[j].refs) = StringSlots(Lists[j].str)
                         /\ Cardinality(ToSet(Lists[j].refs)) = Len(Lists[j].refs)
    BY DEF StringRefsExact
  <2>1. archive \in Archives /\ Lists \in Seq(RefLists) /\ Len(Lists) \in Nat
    BY ArchiveIs DEF DumpOK, MoveOK, ArchiveOK, Lists
  <2>2. \A a : ~ Pending(a)
    BY DEF DumpOK, MoveOK, StackOK, Pending
  <2>3. ToSet(Lists) = {Lists[j] : j \in 1..Len(Lists)}
    BY <2>1 DEF ToSet
  <2>4. {l.str : l \in ToSet(Lists)} = HeapStrings
    <3>1. \A j \in 1..Len(Lists) : Lists[j].str \in HeapStrings
      BY DEF DumpOK, MoveOK, ArchiveOK
    <3>2. \A a \in HeapStrings : \E j \in 1..Len(Lists) : Lists[j].str = a
      BY <2>2 DEF DumpOK, StringsOK, Recorded, Listed
    <3> QED
      BY <2>3, <3>1, <3>2
  <2>5. ASSUME NEW j \in 1..Len(Lists), NEW k \in 1..Len(Lists), Lists[j].str = Lists[k].str
        PROVE  j = k
    <3>1. str_map[Lists[j].str] = j /\ str_map[Lists[k].str] = k
      BY DEF DumpOK, StringsOK, OneList
    <3> QED
      BY <2>5, <3>1
  <2>6. ASSUME NEW j \in 1..Len(Lists)
        PROVE  /\ ToSet(Lists[j].refs) = StringSlots(Lists[j].str)
               /\ Cardinality(ToSet(Lists[j].refs)) = Len(Lists[j].refs)
    <3> DEFINE refs == Lists[j].refs
               a == Lists[j].str
    <3>1. refs \in Seq(Nat \X Nat) /\ Len(refs) \in Nat
      BY <2>1, ArchiveIs DEF Lists
    <3>2. ToSet(refs) = {refs[i] : i \in 1..Len(refs)}
      BY <3>1 DEF ToSet
    <3>3. \A i \in 1..Len(refs) : refs[i] \in Slots(archive) /\ GetSlot(archive, refs[i]) = a
      BY DEF DumpOK, MoveOK, ArchiveOK, StringsOK, RefsSound
    <3>4. a \in HeapStrings
      BY DEF DumpOK, MoveOK, ArchiveOK
    <3>5. ASSUME NEW s \in Slots(archive), GetSlot(archive, s) = a
          PROVE  \E i \in 1..Len(refs) : refs[i] = s
      <4>1. RecordedFor(s, a)
        BY <2>2, <3>4, <3>5 DEF DumpOK, StringsOK, Recorded
      <4>2. PICK k \in 1..Len(Lists) :
                Lists[k].str = a /\ \E i \in 1..Len(Lists[k].refs) : Lists[k].refs[i] = s
        BY <4>1 DEF RecordedFor
      <4>3. k = j
        BY <2>5, <4>2
      <4> QED
        BY <4>2, <4>3
    <3>6. ToSet(refs) = StringSlots(a)
      BY <3>2, <3>3, <3>5 DEF StringSlots
    <3>7. \A i, k \in 1..Len(refs) : refs[i] = refs[k] => i = k
      BY DEF DumpOK, StringsOK, OneRef
    <3> QED
      BY <3>1, <3>6, <3>7, DistinctElements
  <2> QED
    BY <2>4, <2>5, <2>6
<1> QED
  BY <1>1, DumpInvariant, PTL

-----------------------------------------------------------------------------
(* The memory that a load writes to. *)

\* What a load leaves of its mapping as it was.
MemKept(m, w) ==
    /\ w \in Archives /\ w.all_string_ref = m.all_string_ref
    /\ Len(w.heap) = Len(m.heap) /\ Slots(w) = Slots(m)
    /\ \A a \in Addresses(m) : w.heap[a].val = m.heap[a].val

SameFlags(m, w) == \A a \in Addresses(m) : w.heap[a].interned = m.heap[a].interned

\* The loader works on the same memory as the dumper, in the same environment.
LEMMA SameMemory ==
    /\ L!NULL = NULL /\ L!Root = Root /\ (L!Py312 <=> Py312) /\ L!PyMinor = PyMinor
    /\ \A m, s : L!GetSlot(m, s) = GetSlot(m, s)
    /\ \A m, s, p : L!SetSlot(m, s, p) = SetSlot(m, s, p)
    /\ \A m, p : L!InHeap(m, p) <=> InHeap(m, p)
    /\ \A m, p, n : L!Counted(m, p, n) = Counted(m, p, n)
    /\ \A b : L!EmptyArchive(b) = EmptyArchive(b)
<1>1. /\ L!NULL = NULL /\ L!Root = Root /\ (L!Py312 <=> Py312) /\ L!PyMinor = PyMinor
      /\ \A m, p : L!InHeap(m, p) <=> InHeap(m, p)
      /\ \A b : L!EmptyArchive(b) = EmptyArchive(b)
  BY DEF L!NULL, NULL, L!Root, Root, L!Py312, Py312, L!PyMinor, PyMinor, L!InHeap, InHeap,
         L!EmptyArchive, EmptyArchive
<1>2. \A m, s : L!GetSlot(m, s) = GetSlot(m, s)
  BY <1>1 DEF L!GetSlot, GetSlot
<1>3. \A m, s, p : L!SetSlot(m, s, p) = SetSlot(m, s, p)
  BY <1>1 DEF L!SetSlot, SetSlot
<1>4. \A m, p, n : L!Counted(m, p, n) = Counted(m, p, n)
  BY <1>1 DEF L!Counted, Counted
<1> QED
  BY <1>1, <1>2, <1>3, <1>4

LEMMA SetSlotKeeps ==
    ASSUME NEW m \in Archives, NEW s \in Slots(m), NEW p \in Int
    PROVE  LET w == SetSlot(m, s, p) IN
           MemKept(m, w) /\ SameFlags(m, w) /\ SameCounts(m, w)
<1> DEFINE w == SetSlot(m, s, p)
<1>1. /\ w \in Archives /\ SameObjects(m, w) /\ SameCounts(m, w)
      /\ w.all_string_ref = m.all_string_ref
  BY SetSlotIs
<1> HIDE DEF w
<1>2. Slots(w) = Slots(m)
  BY <1>1, SlotsKept
<1>3. MemKept(m, w) /\ SameFlags(m, w)
  BY <1>1, <1>2 DEF MemKept, SameFlags, SameObjects, SameKind
<1> QED
  BY <1>1, <1>3 DEF w

LEMMA CountedKeeps ==
    ASSUME NEW m \in Archives, NEW p \in Int, NEW n \in Int
    PROVE  LET w == Counted(m, p, n) IN
           /\ MemKept(m, w) /\ SameFlags(m, w)
           /\ \A a \in Addresses(m) :
                 w.heap[a].rc = IF a = p /\ ~ Py312 THEN m.heap[a].rc + n
                                ELSE m.heap[a].rc
<1> DEFINE w == Counted(m, p, n)
<1>1. /\ w \in Archives /\ SameObjects(m, w) /\ w.all_string_ref = m.all_string_ref
      /\ \A a \in Addresses(m) :
            w.heap[a].rc = IF a = p /\ ~ Py312 THEN m.heap[a].rc + n ELSE m.heap[a].rc
  BY CountedIs
<1> HIDE DEF w
<1>2. Slots(w) = Slots(m)
  BY <1>1, SlotsKept
<1>3. MemKept(m, w) /\ SameFlags(m, w)
  BY <1>1, <1>2 DEF MemKept, SameFlags, SameObjects, SameKind
<1> QED
  BY <1>1, <1>3 DEF w

LEMMA SlotsSame ==
    ASSUME NEW m, NEW w, Addresses(w) = Addresses(m),
           \A a \in Addresses(m) : w.heap[a].slots = m.heap[a].slots
    PROVE  Slots(w) = Slots(m)
<1>1. \A a \in Addresses(m) : Len(w.heap[a].slots) = Len(m.heap[a].slots)
  OBVIOUS
<1> QED
  BY <1>1, SlotsByLength

\* An object gets another head.
LEMMA ObjectReplaced ==
    ASSUME NEW m \in Archives, NEW a \in Addresses(m), NEW q \in HeapObjects,
           q.slots = m.heap[a].slots, q.val = m.heap[a].val, q.rc = m.heap[a].rc
    PROVE  LET w == [m EXCEPT !.heap[a] = q] IN
           /\ MemKept(m, w) /\ SameCounts(m, w)
           /\ \A b \in Addresses(m) : w.heap[b] = IF b = a THEN q ELSE m.heap[b]
<1> DEFINE h == [m.heap EXCEPT ![a] = q]
           w == [m EXCEPT !.heap[a] = q]
<1>1. m.heap \in Seq(HeapObjects) /\ a \in 1..Len(m.heap)
  BY ArchiveIs DEF Addresses
<1>2. /\ h \in Seq(HeapObjects) /\ Len(h) = Len(m.heap)
      /\ \A b \in Addresses(m) : h[b] = IF b = a THEN q ELSE m.heap[b]
  BY <1>1, ExceptSeq DEF Addresses
<1>3. w = [m EXCEPT !.heap = h]
  OBVIOUS
<1> HIDE DEF h, w
<1>4. /\ w \in Archives /\ w.all_string_ref = m.all_string_ref /\ w.heap = h
  BY <1>2, <1>3 DEF Archives
<1>5. Addresses(w) = Addresses(m) /\ \A b \in Addresses(m) : w.heap[b].slots = m.heap[b].slots
  BY <1>2, <1>4 DEF Addresses
<1>6. Slots(w) = Slots(m)
  BY <1>5, SlotsSame
<1>7. MemKept(m, w) /\ SameCounts(m, w)
  BY <1>2, <1>4, <1>6 DEF MemKept, SameCounts
<1> QED
  BY <1>2, <1>4, <1>7 DEF w

\* Recorded slots are redirected to p.
LEMMA RedirectedKeeps ==
    ASSUME NEW m \in Archives, NEW refs, NEW p \in Int
    PROVE  LET w == L!Redirected(m, refs, p) IN
           MemKept(m, w) /\ SameFlags(m, w) /\ SameCounts(m, w)
<1> DEFINE now(s, old) == IF s \in ToSet(refs) THEN p ELSE old
           slots(a) == [i \in DOMAIN m.heap[a].slots |-> now(<<a, i>>, m.heap[a].slots[i])]
           h == [a \in DOMAIN m.heap |-> [m.heap[a] EXCEPT !.slots = slots(a)]]
           w == L!Redirected(m, refs, p)
<1>1. w = [[m EXCEPT !.obj = now(Root, m.obj)] EXCEPT !.heap = h]
  BY SameMemory DEF L!Redirected, L!ToSet, ToSet
<1>2. /\ m.heap \in Seq(HeapObjects) /\ DOMAIN m.heap = 1..Len(m.heap)
      /\ Len(m.heap) \in Nat /\ m.obj \in Int
  BY ArchiveIs, LenProperties
<1>3. ASSUME NEW a \in Addresses(m)
      PROVE  /\ h[a] \in HeapObjects /\ h[a].val = m.heap[a].val /\ h[a].rc = m.heap[a].rc
             /\ (h[a].interned <=> m.heap[a].interned)
             /\ Len(h[a].slots) = Len(m.heap[a].slots)
  <2> DEFINE o == m.heap[a]
             n == Len(o.slots)
             sl == slots(a)
  <2>1. o \in HeapObjects /\ o.slots \in Seq(Int) /\ n \in Nat
    BY ArchiveIs
  <2>2. DOMAIN o.slots = 1..n /\ o.slots \in [1..n -> Int]
    BY <2>1, LenProperties
  <2>3. sl \in [1..n -> Int]
    BY <2>2
  <2> HIDE DEF sl, n
  <2>4. sl \in Seq(Int) /\ Len(sl) = n
    BY <2>1, <2>3
  <2>5. h[a] = [o EXCEPT !.slots = sl]
    BY <1>2 DEF sl, Addresses
  <2> HIDE DEF o, h, slots
  <2>6. h[a] \in HeapObjects /\ h[a].slots = sl /\ h[a].val = o.val /\ h[a].rc = o.rc
    BY <2>1, <2>4, <2>5 DEF HeapObjects
  <2>7. h[a].interned <=> o.interned
    BY <2>1, <2>4, <2>5 DEF HeapObjects
  <2> QED
    BY <2>4, <2>6, <2>7 DEF o, n
<1>4. h \in [1..Len(m.heap) -> HeapObjects]
  <2>1. \A a \in 1..Len(m.heap) : h[a] \in HeapObjects
    BY <1>3 DEF Addresses
  <2> QED
    BY <1>2, <2>1
<1> HIDE DEF h
<1>5. h \in Seq(HeapObjects) /\ Len(h) = Len(m.heap)
  BY <1>2, <1>4
<1>6. /\ w \in Archives /\ w.all_string_ref = m.all_string_ref /\ w.heap = h
  <2> DEFINE r == now(Root, m.obj)
             v == [m EXCEPT !.obj = r]
  <2>1. r \in Int
    BY <1>2
  <2> HIDE DEF r
  <2>2. v \in Archives /\ v.all_string_ref = m.all_string_ref
    BY <2>1 DEF Archives
  <2>3. w = [v EXCEPT !.heap = h]
    BY <1>1 DEF r
  <2> HIDE DEF v, w
  <2> QED
    BY <1>5, <2>2, <2>3 DEF Archives
<1> HIDE DEF w
<1>7. Addresses(w) = Addresses(m)
  BY <1>5, <1>6 DEF Addresses
<1>8. \A a \in Addresses(m) : Len(w.heap[a].slots) = Len(m.heap[a].slots)
  BY <1>3, <1>6
<1>9. Slots(w) = Slots(m)
  BY <1>7, <1>8, SlotsByLength
<1>10. MemKept(m, w) /\ SameCounts(m, w)
  BY <1>3, <1>5, <1>6, <1>9 DEF MemKept, SameCounts
<1>11. SameFlags(m, w)
  <2>1. w \in Archives
    BY <1>6
  <2>2. \A a \in Addresses(m) : /\ w.heap[a] \in HeapObjects /\ m.heap[a] \in HeapObjects
                                /\ (w.heap[a].interned <=> m.heap[a].interned)
    BY <1>3, <1>6, ArchiveIs
  <2>3. \A a \in Addresses(m) : w.heap[a].interned \in BOOLEAN /\ m.heap[a].interned \in BOOLEAN
    BY <2>2 DEF HeapObjects
  <2> QED
    BY <2>2, <2>3 DEF SameFlags
<1> QED
  BY <1>10, <1>11 DEF w

-----------------------------------------------------------------------------
(* The invariant of a load: its memory is the archive's but for slots,      *)
(* types, flags and counts, and has the references that the lists that are  *)
(* still to be looked at may take away.                                     *)

Before(a, c) == {j \in 1..c : Lists[j].str = a}

MemOK ==
    /\ mem \in Archives /\ mem.all_string_ref = Lists
    /\ Addresses(mem) = Addresses(archive)
    /\ \A a \in Addresses(archive) :
           /\ mem.heap[a].val = archive.heap[a].val
           /\ mem.heap[a].interned => a \in HeapStrings
    /\ base \in Nat /\ cursor \in 0..Len(Lists)
    /\ canon \in [DOMAIN canon -> Int] /\ DOMAIN interned \subseteq DOMAIN canon
    /\ todo \in Seq(Slots(mem))

\* A string that the loader interned keeps the table's two references; the
\* others give away one for each slot of a list, or one for the list.
StringCount(a, rc, flag, canonical, c) ==
    flag /\ ~ Py312 =>
        IF canonical = a THEN rc >= 2 * Cardinality(Before(a, c)) + 2
        ELSE /\ rc >= 2 * Cardinality(Before(a, c))
             /\ \A j \in Before(a, c) : rc >= RefCount(j) + 1

MemCounts ==
    \A a \in Addresses(archive) : \A o \in {mem.heap[a]} :
        o.rc >= 1 /\ StringCount(a, o.rc, o.interned, canon[o.val], cursor)

LoadOK ==
    /\ \A own \in InternTables : DOMAIN interned \subseteq DOMAIN own
    /\ IF loader = "absent" THEN mem = EmptyArchive(0)
       ELSE MemOK /\ MemCounts /\ dumper # "running"

\* What a load does not write to.
LEMMA ArchiveStands ==
    ASSUME UNCHANGED <<env, dumpVars>>
    PROVE  /\ UNCHANGED <<env, archive, interned, dumper, Lists, HeapStrings, Py312>>
           /\ \A a, c : Before(a, c)' = Before(a, c)
           /\ \A j : RefCount(j)' = RefCount(j)
           /\ \A a, rc, flag, canonical, c :
                 StringCount(a, rc, flag, canonical, c)'
                 <=> StringCount(a, rc, flag, canonical, c)
<1>1. UNCHANGED <<env, archive, interned, dumper>>
  BY DEF dumpVars
<1>2. UNCHANGED <<Lists, HeapStrings, Py312>>
  BY <1>1 DEF Lists, HeapStrings, Py312, PyMinor
<1>3. \A a, c : Before(a, c)' = Before(a, c)
  BY <1>2 DEF Before
<1>4. \A j : RefCount(j)' = RefCount(j)
  BY <1>2 DEF RefCount
<1>5. \A a, rc, flag, canonical, c :
          StringCount(a, rc, flag, canonical, c)' <=> StringCount(a, rc, flag, canonical, c)
  BY <1>2, <1>3, <1>4 DEF StringCount
<1> QED
  BY <1>1, <1>2, <1>3, <1>4, <1>5

LEMMA MemStays ==
    ASSUME DumpOK, MemOK, MemCounts, UNCHANGED <<env, dumpVars, base, canon, cursor>>,
           MemKept(mem, mem'), SameFlags(mem, mem'), SameCounts(mem, mem'),
           todo' \in Seq(Slots(mem))
    PROVE  MemOK' /\ MemCounts'
<1>1. /\ UNCHANGED <<archive, interned, Lists, HeapStrings>>
      /\ \A a, rc, flag, canonical, c :
            StringCount(a, rc, flag, canonical, c)' <=> StringCount(a, rc, flag, canonical, c)
  BY ArchiveStands
<1>2. Addresses(mem') = Addresses(mem) /\ Addresses(mem) = Addresses(archive)
  BY DEF MemKept, Addresses, MemOK
<1>3. ASSUME NEW a \in Addresses(archive)
      PROVE  /\ mem'.heap[a].val = mem.heap[a].val /\ mem'.heap[a].rc = mem.heap[a].rc
             /\ mem'.heap[a].interned = mem.heap[a].interned
  BY <1>2 DEF MemKept, SameFlags, SameCounts
<1>4. MemOK'
  BY <1>1, <1>2, <1>3 DEF MemOK, MemKept
<1>5. MemCounts'
  <2> SUFFICES ASSUME NEW a \in Addresses(archive)
               PROVE  /\ mem'.heap[a].rc >= 1
                      /\ StringCount(a, mem'.heap[a].rc, mem'.heap[a].interned,
                                     canon[mem'.heap[a].val], cursor)
    BY <1>1, <1>2 DEF MemCounts
  <2> QED
    BY <1>3 DEF MemCounts
<1> QED
  BY <1>4, <1>5

\* A new process maps the file.
LEMMA MapOK ==
    ASSUME DumpOK, LoadOK, UNCHANGED <<env, dumpVars>>, dumper # "running", L!Map
    PROVE  LoadOK'
<1>1. PICK b \in LoadBases, own \in InternTables, statics \in SUBSET ListedStrs :
          /\ base' = b /\ canon' = L!InternTable(b, own, statics) /\ mem' = archive
          /\ cursor' = Len(archive.all_string_ref)
          /\ todo' \in {<<>>, <<L!Root>>} /\ loader' # "absent"
  BY DEF L!Map
<1>2. /\ UNCHANGED <<archive, interned, dumper, Lists, HeapStrings>>
      /\ \A a, rc, flag, canonical, c :
            StringCount(a, rc, flag, canonical, c)' <=> StringCount(a, rc, flag, canonical, c)
  BY ArchiveStands
<1>3. ArchiveOK /\ archive \in Archives /\ Len(Lists) \in Nat /\ CountsOK
  BY ArchiveIs DEF DumpOK, MoveOK, ArchiveOK, Lists
<1>4. b \in Nat /\ HeapCells < b /\ HeapCells \in Nat
  BY <1>3, LoadBasesAssumption, EnvironmentsAssumption DEF HeapCells, ArchiveOK
<1>5. /\ DOMAIN own \subseteq 0..(Span - 1) /\ own \in [DOMAIN own -> BOOLEAN]
      /\ DOMAIN interned \subseteq DOMAIN own
  BY <1>1, InternTablesAssumption DEF LoadOK
<1>6. /\ canon' \in [DOMAIN canon' -> Int] /\ DOMAIN canon' = DOMAIN own
      /\ \A v \in DOMAIN own : canon'[v] = NULL \/ canon'[v] >= b
  <2>1. canon' = [v \in DOMAIN own |-> IF L!Py312 /\ v \in IdStrs \cup statics THEN b + 8 + Span + v
                                       ELSE IF own[v] THEN b + 8 + 3 * Span + v ELSE NULL]
    BY <1>1, SameMemory DEF L!InternTable, L!StaticStr, L!ProcessStr
  <2>2. \A v \in DOMAIN own : /\ b + 8 + Span + v \in Int /\ b + 8 + 3 * Span + v \in Int
                              /\ b + 8 + Span + v >= b /\ b + 8 + 3 * Span + v >= b
    BY <1>4, <1>5, SpanAssumption
  <2>3. ASSUME NEW v \in DOMAIN own
        PROVE  canon'[v] \in Int /\ (canon'[v] = NULL \/ canon'[v] >= b)
    BY <2>1, <2>2 DEF NULL
  <2> QED
    BY <2>1, <2>3
<1>7. todo' \in Seq(Slots(mem'))
  <2>1. PICK S : S = Slots(mem')
    OBVIOUS
  <2>2. Root \in S
    BY <2>1, RootIn
  <2>3. <<>> \in Seq(S) /\ <<Root>> \in Seq(S)
    BY <2>2
  <2>4. todo' \in {<<>>, <<Root>>}
    BY <1>1, SameMemory
  <2> QED
    BY <2>1, <2>3, <2>4
<1>8. MemOK'
  <2>1. \A a \in Addresses(archive) : archive.heap[a].interned => a \in HeapStrings
    BY <1>3 DEF CountsOK
  <2>2. Len(Lists) \in 0..Len(Lists)
    BY <1>3
  <2> QED
    BY <1>1, <1>2, <1>3, <1>4, <1>5, <1>6, <1>7, <2>1, <2>2 DEF MemOK, Lists
<1>9. MemCounts'
  <2> SUFFICES ASSUME NEW a \in Addresses(archive), NEW o \in {archive.heap[a]}
               PROVE  o.rc >= 1 /\ StringCount(a, o.rc, o.interned, canon'[o.val], Len(Lists))
    BY <1>1, <1>2 DEF MemCounts, Lists
  <2>1. o.rc >= 1 /\ (o.interned => a \in HeapStrings)
    BY <1>3 DEF CountsOK
  <2>2. CASE o.interned /\ ~ Py312
    <3>1. a \in HeapStrings /\ o.val \in DOMAIN own
      BY <1>3, <1>5, <2>1, <2>2 DEF CountsOK
    <3>2. canon'[o.val] # a
      <4>1. a \in Nat /\ a # 0 /\ Len(archive.heap) \in Nat /\ a <= Len(archive.heap)
        BY <1>3, ArchiveIs DEF Addresses
      <4>2. Len(archive.heap) <= HeapCells
        <5>1. archive.used \in Nat
          BY <1>3, ArchiveIs
        <5> QED
          BY <1>3, <1>4, <4>1, <5>1 DEF ArchiveOK
      <4>3. canon'[o.val] \in Int /\ (canon'[o.val] = NULL \/ canon'[o.val] >= b)
        BY <1>6, <3>1
      <4> QED
        BY <1>4, <4>1, <4>2, <4>3 DEF NULL
    <3>3. Before(a, Len(Lists)) = ListsOf(a)
      BY DEF Before, ListsOf
    <3>4. o.rc >= 2 * Cardinality(ListsOf(a))
      <4>1. o.rc >= 2 * Cardinality(ListsOf(a)) + (IF Pending(a) /\ top.list = 0 THEN 1 ELSE 0)
        BY <1>3, <2>2, <3>1 DEF CountsOK
      <4>2. o.rc \in Int /\ Cardinality(ListsOf(a)) \in Nat
        BY <1>3, ArchiveIs, ListsOfFinite
      <4> QED
        BY <4>1, <4>2
    <3>5. ASSUME NEW j \in ListsOf(a) PROVE o.rc >= RefCount(j) + 1
      <4>1. j \in 1..Len(Lists) /\ a \in {Lists[j].str}
        BY DEF ListsOf
      <4>2. o.rc >= RefCount(j) + 1 + (IF Pending(a) THEN 1 ELSE 0)
        BY <1>3, <2>2, <4>1 DEF CountsOK
      <4>3. o.rc \in Int /\ RefCount(j) \in Nat
        BY <1>3, <4>1, ArchiveIs DEF RefCount, Lists
      <4> QED
        BY <4>2, <4>3
    <3> QED
      BY <2>1, <3>2, <3>3, <3>4, <3>5 DEF StringCount
  <2> QED
    BY <2>1, <2>2 DEF StringCount
<1> QED
  BY <1>1, <1>2, <1>8, <1>9 DEF LoadOK

\* The fields of an object, in either order.
LEMMA FieldsAreSlots ==
    ASSUME NEW a \in Addresses(mem), NEW ty, mem \in Archives
    PROVE  L!VisitedFields(a, ty) \in Seq(Slots(mem))
<1> DEFINE n == Len(mem.heap[a].slots)
           forward == [i \in 1..n |-> <<a, i>>]
           back == [i \in 1..Len(forward) |-> forward[(Len(forward) - i) + 1]]
<1>1. n \in Nat /\ \A i \in 1..n : <<a, i>> \in Slots(mem)
  BY ArchiveIs, SlotIn
<1>2. PICK S : S = Slots(mem)
  OBVIOUS
<1>3. L!VisitedFields(a, ty) = IF ty = "tuple" THEN back ELSE forward
  BY DEF L!VisitedFields, L!Fields, L!Reverse
<1> HIDE DEF n
<1>4. forward \in [1..n -> S]
  BY <1>1, <1>2
<1>5. forward \in Seq(S) /\ Len(forward) = n
  BY <1>1, <1>4
<1> HIDE DEF forward
<1>6. \A i \in 1..n : (n - i) + 1 \in 1..n
  BY <1>1
<1>7. back \in [1..n -> S]
  BY <1>4, <1>5, <1>6
<1>8. back \in Seq(S)
  BY <1>1, <1>7
<1> QED
  BY <1>2, <1>3, <1>5, <1>8

\* A step of the patch writes one slot or one type, or nothing.
LEMMA PatchKeeps ==
    ASSUME MemOK, L!Patch
    PROVE  /\ MemKept(mem, mem') /\ SameFlags(mem, mem') /\ SameCounts(mem, mem')
           /\ \/ SameSlots(mem, mem')
              \/ LET s == Head(todo)
                     p == GetSlot(mem, s)
                 IN  /\ s \in Slots(mem) /\ p # NULL /\ p \notin Addresses(mem)
                     /\ \A r \in Slots(mem) :
                           GetSlot(mem', r) = IF r = s THEN p + L!shift ELSE GetSlot(mem, r)
           /\ todo' \in Seq(Slots(mem))
<1>1. todo # <<>> /\ mem \in Archives
  BY DEF L!Patch, MemOK
<1> DEFINE s  == Head(todo)
           op == GetSlot(mem, s)
           type == mem.heap[op].type + L!shift
           ty == L!TypeOf(base, type)
           q == [mem.heap[op] EXCEPT !.type = type]
<1>2. PICK S : S = Slots(mem)
  OBVIOUS
<1>3. todo \in Seq(S) /\ s \in S /\ Tail(todo) \in Seq(S)
  BY <1>1, <1>2, HeadTailProperties DEF MemOK
<1>4. op \in Int /\ L!shift \in Int
  <2>1. mem.none_base \in Int /\ base \in Nat
    BY <1>1 DEF Archives, MemOK
  <2>2. op \in Int
    BY <1>1, <1>2, <1>3, SlotIs
  <2> QED
    BY <2>1, <2>2 DEF L!shift
<1>5. \/ mem' = mem /\ todo' = Tail(todo)
      \/ /\ op # NULL /\ op \notin Addresses(mem)
         /\ mem' = SetSlot(mem, s, op + L!shift) /\ todo' = Tail(todo)
      \/ /\ op \in Addresses(mem)
         /\ todo' \in {L!VisitedFields(op, ty) \o Tail(todo), Tail(todo)}
         /\ mem' \in {mem, [mem EXCEPT !.heap[op].type = type]}
  BY SameMemory DEF L!Patch, L!UNSHIFT, InHeap, Addresses
<1> HIDE DEF s
<1>6. CASE mem' = mem
  <2>1. MemKept(mem, mem') /\ SameFlags(mem, mem') /\ SameCounts(mem, mem')
    BY <1>1, <1>6 DEF MemKept, SameFlags, SameCounts
  <2>2. SameSlots(mem, mem')
    BY <1>6 DEF SameSlots
  <2>3. CASE todo' = Tail(todo)
    BY <1>2, <1>3, <2>1, <2>2, <2>3
  <2>4. CASE op \in Addresses(mem) /\ todo' = L!VisitedFields(op, ty) \o Tail(todo)
    <3> DEFINE fields == L!VisitedFields(op, ty)
    <3>1. fields \in Seq(S)
      BY <1>1, <1>2, <2>4, FieldsAreSlots
    <3> HIDE DEF fields
    <3>2. todo' \in Seq(S)
      BY <1>3, <2>4, <3>1, ConcatProperties DEF fields
    <3> QED
      BY <1>2, <2>1, <2>2, <3>2
  <2> QED
    BY <1>5, <1>3, <1>2, <2>1, <2>2, <2>3, <2>4
<1>7. CASE /\ op # NULL /\ op \notin Addresses(mem)
           /\ mem' = SetSlot(mem, s, op + L!shift) /\ todo' = Tail(todo)
  <2> DEFINE p == op + L!shift
  <2>1. p \in Int
    BY <1>4
  <2>2. s \in Slots(mem) /\ mem' = SetSlot(mem, s, p)
    BY <1>2, <1>3, <1>7
  <2> HIDE DEF p, op
  <2>3. MemKept(mem, mem') /\ SameFlags(mem, mem') /\ SameCounts(mem, mem')
    BY <1>1, <2>1, <2>2, SetSlotKeeps
  <2>4. \A r \in Slots(mem) : GetSlot(mem', r) = IF r = s THEN p ELSE GetSlot(mem, r)
    BY <1>1, <2>1, <2>2, SetSlotIs
  <2> QED
    BY <1>2, <1>3, <1>7, <2>2, <2>3, <2>4 DEF p, op, s
<1>8. CASE /\ op \in Addresses(mem) /\ mem' = [mem EXCEPT !.heap[op].type = type]
           /\ todo' \in {L!VisitedFields(op, ty) \o Tail(todo), Tail(todo)}
  <2>1. MemKept(mem, mem') /\ SameFlags(mem, mem') /\ SameCounts(mem, mem')
        /\ SameSlots(mem, mem')
    <3>1. mem.heap[op] \in HeapObjects /\ type \in Int
      BY <1>1, <1>4, <1>8, ArchiveIs
    <3>2. mem' = [mem EXCEPT !.heap[op] = q]
      BY <1>8
    <3> HIDE DEF op, type
    <3>3. /\ q \in HeapObjects /\ q.slots = mem.heap[op].slots /\ q.val = mem.heap[op].val
          /\ q.rc = mem.heap[op].rc /\ q.interned = mem.heap[op].interned
      BY <3>1 DEF HeapObjects
    <3> HIDE DEF q
    <3> DEFINE w == [mem EXCEPT !.heap[op] = q]
    <3>4. /\ MemKept(mem, w) /\ SameCounts(mem, w)
          /\ \A b \in Addresses(mem) : w.heap[b] = IF b = op THEN q ELSE mem.heap[b]
      BY <1>1, <1>8, <3>3, ObjectReplaced
    <3>5. SameSlots(mem, w)
      <4>1. w.obj = mem.obj
        BY <1>1 DEF Archives
      <4> HIDE DEF w
      <4>2. ASSUME NEW r \in Slots(mem) PROVE GetSlot(w, r) = GetSlot(mem, r)
        <5>1. r # Root => r[1] \in Addresses(mem)
          BY <1>1, SlotIs
        <5> QED
          BY <3>3, <3>4, <4>1, <5>1 DEF GetSlot
      <4> QED
        BY <4>2 DEF SameSlots
    <3>6. mem' = w
      BY <3>2
    <3> HIDE DEF w
    <3> QED
      BY <3>3, <3>4, <3>5, <3>6 DEF SameFlags
  <2>2. todo' \in Seq(S)
    <3> DEFINE fields == L!VisitedFields(op, ty)
    <3>1. fields \in Seq(S)
      BY <1>1, <1>2, <1>8, FieldsAreSlots
    <3> HIDE DEF fields
    <3>2. fields \o Tail(todo) \in Seq(S)
      BY <1>3, <3>1, ConcatProperties
    <3> QED
      BY <1>3, <1>8, <3>2 DEF fields
  <2> QED
    BY <1>2, <2>1, <2>2
<1> QED
  BY <1>5, <1>6, <1>7, <1>8

LEMMA PatchOK ==
    ASSUME DumpOK, LoadOK, UNCHANGED <<env, dumpVars>>, L!Patch
    PROVE  LoadOK'
<1>1. loader = "patching" /\ UNCHANGED <<base, canon, cursor, loader>>
  BY DEF L!Patch
<1>2. MemOK /\ MemCounts /\ dumper # "running"
  BY <1>1 DEF LoadOK
<1>3. /\ MemKept(mem, mem') /\ SameFlags(mem, mem') /\ SameCounts(mem, mem')
      /\ todo' \in Seq(Slots(mem))
  BY <1>2, PatchKeeps
<1>4. MemOK' /\ MemCounts'
  BY <1>1, <1>2, <1>3, MemStays
<1> QED
  BY <1>1, <1>2, <1>4, ArchiveStands DEF LoadOK

\* Steps that only move on.
LEMMA EndsOK ==
    ASSUME DumpOK, LoadOK, UNCHANGED <<env, dumpVars>>, L!PatchEnd \/ L!InternEnd
    PROVE  LoadOK'
<1>1. /\ loader \in {"patching", "interning"} /\ loader' # "absent"
      /\ UNCHANGED <<mem, base, canon, cursor>>
      /\ todo' \in {todo, <<>>}
  BY DEF L!PatchEnd, L!InternEnd
<1>2. MemOK /\ MemCounts /\ dumper # "running"
  BY <1>1 DEF LoadOK
<1>3. MemKept(mem, mem') /\ SameFlags(mem, mem') /\ SameCounts(mem, mem')
  BY <1>1, <1>2 DEF MemKept, SameFlags, SameCounts, MemOK
<1>4. todo' \in Seq(Slots(mem))
  <2>1. todo \in Seq(Slots(mem))
    BY <1>2 DEF MemOK
  <2>2. <<>> \in Seq(Slots(mem))
    BY EmptySeq
  <2> QED
    BY <1>1, <2>1, <2>2
<1>5. MemOK' /\ MemCounts'
  BY <1>1, <1>2, <1>3, <1>4, MemStays
<1> QED
  BY <1>1, <1>2, <1>5, ArchiveStands DEF LoadOK

LEMMA ExitOK ==
    ASSUME LoadOK, UNCHANGED <<env, dumpVars>>, L!Exit
    PROVE  LoadOK'
BY ArchiveStands, SameMemory DEF LoadOK, L!Exit

\* The list at the cursor is the newest of those to look at.
LEMMA BeforeIs ==
    ASSUME ArchiveOK, NEW a, NEW c \in 1..Len(Lists)
    PROVE  /\ IsFiniteSet(Before(a, c)) /\ Cardinality(Before(a, c)) \in Nat
           /\ Cardinality(Before(a, c - 1)) \in Nat
           /\ Before(a, c - 1) \subseteq Before(a, c)
           /\ Cardinality(Before(a, c - 1)) <= Cardinality(Before(a, c))
           /\ a = Lists[c].str =>
                 /\ c \in Before(a, c)
                 /\ Cardinality(Before(a, c)) = Cardinality(Before(a, c - 1)) + 1
<1>1. Len(Lists) \in Nat /\ c \in Nat /\ c - 1 \in Nat
  BY ArchiveIs DEF ArchiveOK, Lists
<1>2. IsFiniteSet(1..c)
  BY <1>1, FS_Interval
<1>3. IsFiniteSet(Before(a, c))
  BY <1>2, FS_Subset DEF Before
<1>4. 1..c = (1..(c - 1)) \cup {c} /\ c \notin 1..(c - 1)
  BY <1>1
<1>5. Before(a, c - 1) \subseteq Before(a, c)
  BY <1>4 DEF Before
<1>6. /\ IsFiniteSet(Before(a, c - 1)) /\ Cardinality(Before(a, c - 1)) \in Nat
      /\ Cardinality(Before(a, c)) \in Nat
      /\ Cardinality(Before(a, c - 1)) <= Cardinality(Before(a, c))
  BY <1>3, <1>5, FS_Subset, FS_CardinalityType
<1>7. ASSUME a = Lists[c].str
      PROVE  c \in Before(a, c) /\ Cardinality(Before(a, c)) = Cardinality(Before(a, c - 1)) + 1
  <2>1. Before(a, c) = Before(a, c - 1) \cup {c} /\ c \notin Before(a, c - 1)
    BY <1>4, <1>7 DEF Before
  <2> QED
    BY <1>6, <2>1, FS_AddElement
<1> QED
  BY <1>3, <1>5, <1>6, <1>7

\* More references, for fewer lists.
LEMMA CountSuffices ==
    ASSUME ArchiveOK, NEW a, NEW c \in 1..Len(Lists), NEW rc \in Int, NEW more \in Int,
           NEW flag, NEW p, StringCount(a, rc, flag, p, c), more >= rc
    PROVE  StringCount(a, more, flag, p, c - 1)
<1> SUFFICES ASSUME flag /\ ~ Py312
             PROVE  IF p = a THEN more >= 2 * Cardinality(Before(a, c - 1)) + 2
                    ELSE /\ more >= 2 * Cardinality(Before(a, c - 1))
                         /\ \A j \in Before(a, c - 1) : more >= RefCount(j) + 1
  BY DEF StringCount
<1>1. /\ Cardinality(Before(a, c)) \in Nat /\ Cardinality(Before(a, c - 1)) \in Nat
      /\ Cardinality(Before(a, c - 1)) <= Cardinality(Before(a, c))
      /\ Before(a, c - 1) \subseteq Before(a, c)
  BY BeforeIs
<1>2. CASE p = a
  <2>1. rc >= 2 * Cardinality(Before(a, c)) + 2
    BY <1>2 DEF StringCount
  <2> QED
    BY <1>1, <1>2, <2>1
<1>3. CASE p # a
  <2>1. rc >= 2 * Cardinality(Before(a, c)) /\ \A j \in Before(a, c) : rc >= RefCount(j) + 1
    BY <1>3 DEF StringCount
  <2>2. \A j \in Before(a, c) : RefCount(j) \in Nat
    <3>1. Len(Lists) \in Nat /\ c \in Nat
      BY ArchiveIs DEF ArchiveOK, Lists
    <3>2. \A j \in Before(a, c) : j \in 1..Len(Lists)
      BY <3>1 DEF Before
    <3> QED
      BY <3>2, ArchiveIs DEF ArchiveOK, RefCount, Lists
  <2>3. \A j \in Before(a, c - 1) : more >= RefCount(j) + 1
    BY <1>1, <2>1, <2>2
  <2> QED
    BY <1>1, <1>3, <2>1, <2>3
<1> QED
  BY <1>2, <1>3

LEMMA KeptTwice ==
    ASSUME NEW m, NEW w, NEW x, MemKept(m, w), MemKept(w, x)
    PROVE  MemKept(m, x)
BY DEF MemKept, Addresses

\* The flag of a string is cleared before it is interned, or given up.
LEMMA OpenedKeeps ==
    ASSUME NEW m \in Archives, NEW b \in Addresses(m)
    PROVE  LET w == [m EXCEPT !.heap[b].interned = FALSE] IN
           /\ MemKept(m, w) /\ SameCounts(m, w)
           /\ \A a \in Addresses(m) :
                 /\ w.heap[a].interned => m.heap[a].interned
                 /\ a = b => ~ w.heap[a].interned
                 /\ a # b => w.heap[a].interned = m.heap[a].interned
<1> DEFINE q == [m.heap[b] EXCEPT !.interned = FALSE]
           w == [m EXCEPT !.heap[b] = q]
<1>1. m.heap[b] \in HeapObjects
  BY ArchiveIs
<1>2. /\ q \in HeapObjects /\ q.slots = m.heap[b].slots /\ q.val = m.heap[b].val
      /\ q.rc = m.heap[b].rc /\ ~ q.interned
  BY <1>1 DEF HeapObjects
<1>3. w = [m EXCEPT !.heap[b].interned = FALSE]
  OBVIOUS
<1> HIDE DEF q
<1>4. /\ MemKept(m, w) /\ SameCounts(m, w)
      /\ \A a \in Addresses(m) : w.heap[a] = IF a = b THEN q ELSE m.heap[a]
  BY <1>2, ObjectReplaced
<1> HIDE DEF w
<1>5. \A a \in Addresses(m) : /\ w.heap[a].interned => m.heap[a].interned
                              /\ a = b => ~ w.heap[a].interned
                              /\ a # b => w.heap[a].interned = m.heap[a].interned
  BY <1>2, <1>4
<1> QED
  BY <1>3, <1>4, <1>5

LEMMA InternEnough ==
    ASSUME DumpOK, MemOK, UNCHANGED <<env, dumpVars, base, todo>>,
           cursor \in 1..Len(Lists), cursor' = cursor - 1, MemKept(mem, mem'),
           canon' \in [DOMAIN canon -> Int],
           \A a \in Addresses(archive) :
               /\ mem'.heap[a].interned => mem.heap[a].interned
               /\ mem'.heap[a].rc >= 1
               /\ StringCount(a, mem'.heap[a].rc, mem'.heap[a].interned,
                              canon'[mem.heap[a].val], cursor - 1)
    PROVE  MemOK' /\ MemCounts'
<1>1. /\ UNCHANGED <<archive, interned, Lists, HeapStrings>>
      /\ \A a, rc, flag, canonical, c :
            StringCount(a, rc, flag, canonical, c)' <=> StringCount(a, rc, flag, canonical, c)
  BY ArchiveStands
<1>2. Addresses(mem') = Addresses(mem) /\ Addresses(mem) = Addresses(archive)
  BY DEF MemKept, Addresses, MemOK
<1>3. \A a \in Addresses(archive) : mem'.heap[a].val = mem.heap[a].val
  BY <1>2 DEF MemKept
<1>4. cursor - 1 \in 0..Len(Lists)
  BY ArchiveIs DEF DumpOK, MoveOK, ArchiveOK, Lists
<1>5. MemOK'
  BY <1>1, <1>2, <1>3, <1>4 DEF MemOK, MemKept
<1>6. MemCounts'
  <2> SUFFICES ASSUME NEW a \in Addresses(archive)
               PROVE  /\ mem'.heap[a].rc >= 1
                      /\ StringCount(a, mem'.heap[a].rc, mem'.heap[a].interned,
                                     canon'[mem'.heap[a].val], cursor - 1)
    BY <1>1, <1>2 DEF MemCounts
  <2> QED
    BY <1>3
<1> QED
  BY <1>5, <1>6

LEMMA InternOK ==
    ASSUME DumpOK, LoadOK, UNCHANGED <<env, dumpVars>>, L!InternString
    PROVE  LoadOK'
<1>1. /\ loader = "interning" /\ cursor > 0 /\ cursor' = cursor - 1
      /\ UNCHANGED <<base, todo, loader>>
  BY DEF L!InternString, L!NextList
<1>2. /\ MemOK /\ MemCounts /\ dumper # "running" /\ mem \in Archives
      /\ archive \in Archives /\ ArchiveOK /\ CountsOK
  BY <1>1 DEF LoadOK, MemOK, DumpOK, MoveOK, ArchiveOK
<1>3. Len(Lists) \in Nat /\ cursor \in 1..Len(Lists)
  BY <1>1, <1>2, ArchiveIs DEF Lists, MemOK
<1> DEFINE list == Lists[cursor]
           b == list.str
           str == mem.heap[b]
           p == canon[str.val]
           n == L!Moved(Len(list.refs))
           open == [mem EXCEPT !.heap[b].interned = FALSE]
<1>4. mem.all_string_ref[cursor] = list
  BY <1>2 DEF MemOK
<1>5. /\ b \in HeapStrings /\ b \in Addresses(archive) /\ Addresses(mem) = Addresses(archive)
      /\ b # NULL /\ b \in Nat
  BY <1>2, <1>3, HeapStringIs DEF ArchiveOK, MemOK
<1>6. str.val \in DOMAIN canon /\ p \in Int /\ canon \in [DOMAIN canon -> Int]
  BY <1>2, <1>5 DEF MemOK, CountsOK
<1>7. n \in Nat /\ (PyMinor < 11 => n = RefCount(cursor)) /\ (~ PyMinor < 11 => n = 1)
  <2>1. Len(list.refs) \in Nat /\ RefCount(cursor) = Len(list.refs)
    BY <1>2, <1>3, ArchiveIs DEF Lists, RefCount
  <2> QED
    BY <2>1, SameMemory DEF L!Moved
<1>8. /\ Cardinality(Before(b, cursor)) \in Nat /\ Cardinality(Before(b, cursor - 1)) \in Nat
      /\ cursor \in Before(b, cursor)
      /\ Cardinality(Before(b, cursor)) = Cardinality(Before(b, cursor - 1)) + 1
  BY <1>2, <1>3, BeforeIs
<1>9. ASSUME NEW a \in Addresses(archive)
      PROVE  /\ mem.heap[a].rc \in Int /\ mem.heap[a].rc >= 1
             /\ StringCount(a, mem.heap[a].rc, mem.heap[a].interned,
                            canon[mem.heap[a].val], cursor)
  BY <1>2, <1>5, ArchiveIs DEF MemCounts
<1>10. ASSUME NEW a \in Addresses(archive), NEW rc \in Int, rc >= mem.heap[a].rc
       PROVE  StringCount(a, rc, mem.heap[a].interned, canon[mem.heap[a].val], cursor - 1)
  BY <1>2, <1>3, <1>9, <1>10, CountSuffices
<1>11. \A a \in Addresses(archive) : \A rc, canonical, flag :
           ~ flag => StringCount(a, rc, flag, canonical, cursor - 1)
  BY DEF StringCount
<1>12. /\ MemKept(mem, open) /\ SameCounts(mem, open) /\ open \in Archives
       /\ \A a \in Addresses(archive) : /\ open.heap[a].interned => mem.heap[a].interned
                                        /\ a = b => ~ open.heap[a].interned
  <2>1. mem \in Archives /\ b \in Addresses(mem)
    BY <1>2, <1>5
  <2>2. /\ MemKept(mem, open) /\ SameCounts(mem, open)
        /\ \A a \in Addresses(mem) : /\ open.heap[a].interned => mem.heap[a].interned
                                     /\ a = b => ~ open.heap[a].interned
    BY <2>1, OpenedKeeps
  <2> HIDE DEF open
  <2> QED
    BY <1>5, <2>2 DEF MemKept
<1> HIDE DEF open, n
<1>13. \/ ~ str.interned /\ mem' = mem /\ canon' = canon
       \/ str.interned /\ mem' = open /\ canon' = canon
       \/ /\ str.interned /\ p \in {NULL, b} /\ canon' = [canon EXCEPT ![str.val] = b]
          /\ mem' = IF p = NULL THEN mem ELSE Counted(mem, p, -2)
       \/ /\ str.interned /\ p \notin {NULL, b} /\ canon' = canon
          /\ mem' = L!Redirected(Counted(Counted(open, b, -n), p, n), list.refs, p)
  BY <1>4, SameMemory DEF L!InternString, open, n
<1> HIDE DEF str, b, p, list
\* The string was not interned in the archive, or gives up its flag.
<1>14. ASSUME \/ mem' = mem
              \/ mem' = open,
              canon' = canon
       PROVE  MemOK' /\ MemCounts'
  <2>1. MemKept(mem, mem')
    BY <1>2, <1>12, <1>14 DEF MemKept
  <2>2. ASSUME NEW a \in Addresses(archive)
        PROVE  /\ mem'.heap[a].interned => mem.heap[a].interned
               /\ mem'.heap[a].rc = mem.heap[a].rc
    BY <1>5, <1>12, <1>14 DEF SameCounts
  <2>3. ASSUME NEW a \in Addresses(archive)
        PROVE  StringCount(a, mem'.heap[a].rc, mem'.heap[a].interned,
                           canon'[mem.heap[a].val], cursor - 1)
    <3>1. CASE mem'.heap[a].interned
      <4>1. StringCount(a, mem.heap[a].rc, mem.heap[a].interned,
                        canon[mem.heap[a].val], cursor - 1)
        BY <1>9, <1>10
      <4>2. StringCount(a, mem.heap[a].rc, mem'.heap[a].interned,
                        canon[mem.heap[a].val], cursor - 1)
        BY <2>2, <3>1, <4>1 DEF StringCount
      <4> QED
        BY <1>14, <2>2, <4>2
    <3>2. CASE ~ mem'.heap[a].interned
      BY <1>11, <3>2
    <3> QED
      BY <3>1, <3>2
  <2> QED
    BY <1>1, <1>2, <1>3, <1>6, <1>9, <1>14, <2>1, <2>2, <2>3, InternEnough
\* The string becomes the interned one, or was it.
<1>15. ASSUME p \in {NULL, b}, canon' = [canon EXCEPT ![str.val] = b], str.interned,
              mem' = IF p = NULL THEN mem ELSE Counted(mem, p, -2)
       PROVE  MemOK' /\ MemCounts'
  <2>1. /\ MemKept(mem, mem') /\ SameFlags(mem, mem')
        /\ \A a \in Addresses(mem) :
               mem'.heap[a].rc = IF p = b /\ a = b /\ ~ Py312 THEN mem.heap[a].rc - 2
                                 ELSE mem.heap[a].rc
    <3>1. CASE p = NULL
      BY <1>2, <1>5, <1>15, <3>1 DEF MemKept, SameFlags
    <3>2. CASE p # NULL
      <4>1. p = b /\ mem' = Counted(mem, p, -2) /\ -2 \in Int
        BY <1>15, <3>2
      <4>2. /\ MemKept(mem, mem') /\ SameFlags(mem, mem')
            /\ \A a \in Addresses(mem) :
                  mem'.heap[a].rc = IF a = p /\ ~ Py312 THEN mem.heap[a].rc + (-2)
                                    ELSE mem.heap[a].rc
        BY <1>2, <1>6, <4>1, CountedKeeps
      <4>3. \A a \in Addresses(mem) : mem.heap[a].rc \in Int
        BY <1>5, <1>9
      <4> QED
        BY <4>1, <4>2, <4>3
    <3> QED
      BY <3>1, <3>2
  <2>2. canon' \in [DOMAIN canon -> Int] /\ canon'[str.val] = b
        /\ \A v \in DOMAIN canon : v # str.val => canon'[v] = canon[v]
    BY <1>5, <1>6, <1>15
  <2>3. ASSUME NEW a \in Addresses(archive), a # b
        PROVE  /\ mem'.heap[a].interned => mem.heap[a].interned
               /\ mem'.heap[a].rc >= 1
               /\ StringCount(a, mem'.heap[a].rc, mem'.heap[a].interned,
                              canon'[mem.heap[a].val], cursor - 1)
    <3>1. /\ mem'.heap[a].interned = mem.heap[a].interned
          /\ mem'.heap[a].rc = mem.heap[a].rc
      BY <1>5, <2>1, <2>3 DEF SameFlags
    <3>2. StringCount(a, mem.heap[a].rc, mem.heap[a].interned, canon[mem.heap[a].val],
                      cursor - 1)
      BY <1>9, <1>10
    <3>3. CASE mem.heap[a].interned
      <4>1. mem.heap[a].val \in DOMAIN canon
        BY <1>2, <3>3 DEF MemOK, CountsOK
      <4>2. canon'[mem.heap[a].val] = canon[mem.heap[a].val]
            \/ (canon'[mem.heap[a].val] # a /\ canon[mem.heap[a].val] # a)
        <5>1. CASE mem.heap[a].val = str.val
          <6>1. a # NULL
            BY <1>2, ArchiveIs DEF NULL
          <6> QED
            BY <1>15, <2>2, <2>3, <5>1, <6>1 DEF p
        <5>2. CASE mem.heap[a].val # str.val
          BY <2>2, <4>1, <5>2
        <5> QED
          BY <5>1, <5>2
      <4>3. StringCount(a, mem.heap[a].rc, mem.heap[a].interned, canon'[mem.heap[a].val],
                        cursor - 1)
        BY <3>2, <4>2 DEF StringCount
      <4> QED
        BY <1>9, <3>1, <4>3
    <3>4. CASE ~ mem.heap[a].interned
      BY <1>9, <1>11, <3>1, <3>4
    <3> QED
      BY <3>3, <3>4
  <2>4. /\ mem'.heap[b].interned => mem.heap[b].interned
        /\ mem'.heap[b].rc >= 1
        /\ StringCount(b, mem'.heap[b].rc, mem'.heap[b].interned,
                       canon'[mem.heap[b].val], cursor - 1)
    <3>1. /\ mem'.heap[b].interned = mem.heap[b].interned
          /\ mem'.heap[b].rc = IF p = b /\ ~ Py312 THEN mem.heap[b].rc - 2
                               ELSE mem.heap[b].rc
      BY <1>5, <2>1 DEF SameFlags
    <3>2. /\ mem.heap[b].rc \in Int /\ mem.heap[b].rc >= 1
          /\ StringCount(b, mem.heap[b].rc, mem.heap[b].interned, p, cursor)
          /\ mem.heap[b].interned /\ canon'[mem.heap[b].val] = b
      BY <1>5, <1>9, <1>15, <2>2 DEF p, str
    <3>3. CASE Py312
      BY <3>1, <3>2, <3>3 DEF StringCount
    <3>4. CASE ~ Py312 /\ p = b
      <4>1. mem.heap[b].rc >= 2 * Cardinality(Before(b, cursor)) + 2
        BY <3>2, <3>4 DEF StringCount
      <4>2. mem'.heap[b].rc >= 2 * Cardinality(Before(b, cursor - 1)) + 2
        BY <1>8, <3>1, <3>2, <3>4, <4>1
      <4> QED
        BY <1>8, <3>1, <3>2, <3>4, <4>2 DEF StringCount
    <3>5. CASE ~ Py312 /\ p # b
      <4>1. mem.heap[b].rc >= 2 * Cardinality(Before(b, cursor))
        BY <3>2, <3>5 DEF StringCount
      <4>2. mem'.heap[b].rc >= 2 * Cardinality(Before(b, cursor - 1)) + 2
        BY <1>8, <3>1, <3>2, <3>5, <4>1
      <4> QED
        BY <1>8, <3>1, <3>2, <3>5, <4>2 DEF StringCount
    <3> QED
      BY <3>3, <3>4, <3>5
  <2> QED
    BY <1>1, <1>2, <1>3, <2>1, <2>2, <2>3, <2>4, InternEnough
\* Another string takes its place.
<1>16. ASSUME p \notin {NULL, b}, canon' = canon, str.interned,
              mem' = L!Redirected(Counted(Counted(open, b, -n), p, n), list.refs, p)
       PROVE  MemOK' /\ MemCounts'
  <2> DEFINE less == Counted(open, b, -n)
             more == Counted(less, p, n)
  <2>1. /\ MemKept(open, less) /\ SameFlags(open, less) /\ less \in Archives
        /\ \A a \in Addresses(open) :
              less.heap[a].rc = IF a = b /\ ~ Py312 THEN open.heap[a].rc + (-n)
                                ELSE open.heap[a].rc
    <3> DEFINE k == -n
    <3>1. b \in Int /\ k \in Int /\ open \in Archives
      BY <1>5, <1>7, <1>12 DEF MemKept
    <3>2. less = Counted(open, b, k)
      OBVIOUS
    <3> HIDE DEF k, less
    <3>3. /\ MemKept(open, less) /\ SameFlags(open, less)
          /\ \A a \in Addresses(open) :
                less.heap[a].rc = IF a = b /\ ~ Py312 THEN open.heap[a].rc + k
                                  ELSE open.heap[a].rc
      BY <3>1, <3>2, CountedKeeps
    <3>4. less \in Archives
      BY <3>3 DEF MemKept
    <3> QED
      BY <3>3, <3>4 DEF k
  <2> HIDE DEF less
  <2>2. /\ MemKept(less, more) /\ SameFlags(less, more) /\ more \in Archives
        /\ \A a \in Addresses(less) :
              more.heap[a].rc = IF a = p /\ ~ Py312 THEN less.heap[a].rc + n
                                ELSE less.heap[a].rc
    <3>1. p \in Int /\ n \in Int /\ less \in Archives
      BY <1>6, <1>7, <2>1
    <3>2. more = Counted(less, p, n)
      OBVIOUS
    <3> HIDE DEF more
    <3>3. /\ MemKept(less, more) /\ SameFlags(less, more)
          /\ \A a \in Addresses(less) :
                more.heap[a].rc = IF a = p /\ ~ Py312 THEN less.heap[a].rc + n
                                  ELSE less.heap[a].rc
      BY <3>1, <3>2, CountedKeeps
    <3>4. more \in Archives
      BY <3>3 DEF MemKept
    <3> QED
      BY <3>3, <3>4 DEF more
  <2>3. mem' = L!Redirected(more, list.refs, p)
    BY <1>16 DEF less
  <2> HIDE DEF more
  <2>4. MemKept(more, mem') /\ SameFlags(more, mem') /\ SameCounts(more, mem')
    BY <1>6, <2>2, <2>3, RedirectedKeeps
  <2>5. MemKept(mem, mem')
    BY <1>12, <2>1, <2>2, <2>4, KeptTwice
  <2>6. /\ Addresses(open) = Addresses(archive) /\ Addresses(less) = Addresses(archive)
        /\ Addresses(more) = Addresses(archive)
    BY <1>5, <1>12, <2>1, <2>2 DEF MemKept, Addresses
  <2>7. ASSUME NEW a \in Addresses(archive)
        PROVE  /\ mem'.heap[a].interned = open.heap[a].interned
               /\ mem'.heap[a].rc = IF a = p /\ ~ Py312 THEN less.heap[a].rc + n
                                    ELSE less.heap[a].rc
               /\ less.heap[a].rc = IF a = b /\ ~ Py312 THEN mem.heap[a].rc + (-n)
                                    ELSE mem.heap[a].rc
    <3>1. open.heap[a].rc = mem.heap[a].rc
      BY <1>5, <1>12 DEF SameCounts
    <3>2. mem'.heap[a].rc = more.heap[a].rc
      BY <2>4, <2>6 DEF SameCounts
    <3>3. /\ mem'.heap[a].interned = more.heap[a].interned
          /\ more.heap[a].interned = less.heap[a].interned
          /\ less.heap[a].interned = open.heap[a].interned
      BY <2>1, <2>2, <2>4, <2>6 DEF SameFlags
    <3> QED
      BY <2>1, <2>2, <2>6, <3>1, <3>2, <3>3
  <2>8. ASSUME NEW a \in Addresses(archive), a # b
        PROVE  /\ mem'.heap[a].interned => mem.heap[a].interned
               /\ mem'.heap[a].rc >= 1
               /\ StringCount(a, mem'.heap[a].rc, mem'.heap[a].interned,
                              canon'[mem.heap[a].val], cursor - 1)
    <3>1. /\ mem'.heap[a].interned => mem.heap[a].interned
          /\ mem'.heap[a].rc \in Int /\ mem'.heap[a].rc >= mem.heap[a].rc
      BY <1>7, <1>9, <1>12, <2>7, <2>8
    <3>2. StringCount(a, mem'.heap[a].rc, mem.heap[a].interned, canon[mem.heap[a].val],
                      cursor - 1)
      BY <1>10, <3>1
    <3>3. StringCount(a, mem'.heap[a].rc, mem'.heap[a].interned, canon[mem.heap[a].val],
                      cursor - 1)
      BY <3>1, <3>2 DEF StringCount
    <3> QED
      BY <1>9, <1>16, <3>1, <3>3
  <2>9. /\ mem'.heap[b].interned => mem.heap[b].interned
        /\ mem'.heap[b].rc >= 1
        /\ StringCount(b, mem'.heap[b].rc, mem'.heap[b].interned,
                       canon'[mem.heap[b].val], cursor - 1)
    <3>1. /\ ~ mem'.heap[b].interned
          /\ mem'.heap[b].rc = IF Py312 THEN mem.heap[b].rc ELSE mem.heap[b].rc - n
      BY <1>5, <1>7, <1>9, <1>12, <1>16, <2>7
    <3>2. /\ mem.heap[b].rc \in Int /\ mem.heap[b].rc >= 1 /\ mem.heap[b].interned
          /\ StringCount(b, mem.heap[b].rc, mem.heap[b].interned, p, cursor)
      BY <1>5, <1>9, <1>16 DEF p, str
    <3>3. CASE ~ Py312
      <4>1. /\ mem.heap[b].rc >= 2 * Cardinality(Before(b, cursor))
            /\ \A j \in Before(b, cursor) : mem.heap[b].rc >= RefCount(j) + 1
        BY <1>16, <3>2, <3>3 DEF StringCount
      <4>2. mem.heap[b].rc >= n + 1
        BY <1>7, <1>8, <3>2, <4>1
      <4> QED
        BY <1>7, <1>11, <3>1, <3>2, <3>3, <4>2, <1>5
    <3>4. CASE Py312
      BY <1>5, <1>11, <3>1, <3>2, <3>4
    <3> QED
      BY <3>3, <3>4
  <2> QED
    BY <1>1, <1>2, <1>3, <1>6, <1>16, <2>5, <2>8, <2>9, InternEnough
<1>17. MemOK' /\ MemCounts'
  BY <1>13, <1>14, <1>15, <1>16
<1> QED
  BY <1>1, <1>2, <1>17, ArchiveStands DEF LoadOK

-----------------------------------------------------------------------------
(* The whole invariant, and the counts *)

\* Only a process that is dumping writes the archive.
LEMMA RunningDumps ==
    ASSUME NextDump
    PROVE  dumper = "running"
<1>1. ASSUME Running PROVE dumper = "running"
  BY <1>1 DEF Running
<1>2. CASE MoveReference
  BY <1>1, <1>2 DEF MoveReference, Entering
<1>3. CASE MoveAtom
  BY <1>1, <1>3 DEF MoveAtom, Entering
<1>4. CASE MoveUnsupported
  BY <1>1, <1>4 DEF MoveUnsupported, Entering
<1>5. CASE Unwind
  BY <1>1, <1>5 DEF Unwind
<1>6. CASE MoveString
  BY <1>1, <1>6 DEF MoveString, Entering
<1>7. CASE ListString
  BY <1>1, <1>7 DEF ListString
<1>8. CASE RecordString
  BY <1>1, <1>8 DEF RecordString
<1>9. CASE MoveContainer
  BY <1>1, <1>9 DEF MoveContainer, Entering
<1>10. CASE MoveItem
  BY <1>1, <1>10 DEF MoveItem, Filling
<1>11. CASE PublishContainer
  BY <1>1, <1>11 DEF PublishContainer, Filling
<1>12. CASE Return \/ Kill
  BY <1>12 DEF Return, Kill
<1> QED
  BY <1>2, <1>3, <1>4, <1>5, <1>6, <1>7, <1>8, <1>9, <1>10, <1>11, <1>12 DEF NextDump, Move

\* A dump has no loader beside it, and its intern table keeps its strings.
LEMMA DumpBeforeLoad ==
    ASSUME DumpOK, LoadOK, Dump, env' = env
    PROVE  LoadOK'
<1>1. NextDump /\ UNCHANGED <<mem, loader>>
  BY DEF Dump, loadVars
<1>2. dumper = "running"
  BY <1>1, RunningDumps
<1>3. loader = "absent" /\ mem = EmptyArchive(0)
  BY <1>2 DEF LoadOK
<1>4. SourceGrows
  BY <1>1, MoveStep DEF DumpOK, Quiet, StringMoved, StringListed, SlotRecorded
<1>5. EmptyArchive(0)' = EmptyArchive(0)
  BY DEF EmptyArchive, NULL
<1> QED
  BY <1>1, <1>3, <1>4, <1>5 DEF LoadOK, SourceGrows

LEMMA LoadStays ==
    ASSUME DumpOK, LoadOK, UNCHANGED <<env, dumpVars>>, UNCHANGED loadVars
    PROVE  LoadOK'
<1>1. UNCHANGED <<mem, base, canon, cursor, todo, loader>>
  BY DEF loadVars
<1>2. CASE loader = "absent"
  BY <1>1, <1>2, ArchiveStands DEF LoadOK, EmptyArchive, NULL
<1>3. CASE loader # "absent"
  <2>1. MemOK /\ MemCounts /\ dumper # "running"
    BY <1>3 DEF LoadOK
  <2>2. MemKept(mem, mem') /\ SameFlags(mem, mem') /\ SameCounts(mem, mem')
    BY <1>1, <2>1 DEF MemKept, SameFlags, SameCounts, MemOK
  <2>3. todo' \in Seq(Slots(mem))
    BY <1>1, <2>1 DEF MemOK
  <2>4. MemOK' /\ MemCounts'
    BY <1>1, <2>1, <2>2, <2>3, MemStays
  <2> QED
    BY <1>1, <1>3, <2>1, <2>4, ArchiveStands DEF LoadOK
<1> QED
  BY <1>2, <1>3

LEMMA LoadInvariant == Spec => [](DumpOK /\ LoadOK)
<1>1. Init => DumpOK /\ LoadOK
  <2> SUFFICES ASSUME Init PROVE DumpOK /\ LoadOK
    OBVIOUS
  <2>1. DumpOK
    BY DumpInit DEF Init
  <2>2. \A own \in InternTables : DOMAIN interned \subseteq DOMAIN own
    BY InternTablesAssumption DEF Init, InitDump
  <2>3. loader = "absent" /\ mem = EmptyArchive(0)
    BY SameMemory DEF Init, L!InitLoad
  <2> QED
    BY <2>1, <2>2, <2>3 DEF LoadOK
<1>2. DumpOK /\ LoadOK /\ [Next]_vars => DumpOK' /\ LoadOK'
  <2> SUFFICES ASSUME DumpOK, LoadOK, [Next]_vars PROVE DumpOK' /\ LoadOK'
    OBVIOUS
  <2>1. CASE Dump /\ env' = env
    <3>1. DumpOK'
      BY <2>1, DumpStep DEF Dump
    <3> QED
      BY <2>1, <3>1, DumpBeforeLoad
  <2>2. CASE Load /\ env' = env
    <3>1. UNCHANGED <<env, dumpVars>> /\ dumper # "running" /\ L!NextLoad
      BY <2>2 DEF Load
    <3>2. DumpOK'
      BY <3>1, DumpStays
    <3>3. CASE L!Map
      BY <3>1, <3>2, <3>3, MapOK
    <3>4. CASE L!Patch
      BY <3>1, <3>2, <3>4, PatchOK
    <3>5. CASE L!PatchEnd \/ L!InternEnd
      BY <3>1, <3>2, <3>5, EndsOK
    <3>6. CASE L!InternString
      BY <3>1, <3>2, <3>6, InternOK
    <3>7. CASE L!Exit
      BY <3>1, <3>2, <3>7, ExitOK
    <3> QED
      BY <3>1, <3>2, <3>3, <3>4, <3>5, <3>6, <3>7 DEF L!NextLoad, L!Load
  <2>3. CASE UNCHANGED vars
    <3>1. UNCHANGED <<env, dumpVars>> /\ UNCHANGED loadVars
      BY <2>3 DEF vars
    <3>2. DumpOK'
      BY <3>1, DumpStays
    <3>3. LoadOK'
      BY <3>1, LoadStays
    <3> QED
      BY <3>2, <3>3
  <2> QED
    BY <2>1, <2>2, <2>3 DEF Next
<1> QED
  BY <1>1, <1>2, PTL DEF Spec

\* NeverFreed: neither the decrefs that PyUnicode_InternInPlace does to a string
\* of the archive nor the corrections that follow them bring the count of an
\* archived object to 0, in the dumper's file or in a loader's mapping.
THEOREM CountsStayPositive == Spec => []NeverFreed
<1>1. DumpOK /\ LoadOK => NeverFreed
  <2> SUFFICES ASSUME DumpOK, LoadOK PROVE NeverFreed
    OBVIOUS
  <2>1. \A a \in 1..Len(archive.heap) : archive.heap[a].rc >= 1
    BY DEF DumpOK, CountsOK, Addresses
  <2>2. \A a \in 1..Len(mem.heap) : mem.heap[a].rc >= 1
    <3>1. CASE loader = "absent"
      <4>1. mem.heap = <<>>
        BY <3>1 DEF LoadOK, EmptyArchive
      <4> QED
        BY <4>1
    <3>2. CASE loader # "absent"
      BY <3>2 DEF LoadOK, MemOK, MemCounts, Addresses
    <3> QED
      BY <3>1, <3>2
  <2> QED
    BY <2>1, <2>2 DEF NeverFreed
<1> QED
  BY <1>1, LoadInvariant, PTL

-----------------------------------------------------------------------------
(* What a load makes of pointers.  f is the file, m the loader's mapping of *)
(* it, b the loader's base, t the slots that are still to be visited.       *)

Patched(f, m, b, a) == m.heap[a].type = f.heap[a].type + (b - DumpBase)

\* The slots that the patch has come to.
Opened(f, m, b, s) ==
    s = Root \/ (Patched(f, m, b, s[1]) /\ f.heap[s[1]].type \in ContainerTypes)

Visited(f, m, b, t, s) == Opened(f, m, b, s) /\ s \notin t

IsStr(f, p) == p \in Addresses(f) /\ f.heap[p].type = TypeAddr(DumpBase, "str")

\* q is a string of value v: the archive's, or the program's.
StringIs(f, m, b, q, v) ==
    \/ IsStr(f, q) /\ Patched(f, m, b, q) /\ f.heap[q].val = v
    \/ q >= b /\ OutOfHeapValue(b, q) = <<"str", v>>

\* q is what the loader has for p.
StandsAs(f, m, b, p, q) ==
    \/ p = NULL /\ q = NULL
    \/ p \in Addresses(f) /\ q = p /\ Patched(f, m, b, p)
    \/ p >= DumpBase /\ q = p + (b - DumpBase)
    \/ IsStr(f, p) /\ StringIs(f, m, b, q, f.heap[p].val)

Types(f, m, b) ==
    \A a \in Addresses(f) : m.heap[a].type = f.heap[a].type \/ Patched(f, m, b, a)

VisitedStand(f, m, b, t) ==
    \A s \in Slots(f) :
        Visited(f, m, b, t, s) => StandsAs(f, m, b, GetSlot(f, s), GetSlot(m, s))

\* Slots that were not visited are as they were, those to be visited can be, and
\* each object that was patched was reached through a slot.
Unvisited(f, m, b, t) ==
    /\ \A s \in Slots(f) : ~ Visited(f, m, b, t, s) => GetSlot(m, s) = GetSlot(f, s)
    /\ t \subseteq Slots(f) /\ \A s \in t : Opened(f, m, b, s)
    /\ \A a \in Addresses(f) : Patched(f, m, b, a) =>
           \E s \in Slots(f) : Visited(f, m, b, t, s) /\ GetSlot(f, s) = a

CanonStands(f, m, b, c) ==
    \A v \in DOMAIN c : c[v] # NULL => StringIs(f, m, b, c[v], v)

Distinct(q) == \A i, j \in 1..Len(q) : q[i] = q[j] => i = j

\* What a store or a count leaves alone.
SameTypes(m, w) ==
    /\ w.none_base = m.none_base
    /\ \A a \in Addresses(m) : w.heap[a].type = m.heap[a].type

-----------------------------------------------------------------------------
(* Sequences without duplicates *)

LEMMA HeadVisited ==
    ASSUME NEW S, NEW q \in Seq(S), q # <<>>, Distinct(q)
    PROVE  /\ Tail(q) \in Seq(S) /\ Distinct(Tail(q)) /\ Head(q) \in ToSet(q)
           /\ ToSet(Tail(q)) = ToSet(q) \ {Head(q)}
<1> DEFINE n == Len(q)
           t == Tail(q)
<1>1. /\ n \in Nat /\ n >= 1 /\ t \in Seq(S) /\ Len(t) = n - 1 /\ Head(q) = q[1]
      /\ \A i \in 1..(n - 1) : t[i] = q[i + 1]
  BY HeadTailProperties, EmptySeq, LenProperties
<1>2. DOMAIN q = 1..n /\ DOMAIN t = 1..(n - 1)
  BY <1>1, LenProperties
<1>3. \A i, j \in 1..n : q[i] = q[j] => i = j
  BY DEF Distinct
<1>4. ToSet(q) = {q[i] : i \in 1..n} /\ ToSet(t) = {t[i] : i \in 1..(n - 1)}
  BY <1>2 DEF ToSet
<1> HIDE DEF n, t
<1>5. ASSUME NEW i \in 1..(n - 1), NEW j \in 1..(n - 1), t[i] = t[j]
      PROVE  i = j
  <2>1. i + 1 \in 1..n /\ j + 1 \in 1..n /\ q[i + 1] = q[j + 1]
    BY <1>1, <1>5
  <2>2. i + 1 = j + 1
    BY <1>3, <2>1
  <2> QED
    BY <1>1, <2>2
<1>6. Distinct(t)
  BY <1>1, <1>5 DEF Distinct
<1>7. 1 \in 1..n
  BY <1>1
<1>8. ASSUME NEW x \in ToSet(t) PROVE x \in ToSet(q) /\ x # Head(q)
  <2>1. PICK i \in 1..(n - 1) : x = t[i]
    BY <1>4
  <2>2. i + 1 \in 1..n /\ x = q[i + 1] /\ i + 1 # 1
    BY <1>1, <2>1
  <2> QED
    BY <1>1, <1>3, <1>4, <1>7, <2>2
<1>9. ASSUME NEW x \in ToSet(q), x # Head(q) PROVE x \in ToSet(t)
  <2>1. PICK i \in 1..n : x = q[i]
    BY <1>4
  <2>2. i - 1 \in 1..(n - 1) /\ (i - 1) + 1 = i
    BY <1>1, <1>9, <2>1
  <2>3. x = t[i - 1]
    BY <1>1, <2>1, <2>2
  <2> QED
    BY <1>4, <2>2, <2>3
<1>10. Head(q) \in ToSet(q)
  BY <1>1, <1>4, <1>7
<1> QED
  BY <1>1, <1>6, <1>8, <1>9, <1>10 DEF t

LEMMA FieldsFirst ==
    ASSUME NEW S, NEW p \in Seq(S), NEW q \in Seq(S), Distinct(p), Distinct(q),
           \A x \in ToSet(p) : x \notin ToSet(q)
    PROVE  /\ p \o q \in Seq(S) /\ Distinct(p \o q)
           /\ ToSet(p \o q) = ToSet(p) \cup ToSet(q)
<1> DEFINE k == Len(p)
           n == Len(q)
           r == p \o q
<1>1. /\ r \in Seq(S) /\ Len(r) = k + n /\ k \in Nat /\ n \in Nat
      /\ \A i \in 1..(k + n) : r[i] = IF i <= k THEN p[i] ELSE q[i - k]
  BY ConcatProperties, LenProperties
<1>2. DOMAIN r = 1..(k + n) /\ DOMAIN p = 1..k /\ DOMAIN q = 1..n
  BY <1>1, LenProperties
<1>3. /\ ToSet(r) = {r[i] : i \in 1..(k + n)} /\ ToSet(p) = {p[i] : i \in 1..k}
      /\ ToSet(q) = {q[i] : i \in 1..n}
  BY <1>2 DEF ToSet
<1>4. /\ \A i, j \in 1..k : p[i] = p[j] => i = j
      /\ \A i, j \in 1..n : q[i] = q[j] => i = j
  BY DEF Distinct
<1> HIDE DEF k, n, r
<1>5. ASSUME NEW i \in 1..(k + n)
      PROVE  \/ i \in 1..k /\ r[i] = p[i]
             \/ i - k \in 1..n /\ r[i] = q[i - k]
  BY <1>1
<1>6. ASSUME NEW i \in 1..(k + n), NEW j \in 1..(k + n), r[i] = r[j]
      PROVE  i = j
  <2>1. CASE i \in 1..k /\ r[i] = p[i] /\ j \in 1..k /\ r[j] = p[j]
    BY <1>4, <1>6, <2>1
  <2>2. CASE i - k \in 1..n /\ r[i] = q[i - k] /\ j - k \in 1..n /\ r[j] = q[j - k]
    <3>1. i - k = j - k
      BY <1>4, <1>6, <2>2
    <3> QED
      BY <1>1, <3>1
  <2>3. CASE i \in 1..k /\ r[i] = p[i] /\ j - k \in 1..n /\ r[j] = q[j - k]
    BY <1>3, <1>6, <2>3
  <2>4. CASE j \in 1..k /\ r[j] = p[j] /\ i - k \in 1..n /\ r[i] = q[i - k]
    BY <1>3, <1>6, <2>4
  <2> QED
    BY <1>5, <2>1, <2>2, <2>3, <2>4
<1>7. Distinct(r)
  BY <1>1, <1>6 DEF Distinct
<1>8. ASSUME NEW x \in ToSet(r) PROVE x \in ToSet(p) \cup ToSet(q)
  BY <1>3, <1>5, <1>8
<1>9. ASSUME NEW x \in ToSet(p) PROVE x \in ToSet(r)
  <2>1. PICK i \in 1..k : x = p[i]
    BY <1>3
  <2>2. i \in 1..(k + n) /\ r[i] = x
    BY <1>1, <2>1
  <2> QED
    BY <1>3, <2>2
<1>10. ASSUME NEW x \in ToSet(q) PROVE x \in ToSet(r)
  <2>1. PICK i \in 1..n : x = q[i]
    BY <1>3
  <2>2. k + i \in 1..(k + n) /\ r[k + i] = x
    BY <1>1, <2>1
  <2> QED
    BY <1>3, <2>2
<1> QED
  BY <1>1, <1>7, <1>8, <1>9, <1>10 DEF r

-----------------------------------------------------------------------------
(* Types and addresses of two interpreters *)

LEMMA LoadBaseIs ==
    ASSUME env \in Environments, NEW b \in LoadBases
    PROVE  /\ b \in Nat /\ DumpBase \in Nat /\ Span \in Nat /\ HeapCells \in Nat
           /\ HeapCells < b /\ HeapCells < DumpBase
           /\ b = DumpBase \/ b - DumpBase >= 8 \/ DumpBase - b >= 8
<1>1. /\ b \in Nat /\ DumpBase \in Nat /\ Span \in Nat /\ HeapCells \in Nat
      /\ HeapCells < b /\ HeapCells < DumpBase
  BY LoadBasesAssumption, DumpBaseAssumption, SpanAssumption, EnvironmentsAssumption DEF HeapCells
<1>2. b = DumpBase \/ b - DumpBase >= Page \/ DumpBase - b >= Page
  BY LoadBasesAssumption
<1>3. Page \in Nat /\ Page >= 8
  BY <1>1 DEF Page
<1> QED
  BY <1>1, <1>2, <1>3

LEMMA TypesMoved ==
    ASSUME env \in Environments, NEW b \in LoadBases,
           NEW ty \in {"atom", "str", "tuple", "code"}
    PROVE  /\ TypeAddr(DumpBase, ty) + (b - DumpBase) = TypeAddr(b, ty)
           /\ TypeOf(b, TypeAddr(b, ty)) = ty
           /\ TypeOf(DumpBase, TypeAddr(DumpBase, ty)) = ty
           /\ b # DumpBase => /\ TypeOf(b, TypeAddr(DumpBase, ty)) = "unknown"
                              /\ TypeAddr(DumpBase, ty) # TypeAddr(b, "str")
           /\ TypeAddr(b, ty) = TypeAddr(b, "str") => ty = "str"
<1>1. b \in Nat /\ DumpBase \in Nat /\ (b = DumpBase \/ b - DumpBase >= 8 \/ DumpBase - b >= 8)
  BY LoadBaseIs
<1> DEFINE k == CASE ty = "atom" -> 1 [] ty = "str" -> 2 [] ty = "tuple" -> 3 [] ty = "code" -> 4
<1>2. k \in 1..4 /\ TypeAddr(DumpBase, ty) = DumpBase + k /\ TypeAddr(b, ty) = b + k
  BY DEF TypeAddr
<1>3. /\ TypeAddr(b, "atom") = b + 1 /\ TypeAddr(b, "str") = b + 2
      /\ TypeAddr(b, "tuple") = b + 3 /\ TypeAddr(b, "code") = b + 4
  BY DEF TypeAddr
<1>4. k = 2 => ty = "str"
  OBVIOUS
<1> HIDE DEF k
<1>5. TypeAddr(DumpBase, ty) + (b - DumpBase) = TypeAddr(b, ty)
  BY <1>1, <1>2
<1>6. TypeOf(b, TypeAddr(b, ty)) = ty /\ TypeOf(DumpBase, TypeAddr(DumpBase, ty)) = ty
  BY <1>1, AddressesOfTypes
<1>7. ASSUME b # DumpBase
      PROVE  /\ TypeOf(b, TypeAddr(DumpBase, ty)) = "unknown"
             /\ TypeAddr(DumpBase, ty) # TypeAddr(b, "str")
  <2>1. /\ DumpBase + k # b + 1 /\ DumpBase + k # b + 2
        /\ DumpBase + k # b + 3 /\ DumpBase + k # b + 4
    BY <1>1, <1>2, <1>7
  <2> QED
    BY <1>2, <1>3, <2>1 DEF TypeOf
<1>8. TypeAddr(b, ty) = TypeAddr(b, "str") => ty = "str"
  BY <1>1, <1>2, <1>3, <1>4
<1> QED
  BY <1>5, <1>6, <1>7, <1>8

\* An interpreter has the same objects wherever it is.
LEMMA OutsideMoved ==
    ASSUME env \in Environments, NEW b \in LoadBases, NEW p \in Int, p >= DumpBase
    PROVE  /\ p + (b - DumpBase) \in Int /\ p + (b - DumpBase) >= b
           /\ OutOfHeapValue(b, p + (b - DumpBase)) = OutOfHeapValue(DumpBase, p)
<1> DEFINE q == p + (b - DumpBase)
<1>1. /\ b \in Nat /\ DumpBase \in Nat /\ HeapCells \in Nat /\ HeapCells < b
      /\ HeapCells < DumpBase /\ Span \in Nat
  BY LoadBaseIs
<1>2. q \in Int /\ q >= b /\ q # NULL /\ p # NULL /\ q - b - 8 = p - DumpBase - 8
  BY <1>1 DEF NULL
<1> HIDE DEF q
<1>3. OutOfHeapValue(b, q) = OutOfHeapValue(DumpBase, p)
  BY <1>2 DEF OutOfHeapValue
<1> QED
  BY <1>2, <1>3 DEF q

\* The loader gives types and values the meaning that the dumper does.
LEMMA SameMeaning ==
    /\ \A b, ty : L!TypeAddr(b, ty) = TypeAddr(b, ty)
    /\ \A b, p : L!TypeOf(b, p) = TypeOf(b, p)
    /\ \A m, b, p : L!Value(m, b, p) = Value(m, b, p)
<1>1. \A b, ty : L!TypeAddr(b, ty) = TypeAddr(b, ty)
  BY DEF L!TypeAddr, TypeAddr
<1>2. \A b, p : L!TypeOf(b, p) = TypeOf(b, p)
  BY <1>1 DEF L!TypeOf, TypeOf
<1>3. \A b, p : L!OutOfHeapValue(b, p) = OutOfHeapValue(b, p)
  BY DEF L!OutOfHeapValue, OutOfHeapValue, L!NULL, NULL
<1>4. \A m, p : L!InHeap(m, p) <=> InHeap(m, p)
  BY SameMemory
<1>5. \A m, b, p : L!Value(m, b, p) = Value(m, b, p)
  BY DEF L!Value, Value, L!OutOfHeapValue, OutOfHeapValue, L!NULL, NULL, L!InHeap, InHeap,
         L!TypeOf, TypeOf, L!TypeAddr, TypeAddr
<1> QED
  BY <1>1, <1>2, <1>5

-----------------------------------------------------------------------------
(* The order in which fields are visited *)

LEMMA FieldsVisited ==
    ASSUME NEW a \in Addresses(mem), NEW ty, mem \in Archives
    PROVE  /\ Distinct(L!VisitedFields(a, ty))
           /\ ToSet(L!VisitedFields(a, ty)) = {<<a, i>> : i \in 1..Len(mem.heap[a].slots)}
<1> DEFINE n == Len(mem.heap[a].slots)
           forward == [i \in 1..n |-> <<a, i>>]
           back == [i \in 1..Len(forward) |-> forward[(Len(forward) - i) + 1]]
<1>1. n \in Nat
  BY ArchiveIs
<1>2. L!VisitedFields(a, ty) = IF ty = "tuple" THEN back ELSE forward
  BY DEF L!VisitedFields, L!Fields, L!Reverse
<1> HIDE DEF n
<1>3. forward \in [1..n -> {<<a, i>> : i \in 1..n}]
  OBVIOUS
<1>4. Len(forward) = n /\ \A i \in 1..n : forward[i] = <<a, i>>
  BY <1>1, <1>3
<1> HIDE DEF forward
<1>5. \A i \in 1..n : (n - i) + 1 \in 1..n /\ (n - ((n - i) + 1)) + 1 = i
  BY <1>1
<1>6. back \in [1..n -> {<<a, i>> : i \in 1..n}] /\ \A i \in 1..n : back[i] = <<a, (n - i) + 1>>
  BY <1>4, <1>5
<1>7. Len(back) = n
  BY <1>1, <1>6
<1> HIDE DEF back
<1>8. DOMAIN forward = 1..n /\ DOMAIN back = 1..n
  BY <1>3, <1>6
<1>9. ToSet(forward) = {<<a, i>> : i \in 1..n} /\ Distinct(forward)
  <2>1. ToSet(forward) = {forward[i] : i \in 1..n}
    BY <1>8 DEF ToSet
  <2>2. {forward[i] : i \in 1..n} = {<<a, i>> : i \in 1..n}
    BY <1>4
  <2>3. Distinct(forward)
    <3> SUFFICES ASSUME NEW i \in 1..n, NEW j \in 1..n, forward[i] = forward[j] PROVE i = j
      BY <1>4 DEF Distinct
    <3> QED
      BY <1>4
  <2> QED
    BY <2>1, <2>2, <2>3
<1>10. Distinct(back)
  <2> SUFFICES ASSUME NEW i \in 1..n, NEW j \in 1..n, back[i] = back[j] PROVE i = j
    BY <1>7 DEF Distinct
  <2>1. (n - i) + 1 = (n - j) + 1
    BY <1>6
  <2> QED
    BY <1>1, <2>1
<1>11. ToSet(back) = {<<a, i>> : i \in 1..n}
  <2>1. ASSUME NEW i \in 1..n PROVE back[i] \in {<<a, k>> : k \in 1..n}
    BY <1>6
  <2>2. ASSUME NEW i \in 1..n PROVE \E j \in 1..n : back[j] = <<a, i>>
    <3>1. back[(n - i) + 1] = <<a, (n - ((n - i) + 1)) + 1>>
      BY <1>5, <1>6
    <3> QED
      BY <1>5, <3>1
  <2> QED
    BY <1>8, <2>1, <2>2 DEF ToSet
<1> QED
  BY <1>2, <1>9, <1>10, <1>11 DEF n

-----------------------------------------------------------------------------
(* The stores of a loader *)

\* An object gets another head.
LEMMA HeadReplaced ==
    ASSUME NEW m \in Archives, NEW a \in Addresses(m), NEW q, q.slots = m.heap[a].slots
    PROVE  LET w == [m EXCEPT !.heap[a] = q] IN
           /\ w.none_base = m.none_base /\ SameSlots(m, w)
           /\ \A c \in Addresses(m) : w.heap[c] = IF c = a THEN q ELSE m.heap[c]
<1> DEFINE w == [m EXCEPT !.heap[a] = q]
<1>1. DOMAIN m.heap = 1..Len(m.heap) /\ a \in 1..Len(m.heap)
  BY ArchiveIs, LenProperties DEF Addresses
<1>2. /\ w.none_base = m.none_base /\ w.obj = m.obj
      /\ \A c \in Addresses(m) : w.heap[c] = IF c = a THEN q ELSE m.heap[c]
  BY <1>1 DEF Archives, Addresses
<1> HIDE DEF w
<1>3. ASSUME NEW s \in Slots(m) PROVE GetSlot(w, s) = GetSlot(m, s)
  <2>1. s # Root => s[1] \in Addresses(m)
    BY SlotIs
  <2> QED
    BY <1>2, <2>1 DEF GetSlot
<1> QED
  BY <1>2, <1>3 DEF SameSlots, w

LEMMA TypesRedirected ==
    ASSUME NEW m \in Archives, NEW refs, NEW p \in Int
    PROVE  LET w == L!Redirected(m, refs, p) IN
           /\ SameTypes(m, w)
           /\ \A s \in Slots(m) :
                  GetSlot(w, s) = IF s \in ToSet(refs) THEN p ELSE GetSlot(m, s)
<1> DEFINE now(s, old) == IF s \in ToSet(refs) THEN p ELSE old
           slots(a) == [i \in DOMAIN m.heap[a].slots |-> now(<<a, i>>, m.heap[a].slots[i])]
           h == [a \in DOMAIN m.heap |-> [m.heap[a] EXCEPT !.slots = slots(a)]]
           r == now(Root, m.obj)
           w == L!Redirected(m, refs, p)
<1>1. w = [[m EXCEPT !.obj = r] EXCEPT !.heap = h]
  BY SameMemory DEF L!Redirected, L!ToSet, ToSet
<1>2. DOMAIN m.heap = 1..Len(m.heap)
  BY ArchiveIs, LenProperties
<1>3. ASSUME NEW a \in Addresses(m)
      PROVE  /\ h[a].type = m.heap[a].type
             /\ \A i \in 1..Len(m.heap[a].slots) :
                    h[a].slots[i] = now(<<a, i>>, m.heap[a].slots[i])
  <2> DEFINE o == m.heap[a]
             sl == slots(a)
  <2>1. o \in HeapObjects /\ DOMAIN o.slots = 1..Len(o.slots)
    BY ArchiveIs, LenProperties
  <2>2. \A i \in 1..Len(o.slots) : sl[i] = now(<<a, i>>, o.slots[i])
    BY <2>1
  <2> HIDE DEF sl
  <2>3. h[a] = [o EXCEPT !.slots = sl]
    BY <1>2 DEF sl, Addresses
  <2> HIDE DEF h, slots, o
  <2>4. h[a].type = o.type /\ h[a].slots = sl
    BY <2>1, <2>3 DEF HeapObjects
  <2> QED
    BY <2>2, <2>4 DEF o
<1> HIDE DEF h
<1>4. w.heap = h /\ w.obj = r /\ w.none_base = m.none_base
  <2> HIDE DEF w, r
  <2> QED
    BY <1>1 DEF Archives
<1> HIDE DEF w
<1>5. SameTypes(m, w)
  BY <1>3, <1>4 DEF SameTypes
<1>6. ASSUME NEW s \in Slots(m)
      PROVE  GetSlot(w, s) = IF s \in ToSet(refs) THEN p ELSE GetSlot(m, s)
  <2>1. CASE s = Root
    BY <1>4, <2>1 DEF GetSlot
  <2>2. CASE s # Root
    <3>1. s[1] \in Addresses(m) /\ s[2] \in 1..Len(m.heap[s[1]].slots) /\ s = <<s[1], s[2]>>
      BY <2>2, SlotIs
    <3>2. h[s[1]].slots[s[2]] = now(s, m.heap[s[1]].slots[s[2]])
      BY <1>3, <3>1
    <3> QED
      BY <1>4, <2>2, <3>2 DEF GetSlot
  <2> QED
    BY <2>1, <2>2
<1> QED
  BY <1>5, <1>6 DEF w

LEMMA TypesCounted ==
    ASSUME NEW m \in Archives, NEW p \in Int, NEW n \in Int
    PROVE  /\ SameTypes(m, Counted(m, p, n)) /\ SameSlots(m, Counted(m, p, n))
           /\ Counted(m, p, n) \in Archives /\ Slots(Counted(m, p, n)) = Slots(m)
           /\ Addresses(Counted(m, p, n)) = Addresses(m)
<1> DEFINE w == Counted(m, p, n)
<1>1. w \in Archives /\ SameObjects(m, w) /\ SameSlots(m, w)
  BY CountedIs
<1> HIDE DEF w
<1>2. Slots(w) = Slots(m) /\ Addresses(w) = Addresses(m)
  BY <1>1, SlotsKept
<1> QED
  BY <1>1, <1>2 DEF w, SameTypes, SameObjects, SameKind

LEMMA TypesOpened ==
    ASSUME NEW m \in Archives, NEW a \in Addresses(m)
    PROVE  LET w == [m EXCEPT !.heap[a].interned = FALSE] IN
           SameTypes(m, w) /\ SameSlots(m, w)
<1> DEFINE q == [m.heap[a] EXCEPT !.interned = FALSE]
           w == [m EXCEPT !.heap[a] = q]
<1>1. m.heap[a] \in HeapObjects
  BY ArchiveIs
<1>2. q.slots = m.heap[a].slots /\ q.type = m.heap[a].type
  BY <1>1 DEF HeapObjects
<1>3. w = [m EXCEPT !.heap[a].interned = FALSE]
  OBVIOUS
<1> HIDE DEF q
<1>4. /\ w.none_base = m.none_base /\ SameSlots(m, w)
      /\ \A c \in Addresses(m) : w.heap[c] = IF c = a THEN q ELSE m.heap[c]
  BY <1>2, HeadReplaced
<1> HIDE DEF w
<1> QED
  BY <1>2, <1>3, <1>4 DEF SameTypes

LEMMA TypesTwice ==
    ASSUME NEW m, NEW w, NEW x, SameTypes(m, w), SameTypes(w, x),
           Addresses(w) = Addresses(m)
    PROVE  SameTypes(m, x)
BY DEF SameTypes

-----------------------------------------------------------------------------
(* What the loader has for a pointer depends on types only. *)

LEMMA StandsStill ==
    ASSUME NEW f, NEW m, NEW w, NEW b,
           \A a \in Addresses(f) : Patched(f, m, b, a) => Patched(f, w, b, a)
    PROVE  /\ \A p, q : StandsAs(f, m, b, p, q) => StandsAs(f, w, b, p, q)
           /\ \A q, v : StringIs(f, m, b, q, v) => StringIs(f, w, b, q, v)
           /\ \A c : CanonStands(f, m, b, c) => CanonStands(f, w, b, c)
<1>1. \A q, v : StringIs(f, m, b, q, v) => StringIs(f, w, b, q, v)
  BY DEF StringIs, IsStr
<1>2. \A p, q : StandsAs(f, m, b, p, q) => StandsAs(f, w, b, p, q)
  BY <1>1 DEF StandsAs
<1>3. \A c : CanonStands(f, m, b, c) => CanonStands(f, w, b, c)
  BY <1>1 DEF CanonStands
<1> QED
  BY <1>1, <1>2, <1>3

LEMMA PatchedStill ==
    ASSUME NEW f, NEW m, NEW w, NEW b, SameTypes(m, w), Addresses(m) = Addresses(f)
    PROVE  /\ \A a \in Addresses(f) : Patched(f, m, b, a) <=> Patched(f, w, b, a)
           /\ Types(f, m, b) => Types(f, w, b)
BY DEF SameTypes, Patched, Types

LEMMA OpenedStill ==
    ASSUME NEW f \in Archives, NEW m, NEW w, NEW b,
           \A a \in Addresses(f) : Patched(f, m, b, a) <=> Patched(f, w, b, a)
    PROVE  \A s \in Slots(f) : Opened(f, m, b, s) <=> Opened(f, w, b, s)
<1> SUFFICES ASSUME NEW s \in Slots(f)
             PROVE  Opened(f, m, b, s) <=> Opened(f, w, b, s)
  OBVIOUS
<1>1. s # Root => s[1] \in Addresses(f)
  BY SlotIs
<1> QED
  BY <1>1 DEF Opened

\* A slot is done with: its object needs nothing, or it was moved.
LEMMA SlotDone ==
    ASSUME NEW f \in Archives, NEW m, NEW w, NEW b, NEW t, NEW s \in t,
           SameTypes(m, w), Addresses(m) = Addresses(f),
           \A r \in Slots(f) : r # s => GetSlot(w, r) = GetSlot(m, r),
           StandsAs(f, m, b, GetSlot(f, s), GetSlot(w, s)),
           VisitedStand(f, m, b, t), Unvisited(f, m, b, t)
    PROVE  VisitedStand(f, w, b, t \ {s}) /\ Unvisited(f, w, b, t \ {s})
<1>1. \A a \in Addresses(f) : Patched(f, m, b, a) <=> Patched(f, w, b, a)
  BY PatchedStill
<1>2. \A r \in Slots(f) : Opened(f, m, b, r) <=> Opened(f, w, b, r)
  BY <1>1, OpenedStill
<1>3. \A p, q : StandsAs(f, m, b, p, q) => StandsAs(f, w, b, p, q)
  BY <1>1, StandsStill
<1>4. s \in Slots(f) /\ Opened(f, w, b, s)
  BY <1>2 DEF Unvisited
<1>5. VisitedStand(f, w, b, t \ {s})
  <2> SUFFICES ASSUME NEW r \in Slots(f), Visited(f, w, b, t \ {s}, r)
               PROVE  StandsAs(f, w, b, GetSlot(f, r), GetSlot(w, r))
    BY DEF VisitedStand
  <2>1. CASE r = s
    BY <1>3, <2>1
  <2>2. CASE r # s
    <3>1. Visited(f, m, b, t, r)
      BY <1>2, <2>2 DEF Visited
    <3> QED
      BY <1>3, <2>2, <3>1 DEF VisitedStand
  <2> QED
    BY <2>1, <2>2
<1>6. ASSUME NEW r \in Slots(f), ~ Visited(f, w, b, t \ {s}, r)
      PROVE  GetSlot(w, r) = GetSlot(f, r)
  <2>1. r # s
    BY <1>4, <1>6 DEF Visited
  <2>2. ~ Visited(f, m, b, t, r)
    BY <1>2, <1>6, <2>1 DEF Visited
  <2> QED
    BY <2>1, <2>2 DEF Unvisited
<1>7. ASSUME NEW a \in Addresses(f), Patched(f, w, b, a)
      PROVE  \E r \in Slots(f) : Visited(f, w, b, t \ {s}, r) /\ GetSlot(f, r) = a
  <2>1. PICK r \in Slots(f) : Visited(f, m, b, t, r) /\ GetSlot(f, r) = a
    BY <1>1, <1>7 DEF Unvisited
  <2>2. Visited(f, w, b, t \ {s}, r)
    BY <1>2, <2>1 DEF Visited
  <2> QED
    BY <2>1, <2>2
<1> QED
  BY <1>2, <1>5, <1>6, <1>7 DEF Unvisited

\* The slots that the patch comes to with an object.
FieldSlots(f, a) ==
    IF f.heap[a].type \in ContainerTypes THEN {<<a, i>> : i \in 1..Len(f.heap[a].slots)}
    ELSE {}

\* An object is patched, and its fields are to be visited.
LEMMA ObjectPatched ==
    ASSUME NEW f \in Archives, NEW m, NEW w, NEW b, NEW t, NEW s \in t,
           NEW a \in Addresses(f), GetSlot(f, s) = a, Addresses(m) = Addresses(f),
           \A r \in Slots(f) : GetSlot(w, r) = GetSlot(m, r),
           ~ Patched(f, m, b, a), Patched(f, w, b, a),
           \A c \in Addresses(f) : c # a => w.heap[c].type = m.heap[c].type,
           Types(f, m, b), VisitedStand(f, m, b, t), Unvisited(f, m, b, t)
    PROVE  /\ Types(f, w, b) /\ VisitedStand(f, w, b, (t \ {s}) \cup FieldSlots(f, a))
           /\ Unvisited(f, w, b, (t \ {s}) \cup FieldSlots(f, a))
           /\ \A r \in FieldSlots(f, a) : r \notin t
<1> DEFINE new == FieldSlots(f, a)
           u == (t \ {s}) \cup new
<1>1. /\ \A c \in Addresses(f) : Patched(f, m, b, c) => Patched(f, w, b, c)
      /\ \A c \in Addresses(f) : c # a => (Patched(f, m, b, c) <=> Patched(f, w, b, c))
  BY DEF Patched
<1>2. Types(f, w, b)
  BY DEF Types, Patched
<1>3. \A p, q : StandsAs(f, m, b, p, q) => StandsAs(f, w, b, p, q)
  BY <1>1, StandsStill
<1>4. ASSUME NEW r \in new
      PROVE  r \in Slots(f) /\ r # Root /\ r[1] = a /\ f.heap[a].type \in ContainerTypes
  <2>1. PICK i \in 1..Len(f.heap[a].slots) : r = <<a, i>>
    BY <1>4 DEF FieldSlots
  <2>2. f.heap[a].type \in ContainerTypes
    BY <1>4 DEF FieldSlots
  <2> QED
    BY <2>1, <2>2, SlotIn
<1> HIDE DEF new
<1>5. ASSUME NEW r \in new PROVE ~ Opened(f, m, b, r) /\ Opened(f, w, b, r)
  BY <1>4 DEF Opened
<1>6. ASSUME NEW r \in Slots(f)
      PROVE  Opened(f, w, b, r) <=> Opened(f, m, b, r) \/ r \in new
  <2>1. CASE r = Root
    BY <2>1 DEF Opened
  <2>2. CASE r # Root
    <3>1. r[1] \in Addresses(f) /\ r = <<r[1], r[2]>> /\ r[2] \in 1..Len(f.heap[r[1]].slots)
      BY <2>2, SlotIs
    <3>2. CASE r[1] = a
      <4>1. f.heap[a].type \in ContainerTypes => r \in new
        BY <3>1, <3>2 DEF new, FieldSlots
      <4>2. Opened(f, w, b, r) => f.heap[a].type \in ContainerTypes
        BY <2>2, <3>2 DEF Opened
      <4>3. Opened(f, m, b, r) => f.heap[a].type \in ContainerTypes
        BY <2>2, <3>2 DEF Opened
      <4> QED
        BY <1>5, <4>1, <4>2, <4>3
    <3>3. CASE r[1] # a
      <4>1. r \notin new
        BY <1>4, <3>3
      <4>2. Patched(f, m, b, r[1]) <=> Patched(f, w, b, r[1])
        BY <1>1, <3>1, <3>3
      <4> QED
        BY <2>2, <4>1, <4>2 DEF Opened
    <3> QED
      BY <3>2, <3>3
  <2> QED
    BY <2>1, <2>2
<1>7. t \subseteq Slots(f) /\ \A r \in t : Opened(f, m, b, r)
  BY DEF Unvisited
<1>8. \A r \in new : r \notin t
  BY <1>5, <1>7
<1>9. s \in Slots(f) /\ s \notin u /\ Opened(f, w, b, s)
  BY <1>5, <1>6, <1>7
<1> HIDE DEF u
<1>10. \A r : r \in u <=> (r \in t /\ r # s) \/ r \in new
  BY DEF u
<1>11. VisitedStand(f, w, b, u)
  <2> SUFFICES ASSUME NEW r \in Slots(f), Visited(f, w, b, u, r)
               PROVE  StandsAs(f, w, b, GetSlot(f, r), GetSlot(w, r))
    BY DEF VisitedStand
  <2>1. Opened(f, m, b, r) /\ (r \notin t \/ r = s)
    BY <1>6, <1>10 DEF Visited
  <2>2. CASE r = s
    <3>1. GetSlot(m, s) = a
      BY <1>9 DEF Unvisited, Visited
    <3>2. GetSlot(w, r) = a /\ GetSlot(f, r) = a
      BY <2>2, <3>1
    <3> QED
      BY <3>2 DEF StandsAs
  <2>3. CASE r # s
    <3>1. Visited(f, m, b, t, r)
      BY <2>1, <2>3 DEF Visited
    <3> QED
      BY <1>3, <3>1 DEF VisitedStand
  <2> QED
    BY <2>2, <2>3
<1>12. ASSUME NEW r \in Slots(f), ~ Visited(f, w, b, u, r)
       PROVE  GetSlot(w, r) = GetSlot(f, r)
  <2>1. r # s
    BY <1>9, <1>12 DEF Visited
  <2>2. ~ Visited(f, m, b, t, r)
    BY <1>5, <1>6, <1>10, <1>12, <2>1 DEF Visited
  <2> QED
    BY <2>2 DEF Unvisited
<1>13. u \subseteq Slots(f) /\ \A r \in u : Opened(f, w, b, r)
  <2> SUFFICES ASSUME NEW r \in u PROVE r \in Slots(f) /\ Opened(f, w, b, r)
    OBVIOUS
  <2>1. CASE r \in t
    BY <1>6, <1>7, <2>1
  <2>2. CASE r \in new
    BY <1>4, <1>5, <2>2
  <2> QED
    BY <1>10, <2>1, <2>2
<1>14. ASSUME NEW c \in Addresses(f), Patched(f, w, b, c)
       PROVE  \E r \in Slots(f) : Visited(f, w, b, u, r) /\ GetSlot(f, r) = c
  <2>1. CASE c = a
    BY <1>9, <2>1 DEF Visited
  <2>2. CASE c # a
    <3>1. PICK r \in Slots(f) : Visited(f, m, b, t, r) /\ GetSlot(f, r) = c
      BY <1>1, <1>14, <2>2 DEF Unvisited
    <3>2. Visited(f, w, b, u, r)
      BY <1>5, <1>6, <1>10, <3>1 DEF Visited
    <3> QED
      BY <3>1, <3>2
  <2> QED
    BY <2>1, <2>2
<1>15. Unvisited(f, w, b, u)
  BY <1>12, <1>13, <1>14 DEF Unvisited
<1> QED
  BY <1>2, <1>8, <1>11, <1>15 DEF u, new

\* The same, of the object that a slot to be visited refers to.
LEMMA ReferredPatched ==
    ASSUME NEW f \in Archives, NEW m, NEW w, NEW b, NEW t, NEW s \in t,
           GetSlot(f, s) \in Addresses(f), Addresses(m) = Addresses(f),
           \A r \in Slots(f) : GetSlot(w, r) = GetSlot(m, r),
           ~ Patched(f, m, b, GetSlot(f, s)), Patched(f, w, b, GetSlot(f, s)),
           \A c \in Addresses(f) : c # GetSlot(f, s) => w.heap[c].type = m.heap[c].type,
           Types(f, m, b), VisitedStand(f, m, b, t), Unvisited(f, m, b, t)
    PROVE  LET new == FieldSlots(f, GetSlot(f, s)) IN
           /\ Types(f, w, b) /\ VisitedStand(f, w, b, (t \ {s}) \cup new)
           /\ Unvisited(f, w, b, (t \ {s}) \cup new)
           /\ \A r \in new : r \notin t
BY ObjectPatched

-----------------------------------------------------------------------------
(* What a load has made of the file so far. *)

LoadedOK ==
    loader # "absent" =>
        /\ ~ load_error /\ mem.none_base = DumpBase /\ base \in LoadBases
        /\ Slots(mem) = Slots(archive)
        /\ IF archive.obj = NULL THEN loader = "ready" /\ mem = archive
           ELSE /\ Types(archive, mem, base)
                /\ VisitedStand(archive, mem, base, ToSet(todo))
                /\ CanonStands(archive, mem, base, canon)
                /\ IF loader = "patching"
                   THEN /\ base # DumpBase /\ Distinct(todo)
                        /\ Unvisited(archive, mem, base, ToSet(todo))
                   ELSE todo = <<>>

\* An object that a slot to be visited refers to was not patched, unless it is a
\* string: nothing else is referred to twice.
LEMMA PatchedString ==
    ASSUME DumpOK, ValuesOK, NEW m, NEW b \in LoadBases, b # DumpBase,
           NEW t, NEW s \in t, Types(archive, m, b), Unvisited(archive, m, b, t),
           NEW a \in Addresses(archive), GetSlot(archive, s) = a
    PROVE  /\ m.heap[a].type = TypeAddr(b, "str") =>
                 Patched(archive, m, b, a) /\ a \in HeapStrings
           /\ m.heap[a].type # TypeAddr(b, "str") =>
                 ~ Patched(archive, m, b, a) /\ m.heap[a].type = archive.heap[a].type
<1>1. env \in Environments /\ archive \in Archives
  BY DEF DumpOK, MoveOK, ArchiveOK
<1>2. PICK ty \in {"atom", "str", "tuple", "code"} : archive.heap[a].type = TypeAddr(DumpBase, ty)
  BY DEF ValuesOK, Typed, HeapTypes
<1>3. /\ Patched(archive, m, b, a) <=> m.heap[a].type = TypeAddr(b, ty)
      /\ TypeAddr(DumpBase, ty) # TypeAddr(b, "str")
      /\ TypeAddr(b, ty) = TypeAddr(b, "str") => ty = "str"
  BY <1>1, <1>2, TypesMoved DEF Patched
<1>4. m.heap[a].type = archive.heap[a].type \/ Patched(archive, m, b, a)
  BY DEF Types
<1>5. ASSUME m.heap[a].type = TypeAddr(b, "str")
      PROVE  Patched(archive, m, b, a) /\ a \in HeapStrings
  <2>1. Patched(archive, m, b, a)
    BY <1>2, <1>3, <1>4, <1>5
  <2>2. ty = "str"
    BY <1>3, <1>5, <2>1
  <2> QED
    BY <1>2, <2>1, <2>2 DEF HeapStrings, Addresses
<1>6. ASSUME m.heap[a].type # TypeAddr(b, "str")
      PROVE  ~ Patched(archive, m, b, a)
  <2> SUFFICES ASSUME Patched(archive, m, b, a) PROVE FALSE
    OBVIOUS
  <2>1. PICK r \in Slots(archive) : Visited(archive, m, b, t, r) /\ GetSlot(archive, r) = a
    BY DEF Unvisited
  <2>2. s \in Slots(archive) /\ r # s
    BY <2>1 DEF Unvisited, Visited
  <2>3. a \in HeapStrings
    BY <2>1, <2>2 DEF ValuesOK, Unshared
  <2>4. archive.heap[a].type = TypeAddr(DumpBase, "str")
    BY <2>3 DEF HeapStrings
  <2>5. TypeAddr(DumpBase, "str") + (b - DumpBase) = TypeAddr(b, "str")
    BY <1>1, TypesMoved
  <2> QED
    BY <1>6, <2>4, <2>5 DEF Patched
<1> QED
  BY <1>4, <1>5, <1>6

LEMMA LengthsSame ==
    ASSUME NEW m \in Archives, NEW w \in Archives, Slots(w) = Slots(m),
           NEW a \in Addresses(m), a \in Addresses(w)
    PROVE  Len(w.heap[a].slots) = Len(m.heap[a].slots)
<1> DEFINE n == Len(m.heap[a].slots)
           k == Len(w.heap[a].slots)
<1>1. n \in Nat /\ k \in Nat
  BY ArchiveIs
<1>2. ASSUME NEW i \in 1..n PROVE i \in 1..k
  <2>1. <<a, i>> \in Slots(w) /\ <<a, i>> # Root
    BY SlotIn
  <2>2. <<a, i>>[2] \in 1..Len(w.heap[<<a, i>>[1]].slots)
    BY <2>1, SlotIs
  <2> QED
    BY <2>2
<1>3. ASSUME NEW i \in 1..k PROVE i \in 1..n
  <2>1. <<a, i>> \in Slots(m) /\ <<a, i>> # Root
    BY SlotIn
  <2>2. <<a, i>>[2] \in 1..Len(m.heap[<<a, i>>[1]].slots)
    BY <2>1, SlotIs
  <2> QED
    BY <2>2
<1> HIDE DEF n, k
<1>4. n = k
  <2>1. CASE n = 0
    BY <1>1, <1>3, <2>1
  <2>2. CASE n # 0
    <3>1. n \in 1..n
      BY <1>1, <2>2
    <3>2. k \in 1..k /\ n <= k
      BY <1>1, <1>2, <3>1
    <3> QED
      BY <1>1, <1>3, <3>2
  <2> QED
    BY <2>1, <2>2
<1> QED
  BY <1>4 DEF n, k

\* The patch goes on.
LEMMA PatchGoesOn ==
    ASSUME loader' = "patching", archive' = archive, archive.obj # NULL, ~ load_error',
           base' \in LoadBases, base' # DumpBase, mem'.none_base = DumpBase,
           Slots(mem') = Slots(archive), Distinct(todo'),
           Types(archive, mem', base'), VisitedStand(archive, mem', base', ToSet(todo')),
           Unvisited(archive, mem', base', ToSet(todo')),
           CanonStands(archive, mem', base', canon')
    PROVE  LoadedOK'
BY DEF LoadedOK

LEMMA PatchLoads ==
    ASSUME DumpOK, ValuesOK, LoadOK, LoadedOK, UNCHANGED <<env, dumpVars>>, L!Patch
    PROVE  LoadedOK'
<1>1. /\ loader = "patching" /\ todo # <<>> /\ UNCHANGED <<base, canon, loader>>
      /\ archive' = archive
  BY DEF L!Patch, dumpVars
<1>2. /\ MemOK /\ mem \in Archives /\ archive \in Archives /\ env \in Environments
      /\ Addresses(mem) = Addresses(archive) /\ Pointers
  BY <1>1 DEF LoadOK, MemOK, DumpOK, MoveOK, ArchiveOK, StringsOK
<1> DEFINE t == ToSet(todo)
           s == Head(todo)
           op == GetSlot(mem, s)
<1>3. /\ ~ load_error /\ mem.none_base = DumpBase /\ base \in LoadBases /\ base # DumpBase
      /\ Slots(mem) = Slots(archive) /\ archive.obj # NULL
      /\ Types(archive, mem, base) /\ VisitedStand(archive, mem, base, t)
      /\ CanonStands(archive, mem, base, canon) /\ Distinct(todo)
      /\ Unvisited(archive, mem, base, t)
  BY <1>1 DEF LoadedOK
<1>4. PICK S : S = Slots(archive)
  OBVIOUS
<1>5. /\ todo \in Seq(S) /\ Tail(todo) \in Seq(S) /\ Distinct(Tail(todo)) /\ s \in t
      /\ ToSet(Tail(todo)) = t \ {s}
  <2>1. todo \in Seq(S)
    BY <1>2, <1>3, <1>4 DEF MemOK
  <2> QED
    BY <1>1, <1>3, <2>1, HeadVisited
<1> HIDE DEF t, s
<1>6. /\ s \in Slots(archive) /\ op = GetSlot(archive, s) /\ IsPointer(archive, op)
      /\ op \in Int
  <2>1. s \in Slots(archive)
    BY <1>3, <1>5 DEF Unvisited
  <2>2. ~ Visited(archive, mem, base, t, s)
    BY <1>5 DEF Visited
  <2>3. op = GetSlot(archive, s)
    BY <1>3, <2>1, <2>2 DEF Unvisited
  <2> QED
    BY <1>2, <2>1, <2>3, SlotIs DEF Pointers
<1> HIDE DEF op
<1>7. L!shift = base - DumpBase
  BY <1>3 DEF L!shift
<1>8. \/ /\ op = NULL \/ (op \in Addresses(mem) /\ mem.heap[op].type = TypeAddr(base, "str"))
         /\ UNCHANGED <<mem, load_error>> /\ todo' = Tail(todo)
      \/ /\ op # NULL /\ op \notin Addresses(mem) /\ UNCHANGED load_error
         /\ mem' = SetSlot(mem, s, op + (base - DumpBase)) /\ todo' = Tail(todo)
      \/ /\ op \in Addresses(mem) /\ mem.heap[op].type # TypeAddr(base, "str")
         /\ LET type == mem.heap[op].type + (base - DumpBase)
                ty == TypeOf(base, type)
            IN  /\ todo' = IF ty \in {"tuple", "code"}
                           THEN L!VisitedFields(op, ty) \o Tail(todo) ELSE Tail(todo)
                /\ mem' = IF ty = "unknown" THEN mem ELSE [mem EXCEPT !.heap[op].type = type]
                /\ load_error' = (ty = "unknown")
  BY <1>7, SameMemory, SameMeaning DEF L!Patch, L!AlreadyPatched, L!UNSHIFT, InHeap, Addresses, op, s
<1>9. ASSUME todo' = Tail(todo), ~ load_error', SameTypes(mem, mem'), Slots(mem') = Slots(mem),
             \A r \in Slots(archive) : r # s => GetSlot(mem', r) = GetSlot(mem, r),
             StandsAs(archive, mem, base, op, GetSlot(mem', s))
      PROVE  LoadedOK'
  <2>1. \A a \in Addresses(archive) :
            Patched(archive, mem, base, a) <=> Patched(archive, mem', base, a)
    BY <1>2, <1>9, PatchedStill
  <2>2. Types(archive, mem', base) /\ CanonStands(archive, mem', base, canon)
    BY <1>2, <1>3, <1>9, <2>1, PatchedStill, StandsStill
  <2>3. /\ VisitedStand(archive, mem', base, t \ {s})
        /\ Unvisited(archive, mem', base, t \ {s})
    BY <1>2, <1>3, <1>5, <1>6, <1>9, SlotDone
  <2>4. mem'.none_base = DumpBase
    BY <1>3, <1>9 DEF SameTypes
  <2> QED
    BY <1>1, <1>3, <1>5, <1>9, <2>2, <2>3, <2>4, PatchGoesOn
<1>10. ASSUME UNCHANGED <<mem, load_error>>, todo' = Tail(todo),
              StandsAs(archive, mem, base, op, op)
       PROVE  LoadedOK'
  <2>1. SameTypes(mem, mem') /\ GetSlot(mem', s) = op
    BY <1>10 DEF SameTypes, op
  <2> QED
    BY <1>3, <1>9, <1>10, <2>1
<1>11. CASE op = NULL /\ UNCHANGED <<mem, load_error>> /\ todo' = Tail(todo)
  <2>1. StandsAs(archive, mem, base, op, op)
    BY <1>11 DEF StandsAs
  <2> QED
    BY <1>10, <1>11, <2>1
<1>12. CASE /\ op \in Addresses(mem) /\ mem.heap[op].type = TypeAddr(base, "str")
            /\ UNCHANGED <<mem, load_error>> /\ todo' = Tail(todo)
  <2>1. Patched(archive, mem, base, op)
    BY <1>2, <1>3, <1>5, <1>6, <1>12, PatchedString
  <2>2. StandsAs(archive, mem, base, op, op)
    BY <1>2, <1>12, <2>1 DEF StandsAs
  <2> QED
    BY <1>10, <1>12, <2>2
<1>13. CASE /\ op # NULL /\ op \notin Addresses(mem) /\ UNCHANGED load_error
            /\ mem' = SetSlot(mem, s, op + (base - DumpBase)) /\ todo' = Tail(todo)
  <2> DEFINE p == op + (base - DumpBase)
  <2>1. op >= DumpBase
    BY <1>2, <1>6, <1>13 DEF IsPointer
  <2>2. p \in Int
    BY <1>2, <1>3, <1>6, <2>1, OutsideMoved
  <2>3. StandsAs(archive, mem, base, op, p)
    BY <2>1 DEF StandsAs
  <2>4. mem' = SetSlot(mem, s, p)
    BY <1>13
  <2> HIDE DEF p
  <2>5. /\ SameObjects(mem, mem')
        /\ \A r \in Slots(mem) : GetSlot(mem', r) = IF r = s THEN p ELSE GetSlot(mem, r)
    BY <1>2, <1>3, <1>6, <2>2, <2>4, SetSlotIs
  <2>6. Slots(mem') = Slots(mem) /\ SameTypes(mem, mem')
    BY <2>5, SlotsKept DEF SameObjects, SameKind, SameTypes
  <2> QED
    BY <1>3, <1>6, <1>9, <1>13, <2>3, <2>5, <2>6
<1>14. CASE /\ op \in Addresses(mem) /\ mem.heap[op].type # TypeAddr(base, "str")
            /\ LET type == mem.heap[op].type + (base - DumpBase)
                   tag == TypeOf(base, type)
               IN  /\ todo' = IF tag \in {"tuple", "code"}
                              THEN L!VisitedFields(op, tag) \o Tail(todo) ELSE Tail(todo)
                   /\ mem' = IF tag = "unknown" THEN mem
                             ELSE [mem EXCEPT !.heap[op].type = type]
                   /\ load_error' = (tag = "unknown")
  <2>1. ~ Patched(archive, mem, base, op) /\ mem.heap[op].type = archive.heap[op].type
    BY <1>2, <1>3, <1>5, <1>6, <1>14, PatchedString
  <2>2. PICK ty \in {"atom", "str", "tuple", "code"} :
            archive.heap[op].type = TypeAddr(DumpBase, ty)
    BY <1>2, <1>14 DEF ValuesOK, Typed, HeapTypes
  <2>3. /\ mem.heap[op].type + (base - DumpBase) = TypeAddr(base, ty)
        /\ TypeOf(base, TypeAddr(base, ty)) = ty
    BY <1>2, <1>3, <2>1, <2>2, TypesMoved
  <2> DEFINE type == TypeAddr(base, ty)
             fields == L!VisitedFields(op, ty)
             new == FieldSlots(archive, op)
  <2>4. /\ todo' = IF ty \in {"tuple", "code"} THEN fields \o Tail(todo) ELSE Tail(todo)
        /\ mem' = [mem EXCEPT !.heap[op].type = type]
        /\ ~ load_error'
    BY <1>14, <2>3
  <2>5. archive.heap[op].type \in ContainerTypes <=> ty \in {"tuple", "code"}
    <3>1. /\ TypeOf(DumpBase, TypeAddr(DumpBase, ty)) = ty
          /\ TypeOf(DumpBase, TypeAddr(DumpBase, "tuple")) = "tuple"
          /\ TypeOf(DumpBase, TypeAddr(DumpBase, "code")) = "code"
      BY <1>2, <1>3, TypesMoved
    <3> QED
      BY <2>2, <3>1 DEF ContainerTypes
  <2>6. /\ fields \in Seq(S) /\ Distinct(fields)
        /\ ToSet(fields) = {<<op, i>> : i \in 1..Len(archive.heap[op].slots)}
    <3>1. Len(mem.heap[op].slots) = Len(archive.heap[op].slots)
      BY <1>2, <1>3, <1>14, LengthsSame
    <3> QED
      BY <1>2, <1>3, <1>4, <1>14, <3>1, FieldsAreSlots, FieldsVisited
  <2>7. type \in Int
    <3>1. base \in Int
      BY <1>2, <1>3, LoadBaseIs
    <3> QED
      BY <3>1, AddressesOfTypes
  <2>8. /\ mem'.none_base = DumpBase /\ Slots(mem') = Slots(mem)
        /\ \A r \in Slots(mem) : GetSlot(mem', r) = GetSlot(mem, r)
        /\ mem'.heap[op].type = type
        /\ \A c \in Addresses(mem) : c # op => mem'.heap[c].type = mem.heap[c].type
    <3> DEFINE q == [mem.heap[op] EXCEPT !.type = type]
               w == [mem EXCEPT !.heap[op] = q]
    <3> HIDE DEF type
    <3>1. mem.heap[op] \in HeapObjects
      BY <1>2, <1>14, ArchiveIs
    <3>2. /\ q \in HeapObjects /\ q.slots = mem.heap[op].slots /\ q.val = mem.heap[op].val
          /\ q.rc = mem.heap[op].rc /\ q.type = type
      BY <2>7, <3>1 DEF HeapObjects
    <3>3. mem' = w
      BY <2>4
    <3> HIDE DEF q
    <3>4. MemKept(mem, w)
      BY <1>2, <1>14, <3>2, ObjectReplaced
    <3>5. /\ w.none_base = mem.none_base /\ SameSlots(mem, w)
          /\ \A c \in Addresses(mem) : w.heap[c] = IF c = op THEN q ELSE mem.heap[c]
      BY <1>2, <1>14, <3>2, HeadReplaced
    <3> HIDE DEF w
    <3> QED
      BY <1>3, <1>14, <3>2, <3>3, <3>4, <3>5 DEF MemKept, SameSlots
  <2> HIDE DEF type, fields, new
  <2>9. Patched(archive, mem', base, op)
    BY <2>1, <2>3, <2>8 DEF Patched, type
  <2>10. /\ Types(archive, mem', base)
         /\ VisitedStand(archive, mem', base, (t \ {s}) \cup new)
         /\ Unvisited(archive, mem', base, (t \ {s}) \cup new)
         /\ \A r \in new : r \notin t
    <3>1. op = GetSlot(archive, s)
      BY <1>6
    <3>2. /\ archive \in Archives /\ Addresses(mem) = Addresses(archive)
          /\ GetSlot(archive, s) \in Addresses(archive) /\ s \in t
      BY <1>2, <1>5, <1>14, <3>1
    <3>3. \A r \in Slots(archive) : GetSlot(mem', r) = GetSlot(mem, r)
      BY <1>3, <2>8
    <3>4. \A c \in Addresses(archive) :
              c # GetSlot(archive, s) => mem'.heap[c].type = mem.heap[c].type
      BY <1>2, <2>8, <3>1
    <3>5. /\ ~ Patched(archive, mem, base, GetSlot(archive, s))
          /\ Patched(archive, mem', base, GetSlot(archive, s))
      BY <2>1, <2>9, <3>1
    <3>6. /\ Types(archive, mem, base) /\ VisitedStand(archive, mem, base, t)
          /\ Unvisited(archive, mem, base, t)
      BY <1>3
    <3>7. new = FieldSlots(archive, GetSlot(archive, s))
      BY <3>1 DEF new
    <3> QED
      BY <3>2, <3>3, <3>4, <3>5, <3>6, <3>7, ReferredPatched
  <2>11. Distinct(todo') /\ ToSet(todo') = (t \ {s}) \cup new
    <3>1. CASE ty \in {"tuple", "code"}
      <4>1. new = ToSet(fields)
        BY <2>5, <2>6, <3>1 DEF new, FieldSlots
      <4>2. \A x \in ToSet(fields) : x \notin ToSet(Tail(todo))
        BY <1>5, <2>10, <4>1
      <4> DEFINE rest == Tail(todo)
      <4>3. /\ fields \in Seq(S) /\ Distinct(fields) /\ rest \in Seq(S) /\ Distinct(rest)
            /\ \A x \in ToSet(fields) : x \notin ToSet(rest)
        BY <1>5, <2>6, <4>2
      <4>4. Distinct(fields \o rest) /\ ToSet(fields \o rest) = ToSet(fields) \cup ToSet(rest)
        <5> HIDE DEF rest, fields
        <5> QED
          BY <4>3, FieldsFirst
      <4> QED
        BY <1>5, <2>4, <3>1, <4>1, <4>4
    <3>2. CASE ty \notin {"tuple", "code"}
      <4>1. new = {}
        BY <2>5, <3>2 DEF new, FieldSlots
      <4> QED
        BY <1>5, <2>4, <3>2, <4>1
    <3> QED
      BY <3>1, <3>2
  <2>12. CanonStands(archive, mem', base, canon)
    <3>1. \A a \in Addresses(archive) :
              Patched(archive, mem, base, a) => Patched(archive, mem', base, a)
      BY <1>2, <2>1, <2>8 DEF Patched
    <3> QED
      BY <1>3, <3>1, StandsStill
  <2> QED
    BY <1>1, <1>3, <2>4, <2>8, <2>10, <2>11, <2>12, PatchGoesOn
<1> QED
  BY <1>8, <1>11, <1>12, <1>13, <1>14

LEMMA InternTableStands ==
    ASSUME env \in Environments, NEW b \in LoadBases, NEW own \in InternTables,
           NEW statics \in SUBSET ListedStrs
    PROVE  CanonStands(archive, archive, b, L!InternTable(b, own, statics))
<1> DEFINE c == L!InternTable(b, own, statics)
<1>1. b \in Nat
  BY LoadBaseIs
<1>2. DOMAIN own \subseteq 0..(Span - 1)
  BY InternTablesAssumption
<1>3. c = [v \in DOMAIN own |-> IF Py312 /\ v \in IdStrs \cup statics THEN StaticStr(b, v)
                                ELSE IF own[v] THEN ProcessStr(b, v) ELSE NULL]
  BY SameMemory DEF L!InternTable, L!StaticStr, L!ProcessStr, StaticStr, ProcessStr
<1> SUFFICES ASSUME NEW v \in DOMAIN c, c[v] # NULL
             PROVE  StringIs(archive, archive, b, c[v], v)
  BY DEF CanonStands
<1>4. v \in 0..(Span - 1) /\ v \in DOMAIN own
  BY <1>2, <1>3
<1>5. c[v] \in {StaticStr(b, v), ProcessStr(b, v)}
  BY <1>3, <1>4
<1> HIDE DEF c
<1>6. c[v] >= b /\ OutOfHeapValue(b, c[v]) = <<"str", v>>
  BY <1>1, <1>4, <1>5, InterpreterValues
<1> QED
  BY <1>6 DEF StringIs, c

\* The file as it is stands for itself, in an interpreter at the dumper's base.
LEMMA FileStands ==
    ASSUME DumpOK, NEW t
    PROVE  VisitedStand(archive, archive, DumpBase, t) /\ Types(archive, archive, DumpBase)
<1>1. archive \in Archives /\ Pointers /\ DumpBase \in Nat
  BY InterpreterAddr DEF DumpOK, MoveOK, ArchiveOK, StringsOK
<1>2. ASSUME NEW a \in Addresses(archive) PROVE Patched(archive, archive, DumpBase, a)
  <2>1. archive.heap[a].type \in Int
    BY <1>1, ArchiveIs
  <2> QED
    BY <1>1, <2>1 DEF Patched
<1>3. ASSUME NEW s \in Slots(archive), NEW p, p = GetSlot(archive, s)
      PROVE  StandsAs(archive, archive, DumpBase, p, p)
  <2>1. p \in Int /\ IsPointer(archive, p)
    BY <1>1, <1>3, SlotIs DEF Pointers
  <2>2. p + (DumpBase - DumpBase) = p
    BY <1>1, <2>1
  <2> QED
    BY <1>2, <2>1, <2>2 DEF StandsAs, IsPointer
<1> QED
  BY <1>2, <1>3 DEF VisitedStand, Types

\* Nothing of it is patched yet, for an interpreter at another base.
LEMMA FileUnvisited ==
    ASSUME DumpOK, NEW b \in LoadBases, b # DumpBase
    PROVE  /\ Types(archive, archive, b) /\ VisitedStand(archive, archive, b, {Root})
           /\ Unvisited(archive, archive, b, {Root})
<1>1. archive \in Archives /\ env \in Environments
  BY DEF DumpOK, MoveOK, ArchiveOK
<1>2. b \in Nat /\ DumpBase \in Nat
  BY <1>1, LoadBaseIs
<1>3. ASSUME NEW a \in Addresses(archive) PROVE ~ Patched(archive, archive, b, a)
  <2>1. archive.heap[a].type \in Int
    BY <1>1, ArchiveIs
  <2> QED
    BY <1>2, <2>1 DEF Patched
<1>4. ASSUME NEW s \in Slots(archive) PROVE ~ Visited(archive, archive, b, {Root}, s)
  <2>1. s # Root => s[1] \in Addresses(archive)
    BY <1>1, SlotIs
  <2> QED
    BY <1>3, <2>1 DEF Visited, Opened
<1>5. Root \in Slots(archive) /\ Opened(archive, archive, b, Root)
  BY RootIn DEF Opened
<1> QED
  BY <1>3, <1>4, <1>5 DEF Types, VisitedStand, Unvisited

LEMMA MapLoads ==
    ASSUME DumpOK, UNCHANGED <<env, dumpVars>>, L!Map
    PROVE  LoadedOK'
<1>1. PICK b \in LoadBases, own \in InternTables, statics \in SUBSET ListedStrs :
          /\ base' = b /\ canon' = L!InternTable(b, own, statics) /\ mem' = archive
          /\ IF archive.obj = NULL
             THEN loader' = "ready" /\ todo' = <<>>
             ELSE IF b = archive.none_base
             THEN loader' = "interning" /\ todo' = <<>>
             ELSE loader' = "patching" /\ todo' = <<Root>>
  BY SameMemory DEF L!Map
<1>2. ~ load_error' /\ archive' = archive
  BY DEF L!Map, dumpVars
<1>3. archive \in Archives /\ env \in Environments /\ archive.none_base = DumpBase
  BY DEF DumpOK, MoveOK, ArchiveOK
<1>4. CASE archive.obj = NULL
  BY <1>1, <1>2, <1>3, <1>4 DEF LoadedOK
<1>5. CanonStands(archive, archive, b, canon')
  BY <1>1, <1>3, InternTableStands
<1>6. CASE archive.obj # NULL /\ b = DumpBase
  <2>1. loader' = "interning" /\ todo' = <<>>
    BY <1>1, <1>3, <1>6
  <2>2. Types(archive, archive, b) /\ VisitedStand(archive, archive, b, ToSet(<<>>))
    BY <1>6, FileStands
  <2> QED
    BY <1>1, <1>2, <1>3, <1>5, <1>6, <2>1, <2>2 DEF LoadedOK
<1>7. CASE archive.obj # NULL /\ b # DumpBase
  <2>1. loader' = "patching" /\ todo' = <<Root>>
    BY <1>1, <1>3, <1>7
  <2>2. ToSet(<<Root>>) = {Root}
    BY DEF ToSet
  <2>3. Distinct(<<Root>>)
    BY DEF Distinct
  <2>4. /\ Types(archive, archive, b) /\ VisitedStand(archive, archive, b, {Root})
        /\ Unvisited(archive, archive, b, {Root})
    BY <1>7, FileUnvisited
  <2> QED
    BY <1>1, <1>2, <1>3, <1>5, <1>7, <2>1, <2>2, <2>3, <2>4, PatchGoesOn
<1> QED
  BY <1>4, <1>6, <1>7

LEMMA EndsLoad ==
    ASSUME LoadedOK, UNCHANGED <<env, dumpVars>>, L!PatchEnd \/ L!InternEnd
    PROVE  LoadedOK'
<1>1. archive' = archive /\ UNCHANGED <<mem, base, canon, load_error>>
  BY DEF L!PatchEnd, L!InternEnd, dumpVars
<1>2. loader \in {"patching", "interning"}
  BY DEF L!PatchEnd, L!InternEnd
<1>3. /\ ~ load_error /\ mem.none_base = DumpBase /\ base \in LoadBases
      /\ Slots(mem) = Slots(archive) /\ archive.obj # NULL
      /\ Types(archive, mem, base) /\ VisitedStand(archive, mem, base, ToSet(todo))
      /\ CanonStands(archive, mem, base, canon)
      /\ loader = "interning" => todo = <<>>
  BY <1>2 DEF LoadedOK
<1>4. todo = <<>> /\ todo' = <<>> /\ loader' \in {"interning", "ready"}
  BY <1>3 DEF L!PatchEnd, L!InternEnd
<1> QED
  BY <1>1, <1>3, <1>4 DEF LoadedOK

\* A string is looked at: slots are redirected, or the table knows it.
LEMMA InternKeepsLoad ==
    ASSUME DumpOK, MemOK, LoadedOK, loader = "interning", UNCHANGED <<env, dumpVars>>,
           UNCHANGED <<base, todo, load_error, loader>>,
           SameTypes(mem, mem'), Slots(mem') = Slots(mem),
           \A s \in Slots(archive) :
               \/ GetSlot(mem', s) = GetSlot(mem, s)
               \/ StandsAs(archive, mem, base, GetSlot(archive, s), GetSlot(mem', s)),
           CanonStands(archive, mem, base, canon')
    PROVE  LoadedOK'
<1>1. archive' = archive /\ archive \in Archives /\ Addresses(mem) = Addresses(archive)
  BY DEF dumpVars, DumpOK, MoveOK, ArchiveOK, MemOK
<1>2. /\ ~ load_error /\ mem.none_base = DumpBase /\ base \in LoadBases
      /\ Slots(mem) = Slots(archive) /\ archive.obj # NULL
      /\ Types(archive, mem, base) /\ VisitedStand(archive, mem, base, ToSet(todo))
      /\ todo = <<>>
  BY DEF LoadedOK
<1>3. \A a \in Addresses(archive) :
          Patched(archive, mem, base, a) <=> Patched(archive, mem', base, a)
  BY <1>1, PatchedStill
<1>4. Types(archive, mem', base) /\ CanonStands(archive, mem', base, canon')
  BY <1>1, <1>2, <1>3, PatchedStill, StandsStill
<1>5. VisitedStand(archive, mem', base, ToSet(todo))
  <2> SUFFICES ASSUME NEW s \in Slots(archive), Visited(archive, mem', base, ToSet(todo), s)
               PROVE  StandsAs(archive, mem', base, GetSlot(archive, s), GetSlot(mem', s))
    BY DEF VisitedStand
  <2>1. Visited(archive, mem, base, ToSet(todo), s)
    BY <1>1, <1>3, OpenedStill DEF Visited
  <2>2. StandsAs(archive, mem, base, GetSlot(archive, s), GetSlot(mem', s))
    BY <1>2, <2>1 DEF VisitedStand
  <2> QED
    BY <1>3, <2>2, StandsStill
<1>6. mem'.none_base = DumpBase
  BY <1>2 DEF SameTypes
<1> QED
  BY <1>1, <1>2, <1>4, <1>5, <1>6 DEF LoadedOK

LEMMA InternLoads ==
    ASSUME DumpOK, LoadOK, LoadedOK, UNCHANGED <<env, dumpVars>>, L!InternString
    PROVE  LoadedOK'
<1>1. loader = "interning" /\ cursor > 0 /\ UNCHANGED <<base, todo, load_error, loader>>
  BY DEF L!InternString
<1>2. /\ MemOK /\ mem \in Archives /\ archive \in Archives /\ ArchiveOK /\ CountsOK
      /\ env \in Environments /\ RefsSound /\ Addresses(mem) = Addresses(archive)
  BY <1>1 DEF LoadOK, MemOK, DumpOK, MoveOK, ArchiveOK, StringsOK
<1>3. Len(Lists) \in Nat /\ cursor \in 1..Len(Lists)
  BY <1>1, <1>2, ArchiveIs DEF Lists, MemOK
<1>4. /\ base \in LoadBases /\ Slots(mem) = Slots(archive)
      /\ CanonStands(archive, mem, base, canon)
  BY <1>1 DEF LoadedOK
<1> DEFINE list == Lists[cursor]
           b == list.str
           refs == list.refs
           str == mem.heap[b]
           p == canon[str.val]
           n == L!Moved(Len(refs))
           open == [mem EXCEPT !.heap[b].interned = FALSE]
<1>5. mem.all_string_ref[cursor] = list
  BY <1>2 DEF MemOK
<1>6. b \in HeapStrings /\ b \in Addresses(archive) /\ b \in Int
  BY <1>2, <1>3, HeapStringIs DEF ArchiveOK
<1>7. /\ str.val = archive.heap[b].val /\ str.val \in DOMAIN canon /\ p \in Int
      /\ canon \in [DOMAIN canon -> Int]
  BY <1>2, <1>6 DEF MemOK, CountsOK
<1>8. n \in Int
  <2>1. Len(refs) \in Nat
    BY <1>2, <1>3, ArchiveIs DEF Lists
  <2> QED
    BY <2>1 DEF L!Moved
<1>9. ASSUME NEW s \in ToSet(refs) PROVE GetSlot(archive, s) = b
  <2>1. refs \in Seq(Nat \X Nat)
    BY <1>2, <1>3, ArchiveIs DEF Lists
  <2>2. PICK i \in 1..Len(refs) : s = refs[i]
    <3>1. DOMAIN refs = 1..Len(refs)
      BY <2>1, LenProperties
    <3> HIDE DEF refs
    <3> QED
      BY <3>1 DEF ToSet
  <2> QED
    BY <1>2, <1>3, <2>2 DEF RefsSound
<1>10. IsStr(archive, b)
  BY <1>6 DEF HeapStrings, IsStr
<1>11. str.type = TypeAddr(base, "str") => Patched(archive, mem, base, b)
  <2>1. TypeAddr(DumpBase, "str") + (base - DumpBase) = TypeAddr(base, "str")
    BY <1>2, <1>4, TypesMoved
  <2> QED
    BY <1>10, <2>1 DEF IsStr, Patched
<1> HIDE DEF open, n
<1>12. \/ mem' = mem /\ canon' = canon
       \/ mem' = open /\ canon' = canon
       \/ /\ str.type = TypeAddr(base, "str") /\ canon' = [canon EXCEPT ![str.val] = b]
          /\ mem' = mem \/ mem' = Counted(mem, p, -2)
       \/ /\ p \notin {NULL, b} /\ canon' = canon
          /\ mem' = L!Redirected(Counted(Counted(open, b, -n), p, n), refs, p)
  BY <1>5, SameMemory, SameMeaning DEF L!InternString, open, n
<1> HIDE DEF list, b, refs, str, p
<1>13. ASSUME SameTypes(mem, mem'), Slots(mem') = Slots(mem), SameSlots(mem, mem'),
              CanonStands(archive, mem, base, canon')
       PROVE  LoadedOK'
  BY <1>1, <1>2, <1>4, <1>13, InternKeepsLoad DEF SameSlots
<1>14. SameTypes(mem, mem) /\ SameSlots(mem, mem)
  BY DEF SameTypes, SameSlots
<1>15. /\ SameTypes(mem, open) /\ SameSlots(mem, open) /\ open \in Archives
       /\ Slots(open) = Slots(mem) /\ Addresses(open) = Addresses(mem)
  BY <1>2, <1>6, OpenedKeeps, TypesOpened DEF MemKept, Addresses, open
<1>16. CASE (mem' = mem \/ mem' = open) /\ canon' = canon
  BY <1>4, <1>13, <1>14, <1>15, <1>16
<1>17. CASE /\ str.type = TypeAddr(base, "str") /\ canon' = [canon EXCEPT ![str.val] = b]
            /\ mem' = mem \/ mem' = Counted(mem, p, -2)
  <2>1. SameTypes(mem, mem') /\ Slots(mem') = Slots(mem) /\ SameSlots(mem, mem')
    <3>1. -2 \in Int
      OBVIOUS
    <3> QED
      BY <1>2, <1>7, <1>14, <1>17, <3>1, TypesCounted
  <2>2. CanonStands(archive, mem, base, canon')
    <3> SUFFICES ASSUME NEW v \in DOMAIN canon', canon'[v] # NULL
                 PROVE  StringIs(archive, mem, base, canon'[v], v)
      BY DEF CanonStands
    <3>1. CASE v = str.val
      <4>1. canon'[v] = b
        BY <1>7, <1>17, <3>1
      <4>2. archive.heap[b].val = v
        BY <1>7, <3>1
      <4> QED
        BY <1>10, <1>11, <1>17, <4>1, <4>2 DEF StringIs
    <3>2. CASE v # str.val
      <4>1. canon'[v] = canon[v] /\ v \in DOMAIN canon
        BY <1>7, <1>17, <3>2
      <4> QED
        BY <1>4, <4>1 DEF CanonStands
    <3> QED
      BY <3>1, <3>2
  <2> QED
    BY <1>13, <2>1, <2>2
<1>18. CASE /\ p \notin {NULL, b} /\ canon' = canon
            /\ mem' = L!Redirected(Counted(Counted(open, b, -n), p, n), refs, p)
  <2> DEFINE k == -n
             less == Counted(open, b, k)
             more == Counted(less, p, n)
  <2>1. k \in Int
    BY <1>8
  <2> HIDE DEF k
  <2>2. /\ SameTypes(open, less) /\ SameSlots(open, less) /\ less \in Archives
        /\ Slots(less) = Slots(open) /\ Addresses(less) = Addresses(open)
    BY <1>6, <1>15, <2>1, TypesCounted
  <2> HIDE DEF less
  <2>3. /\ SameTypes(less, more) /\ SameSlots(less, more) /\ more \in Archives
        /\ Slots(more) = Slots(less) /\ Addresses(more) = Addresses(less)
    BY <1>7, <1>8, <2>2, TypesCounted
  <2>4. mem' = L!Redirected(more, refs, p)
    BY <1>18 DEF more, less, k
  <2> HIDE DEF more
  <2>5. /\ SameTypes(more, mem') /\ Slots(mem') = Slots(more)
        /\ \A s \in Slots(more) :
               GetSlot(mem', s) = IF s \in ToSet(refs) THEN p ELSE GetSlot(more, s)
    BY <1>7, <2>3, <2>4, RedirectedKeeps, TypesRedirected DEF MemKept
  <2>6. SameTypes(mem, mem')
    <3>1. SameTypes(mem, less)
      BY <1>15, <2>2, TypesTwice
    <3>2. SameTypes(mem, more)
      BY <1>15, <2>2, <2>3, <3>1, TypesTwice
    <3> QED
      BY <1>15, <2>2, <2>3, <2>5, <3>2, TypesTwice
  <2>7. Slots(mem') = Slots(mem)
    BY <1>15, <2>2, <2>3, <2>5
  <2>8. StringIs(archive, mem, base, p, archive.heap[b].val)
    BY <1>4, <1>7, <1>18 DEF CanonStands, p
  <2>9. ASSUME NEW s \in Slots(archive)
        PROVE  \/ GetSlot(mem', s) = GetSlot(mem, s)
               \/ StandsAs(archive, mem, base, GetSlot(archive, s), GetSlot(mem', s))
    <3>1. /\ s \in Slots(mem) /\ s \in Slots(open) /\ s \in Slots(less) /\ s \in Slots(more)
      BY <1>4, <1>15, <2>2, <2>3
    <3>2. CASE s \in ToSet(refs)
      <4>1. GetSlot(mem', s) = p
        BY <2>5, <3>1, <3>2
      <4>2. GetSlot(archive, s) = b
        BY <1>9, <3>2
      <4>3. StandsAs(archive, mem, base, b, p)
        BY <1>10, <2>8 DEF StandsAs
      <4> QED
        BY <4>1, <4>2, <4>3
    <3>3. CASE s \notin ToSet(refs)
      <4>1. GetSlot(mem', s) = GetSlot(more, s)
        BY <2>5, <3>1, <3>3
      <4>2. /\ GetSlot(more, s) = GetSlot(less, s) /\ GetSlot(less, s) = GetSlot(open, s)
            /\ GetSlot(open, s) = GetSlot(mem, s)
        BY <1>15, <2>2, <2>3, <3>1 DEF SameSlots
      <4> QED
        BY <4>1, <4>2
    <3> QED
      BY <3>2, <3>3
  <2> QED
    BY <1>1, <1>2, <1>4, <1>18, <2>6, <2>7, <2>9, InternKeepsLoad
<1> QED
  BY <1>12, <1>16, <1>17, <1>18

\* Both invariants of a dump, and both of the loads that follow it.
AllOK == DumpOK /\ ValuesOK /\ LoadOK /\ LoadedOK

LEMMA AllInit ==
    ASSUME Init
    PROVE  AllOK
<1>1. DumpOK /\ ValuesOK
  BY DumpInit, ValuesInit DEF Init
<1>2. \A own \in InternTables : DOMAIN interned \subseteq DOMAIN own
  BY InternTablesAssumption DEF Init, InitDump
<1>3. loader = "absent" /\ mem = EmptyArchive(0)
  BY SameMemory DEF Init, L!InitLoad
<1> QED
  BY <1>1, <1>2, <1>3 DEF AllOK, LoadOK, LoadedOK

LEMMA AllStep ==
    ASSUME AllOK, [Next]_vars
    PROVE  AllOK' /\ SourceValue' = SourceValue
<1>1. DumpOK /\ ValuesOK /\ LoadOK /\ LoadedOK /\ MoveOK /\ Pointers
  BY DEF AllOK, DumpOK, StringsOK
<1>2. CASE Dump /\ env' = env
  <2>1. DumpOK' /\ ValuesOK' /\ LoadOK' /\ SourceValue' = SourceValue
    BY <1>1, <1>2, DumpStep, ValuesStep, DumpBeforeLoad DEF Dump
  <2>2. dumper = "running"
    BY <1>1, <1>2, RunningDumps DEF Dump
  <2>3. loader' = "absent"
    BY <1>1, <1>2, <2>2 DEF LoadOK, Dump, loadVars
  <2> QED
    BY <2>1, <2>3 DEF AllOK, LoadedOK
<1>3. CASE Load /\ env' = env
  <2>1. UNCHANGED <<env, dumpVars>> /\ dumper # "running" /\ L!NextLoad
    BY <1>3 DEF Load
  <2>2. DumpOK' /\ ValuesOK' /\ SourceValue' = SourceValue
    BY <1>1, <2>1, DumpStays, ValuesStay
  <2>3. CASE L!Map
    BY <1>1, <2>1, <2>2, <2>3, MapOK, MapLoads DEF AllOK
  <2>4. CASE L!Patch
    BY <1>1, <2>1, <2>2, <2>4, PatchOK, PatchLoads DEF AllOK
  <2>5. CASE L!PatchEnd \/ L!InternEnd
    BY <1>1, <2>1, <2>2, <2>5, EndsOK, EndsLoad DEF AllOK
  <2>6. CASE L!InternString
    BY <1>1, <2>1, <2>2, <2>6, InternOK, InternLoads DEF AllOK
  <2>7. CASE L!Exit
    <3>1. loader' = "absent"
      BY <2>7 DEF L!Exit
    <3> QED
      BY <1>1, <2>1, <2>2, <2>7, <3>1, ExitOK DEF AllOK, LoadedOK
  <2> QED
    BY <2>1, <2>3, <2>4, <2>5, <2>6, <2>7, <2>2 DEF L!NextLoad, L!Load
<1>4. CASE UNCHANGED vars
  <2>1. UNCHANGED <<env, dumpVars>> /\ UNCHANGED loadVars
    BY <1>4 DEF vars
  <2>2. DumpOK' /\ ValuesOK' /\ LoadOK' /\ SourceValue' = SourceValue
    BY <1>1, <2>1, DumpStays, ValuesStay, LoadStays
  <2>3. LoadedOK'
    BY <1>1, <2>1 DEF LoadedOK, loadVars, dumpVars
  <2> QED
    BY <2>2, <2>3 DEF AllOK
<1> QED
  BY <1>2, <1>3, <1>4 DEF Next

LEMMA RoundTripInvariant == Spec => []AllOK
<1>1. Init => AllOK
  BY AllInit
<1>2. AllOK /\ [Next]_vars => AllOK'
  BY AllStep
<1> QED
  BY <1>1, <1>2, PTL DEF Spec

-----------------------------------------------------------------------------
(* The value of what was loaded *)

\* Every slot is visited, of the objects that were patched.
LEMMA ItemsStand ==
    ASSUME NEW f \in Archives, NEW m \in Archives, NEW b, Slots(m) = Slots(f),
           Addresses(m) = Addresses(f), VisitedStand(f, m, b, {}),
           NEW a \in Addresses(f), Patched(f, m, b, a), f.heap[a].type \in ContainerTypes
    PROVE  /\ Len(m.heap[a].slots) = Len(f.heap[a].slots)
           /\ \A i \in 1..Len(f.heap[a].slots) :
                 /\ f.heap[a].slots[i] \in Int /\ m.heap[a].slots[i] \in Int
                 /\ StandsAs(f, m, b, f.heap[a].slots[i], m.heap[a].slots[i])
<1>1. Len(m.heap[a].slots) = Len(f.heap[a].slots)
  BY LengthsSame
<1>2. ASSUME NEW i \in 1..Len(f.heap[a].slots)
      PROVE  /\ f.heap[a].slots[i] \in Int /\ m.heap[a].slots[i] \in Int
             /\ StandsAs(f, m, b, f.heap[a].slots[i], m.heap[a].slots[i])
  <2>1. /\ <<a, i>> \in Slots(f) /\ <<a, i>> # Root
        /\ GetSlot(f, <<a, i>>) = f.heap[a].slots[i]
    BY SlotIn
  <2>2. GetSlot(m, <<a, i>>) = m.heap[a].slots[i]
    BY <1>1, SlotIn
  <2>3. Opened(f, m, b, <<a, i>>)
    BY DEF Opened
  <2>4. StandsAs(f, m, b, f.heap[a].slots[i], m.heap[a].slots[i])
    BY <2>1, <2>2, <2>3 DEF VisitedStand, Visited
  <2> QED
    BY <2>1, <2>2, <2>4, SlotIs
<1> QED
  BY <1>1, <1>2

LEMMA ContainersAre ==
    ASSUME DumpOK, ValuesOK, NEW a \in Addresses(archive)
    PROVE  /\ a \in Branch(archive, DumpBase) <=> archive.heap[a].type \in ContainerTypes
           /\ archive.heap[a].type \in ContainerTypes => ~ IsStr(archive, a)
<1>1. env \in Environments /\ DumpBase \in Int
  BY InterpreterAddr DEF DumpOK, MoveOK, ArchiveOK
<1>2. PICK ty \in {"atom", "str", "tuple", "code"} : archive.heap[a].type = TypeAddr(DumpBase, ty)
  BY DEF ValuesOK, Typed, HeapTypes
<1>3. TypeOf(DumpBase, TypeAddr(DumpBase, ty)) = ty
  BY <1>1, AddressesOfTypes
<1>4. /\ TypeOf(DumpBase, TypeAddr(DumpBase, "tuple")) = "tuple"
      /\ TypeOf(DumpBase, TypeAddr(DumpBase, "code")) = "code"
      /\ TypeOf(DumpBase, TypeAddr(DumpBase, "str")) = "str"
  BY <1>1, AddressesOfTypes
<1> QED
  BY <1>2, <1>3, <1>4 DEF Branch, ContainerTypes, IsStr

\* In a mapping that is patched, what was not visited has no type.
LEMMA PatchedAre ==
    ASSUME DumpOK, ValuesOK, MemOK, base \in LoadBases, Types(archive, mem, base),
           NEW a \in Addresses(archive)
    PROVE  /\ a \in Branch(mem, base) =>
                 Patched(archive, mem, base, a) /\ a \in Branch(archive, DumpBase)
           /\ Patched(archive, mem, base, a) =>
                 /\ TypeOf(base, mem.heap[a].type) = TypeOf(DumpBase, archive.heap[a].type)
                 /\ a \in Branch(archive, DumpBase) => a \in Branch(mem, base)
<1>1. env \in Environments /\ Addresses(mem) = Addresses(archive) /\ archive \in Archives
  BY DEF DumpOK, MoveOK, ArchiveOK, MemOK
<1>2. PICK ty \in {"atom", "str", "tuple", "code"} : archive.heap[a].type = TypeAddr(DumpBase, ty)
  BY DEF ValuesOK, Typed, HeapTypes
<1>3. /\ TypeAddr(DumpBase, ty) + (base - DumpBase) = TypeAddr(base, ty)
      /\ TypeOf(base, TypeAddr(base, ty)) = ty /\ TypeOf(DumpBase, TypeAddr(DumpBase, ty)) = ty
      /\ base # DumpBase => TypeOf(base, TypeAddr(DumpBase, ty)) = "unknown"
  BY <1>1, TypesMoved
<1>4. ASSUME Patched(archive, mem, base, a)
      PROVE  TypeOf(base, mem.heap[a].type) = ty
  BY <1>2, <1>3, <1>4 DEF Patched
<1>5. ASSUME ~ Patched(archive, mem, base, a)
      PROVE  TypeOf(base, mem.heap[a].type) = "unknown"
  <2>1. mem.heap[a].type = TypeAddr(DumpBase, ty)
    BY <1>2, <1>5 DEF Types
  <2>2. base # DumpBase
    BY <1>2, <1>3, <1>5, <2>1 DEF Patched
  <2> QED
    BY <1>3, <2>1, <2>2
<1> QED
  BY <1>1, <1>2, <1>3, <1>4, <1>5 DEF Branch

\* A leaf stands for the same value as what the loader has for it.
LEMMA LeavesAgree ==
    ASSUME DumpOK, ValuesOK, MemOK, base \in LoadBases, Types(archive, mem, base),
           NEW p \in Int, NEW q \in Int, StandsAs(archive, mem, base, p, q)
    PROVE  /\ p \in Branch(archive, DumpBase) <=> q \in Branch(mem, base)
           /\ p \in Branch(archive, DumpBase) =>
                 /\ q = p /\ p \in Addresses(archive) /\ Patched(archive, mem, base, p)
                 /\ TypeOf(DumpBase, archive.heap[p].type) = TypeOf(base, mem.heap[q].type)
           /\ p \notin Branch(archive, DumpBase) =>
                 LeafValue(archive, DumpBase, p) = LeafValue(mem, base, q)
<1>1. /\ env \in Environments /\ Addresses(mem) = Addresses(archive) /\ archive \in Archives
      /\ ArchiveOK /\ Addresses(archive) \subseteq 1..HeapCells
      /\ \A a \in Addresses(archive) : mem.heap[a].val = archive.heap[a].val
  <2>1. ArchiveOK /\ MemOK
    BY DEF DumpOK, MoveOK
  <2>2. Len(archive.heap) \in Nat /\ archive.used \in Nat /\ HeapCells \in Nat
    BY <2>1, ArchiveIs, InterpreterAddr DEF ArchiveOK
  <2>3. Addresses(archive) \subseteq 1..HeapCells
    BY <2>1, <2>2 DEF ArchiveOK, Addresses
  <2> QED
    BY <2>1, <2>3 DEF ArchiveOK, MemOK
<1>2. /\ base \in Nat /\ DumpBase \in Nat /\ HeapCells \in Nat /\ HeapCells < base
      /\ HeapCells < DumpBase
  BY <1>1, LoadBaseIs
<1>3. /\ \A x \in Int : x = NULL \/ x >= base => x \notin Addresses(archive)
      /\ \A x \in Int : x = NULL \/ x >= DumpBase => x \notin Addresses(archive)
  BY <1>1, <1>2 DEF NULL
<1>4. Branch(archive, DumpBase) \subseteq Addresses(archive)
      /\ Branch(mem, base) \subseteq Addresses(archive)
  BY <1>1 DEF Branch
<1>5. ASSUME NEW v, StringIs(archive, mem, base, q, v)
      PROVE  q \notin Branch(mem, base) /\ LeafValue(mem, base, q) = <<"str", v>>
  <2>1. CASE IsStr(archive, q) /\ Patched(archive, mem, base, q) /\ archive.heap[q].val = v
    <3>1. q \in Addresses(archive) /\ archive.heap[q].type = TypeAddr(DumpBase, "str")
      BY <2>1 DEF IsStr
    <3>2. TypeOf(base, mem.heap[q].type) = "str"
      <4>1. /\ TypeAddr(DumpBase, "str") + (base - DumpBase) = TypeAddr(base, "str")
            /\ TypeOf(base, TypeAddr(base, "str")) = "str"
        BY <1>1, TypesMoved
      <4> QED
        BY <2>1, <3>1, <4>1 DEF Patched
    <3> QED
      BY <1>1, <2>1, <3>1, <3>2 DEF Branch, LeafValue
  <2>2. CASE q >= base /\ OutOfHeapValue(base, q) = <<"str", v>>
    <3>1. q \notin Addresses(archive)
      BY <1>3, <2>2
    <3> QED
      BY <1>1, <1>4, <2>2, <3>1 DEF LeafValue
  <2> QED
    BY <1>5, <2>1, <2>2 DEF StringIs
<1>6. CASE p = NULL /\ q = NULL
  <2>1. p \notin Addresses(archive) /\ q \notin Addresses(archive)
    BY <1>3, <1>6
  <2>2. OutOfHeapValue(DumpBase, p) = OutOfHeapValue(base, q)
    BY <1>6 DEF OutOfHeapValue
  <2> QED
    BY <1>1, <1>4, <2>1, <2>2 DEF LeafValue
<1>7. CASE p \in Addresses(archive) /\ q = p /\ Patched(archive, mem, base, p)
  BY <1>1, <1>7, PatchedAre DEF LeafValue
<1>8. CASE p >= DumpBase /\ q = p + (base - DumpBase)
  <2>1. q >= base /\ OutOfHeapValue(base, q) = OutOfHeapValue(DumpBase, p)
    BY <1>1, <1>8, OutsideMoved
  <2>2. p \notin Addresses(archive) /\ q \notin Addresses(archive)
    BY <1>3, <1>8, <2>1
  <2> QED
    BY <1>1, <1>4, <2>1, <2>2 DEF LeafValue
<1>9. CASE IsStr(archive, p) /\ StringIs(archive, mem, base, q, archive.heap[p].val)
  <2>1. p \in Addresses(archive) /\ archive.heap[p].type = TypeAddr(DumpBase, "str")
    BY <1>9 DEF IsStr
  <2>2. p \notin Branch(archive, DumpBase)
    BY <1>9, <2>1, ContainersAre
  <2>3. LeafValue(archive, DumpBase, p) = <<"str", archive.heap[p].val>>
    <3>1. TypeOf(DumpBase, TypeAddr(DumpBase, "str")) = "str"
      BY <1>2, AddressesOfTypes
    <3> QED
      BY <2>1, <3>1 DEF LeafValue
  <2> QED
    BY <1>5, <1>9, <2>2, <2>3
<1> QED
  BY <1>6, <1>7, <1>8, <1>9 DEF StandsAs

\* Neither memory has a container that refers to itself.
LEMMA LoadedGrounded ==
    ASSUME DumpOK, ValuesOK, MemOK, base \in LoadBases, Slots(mem) = Slots(archive),
           Types(archive, mem, base), VisitedStand(archive, mem, base, {})
    PROVE  HeapGrounded(archive, DumpBase) /\ HeapGrounded(mem, base)
<1>1. /\ archive \in Archives /\ mem \in Archives /\ HeapOrdered
      /\ Addresses(mem) = Addresses(archive)
  BY DEF DumpOK, MoveOK, ArchiveOK, MemOK, ValuesOK, Layout
<1>2. \A s \in Slots(archive) : s # Root /\ GetSlot(archive, s) \in Branch(archive, DumpBase)
                                => GetSlot(archive, s) > s[1]
  BY <1>1 DEF HeapOrdered, Containing
<1>3. HeapGrounded(archive, DumpBase)
  BY <1>1, <1>2, OrderedSlots
<1>4. ASSUME NEW a \in Branch(mem, base), NEW i \in 1..Len(mem.heap[a].slots),
             mem.heap[a].slots[i] \in Branch(mem, base)
      PROVE  mem.heap[a].slots[i] > a
  <2>1. a \in Addresses(archive)
    BY <1>1 DEF Branch
  <2>2. Patched(archive, mem, base, a) /\ a \in Branch(archive, DumpBase)
    BY <2>1, PatchedAre
  <2>3. archive.heap[a].type \in ContainerTypes
    BY <2>1, <2>2, ContainersAre
  <2>4. Len(mem.heap[a].slots) = Len(archive.heap[a].slots)
    BY <1>1, <2>1, <2>2, <2>3, ItemsStand
  <2>5. /\ archive.heap[a].slots[i] \in Int /\ mem.heap[a].slots[i] \in Int
        /\ StandsAs(archive, mem, base, archive.heap[a].slots[i], mem.heap[a].slots[i])
    BY <1>1, <2>1, <2>2, <2>3, <2>4, ItemsStand
  <2>6. archive.heap[a].slots[i] \in Branch(archive, DumpBase)
    BY <1>4, <2>5, LeavesAgree
  <2>7. mem.heap[a].slots[i] = archive.heap[a].slots[i]
    BY <2>5, <2>6, LeavesAgree
  <2>8. /\ <<a, i>> \in Slots(archive) /\ <<a, i>> # Root
        /\ GetSlot(archive, <<a, i>>) = archive.heap[a].slots[i]
    BY <2>1, <2>4, SlotIn
  <2>9. GetSlot(archive, <<a, i>>) > <<a, i>>[1]
    BY <1>2, <2>6, <2>8
  <2> QED
    BY <2>7, <2>8, <2>9
<1>5. HeapGrounded(mem, base)
  BY <1>1, <1>4, OrderedIsGrounded
<1> QED
  BY <1>3, <1>5

\* Pairs of pointers that agree on what they refer to, and on leaves.
Matching(R, m, b, w, c) ==
    \A r \in R :
        /\ r[1] \in Int /\ r[2] \in Int
        /\ r[1] \in Branch(m, b) <=> r[2] \in Branch(w, c)
        /\ r[1] \in Branch(m, b) =>
               /\ TypeOf(b, m.heap[r[1]].type) = TypeOf(c, w.heap[r[2]].type)
               /\ Len(m.heap[r[1]].slots) = Len(w.heap[r[2]].slots)
               /\ \A i \in 1..Len(m.heap[r[1]].slots) :
                     <<m.heap[r[1]].slots[i], w.heap[r[2]].slots[i]>> \in R
        /\ r[1] \notin Branch(m, b) => LeafValue(m, b, r[1]) = LeafValue(w, c, r[2])

LEMMA MatchingAgree ==
    ASSUME NEW m \in Archives, NEW b, HeapGrounded(m, b),
           NEW w \in Archives, NEW c, HeapGrounded(w, c),
           NEW R, Matching(R, m, b, w, c)
    PROVE  \A r \in R : Value(m, b, r[1]) = Value(w, c, r[2])
BY ValuesAgree DEF Matching

\* What a pointer stands for is what the loader's pointer stands for.
LEMMA LoadedAgree ==
    ASSUME DumpOK, ValuesOK, MemOK, base \in LoadBases, Slots(mem) = Slots(archive),
           Types(archive, mem, base), VisitedStand(archive, mem, base, {}),
           NEW p \in Int, NEW q \in Int, StandsAs(archive, mem, base, p, q)
    PROVE  Value(archive, DumpBase, p) = Value(mem, base, q)
<1> DEFINE R == {r \in Int \X Int : StandsAs(archive, mem, base, r[1], r[2])}
<1>1. archive \in Archives /\ mem \in Archives /\ Addresses(mem) = Addresses(archive)
  BY DEF DumpOK, MoveOK, ArchiveOK, MemOK
<1>2. HeapGrounded(archive, DumpBase) /\ HeapGrounded(mem, base)
  BY LoadedGrounded
<1>3. ASSUME NEW r \in R
      PROVE  /\ r[1] \in Int /\ r[2] \in Int
             /\ r[1] \in Branch(archive, DumpBase) <=> r[2] \in Branch(mem, base)
             /\ r[1] \in Branch(archive, DumpBase) =>
                    /\ TypeOf(DumpBase, archive.heap[r[1]].type) = TypeOf(base, mem.heap[r[2]].type)
                    /\ Len(archive.heap[r[1]].slots) = Len(mem.heap[r[2]].slots)
                    /\ \A i \in 1..Len(archive.heap[r[1]].slots) :
                          <<archive.heap[r[1]].slots[i], mem.heap[r[2]].slots[i]>> \in R
             /\ r[1] \notin Branch(archive, DumpBase) =>
                    LeafValue(archive, DumpBase, r[1]) = LeafValue(mem, base, r[2])
  <2>1. r[1] \in Int /\ r[2] \in Int /\ StandsAs(archive, mem, base, r[1], r[2])
    OBVIOUS
  <2> DEFINE x == r[1]
             y == r[2]
  <2>2. x \in Int /\ y \in Int /\ StandsAs(archive, mem, base, x, y)
    BY <2>1
  <2> HIDE DEF x, y
  <2>3. /\ x \in Branch(archive, DumpBase) <=> y \in Branch(mem, base)
        /\ x \in Branch(archive, DumpBase) =>
              /\ y = x /\ x \in Addresses(archive) /\ Patched(archive, mem, base, x)
              /\ TypeOf(DumpBase, archive.heap[x].type) = TypeOf(base, mem.heap[y].type)
        /\ x \notin Branch(archive, DumpBase) =>
              LeafValue(archive, DumpBase, x) = LeafValue(mem, base, y)
    BY <2>2, LeavesAgree
  <2>4. ASSUME x \in Branch(archive, DumpBase)
        PROVE  /\ Len(archive.heap[x].slots) = Len(mem.heap[y].slots)
               /\ \A i \in 1..Len(archive.heap[x].slots) :
                     <<archive.heap[x].slots[i], mem.heap[y].slots[i]>> \in R
    <3>1. y = x /\ x \in Addresses(archive) /\ Patched(archive, mem, base, x)
      BY <2>3, <2>4
    <3>2. archive.heap[x].type \in ContainerTypes
      BY <2>4, <3>1, ContainersAre
    <3>3. /\ Len(mem.heap[x].slots) = Len(archive.heap[x].slots)
          /\ \A i \in 1..Len(archive.heap[x].slots) :
                /\ archive.heap[x].slots[i] \in Int /\ mem.heap[x].slots[i] \in Int
                /\ StandsAs(archive, mem, base, archive.heap[x].slots[i], mem.heap[x].slots[i])
      BY <1>1, <3>1, <3>2, ItemsStand
    <3> QED
      BY <3>1, <3>3
  <2> QED
    BY <2>2, <2>3, <2>4 DEF x, y
<1>4. <<p, q>> \in R
  OBVIOUS
<1> HIDE DEF R
<1>5. \A r \in R : Value(archive, DumpBase, r[1]) = Value(mem, base, r[2])
  <2>1. Matching(R, archive, DumpBase, mem, base)
    BY <1>3 DEF Matching
  <2> QED
    BY <1>1, <1>2, <2>1, MatchingAgree
<1>6. \A x, y : <<x, y>> \in R => Value(archive, DumpBase, x) = Value(mem, base, y)
  <2> SUFFICES ASSUME NEW x, NEW y, <<x, y>> \in R
               PROVE  Value(archive, DumpBase, x) = Value(mem, base, y)
    OBVIOUS
  <2> DEFINE r == <<x, y>>
  <2>1. r \in R /\ r[1] = x /\ r[2] = y
    OBVIOUS
  <2> HIDE DEF r
  <2>2. Value(archive, DumpBase, r[1]) = Value(mem, base, r[2])
    BY <1>5, <2>1
  <2> QED
    BY <2>1, <2>2
<1> QED
  BY <1>4, <1>6

LEMMA ReadyGivesSource ==
    ASSUME AllOK, loader = "ready"
    PROVE  /\ mem.obj = NULL <=> archive.obj = NULL
           /\ mem.obj # NULL => L!LoadedValue = SourceValue
<1>1. DumpOK /\ ValuesOK /\ LoadOK /\ LoadedOK /\ MemOK
  BY DEF AllOK, LoadOK
<1>2. archive \in Archives /\ mem \in Archives /\ env \in Environments /\ ArchiveOK
  BY <1>1 DEF DumpOK, MoveOK, ArchiveOK, MemOK
<1>3. CASE archive.obj = NULL
  BY <1>1, <1>3 DEF LoadedOK
<1>4. CASE archive.obj # NULL
  <2>1. /\ base \in LoadBases /\ Slots(mem) = Slots(archive)
        /\ Types(archive, mem, base) /\ VisitedStand(archive, mem, base, ToSet(todo))
        /\ todo = <<>>
    BY <1>1, <1>4 DEF LoadedOK
  <2>2. VisitedStand(archive, mem, base, {})
    <3>1. ToSet(<<>>) = {}
      BY DEF ToSet
    <3> QED
      BY <2>1, <3>1
  <2>3. /\ Root \in Slots(archive) /\ GetSlot(archive, Root) = archive.obj
        /\ GetSlot(mem, Root) = mem.obj /\ archive.obj \in Int /\ mem.obj \in Int
    BY <1>2, RootIn, ArchiveIs
  <2>4. StandsAs(archive, mem, base, archive.obj, mem.obj)
    BY <2>2, <2>3 DEF VisitedStand, Visited, Opened
  <2>5. mem.obj # NULL
    <3>1. \A b \in LoadBases : b \in Nat /\ b > 0
      BY <1>2, LoadBaseIs
    <3>2. NULL \notin Addresses(archive)
      BY <1>2, ArchiveIs DEF NULL
    <3>3. \A p \in Int : p >= DumpBase => p + (base - DumpBase) > 0
      BY <1>2, <2>1, LoadBaseIs
    <3>4. CASE archive.obj \in Addresses(archive) /\ mem.obj = archive.obj
      BY <3>2, <3>4
    <3>5. CASE archive.obj >= DumpBase /\ mem.obj = archive.obj + (base - DumpBase)
      BY <2>3, <3>3, <3>5 DEF NULL
    <3>6. CASE IsStr(archive, mem.obj) \/ mem.obj >= base
      BY <2>1, <2>3, <3>1, <3>2, <3>6 DEF IsStr, NULL
    <3> QED
      BY <1>4, <2>4, <3>4, <3>5, <3>6 DEF StandsAs, StringIs
  <2>6. Value(archive, DumpBase, archive.obj) = Value(mem, base, mem.obj)
    BY <1>1, <2>1, <2>2, <2>3, <2>4, LoadedAgree
  <2>7. Value(archive, DumpBase, archive.obj) = SourceValue
    BY <1>1, <1>4 DEF ValuesOK, Published
  <2>8. L!LoadedValue = Value(mem, base, mem.obj)
    BY SameMeaning DEF L!LoadedValue
  <2> QED
    BY <1>4, <2>5, <2>6, <2>7, <2>8
<1> QED
  BY <1>3, <1>4

\* LoadedEqualsDumped: whatever the loader's base and intern table are, what it
\* loads stands for the object that was moved in, and an archive that was not
\* completed gives no object.
THEOREM LoadsGiveWhatWasDumped == Spec => []LoadedEqualsDumped
<1>1. AllOK => LoadedEqualsDumped
  BY ReadyGivesSource DEF LoadedEqualsDumped
<1> QED
  BY <1>1, RoundTripInvariant, PTL

-----------------------------------------------------------------------------
(* The archive is a store that is written once. *)

\* What was moved in is an object.
LEMMA SourceIsObject ==
    ASSUME AllOK
    PROVE  SourceValue # <<"null">>
<1>1. GraphOK(src) /\ src \in Seq(Objects)
  BY DEF AllOK, ValuesOK, Layout, GraphOK
<1>2. root \in DOMAIN src /\ root # NULL
  BY <1>1, NodeIs DEF AllOK, DumpOK, MoveOK, SourceOK, Nodes
<1>3. SourceValue = IF root \in GraphBranch(src)
                    THEN <<GraphTag(src[root]),
                           [i \in DOMAIN src[root].items |-> GraphValue(src, src[root].items[i])]>>
                    ELSE GraphLeaf(src, root)
  BY <1>1, <1>2, GraphValueIs DEF SourceValue
<1>4. \A x, y : <<x, y>> # <<"null">>
  <2>1. \A x, y : Len(<<x, y>>) = 2 /\ Len(<<"null">>) = 1
    OBVIOUS
  <2> QED
    BY <2>1
<1> QED
  BY <1>2, <1>3, <1>4 DEF GraphLeaf

\* What a load hands out, when it is done.
LEMMA ReadyGivesStored ==
    ASSUME AllOK, loader = "ready"
    PROVE  L!LoadedValue = IF archive.obj = NULL THEN <<"null">> ELSE SourceValue
<1>1. CASE archive.obj # NULL
  BY <1>1, ReadyGivesSource
<1>2. CASE archive.obj = NULL
  <2>1. /\ DumpOK /\ ValuesOK /\ mem = archive /\ base \in LoadBases
        /\ archive \in Archives /\ env \in Environments /\ HeapOrdered
    BY <1>2 DEF AllOK, LoadedOK, DumpOK, MoveOK, ArchiveOK, ValuesOK, Layout
  <2>2. HeapGrounded(archive, base)
    <3>1. CASE base = DumpBase
      <4>1. \A s \in Slots(archive) :
                s # Root /\ GetSlot(archive, s) \in Branch(archive, base)
                => GetSlot(archive, s) > s[1]
        BY <2>1, <3>1 DEF HeapOrdered, Containing
      <4> QED
        BY <2>1, <4>1, OrderedSlots
    <3>2. CASE base # DumpBase
      <4>1. ASSUME NEW a \in Addresses(archive) PROVE a \notin Branch(archive, base)
        <5>1. PICK ty \in {"atom", "str", "tuple", "code"} :
                  archive.heap[a].type = TypeAddr(DumpBase, ty)
          BY <2>1 DEF ValuesOK, Typed, HeapTypes
        <5>2. TypeOf(base, TypeAddr(DumpBase, ty)) = "unknown"
          BY <2>1, <3>2, TypesMoved
        <5> QED
          BY <5>1, <5>2 DEF Branch
      <4>2. \A p : p \notin Branch(archive, base)
        BY <4>1 DEF Branch
      <4> QED
        BY <2>1, <4>2, OrderedIsGrounded
    <3> QED
      BY <3>1, <3>2
  <2>3. NULL \in Int /\ NULL \notin Addresses(archive)
    BY DEF NULL, Addresses
  <2>4. Value(archive, base, NULL) = LeafValue(archive, base, NULL)
    BY <2>1, <2>2, <2>3, ValueIs DEF Branch
  <2>5. LeafValue(archive, base, NULL) = <<"null">>
    <3>1. base \in Nat /\ Span \in Nat
      BY <2>1, LoadBaseIs
    <3> QED
      BY <2>3, <3>1 DEF LeafValue, OutOfHeapValue, NULL
  <2> QED
    BY <1>2, <2>1, <2>4, <2>5, SameMeaning DEF L!LoadedValue
<1> QED
  BY <1>1, <1>2

\* What the root refers to is not taken away again.
LEMMA RootStays ==
    ASSUME AllOK, NextDump, archive.obj # NULL
    PROVE  archive'.obj = archive.obj
<1>1. /\ archive \in Archives /\ ~ traverse_error
      /\ stack # <<>> => obj.kind = "str" /\ top.res # NULL /\ top.res \in Int
  <2>1. /\ archive \in Archives /\ ~ traverse_error
        /\ stack # <<>> => IsString(top) /\ top.res # NULL
    BY DEF AllOK, DumpOK, MoveOK, ArchiveOK, ValuesOK, Rooted
  <2>2. stack # <<>> => top.res \in Int
    <3> SUFFICES ASSUME stack # <<>> PROVE top.res \in Int
      OBVIOUS
    <3>1. top \in Frames
      BY HeadTailProperties DEF AllOK, DumpOK, MoveOK, StackOK, top
    <3> QED
      BY <3>1 DEF Frames
  <2> QED
    BY <2>1, <2>2 DEF IsString, obj
<1>2. CASE ListString
  <2> DEFINE m == Pinned(archive, top.res)
             list == [str |-> top.res, refs |-> <<>>]
  <2>1. m \in Archives /\ m.obj = archive.obj
    BY <1>1, <1>2, CountedIs DEF Pinned, ListString, Running
  <2>2. \/ archive' = archive
        \/ archive' = [m EXCEPT !.all_string_ref = Append(@, list), !.used = @ + 1]
    BY <1>2 DEF ListString
  <2> HIDE DEF m, list
  <2> QED
    BY <2>1, <2>2 DEF Archives
<1>3. CASE RecordString
  <2>1. \/ archive' = archive
        \/ archive' = [archive EXCEPT !.all_string_ref[top.list].refs = Linked(top.target, @),
                                      !.used = @ + 1]
    BY <1>3 DEF RecordString, Crash
  <2> QED
    BY <1>1, <2>1 DEF Archives
<1>4. CASE Return \/ Kill
  BY <1>4 DEF Return, Kill
<1>5. /\ ~ MoveReference /\ ~ MoveAtom /\ ~ MoveUnsupported /\ ~ MoveString /\ ~ MoveContainer
      /\ ~ Unwind
  BY <1>1 DEF MoveReference, MoveAtom, MoveUnsupported, MoveString, MoveContainer, Unwind,
              Entering, Running
<1>6. ~ MoveItem /\ ~ PublishContainer
  BY <1>1 DEF MoveItem, PublishContainer, Filling, Running, Containers
<1> QED
  BY <1>2, <1>3, <1>4, <1>5, <1>6 DEF NextDump, Move

\* When a dump ends, the archive stays what it is.
LEMMA DumpEnds ==
    ASSUME NextDump
    PROVE  \/ dumper' = "running"
           \/ dumper' \in {"crashed", "killed"} /\ archive' = archive
           \/ Return
<1>0. dumper = "running"
  BY RunningDumps
<1>1. CASE MoveReference
  BY <1>0, <1>1 DEF MoveReference
<1>2. CASE MoveAtom
  BY <1>0, <1>2 DEF MoveAtom, Crash
<1>3. CASE MoveUnsupported
  BY <1>0, <1>3 DEF MoveUnsupported
<1>4. CASE Unwind
  BY <1>0, <1>4 DEF Unwind
<1>5. CASE MoveString
  BY <1>0, <1>5 DEF MoveString, ReferToStatic
<1>6. CASE ListString
  BY <1>0, <1>6 DEF ListString
<1>7. CASE RecordString
  BY <1>0, <1>7 DEF RecordString, Crash
<1>8. CASE MoveContainer
  BY <1>0, <1>8 DEF MoveContainer, Crash
<1>9. CASE MoveItem
  BY <1>0, <1>9 DEF MoveItem
<1>10. CASE PublishContainer
  BY <1>0, <1>10 DEF PublishContainer
<1>11. CASE Kill
  BY <1>11 DEF Kill
<1> QED
  BY <1>1, <1>2, <1>3, <1>4, <1>5, <1>6, <1>7, <1>8, <1>9, <1>10, <1>11 DEF NextDump, Move

\* The store, the outcome and the loaded object of a state.
InStore == IF archive.obj = NULL THEN <<"null">> ELSE SourceValue

HandedOut == IF loader = "ready" THEN L!LoadedValue ELSE <<"null">>

StoreOK == /\ StoredValue = InStore
           /\ HandedOut = IF loader = "ready" THEN InStore ELSE <<"null">>

LEMMA StoreInvariant == Spec => [](AllOK /\ StoreOK)
<1>1. AllOK => StoreOK
  <2> SUFFICES ASSUME AllOK PROVE StoreOK
    OBVIOUS
  <2>1. StoredValue = InStore
    BY DEF AllOK, ValuesOK, Published, StoredValue, InStore
  <2>2. loader = "ready" => L!LoadedValue = InStore
    BY ReadyGivesStored DEF InStore
  <2> QED
    BY <2>1, <2>2 DEF HandedOut, StoreOK
<1> QED
  BY <1>1, RoundTripInvariant, PTL

\* What a step does to the store.
LEMMA StoreMoves ==
    ASSUME AllOK, StoreOK, StoreOK', [Next]_vars, SourceValue' = SourceValue
    PROVE  \/ UNCHANGED <<InStore, Outcome, HandedOut>>
           \/ /\ Outcome = "pending" /\ InStore = <<"null">> /\ InStore' = SourceValue
              /\ UNCHANGED <<Outcome, HandedOut>>
           \/ /\ Outcome = "pending"
              /\ Outcome' = IF InStore = <<"null">> THEN "error" ELSE "ok"
              /\ UNCHANGED <<InStore, HandedOut>>
           \/ /\ Outcome = "pending" /\ Outcome' = "dead" /\ UNCHANGED <<InStore, HandedOut>>
           \/ /\ Outcome # "pending" /\ HandedOut = <<"null">> /\ HandedOut' = InStore
              /\ UNCHANGED <<InStore, Outcome>>
           \/ HandedOut' = <<"null">> /\ UNCHANGED <<InStore, Outcome>>
<1>1. HandedOut = IF loader = "ready" THEN InStore ELSE <<"null">>
  BY DEF StoreOK
<1>2. HandedOut' = IF loader' = "ready" THEN InStore' ELSE <<"null">>
  BY DEF StoreOK
<1>3. SourceValue # <<"null">>
  BY SourceIsObject
<1>4. CASE Dump
  <2>1. NextDump /\ dumper = "running" /\ loader = "absent" /\ loader' = "absent"
    BY <1>4, RunningDumps DEF Dump, loadVars, AllOK, LoadOK
  <2>2. Outcome = "pending" /\ HandedOut = <<"null">> /\ HandedOut' = <<"null">>
    BY <1>1, <1>2, <2>1 DEF Outcome
  <2>3. CASE dumper' = "running"
    <3>1. Outcome' = "pending"
      BY <2>3 DEF Outcome
    <3>2. InStore' = InStore \/ (InStore = <<"null">> /\ InStore' = SourceValue)
      BY <2>1, RootStays DEF InStore
    <3> QED
      BY <2>2, <3>1, <3>2
  <2>4. CASE dumper' \in {"crashed", "killed"} /\ archive' = archive
    <3>1. Outcome' = "dead"
      BY <2>4 DEF Outcome
    <3> QED
      BY <2>2, <2>4, <3>1 DEF InStore
  <2>5. CASE Return
    <3>1. /\ stack = <<>> /\ dumper' = "returned" /\ archive' = archive
          /\ traverse_error' = traverse_error
      BY <2>5 DEF Return
    <3>2. traverse_error <=> archive.obj = NULL
      BY <3>1 DEF AllOK, ValuesOK, Rooted
    <3>3. Outcome' = IF InStore = <<"null">> THEN "error" ELSE "ok"
      BY <1>3, <3>1, <3>2 DEF Outcome, InStore
    <3> QED
      BY <2>2, <3>1, <3>3 DEF InStore
  <2> QED
    BY <2>1, <2>3, <2>4, <2>5, DumpEnds
<1>5. CASE UNCHANGED dumpVars /\ (dumper # "running" \/ UNCHANGED loader)
  <2>1. UNCHANGED <<InStore, Outcome>>
    BY <1>5 DEF dumpVars, InStore, Outcome
  <2>2. CASE loader' # "ready"
    BY <1>2, <2>1, <2>2
  <2>3. CASE loader' = "ready" /\ loader = "ready"
    BY <1>1, <1>2, <2>1, <2>3
  <2>4. CASE loader' = "ready" /\ loader # "ready"
    <3>1. dumper # "running"
      BY <1>5, <2>4
    <3>2. Outcome # "pending"
      BY <3>1 DEF Outcome
    <3> QED
      BY <1>1, <1>2, <2>1, <2>4, <3>2
  <2> QED
    BY <2>2, <2>3, <2>4
<1>6. UNCHANGED vars => UNCHANGED dumpVars /\ UNCHANGED loader
  BY DEF vars, loadVars
<1> QED
  BY <1>4, <1>5, <1>6 DEF Next, Load

\* ImplementsStore: store by store, dumping and loading do what ArchiveStore
\* promises of an archive.
THEOREM ArchiveIsAStore == Spec => ImplementsStore
<1>1. Init => Store!Init
  <2> SUFFICES ASSUME Init PROVE Store!Init
    OBVIOUS
  <2>1. PICK g \in Graphs : src = g.src /\ root = g.root
    BY DEF Init, InitDump
  <2>2. archive.obj = NULL /\ dumper = "running" /\ loader = "absent"
    BY DEF Init, InitDump, EmptyArchive, L!InitLoad
  <2>3. SourceValue \in {GraphValue(h.src, h.root) : h \in Graphs}
    BY <2>1 DEF SourceValue
  <2>4. StoredValue = <<"null">> /\ Outcome = "pending"
    BY <2>2 DEF StoredValue, Outcome
  <2> QED
    BY <2>2, <2>3, <2>4 DEF Store!Init
<1>2. AllOK /\ StoreOK /\ StoreOK' /\ [Next]_vars => [Store!Next]_(Store!vars)
  <2> SUFFICES ASSUME AllOK, StoreOK, StoreOK', [Next]_vars
               PROVE  [Store!Next]_(Store!vars)
    OBVIOUS
  <2>1. SourceValue' = SourceValue
    BY AllStep
  <2>2. StoredValue = InStore /\ StoredValue' = InStore'
    BY DEF StoreOK
  <2>3. \/ UNCHANGED <<StoredValue, Outcome, HandedOut>>
        \/ /\ Outcome = "pending" /\ StoredValue = <<"null">> /\ StoredValue' = SourceValue
           /\ UNCHANGED <<Outcome, HandedOut>>
        \/ /\ Outcome = "pending"
           /\ Outcome' = IF StoredValue = <<"null">> THEN "error" ELSE "ok"
           /\ UNCHANGED <<StoredValue, HandedOut>>
        \/ /\ Outcome = "pending" /\ Outcome' = "dead" /\ UNCHANGED <<StoredValue, HandedOut>>
        \/ /\ Outcome # "pending" /\ HandedOut = <<"null">> /\ HandedOut' = StoredValue
           /\ UNCHANGED <<StoredValue, Outcome>>
        \/ HandedOut' = <<"null">> /\ UNCHANGED <<StoredValue, Outcome>>
    BY <2>1, <2>2, StoreMoves
  <2> QED
    BY <2>1, <2>3 DEF Store!vars, Store!Next, Store!Publish, Store!Return, Store!Die,
                      Store!Load, Store!Exit, HandedOut
<1> QED
  BY <1>1, <1>2, StoreInvariant, PTL DEF Spec, ImplementsStore, Store!Spec

-----------------------------------------------------------------------------
(* References of a load: which string each list's slots refer to, and how   *)
(* many references each object has.                                         *)

\* Below, m is the loader's mapping, b its base, c its intern table, h the
\* references that its own strings got, and k the list to look at next.  A string
\* of the archive may become the interned one, but not one of IdStrs.
CanonOK(b, c) ==
    /\ DOMAIN c \subseteq 0..(Span - 1)
    /\ \A v \in DOMAIN c :
          /\ \/ c[v] = NULL
             \/ c[v] \in Addresses(archive)
             \/ c[v] = ProcessStr(b, v)
             \/ Py312 /\ v \in StaticStrs /\ c[v] = StaticStr(b, v)
          /\ Py312 /\ v \in IdStrs => c[v] = StaticStr(b, v)

\* Slots of the lists that are still to be looked at hold the archive's string,
\* which is not in the intern table.
AheadOK(m, c, k) ==
    \A j \in 1..k : \A a \in {Lists[j].str} :
        /\ m.heap[a].interned
        /\ c[archive.heap[a].val] \notin Addresses(archive)
        /\ \A s \in Slots(archive) : GetSlot(archive, s) = a => GetSlot(m, s) = a

\* Those of the lists that were looked at hold the interned string.
BehindOK(m, b, c, k) ==
    dumper = "returned" =>
        \A j \in (k + 1)..Len(Lists) : \A a \in {Lists[j].str} :
            \A s \in Slots(archive) :
                Opened(archive, m, b, s) /\ GetSlot(archive, s) = a =>
                    GetSlot(m, s) = c[archive.heap[a].val]

\* Every slot owns a reference to what it holds.
OwnedOK(m, b, c, h) ==
    PyMinor < 11 =>
        /\ \A a \in Addresses(archive) : m.heap[a].rc >= Cardinality(Holding(m, a))
        /\ h = [v \in DOMAIN c |-> Cardinality(Holding(m, ProcessStr(b, v)))]

RefsOK ==
    loader # "absent" =>
        /\ ~ TableMayFail => /\ CanonOK(base, canon) /\ AheadOK(mem, canon, cursor)
                             /\ BehindOK(mem, base, canon, cursor)
                             /\ OwnedOK(mem, base, canon, held)
        /\ loader = "patching" => cursor = Len(Lists)
        /\ loader = "ready" /\ archive.obj # NULL => cursor = 0

\* What a load does not write to.
LEMMA RefsStand ==
    ASSUME UNCHANGED <<env, dumpVars>>, NEW m, NEW b, NEW c, NEW h, NEW k,
           mem' = m, base' = b, canon' = c, held' = h, cursor' = k,
           ~ TableMayFail => /\ CanonOK(b, c) /\ AheadOK(m, c, k) /\ BehindOK(m, b, c, k)
                             /\ OwnedOK(m, b, c, h),
           loader' = "patching" => k = Len(Lists),
           loader' = "ready" /\ archive.obj # NULL => k = 0
    PROVE  RefsOK'
<1>1. UNCHANGED <<archive, dumper, Lists, Py312, TableMayFail, PyMinor>>
  BY ArchiveStands DEF TableMayFail, PyMinor
<1>2. CanonOK(b, c) => CanonOK(base, canon)'
  BY <1>1 DEF CanonOK
<1>3. AheadOK(m, c, k) => AheadOK(mem, canon, cursor)'
  BY <1>1 DEF AheadOK
<1>4. BehindOK(m, b, c, k) => BehindOK(mem, base, canon, cursor)'
  BY <1>1 DEF BehindOK, Opened, Patched
<1>5. OwnedOK(m, b, c, h) => OwnedOK(mem, base, canon, held)'
  BY <1>1 DEF OwnedOK
<1> QED
  BY <1>1, <1>2, <1>3, <1>4, <1>5 DEF RefsOK

\* Strings of two lists have different values.
LEMMA ListsDiffer ==
    ASSUME DumpOK, ~ TableMayFail, NEW j \in 1..Len(Lists), NEW k \in 1..Len(Lists),
           archive.heap[Lists[j].str].val = archive.heap[Lists[k].str].val
    PROVE  j = k
<1> DEFINE a == Lists[j].str
           b == Lists[k].str
<1>1. a \in HeapStrings /\ b \in HeapStrings
  BY DEF DumpOK, MoveOK, ArchiveOK
<1>2. orig_map[interned[archive.heap[a].val]] = a /\ orig_map[interned[archive.heap[b].val]] = b
  BY <1>1 DEF DumpOK, StringsOK, OneCopy
<1>3. a = b
  BY <1>2
<1>4. str_map[a] = j /\ str_map[b] = k
  BY DEF DumpOK, StringsOK, OneList
<1> QED
  BY <1>3, <1>4

\* Strings of an interpreter are near its base.
LEMMA StringsAreNear ==
    ASSUME DumpOK, NEW b \in LoadBases, NEW v \in 0..(Span - 1),
           NEW p \in {StaticStr(b, v), ProcessStr(b, v)}
    PROVE  /\ p \in Int /\ p >= b /\ p < b + Page /\ p # NULL /\ p \notin Addresses(archive)
           /\ OutOfHeapValue(b, p) = <<"str", v>>
<1>1. /\ ArchiveOK /\ archive \in Archives /\ env \in Environments
      /\ Len(archive.heap) <= HeapCells
  <2>1. /\ ArchiveOK /\ archive \in Archives /\ env \in Environments
        /\ Len(archive.heap) <= archive.used /\ archive.used <= HeapCells
    BY DEF DumpOK, MoveOK, ArchiveOK
  <2>2. Len(archive.heap) \in Nat /\ archive.used \in Nat /\ HeapCells \in Nat
    BY <2>1, ArchiveIs, LoadBaseIs
  <2> QED
    BY <2>1, <2>2
<1>2. b \in Nat /\ HeapCells \in Nat /\ HeapCells < b /\ Len(archive.heap) \in Nat
  BY <1>1, LoadBaseIs, ArchiveIs
<1>3. p \in Int /\ p >= b /\ OutOfHeapValue(b, p) = <<"str", v>>
  BY <1>2, InterpreterValues
<1>4. p < b + Page
  BY <1>2, <1>3, ValuedIsNear
<1>5. p # NULL /\ p \notin Addresses(archive)
  BY <1>1, <1>2, <1>3 DEF NULL, Addresses
<1> QED
  BY <1>3, <1>4, <1>5

\* Before 3.12 no slot of the archive refers to a string of an interpreter.
LEMMA NoStringOutside ==
    ASSUME DumpOK, Statics, ~ Py312, NEW b \in LoadBases, NEW v \in 0..(Span - 1),
           NEW s \in Slots(archive)
    PROVE  /\ GetSlot(archive, s) # ProcessStr(b, v)
           /\ GetSlot(archive, s) >= DumpBase =>
                  GetSlot(archive, s) + (b - DumpBase) # ProcessStr(b, v)
<1> DEFINE p == GetSlot(archive, s)
           q == ProcessStr(b, v)
<1>1. archive \in Archives /\ env \in Environments /\ Pointers
  BY DEF DumpOK, MoveOK, ArchiveOK, StringsOK
<1>2. /\ b \in Nat /\ DumpBase \in Nat /\ Page \in Nat
      /\ b = DumpBase \/ b - DumpBase >= Page \/ DumpBase - b >= Page
  BY <1>1, LoadBaseIs, LoadBasesAssumption DEF Page
<1>3. /\ q \in Int /\ q >= b /\ q < b + Page /\ q # NULL /\ q \notin Addresses(archive)
      /\ OutOfHeapValue(b, q) = <<"str", v>>
  BY StringsAreNear
<1>4. p \in Int /\ (p = NULL \/ p \in Addresses(archive) \/ p >= DumpBase) /\ Pointed(p)
  BY <1>1, SlotIs DEF Pointers, IsPointer, Statics
<1>5. ASSUME p >= DumpBase PROVE p < DumpBase + Page /\ OutOfHeapValue(DumpBase, p) # <<"str", v>>
  BY <1>4, <1>5 DEF Pointed
<1> HIDE DEF p, q
<1>6. ASSUME p >= DumpBase PROVE p + (b - DumpBase) # q
  <2>1. OutOfHeapValue(b, p + (b - DumpBase)) = OutOfHeapValue(DumpBase, p)
    BY <1>1, <1>4, <1>6, OutsideMoved
  <2> QED
    BY <1>3, <1>5, <1>6, <2>1
<1>7. p # q
  <2>1. CASE p >= DumpBase
    <3>1. CASE b = DumpBase
      BY <1>3, <1>5, <2>1, <3>1
    <3>2. CASE b # DumpBase
      BY <1>2, <1>3, <1>4, <1>5, <2>1, <3>2
    <3> QED
      BY <3>1, <3>2
  <2>2. CASE ~ (p >= DumpBase)
    BY <1>3, <1>4, <2>2
  <2> QED
    BY <2>1, <2>2
<1> QED
  BY <1>6, <1>7 DEF p, q

\* Recorded slots of m pass from its string a to p, which is not in m.
LEMMA StringReplaced ==
    ASSUME NEW m \in Archives, NEW a \in Addresses(m), NEW p \in Int, p \notin Addresses(m),
           NEW n \in Int, NEW refs,
           NEW w, w = L!Redirected(Counted(Counted([m EXCEPT !.heap[a].interned = FALSE], a, -n),
                                           p, n), refs, p)
    PROVE  /\ MemKept(m, w) /\ SameTypes(m, w)
           /\ \A c \in Addresses(m) :
                 /\ c # a => w.heap[c].interned = m.heap[c].interned
                 /\ w.heap[c].rc = IF c = a /\ ~ Py312 THEN m.heap[c].rc - n ELSE m.heap[c].rc
           /\ \A s \in Slots(m) :
                 GetSlot(w, s) = IF s \in ToSet(refs) THEN p ELSE GetSlot(m, s)
<1> DEFINE open == [m EXCEPT !.heap[a].interned = FALSE]
           k == -n
           less == Counted(open, a, k)
           more == Counted(less, p, n)
<1>1. /\ MemKept(m, open) /\ SameCounts(m, open) /\ open \in Archives
      /\ SameTypes(m, open) /\ SameSlots(m, open) /\ Addresses(open) = Addresses(m)
      /\ Slots(open) = Slots(m)
      /\ \A c \in Addresses(m) : c # a => open.heap[c].interned = m.heap[c].interned
  <2>1. SameTypes(m, open) /\ SameSlots(m, open)
    BY TypesOpened
  <2>2. /\ MemKept(m, open) /\ SameCounts(m, open)
        /\ \A c \in Addresses(m) : c # a => open.heap[c].interned = m.heap[c].interned
    BY OpenedKeeps
  <2> HIDE DEF open
  <2> QED
    BY <2>1, <2>2 DEF MemKept, Addresses
<1>2. a \in Int /\ k \in Int
  BY ArchiveIs
<1> HIDE DEF open, k
<1>3. /\ MemKept(open, less) /\ SameFlags(open, less) /\ less \in Archives
      /\ SameTypes(open, less) /\ SameSlots(open, less) /\ Slots(less) = Slots(open)
      /\ Addresses(less) = Addresses(open)
      /\ \A c \in Addresses(open) :
            less.heap[c].rc = IF c = a /\ ~ Py312 THEN open.heap[c].rc + k ELSE open.heap[c].rc
  BY <1>1, <1>2, CountedKeeps, TypesCounted
<1> HIDE DEF less
<1>4. /\ MemKept(less, more) /\ SameFlags(less, more) /\ more \in Archives
      /\ SameTypes(less, more) /\ SameSlots(less, more) /\ Slots(more) = Slots(less)
      /\ Addresses(more) = Addresses(less)
      /\ \A c \in Addresses(less) :
            more.heap[c].rc = IF c = p /\ ~ Py312 THEN less.heap[c].rc + n ELSE less.heap[c].rc
  BY <1>3, CountedKeeps, TypesCounted
<1>5. w = L!Redirected(more, refs, p)
  BY DEF open, k, less
<1> HIDE DEF more
<1>6. /\ MemKept(more, w) /\ SameFlags(more, w) /\ SameCounts(more, w) /\ SameTypes(more, w)
      /\ \A s \in Slots(more) :
            GetSlot(w, s) = IF s \in ToSet(refs) THEN p ELSE GetSlot(more, s)
  <2>1. MemKept(more, w) /\ SameFlags(more, w) /\ SameCounts(more, w)
    BY <1>4, <1>5, RedirectedKeeps
  <2>2. /\ SameTypes(more, w)
        /\ \A s \in Slots(more) :
              GetSlot(w, s) = IF s \in ToSet(refs) THEN p ELSE GetSlot(more, s)
    <3>1. more \in Archives /\ p \in Int
      BY <1>4
    <3>2. /\ SameTypes(more, L!Redirected(more, refs, p))
          /\ \A s \in Slots(more) : GetSlot(L!Redirected(more, refs, p), s)
                = IF s \in ToSet(refs) THEN p ELSE GetSlot(more, s)
      BY ONLY <3>1, TypesRedirected
    <3> QED
      BY ONLY <1>5, <3>2
  <2> QED
    BY <2>1, <2>2
<1>7. MemKept(m, w)
  <2>1. MemKept(m, less)
    BY <1>1, <1>3, KeptTwice
  <2>2. MemKept(m, more)
    BY <1>4, <2>1, KeptTwice
  <2> QED
    BY <1>6, <2>2, KeptTwice
<1>8. SameTypes(m, w)
  <2>1. SameTypes(m, less)
    BY <1>1, <1>3, TypesTwice
  <2>2. SameTypes(m, more)
    BY <1>1, <1>3, <1>4, <2>1, TypesTwice
  <2> QED
    BY <1>1, <1>3, <1>4, <1>6, <2>2, TypesTwice
<1>9. ASSUME NEW c \in Addresses(m)
      PROVE  /\ c # a => w.heap[c].interned = m.heap[c].interned
             /\ w.heap[c].rc = IF c = a /\ ~ Py312 THEN m.heap[c].rc - n ELSE m.heap[c].rc
  <2>1. /\ c \in Addresses(open) /\ c \in Addresses(less) /\ c \in Addresses(more) /\ c # p
    BY <1>1, <1>3, <1>4
  <2>2. c # a => w.heap[c].interned = m.heap[c].interned
    BY <1>1, <1>3, <1>4, <1>6, <2>1 DEF SameFlags
  <2>3. w.heap[c].rc = less.heap[c].rc /\ open.heap[c].rc = m.heap[c].rc
    BY <1>1, <1>4, <1>6, <2>1 DEF SameCounts
  <2>4. m.heap[c].rc \in Int
    BY ArchiveIs
  <2> QED
    BY <1>3, <2>1, <2>2, <2>3, <2>4 DEF k
<1>10. ASSUME NEW s \in Slots(m)
       PROVE  GetSlot(w, s) = IF s \in ToSet(refs) THEN p ELSE GetSlot(m, s)
  <2>1. s \in Slots(open) /\ s \in Slots(less) /\ s \in Slots(more)
    BY <1>1, <1>3, <1>4
  <2>2. GetSlot(more, s) = GetSlot(m, s)
    BY <1>1, <1>3, <1>4, <2>1 DEF SameSlots
  <2> QED
    BY <1>6, <2>1, <2>2
<1> QED
  BY <1>7, <1>8, <1>9, <1>10

\* The file itself: nothing is interned yet.
LEMMA FileRefs ==
    ASSUME DumpOK, ValuesOK, ~ TableMayFail, NEW b \in LoadBases, NEW own \in InternTables,
           NEW statics \in SUBSET ListedStrs, DOMAIN interned \subseteq DOMAIN own,
           NEW c, c = L!InternTable(b, own, statics), NEW h, h = [v \in DOMAIN own |-> 0]
    PROVE  /\ CanonOK(b, c) /\ AheadOK(archive, c, Len(Lists))
           /\ BehindOK(archive, b, c, Len(Lists)) /\ OwnedOK(archive, b, c, h)
<1>1. /\ archive \in Archives /\ ArchiveOK /\ CountsOK /\ Len(Lists) \in Nat
  BY ArchiveIs DEF DumpOK, MoveOK, ArchiveOK, Lists
<1>2. DOMAIN own \subseteq 0..(Span - 1)
  BY InternTablesAssumption
<1>3. c = [v \in DOMAIN own |-> IF Py312 /\ v \in IdStrs \cup statics THEN StaticStr(b, v)
                                ELSE IF own[v] THEN ProcessStr(b, v) ELSE NULL]
  BY SameMemory DEF L!InternTable, L!StaticStr, L!ProcessStr, StaticStr, ProcessStr
<1>4. CanonOK(b, c)
  BY <1>2, <1>3 DEF CanonOK, StaticStrs
<1>5. \A v \in DOMAIN own : c[v] \notin Addresses(archive)
  <2> SUFFICES ASSUME NEW v \in DOMAIN own PROVE c[v] \notin Addresses(archive)
    OBVIOUS
  <2>1. v \in 0..(Span - 1) /\ c[v] \in {StaticStr(b, v), ProcessStr(b, v), NULL}
    BY <1>2, <1>3
  <2>2. \A a \in Addresses(archive) : a # NULL
    BY <1>1, ArchiveIs DEF NULL
  <2> QED
    BY <2>1, <2>2, StringsAreNear
<1>6. AheadOK(archive, c, Len(Lists))
  <2> SUFFICES ASSUME NEW j \in 1..Len(Lists), NEW a \in {Lists[j].str}
               PROVE  /\ archive.heap[a].interned
                      /\ c[archive.heap[a].val] \notin Addresses(archive)
    BY DEF AheadOK
  <2>1. a \in HeapStrings
    BY <1>1 DEF ArchiveOK
  <2>2. archive.heap[a].interned
    BY <2>1 DEF ValuesOK, Typed, HeapStrings, Addresses
  <2>3. archive.heap[a].val \in DOMAIN own
    BY <1>1, <2>1 DEF CountsOK
  <2> QED
    BY <1>5, <2>2, <2>3
<1>7. BehindOK(archive, b, c, Len(Lists))
  BY <1>1 DEF BehindOK
<1>8. ASSUME PyMinor < 11, NEW a \in Addresses(archive)
      PROVE  archive.heap[a].rc >= Cardinality(Holding(archive, a))
  <2> DEFINE H == Holding(archive, a)
             n == Cardinality(H)
  <2>1. IsFiniteSet(H) /\ n \in Nat
    BY <1>1, HoldingFinite
  <2>2. ~ Py312
    BY <1>1, <1>8, EnvironmentsAssumption DEF Py312, PyMinor, ArchiveOK
  <2>3. CASE a \in HeapStrings
    BY <2>2, <2>3 DEF ValuesOK, SlotsCounted
  <2>4. CASE a \notin HeapStrings
    <3>1. \A s, t \in H : s = t
      BY <1>8, <2>4 DEF ValuesOK, Unshared, Holding
    <3> HIDE DEF H
    <3>2. n <= 1
      <4>1. CASE H = {}
        BY <4>1, FS_EmptySet
      <4>2. CASE H # {}
        <5>1. PICK s \in H : TRUE
          BY <4>2
        <5>2. H = {s}
          BY <3>1, <5>1
        <5>3. Cardinality({s}) = 1
          BY FS_Singleton
        <5> QED
          BY <5>2, <5>3
      <4> QED
        BY <4>1, <4>2
    <3> HIDE DEF n
    <3>3. archive.heap[a].rc >= 1 /\ archive.heap[a].rc \in Int
      BY <1>1, <1>8, ArchiveIs DEF CountsOK
    <3>4. archive.heap[a].rc >= n
      BY <2>1, <3>2, <3>3
    <3> QED
      BY <3>4 DEF n, H
  <2> QED
    BY <2>3, <2>4
<1>9. ASSUME PyMinor < 11, NEW v \in DOMAIN own
      PROVE  Cardinality(Holding(archive, ProcessStr(b, v))) = 0
  <2>1. ~ Py312 /\ v \in 0..(Span - 1)
    BY <1>1, <1>2, <1>9, EnvironmentsAssumption DEF Py312, PyMinor, ArchiveOK
  <2>2. Holding(archive, ProcessStr(b, v)) = {}
    BY <2>1, NoStringOutside DEF Holding, ValuesOK
  <2> QED
    BY <2>2, FS_EmptySet
<1>10. OwnedOK(archive, b, c, h)
  BY <1>3, <1>8, <1>9 DEF OwnedOK
<1> QED
  BY <1>4, <1>6, <1>7, <1>10

LEMMA MapRefs ==
    ASSUME DumpOK, ValuesOK, LoadOK, UNCHANGED <<env, dumpVars>>, L!Map
    PROVE  RefsOK'
<1>1. PICK b \in LoadBases, own \in InternTables, statics \in SUBSET ListedStrs :
          /\ base' = b /\ canon' = L!InternTable(b, own, statics) /\ held' = [v \in DOMAIN own |-> 0]
          /\ mem' = archive /\ cursor' = Len(Lists)
          /\ loader' = "ready" => archive.obj = NULL
  BY SameMemory DEF L!Map, Lists
<1>2. DOMAIN interned \subseteq DOMAIN own
  BY DEF LoadOK
<1>3. ~ TableMayFail =>
          /\ CanonOK(b, canon') /\ AheadOK(archive, canon', Len(Lists))
          /\ BehindOK(archive, b, canon', Len(Lists)) /\ OwnedOK(archive, b, canon', held')
  BY <1>1, <1>2, FileRefs
<1> QED
  BY <1>1, <1>3, RefsStand

LEMMA EndsRefs ==
    ASSUME LoadedOK, RefsOK, UNCHANGED <<env, dumpVars>>, L!PatchEnd \/ L!InternEnd
    PROVE  RefsOK'
<1>1. /\ loader \in {"patching", "interning"} /\ ~ load_error
      /\ UNCHANGED <<mem, base, canon, held, cursor>>
      /\ loader' = "ready" => cursor = 0
      /\ loader' # "patching"
  BY DEF L!PatchEnd, L!InternEnd, LoadedOK
<1>2. /\ ~ TableMayFail => /\ CanonOK(base, canon) /\ AheadOK(mem, canon, cursor)
                           /\ BehindOK(mem, base, canon, cursor)
                           /\ OwnedOK(mem, base, canon, held)
  BY <1>1 DEF RefsOK
<1> QED
  BY <1>1, <1>2, RefsStand

\* A step of the patch moves one slot that refers to the dumping interpreter.
LEMMA PatchRefs ==
    ASSUME DumpOK, ValuesOK, LoadOK, LoadedOK, RefsOK, UNCHANGED <<env, dumpVars>>, L!Patch
    PROVE  RefsOK'
<1>1. loader = "patching" /\ UNCHANGED <<base, canon, held, cursor, loader>>
  BY DEF L!Patch
<1>2. /\ MemOK /\ mem \in Archives /\ archive \in Archives /\ env \in Environments
      /\ Addresses(mem) = Addresses(archive) /\ Pointers
  BY <1>1 DEF LoadOK, MemOK, DumpOK, MoveOK, ArchiveOK, StringsOK
<1>3. /\ mem.none_base = DumpBase /\ base \in LoadBases /\ Slots(mem) = Slots(archive)
      /\ Unvisited(archive, mem, base, ToSet(todo)) /\ cursor = Len(Lists)
  BY <1>1 DEF LoadedOK, RefsOK
<1> SUFFICES ASSUME ~ TableMayFail
             PROVE  /\ CanonOK(base, canon) /\ AheadOK(mem', canon, cursor)
                    /\ BehindOK(mem', base, canon, cursor) /\ OwnedOK(mem', base, canon, held)
  BY <1>1, <1>3, RefsStand
<1>4. /\ CanonOK(base, canon) /\ AheadOK(mem, canon, cursor) /\ OwnedOK(mem, base, canon, held)
  BY <1>1 DEF RefsOK
<1>5. /\ MemKept(mem, mem') /\ SameFlags(mem, mem') /\ SameCounts(mem, mem')
      /\ \/ SameSlots(mem, mem')
         \/ LET s == Head(todo)
                p == GetSlot(mem, s)
            IN  /\ s \in Slots(mem) /\ p # NULL /\ p \notin Addresses(mem)
                /\ \A r \in Slots(mem) :
                      GetSlot(mem', r) = IF r = s THEN p + L!shift ELSE GetSlot(mem, r)
  BY <1>2, PatchKeeps
\* A slot keeps what it holds, or held and holds something of an interpreter.
<1>6. ASSUME NEW r \in Slots(archive), GetSlot(mem', r) # GetSlot(mem, r)
      PROVE  /\ GetSlot(mem, r) = GetSlot(archive, r) /\ GetSlot(archive, r) >= DumpBase
             /\ GetSlot(archive, r) \notin Addresses(archive)
             /\ GetSlot(mem', r) = GetSlot(archive, r) + (base - DumpBase)
  <2>1. /\ r = Head(todo) /\ GetSlot(mem, r) # NULL /\ GetSlot(mem, r) \notin Addresses(mem)
        /\ GetSlot(mem', r) = GetSlot(mem, r) + L!shift
    BY <1>3, <1>5, <1>6 DEF SameSlots
  <2>2. r \in ToSet(todo)
    <3>1. todo # <<>> /\ todo \in Seq(Slots(mem))
      BY <1>2 DEF L!Patch, MemOK
    <3>2. Head(todo) = todo[1] /\ 1 \in DOMAIN todo
      BY <3>1
    <3> QED
      BY <2>1, <3>2 DEF ToSet
  <2>3. GetSlot(mem, r) = GetSlot(archive, r)
    BY <1>3, <1>6, <2>2 DEF Unvisited, Visited
  <2>4. L!shift = base - DumpBase
    BY <1>3 DEF L!shift
  <2>5. GetSlot(archive, r) >= DumpBase
    BY <1>2, <1>6, <2>1, <2>3 DEF Pointers, IsPointer
  <2> QED
    BY <1>2, <2>1, <2>3, <2>4, <2>5
<1>7. AheadOK(mem', canon, cursor)
  <2> SUFFICES ASSUME NEW j \in 1..cursor, NEW a \in {Lists[j].str}
               PROVE  /\ mem'.heap[a].interned
                      /\ canon[archive.heap[a].val] \notin Addresses(archive)
                      /\ \A s \in Slots(archive) :
                            GetSlot(archive, s) = a => GetSlot(mem', s) = a
    BY DEF AheadOK
  <2>1. a \in Addresses(archive)
    BY <1>3, HeapStringIs DEF DumpOK, MoveOK, ArchiveOK
  <2>2. mem'.heap[a].interned
    BY <1>2, <1>4, <1>5, <2>1 DEF AheadOK, SameFlags
  <2> QED
    BY <1>4, <1>6, <2>1, <2>2 DEF AheadOK
<1>8. BehindOK(mem', base, canon, cursor)
  <2>1. Len(Lists) \in Nat
    BY <1>2, ArchiveIs DEF Lists
  <2> QED
    BY <1>3, <2>1 DEF BehindOK
<1>9. ASSUME PyMinor < 11
      PROVE  /\ \A a \in Addresses(archive) : Holding(mem', a) = Holding(mem, a)
             /\ \A v \in DOMAIN canon :
                   Holding(mem', ProcessStr(base, v)) = Holding(mem, ProcessStr(base, v))
  <2>1. ~ Py312
    BY <1>2, <1>9, EnvironmentsAssumption DEF Py312, PyMinor
  <2>2. Slots(mem') = Slots(archive)
    BY <1>3, <1>5 DEF MemKept
  <2>3. ASSUME NEW q, \A r \in Slots(archive) :
                   GetSlot(archive, r) >= DumpBase /\ GetSlot(archive, r) \notin Addresses(archive)
                   => q # GetSlot(archive, r) /\ q # GetSlot(archive, r) + (base - DumpBase)
        PROVE  Holding(mem', q) = Holding(mem, q)
    BY <1>3, <1>6, <2>2, <2>3 DEF Holding
  <2>4. ASSUME NEW a \in Addresses(archive), NEW r \in Slots(archive),
               GetSlot(archive, r) >= DumpBase, GetSlot(archive, r) \notin Addresses(archive)
        PROVE  a # GetSlot(archive, r) /\ a # GetSlot(archive, r) + (base - DumpBase)
    <3> DEFINE p == GetSlot(archive, r)
    <3>1. p \in Int
      BY <1>2, SlotIs
    <3>2. p + (base - DumpBase) \in Int /\ p + (base - DumpBase) >= base
      BY <1>2, <1>3, <2>4, <3>1, OutsideMoved
    <3>3. /\ base \in Nat /\ HeapCells \in Nat /\ HeapCells < base
          /\ Len(archive.heap) \in Nat /\ Len(archive.heap) <= HeapCells
      <4>1. /\ archive.used \in Nat /\ Len(archive.heap) <= archive.used
            /\ archive.used <= HeapCells /\ Len(archive.heap) \in Nat
        BY <1>2, ArchiveIs DEF DumpOK, MoveOK, ArchiveOK
      <4> QED
        BY <1>2, <1>3, <4>1, LoadBaseIs
    <3> HIDE DEF p
    <3>4. a # p + (base - DumpBase)
      BY <3>2, <3>3 DEF Addresses
    <3> QED
      BY <2>4, <3>4 DEF p
  <2>5. ASSUME NEW v \in DOMAIN canon, NEW r \in Slots(archive),
               GetSlot(archive, r) >= DumpBase, GetSlot(archive, r) \notin Addresses(archive)
        PROVE  /\ ProcessStr(base, v) # GetSlot(archive, r)
               /\ ProcessStr(base, v) # GetSlot(archive, r) + (base - DumpBase)
    <3>1. v \in 0..(Span - 1)
      BY <1>4 DEF CanonOK
    <3> QED
      BY <1>3, <2>1, <2>5, <3>1, NoStringOutside DEF ValuesOK
  <2> QED
    BY <2>3, <2>4, <2>5
<1>10. OwnedOK(mem', base, canon, held)
  <2> SUFFICES ASSUME PyMinor < 11
               PROVE  /\ \A a \in Addresses(archive) :
                            mem'.heap[a].rc >= Cardinality(Holding(mem', a))
                      /\ held = [v \in DOMAIN canon |->
                                    Cardinality(Holding(mem', ProcessStr(base, v)))]
    BY DEF OwnedOK
  <2>1. \A a \in Addresses(archive) : mem'.heap[a].rc = mem.heap[a].rc
    BY <1>2, <1>5 DEF SameCounts
  <2> QED
    BY <1>4, <1>9, <2>1 DEF OwnedOK
<1> QED
  BY <1>4, <1>7, <1>8, <1>10

\* Slots that hold a pass to p.
LEMMA SlotsPass ==
    ASSUME NEW m \in Archives, NEW w \in Archives, Slots(w) = Slots(m), NEW a, NEW p, a # p,
           NEW R, R \subseteq Holding(m, a),
           \A s \in Slots(m) : GetSlot(w, s) = IF s \in R THEN p ELSE GetSlot(m, s)
    PROVE  /\ Cardinality(R) \in Nat
           /\ Cardinality(Holding(w, a)) = Cardinality(Holding(m, a)) - Cardinality(R)
           /\ Cardinality(Holding(w, p)) = Cardinality(Holding(m, p)) + Cardinality(R)
           /\ \A q : q \notin {a, p} => Holding(w, q) = Holding(m, q)
<1>1. /\ Holding(w, a) = Holding(m, a) \ R /\ Holding(w, p) = Holding(m, p) \cup R
      /\ Holding(m, p) \cap R = {} /\ Holding(m, a) \cap R = R
      /\ \A q : q \notin {a, p} => Holding(w, q) = Holding(m, q)
  BY DEF Holding
<1> DEFINE A == Holding(m, a)
           P == Holding(m, p)
<1>2. IsFiniteSet(A) /\ IsFiniteSet(P) /\ Cardinality(A) \in Nat /\ Cardinality(P) \in Nat
  BY HoldingFinite
<1>3. R \subseteq A
  OBVIOUS
<1> HIDE DEF A, P
<1>4. IsFiniteSet(R)
  BY <1>2, <1>3, FS_Subset
<1>5. Cardinality(R) \in Nat
  BY <1>4, FS_CardinalityType
<1>6. A \cap R = R /\ P \cap R = {}
  BY <1>1 DEF A, P
<1>7. Cardinality(A \ R) = Cardinality(A) - Cardinality(A \cap R)
  BY <1>2, FS_Difference
<1>8. Cardinality(P \cup R) = Cardinality(P) + Cardinality(R) - Cardinality(P \cap R)
  BY <1>2, <1>4, FS_Union
<1>9. Cardinality({}) = 0
  BY FS_EmptySet
<1>10. /\ Cardinality(Holding(w, a)) = Cardinality(A \ R)
       /\ Cardinality(Holding(w, p)) = Cardinality(P \cup R)
  BY <1>1 DEF A, P
<1> DEFINE ca == Cardinality(A)
           cp == Cardinality(P)
           cr == Cardinality(R)
<1>11. /\ Cardinality(Holding(w, a)) = ca - cr
       /\ Cardinality(Holding(w, p)) = cp + cr - 0
  BY <1>6, <1>7, <1>8, <1>9, <1>10
<1>12. cp \in Nat /\ cr \in Nat
  BY <1>2, <1>5
<1> HIDE DEF ca, cp, cr
<1>13. cp + cr - 0 = cp + cr
  BY <1>12
<1> QED
  BY <1>1, <1>5, <1>11, <1>13 DEF ca, cp, cr, A, P

\* The strings of the other lists stay as they were.
LEMMA OthersStand ==
    ASSUME DumpOK, ~ TableMayFail, NEW k \in 1..Len(Lists), NEW b \in LoadBases,
           NEW x, x = Lists[k].str, NEW v, v = archive.heap[x].val,
           NEW m, NEW w, NEW c, NEW d, SameTypes(m, w), Addresses(m) = Addresses(archive),
           AheadOK(m, c, k), BehindOK(m, b, c, k),
           \A a \in Addresses(archive) : a # x => w.heap[a].interned = m.heap[a].interned,
           \A s \in Slots(archive) : GetSlot(archive, s) # x => GetSlot(w, s) = GetSlot(m, s),
           \A u : u # v => d[u] = c[u],
           dumper = "returned" =>
               \A s \in Slots(archive) :
                   Opened(archive, m, b, s) /\ GetSlot(archive, s) = x => GetSlot(w, s) = d[v]
    PROVE  AheadOK(w, d, k - 1) /\ BehindOK(w, b, d, k - 1)
<1>1. /\ archive \in Archives /\ ArchiveOK /\ Len(Lists) \in Nat
  BY ArchiveIs DEF DumpOK, MoveOK, ArchiveOK, Lists
<1>2. ASSUME NEW j \in 1..Len(Lists), j # k, NEW a \in {Lists[j].str}
      PROVE  a \in Addresses(archive) /\ archive.heap[a].val # v /\ a # x
  <2>1. archive.heap[a].val # v
    BY <1>2, ListsDiffer
  <2> QED
    BY <1>1, <2>1, HeapStringIs DEF ArchiveOK
<1>3. AheadOK(w, d, k - 1)
  <2> SUFFICES ASSUME NEW j \in 1..(k - 1), NEW a \in {Lists[j].str}
               PROVE  /\ w.heap[a].interned /\ d[archive.heap[a].val] \notin Addresses(archive)
                      /\ \A s \in Slots(archive) :
                            GetSlot(archive, s) = a => GetSlot(w, s) = a
    BY DEF AheadOK
  <2>1. j \in 1..k /\ j \in 1..Len(Lists) /\ j # k
    BY <1>1
  <2>2. a \in Addresses(archive) /\ archive.heap[a].val # v /\ a # x
    BY <1>2, <2>1
  <2>3. /\ m.heap[a].interned /\ c[archive.heap[a].val] \notin Addresses(archive)
        /\ \A s \in Slots(archive) : GetSlot(archive, s) = a => GetSlot(m, s) = a
    BY <2>1 DEF AheadOK
  <2> QED
    BY <2>2, <2>3
<1>4. \A s \in Slots(archive) : Opened(archive, m, b, s) <=> Opened(archive, w, b, s)
  BY <1>1, PatchedStill, OpenedStill
<1>5. BehindOK(w, b, d, k - 1)
  <2> SUFFICES ASSUME dumper = "returned", NEW j \in ((k - 1) + 1)..Len(Lists),
                      NEW a \in {Lists[j].str}, NEW s \in Slots(archive),
                      Opened(archive, w, b, s), GetSlot(archive, s) = a
               PROVE  GetSlot(w, s) = d[archive.heap[a].val]
    BY DEF BehindOK
  <2>1. Opened(archive, m, b, s)
    BY <1>4
  <2>2. CASE j = k
    BY <2>1, <2>2
  <2>3. CASE j # k
    <3>1. j \in (k + 1)..Len(Lists) /\ j \in 1..Len(Lists)
      BY <1>1, <2>3
    <3>2. a \in Addresses(archive) /\ archive.heap[a].val # v /\ a # x
      BY <1>2, <2>3, <3>1
    <3>3. GetSlot(m, s) = c[archive.heap[a].val]
      BY <2>1, <3>1 DEF BehindOK
    <3> QED
      BY <3>2, <3>3
  <2> QED
    BY <2>2, <2>3
<1> QED
  BY <1>3, <1>5

\* What is known of a list when it is looked at.
LEMMA ListIs ==
    ASSUME DumpOK, NEW k \in 1..Len(Lists), NEW x, x = Lists[k].str,
           NEW refs, refs = Lists[k].refs
    PROVE  /\ x \in HeapStrings /\ x \in Addresses(archive) /\ x # NULL /\ x \in Nat
           /\ archive.heap[x].val \in DOMAIN interned
           /\ \A s \in ToSet(refs) : s \in Slots(archive) /\ GetSlot(archive, s) = x
           /\ Len(refs) \in Nat /\ Cardinality(ToSet(refs)) = Len(refs)
           /\ dumper = "returned" /\ ~ TableMayFail =>
                 \A s \in Slots(archive) : GetSlot(archive, s) = x => s \in ToSet(refs)
<1>1. archive \in Archives /\ ArchiveOK
  BY DEF DumpOK, MoveOK, ArchiveOK
<1>2. x \in HeapStrings /\ x \in Addresses(archive) /\ x # NULL /\ x \in Nat
  BY <1>1, HeapStringIs DEF ArchiveOK
<1>3. archive.heap[x].val \in DOMAIN interned
  BY <1>2 DEF DumpOK, CountsOK
<1>4. refs \in Seq(Nat \X Nat) /\ Len(refs) \in Nat /\ DOMAIN refs = 1..Len(refs)
  BY <1>1, ArchiveIs, LenProperties DEF Lists
<1>5. ToSet(refs) = {refs[i] : i \in 1..Len(refs)}
  BY <1>4 DEF ToSet
<1>6. \A i \in 1..Len(refs) : refs[i] \in Slots(archive) /\ GetSlot(archive, refs[i]) = x
  BY <1>1 DEF DumpOK, StringsOK, RefsSound, ArchiveOK
<1>7. \A i, j \in 1..Len(refs) : refs[i] = refs[j] => i = j
  BY DEF DumpOK, StringsOK, OneRef
<1>8. Cardinality(ToSet(refs)) = Len(refs)
  BY <1>4, <1>7, DistinctElements
<1>9. ASSUME dumper = "returned", ~ TableMayFail,
             NEW s \in Slots(archive), GetSlot(archive, s) = x
      PROVE  s \in ToSet(refs)
  <2>1. ~ Pending(x)
    BY <1>9 DEF DumpOK, MoveOK, StackOK, Pending
  <2>2. RecordedFor(s, x)
    BY <1>2, <1>9, <2>1 DEF DumpOK, StringsOK, Recorded
  <2>3. PICK j \in 1..Len(Lists) :
            Lists[j].str = x /\ \E i \in 1..Len(Lists[j].refs) : Lists[j].refs[i] = s
    BY <2>2 DEF RecordedFor
  <2>4. j = k
    BY <1>9, <2>3, ListsDiffer
  <2> QED
    BY <1>5, <2>3, <2>4
<1> QED
  BY <1>2, <1>3, <1>4, <1>5, <1>6, <1>8, <1>9

LEMMA InternRefs ==
    ASSUME DumpOK, ValuesOK, LoadOK, LoadedOK, RefsOK, UNCHANGED <<env, dumpVars>>,
           L!InternString
    PROVE  RefsOK'
<1>1. /\ loader = "interning" /\ cursor > 0 /\ cursor' = cursor - 1
      /\ UNCHANGED <<base, todo, load_error, loader>>
  BY DEF L!InternString, L!NextList
<1>2. /\ MemOK /\ mem \in Archives /\ archive \in Archives /\ ArchiveOK /\ CountsOK
      /\ env \in Environments /\ Addresses(mem) = Addresses(archive)
  BY <1>1 DEF LoadOK, MemOK, DumpOK, MoveOK, ArchiveOK
<1>3. Len(Lists) \in Nat /\ cursor \in 1..Len(Lists)
  BY <1>1, <1>2, ArchiveIs DEF Lists, MemOK
<1>4. /\ base \in LoadBases /\ Slots(mem) = Slots(archive) /\ archive.obj # NULL
      /\ VisitedStand(archive, mem, base, {})
  <2>1. ToSet(<<>>) = {}
    BY DEF ToSet
  <2> QED
    BY <1>1, <2>1 DEF LoadedOK
<1> SUFFICES ASSUME ~ TableMayFail
             PROVE  /\ CanonOK(base, canon') /\ AheadOK(mem', canon', cursor - 1)
                    /\ BehindOK(mem', base, canon', cursor - 1)
                    /\ OwnedOK(mem', base, canon', held')
  BY <1>1, <1>4, RefsStand
<1>5. /\ CanonOK(base, canon) /\ AheadOK(mem, canon, cursor)
      /\ BehindOK(mem, base, canon, cursor) /\ OwnedOK(mem, base, canon, held)
  BY <1>1 DEF RefsOK
<1> DEFINE list == Lists[cursor]
           b == list.str
           refs == list.refs
           str == mem.heap[b]
           v == archive.heap[b].val
           p == canon[v]
           n == L!Moved(Len(refs))
           open == [mem EXCEPT !.heap[b].interned = FALSE]
<1>6. mem.all_string_ref[cursor] = list
  BY <1>2 DEF MemOK
<1>7. /\ b \in HeapStrings /\ b \in Addresses(archive) /\ b # NULL /\ b \in Nat
      /\ v \in DOMAIN interned
      /\ \A s \in ToSet(refs) : s \in Slots(archive) /\ GetSlot(archive, s) = b
      /\ Len(refs) \in Nat /\ Cardinality(ToSet(refs)) = Len(refs)
      /\ dumper = "returned" =>
            \A s \in Slots(archive) : GetSlot(archive, s) = b => s \in ToSet(refs)
  BY <1>3, ListIs
<1>8. /\ str.val = v /\ v \in DOMAIN canon /\ p \in Int /\ canon \in [DOMAIN canon -> Int]
      /\ v \in 0..(Span - 1)
  BY <1>2, <1>5, <1>7 DEF MemOK, CanonOK
<1>9. /\ str.interned /\ p \notin Addresses(archive) /\ p # b
      /\ \A s \in Slots(archive) : GetSlot(archive, s) = b => GetSlot(mem, s) = b
  BY <1>3, <1>5, <1>7 DEF AheadOK
<1>10. IsStr(archive, b)
  BY <1>7 DEF HeapStrings, IsStr
<1>11. n \in Int /\ (PyMinor < 11 => n = Cardinality(ToSet(refs)))
  BY <1>7, SameMemory DEF L!Moved
<1> HIDE DEF open, n
<1>12. \/ /\ str.type # TypeAddr(base, "str")
          /\ mem' = open /\ canon' = canon /\ held' = held
       \/ /\ p = NULL /\ canon' = [canon EXCEPT ![v] = b] /\ mem' = mem /\ held' = held
       \/ /\ p # NULL /\ canon' = canon /\ held' = [held EXCEPT ![v] = @ + n]
          /\ mem' = L!Redirected(Counted(Counted(open, b, -n), p, n), refs, p)
  <2>1. ~ InHeap(mem, p)
    BY <1>2, <1>9 DEF InHeap, Addresses
  <2> QED
    BY <1>6, <1>8, <1>9, <2>1, SameMemory, SameMeaning DEF L!InternString, open, n
<1> HIDE DEF list, b, refs, str, v, p
<1>13. ASSUME SameTypes(mem, mem'), \A u : u # v => canon'[u] = canon[u],
              \A a \in Addresses(archive) :
                  a # b => mem'.heap[a].interned = mem.heap[a].interned,
              \A s \in Slots(archive) :
                  GetSlot(archive, s) # b => GetSlot(mem', s) = GetSlot(mem, s),
              dumper = "returned" =>
                  \A s \in Slots(archive) :
                      Opened(archive, mem, base, s) /\ GetSlot(archive, s) = b =>
                          GetSlot(mem', s) = canon'[v]
       PROVE  AheadOK(mem', canon', cursor - 1) /\ BehindOK(mem', base, canon', cursor - 1)
  <2>1. b = Lists[cursor].str /\ v = archive.heap[b].val
    BY DEF b, v, list
  <2>2. AheadOK(mem, canon, cursor) /\ BehindOK(mem, base, canon, cursor)
    BY <1>5
  <2>3. /\ DumpOK /\ cursor \in 1..Len(Lists) /\ base \in LoadBases
        /\ Addresses(mem) = Addresses(archive)
    BY <1>2, <1>3, <1>4
  <2> QED
    BY ONLY ~ TableMayFail, <1>13, <2>1, <2>2, <2>3, OthersStand
\* The patch did not come to the string.
<1>14. CASE /\ str.type # TypeAddr(base, "str")
            /\ mem' = open /\ canon' = canon /\ held' = held
  <2>1. ~ Patched(archive, mem, base, b)
    <3>1. TypeAddr(DumpBase, "str") + (base - DumpBase) = TypeAddr(base, "str")
      BY <1>2, <1>4, TypesMoved
    <3> QED
      BY <1>10, <1>14, <3>1 DEF IsStr, Patched, str
  <2>2. ~ (b >= DumpBase) /\ ~ (b >= base)
    <3>1. /\ archive.used \in Nat /\ Len(archive.heap) <= archive.used
          /\ archive.used <= HeapCells /\ Len(archive.heap) \in Nat
      BY <1>2, ArchiveIs DEF ArchiveOK
    <3>2. /\ HeapCells \in Nat /\ base \in Nat /\ DumpBase \in Nat
          /\ HeapCells < base /\ HeapCells < DumpBase
      BY <1>2, <1>4, LoadBaseIs
    <3>3. b <= Len(archive.heap)
      BY <1>7 DEF Addresses
    <3> QED
      BY <1>7, <3>1, <3>2, <3>3
  <2>3. ~ StandsAs(archive, mem, base, b, b)
    BY <1>7, <2>1, <2>2 DEF StandsAs, StringIs
  <2>4. ASSUME NEW s \in Slots(archive), Opened(archive, mem, base, s),
               GetSlot(archive, s) = b
        PROVE  FALSE
    <3>1. StandsAs(archive, mem, base, GetSlot(archive, s), GetSlot(mem, s))
      BY <1>4, <2>4 DEF VisitedStand, Visited
    <3> QED
      BY <1>9, <2>3, <2>4, <3>1
  <2>5. /\ SameTypes(mem, mem') /\ SameSlots(mem, mem')
        /\ MemKept(mem, mem') /\ SameCounts(mem, mem')
        /\ \A a \in Addresses(archive) :
              a # b => mem'.heap[a].interned = mem.heap[a].interned
    <3>1. b \in Addresses(mem)
      BY <1>2, <1>7
    <3>2. SameTypes(mem, open) /\ SameSlots(mem, open)
      BY <1>2, <3>1, TypesOpened DEF open
    <3>3. /\ MemKept(mem, open) /\ SameCounts(mem, open)
          /\ \A a \in Addresses(mem) : a # b => open.heap[a].interned = mem.heap[a].interned
      BY <1>2, <3>1, OpenedKeeps DEF open
    <3> QED
      BY <1>2, <1>14, <3>2, <3>3
  <2>6. \A s \in Slots(archive) : GetSlot(mem', s) = GetSlot(mem, s)
    BY <1>4, <2>5 DEF SameSlots
  <2>7. AheadOK(mem', canon', cursor - 1) /\ BehindOK(mem', base, canon', cursor - 1)
    BY <1>13, <1>14, <2>4, <2>5, <2>6
  <2>8. \A q : Holding(mem', q) = Holding(mem, q)
    BY <1>4, <2>5, <2>6 DEF Holding, MemKept
  <2>9. OwnedOK(mem', base, canon', held')
    BY <1>2, <1>5, <1>14, <2>5, <2>8 DEF OwnedOK, SameCounts
  <2> QED
    BY <1>5, <1>14, <2>7, <2>9
\* The string becomes the interned one.
<1>15. CASE p = NULL /\ canon' = [canon EXCEPT ![v] = b] /\ mem' = mem /\ held' = held
  <2>1. /\ DOMAIN canon' = DOMAIN canon /\ canon'[v] = b
        /\ \A u : u # v => canon'[u] = canon[u]
    BY <1>8, <1>15
  <2>2. SameTypes(mem, mem)
    BY DEF SameTypes
  <2>3. AheadOK(mem', canon', cursor - 1) /\ BehindOK(mem', base, canon', cursor - 1)
    BY <1>9, <1>13, <1>15, <2>1, <2>2
  <2>4. CanonOK(base, canon')
    <3>1. StaticStr(base, v) # NULL
      BY <1>4, <1>8, StringsAreNear
    <3>2. ~ (Py312 /\ v \in IdStrs)
      BY <1>5, <1>8, <1>15, <3>1 DEF CanonOK, p
    <3> QED
      BY <1>5, <1>7, <2>1, <3>2 DEF CanonOK
  <2>5. OwnedOK(mem', base, canon', held')
    BY <1>5, <1>15, <2>1 DEF OwnedOK
  <2> QED
    BY <2>3, <2>4, <2>5
\* The recorded slots pass to the program's string.
<1>16. CASE /\ p # NULL /\ canon' = canon /\ held' = [held EXCEPT ![v] = @ + n]
            /\ mem' = L!Redirected(Counted(Counted(open, b, -n), p, n), refs, p)
  <2> DEFINE R == ToSet(refs)
  <2>1. p \in Int /\ p \notin Addresses(mem) /\ b \in Addresses(mem)
    BY <1>2, <1>7, <1>8, <1>9
  <2>2. /\ MemKept(mem, mem') /\ SameTypes(mem, mem')
        /\ \A c \in Addresses(mem) :
              /\ c # b => mem'.heap[c].interned = mem.heap[c].interned
              /\ mem'.heap[c].rc = IF c = b /\ ~ Py312 THEN mem.heap[c].rc - n
                                   ELSE mem.heap[c].rc
        /\ \A s \in Slots(mem) :
              GetSlot(mem', s) = IF s \in R THEN p ELSE GetSlot(mem, s)
    <3>1. mem' = L!Redirected(Counted(Counted([mem EXCEPT !.heap[b].interned = FALSE], b, -n),
                                      p, n), refs, p)
      BY <1>16 DEF open
    <3>2. mem \in Archives /\ n \in Int
      BY <1>2, <1>11
    <3> QED
      BY ONLY <2>1, <3>1, <3>2, StringReplaced
  <2> HIDE DEF R
  <2>3. \A s \in R : s \in Slots(archive) /\ GetSlot(archive, s) = b /\ GetSlot(mem, s) = b
    BY <1>7, <1>9 DEF R
  <2>4. dumper = "returned" =>
            \A s \in Slots(archive) : GetSlot(archive, s) = b => GetSlot(mem', s) = p
    BY <1>4, <1>7, <2>2 DEF R
  <2>5. canon'[v] = p
    BY <1>16 DEF p
  <2>6. AheadOK(mem', canon', cursor - 1) /\ BehindOK(mem', base, canon', cursor - 1)
    <3>1. \A s \in Slots(archive) : GetSlot(archive, s) # b => GetSlot(mem', s) = GetSlot(mem, s)
      BY <1>4, <2>2, <2>3
    <3>2. \A a \in Addresses(archive) :
              a # b => mem'.heap[a].interned = mem.heap[a].interned
      BY <1>2, <2>2
    <3>3. \A u : u # v => canon'[u] = canon[u]
      BY <1>16
    <3> QED
      BY <1>13, <2>2, <2>4, <2>5, <3>1, <3>2, <3>3
  <2>7. ASSUME PyMinor < 11
        PROVE  /\ \A a \in Addresses(archive) :
                     mem'.heap[a].rc >= Cardinality(Holding(mem', a))
               /\ held' = [u \in DOMAIN canon |-> Cardinality(Holding(mem', ProcessStr(base, u)))]
    <3>1. ~ Py312
      BY <1>2, <2>7, EnvironmentsAssumption DEF Py312, PyMinor
    <3>2. p = ProcessStr(base, v)
      BY <1>5, <1>8, <1>9, <1>16, <3>1 DEF CanonOK, p
    <3>3. /\ \A a \in Addresses(archive) : mem.heap[a].rc >= Cardinality(Holding(mem, a))
          /\ held = [u \in DOMAIN canon |-> Cardinality(Holding(mem, ProcessStr(base, u)))]
      BY <1>5, <2>7 DEF OwnedOK
    <3>4. mem' \in Archives /\ Slots(mem') = Slots(mem) /\ R \subseteq Holding(mem, b)
      BY <1>4, <2>2, <2>3 DEF MemKept, Holding
    <3>5. /\ Cardinality(R) \in Nat
          /\ Cardinality(Holding(mem', b)) = Cardinality(Holding(mem, b)) - Cardinality(R)
          /\ Cardinality(Holding(mem', p)) = Cardinality(Holding(mem, p)) + Cardinality(R)
          /\ \A q : q \notin {b, p} => Holding(mem', q) = Holding(mem, q)
      <4>1. /\ mem \in Archives /\ b # p
            /\ \A s \in Slots(mem) :
                  GetSlot(mem', s) = IF s \in R THEN p ELSE GetSlot(mem, s)
        BY <1>2, <1>9, <2>2
      <4> QED
        BY ONLY <3>4, <4>1, SlotsPass
    <3>6. n = Cardinality(R)
      BY <1>11, <2>7 DEF R
    <3>7. ASSUME NEW a \in Addresses(archive)
          PROVE  mem'.heap[a].rc >= Cardinality(Holding(mem', a))
      <4>1. CASE a = b
        <5> DEFINE rc == mem.heap[b].rc
                   k == Cardinality(Holding(mem, b))
        <5>1. rc \in Int /\ k \in Nat /\ rc >= k
          BY <1>2, <1>7, <3>3, ArchiveIs, HoldingFinite
        <5>2. mem'.heap[b].rc = rc - n /\ Cardinality(Holding(mem', b)) = k - n
          BY <2>1, <2>2, <3>1, <3>5, <3>6
        <5> HIDE DEF rc, k
        <5>3. rc - n >= k - n
          BY <1>11, <5>1
        <5> QED
          BY <4>1, <5>2, <5>3
      <4>2. CASE a # b
        <5>1. Holding(mem', a) = Holding(mem, a)
          BY <1>9, <3>5, <4>2
        <5>2. mem'.heap[a].rc = mem.heap[a].rc
          BY <1>2, <2>2, <4>2
        <5> QED
          BY <3>3, <5>1, <5>2
      <4> QED
        BY <4>1, <4>2
    <3>8. ASSUME NEW u \in DOMAIN canon
          PROVE  held'[u] = Cardinality(Holding(mem', ProcessStr(base, u)))
      <4>1. held[u] = Cardinality(Holding(mem, ProcessStr(base, u)))
        BY <3>3
      <4>2. CASE u = v
        BY <1>8, <1>16, <3>2, <3>3, <3>5, <3>6, <4>1, <4>2
      <4>3. CASE u # v
        <5>1. u \in 0..(Span - 1) /\ base \in Nat
          BY <1>2, <1>4, <1>5, LoadBaseIs DEF CanonOK
        <5>2. ProcessStr(base, u) \notin Addresses(archive)
          BY <1>4, <5>1, StringsAreNear
        <5>3. ProcessStr(base, u) # ProcessStr(base, v)
          BY <1>8, <4>3, <5>1, SpanAssumption DEF ProcessStr
        <5>4. Holding(mem', ProcessStr(base, u)) = Holding(mem, ProcessStr(base, u))
          BY <1>7, <3>2, <3>5, <5>2, <5>3
        <5>5. held'[u] = held[u]
          BY <1>16, <3>3, <4>3
        <5> QED
          BY <4>1, <5>4, <5>5
      <4> QED
        BY <4>2, <4>3
    <3>9. held' = [u \in DOMAIN canon |-> held'[u]]
      BY <1>16, <3>3
    <3> QED
      BY <3>7, <3>8, <3>9
  <2>8. OwnedOK(mem', base, canon', held')
    BY <1>16, <2>7 DEF OwnedOK
  <2> QED
    BY <1>5, <1>16, <2>6, <2>8
<1> QED
  BY <1>12, <1>14, <1>15, <1>16

LEMMA RefsStep ==
    ASSUME AllOK, RefsOK, [Next]_vars
    PROVE  RefsOK'
<1>1. DumpOK /\ ValuesOK /\ LoadOK /\ LoadedOK /\ MoveOK /\ Pointers
  BY DEF AllOK, DumpOK, StringsOK
<1>2. CASE Dump /\ env' = env
  <2>1. dumper = "running"
    BY <1>1, <1>2, RunningDumps DEF Dump
  <2>2. loader' = "absent"
    BY <1>1, <1>2, <2>1 DEF LoadOK, Dump, loadVars
  <2> QED
    BY <2>2 DEF RefsOK
<1>3. CASE Load /\ env' = env
  <2>1. UNCHANGED <<env, dumpVars>> /\ L!NextLoad
    BY <1>3 DEF Load
  <2>2. CASE L!Map
    BY <1>1, <2>1, <2>2, MapRefs
  <2>3. CASE L!Patch
    BY <1>1, <2>1, <2>3, PatchRefs
  <2>4. CASE L!PatchEnd \/ L!InternEnd
    BY <1>1, <2>1, <2>4, EndsRefs
  <2>5. CASE L!InternString
    BY <1>1, <2>1, <2>5, InternRefs
  <2>6. CASE L!Exit
    BY <2>6 DEF L!Exit, RefsOK
  <2> QED
    BY <2>1, <2>2, <2>3, <2>4, <2>5, <2>6 DEF L!NextLoad, L!Load
<1>4. CASE UNCHANGED vars
  <2>1. UNCHANGED <<env, dumpVars>> /\ UNCHANGED loadVars
    BY <1>4 DEF vars
  <2>2. UNCHANGED <<mem, base, canon, held, cursor, loader>>
    BY <2>1 DEF loadVars
  <2>3. CASE loader = "absent"
    BY <2>2, <2>3 DEF RefsOK
  <2>4. CASE loader # "absent"
    <3>1. /\ ~ TableMayFail =>
                /\ CanonOK(base, canon) /\ AheadOK(mem, canon, cursor)
                /\ BehindOK(mem, base, canon, cursor) /\ OwnedOK(mem, base, canon, held)
          /\ loader' = "patching" => cursor = Len(Lists)
          /\ loader' = "ready" /\ archive.obj # NULL => cursor = 0
      BY <2>2, <2>4 DEF RefsOK
    <3> QED
      BY <2>1, <2>2, <3>1, RefsStand
  <2> QED
    BY <2>3, <2>4
<1> QED
  BY <1>2, <1>3, <1>4 DEF Next

LEMMA RefsInvariant == Spec => [](AllOK /\ RefsOK)
<1>1. Init => AllOK /\ RefsOK
  BY AllInit DEF Init, L!InitLoad, RefsOK
<1>2. AllOK /\ RefsOK /\ [Next]_vars => AllOK' /\ RefsOK'
  BY AllStep, RefsStep
<1> QED
  BY <1>1, <1>2, PTL DEF Spec

\* SlotsOwnReferences: before 3.11, when a load has ended, every object of the
\* archive has as many references as there are slots that hold it, and each of the
\* program's strings got one for each slot that it took over.
THEOREM LoadedSlotsOwnReferences == Spec => []SlotsOwnReferences
<1>1. AllOK /\ RefsOK => SlotsOwnReferences
  <2> SUFFICES ASSUME AllOK, RefsOK, loader = "ready", PyMinor < 11, ~ TableMayFail
               PROVE  /\ \A a \in 1..Len(mem.heap) : mem.heap[a].rc >= SlotsHolding(a)
                      /\ \A v \in DOMAIN held : held[v] = SlotsHolding(ProcessStr(base, v))
    BY DEF SlotsOwnReferences
  <2>1. OwnedOK(mem, base, canon, held)
    BY DEF RefsOK
  <2>2. /\ \A a \in Addresses(archive) : mem.heap[a].rc >= Cardinality(Holding(mem, a))
        /\ held = [v \in DOMAIN canon |-> Cardinality(Holding(mem, ProcessStr(base, v)))]
    BY <2>1 DEF OwnedOK
  <2>3. \A p : SlotsHolding(p) = Cardinality(Holding(mem, p))
    BY DEF SlotsHolding, Holding
  <2>4. 1..Len(mem.heap) = Addresses(archive)
    BY DEF AllOK, LoadOK, MemOK, Addresses
  <2> QED
    BY <2>2, <2>3, <2>4
<1> QED
  BY <1>1, RefsInvariant, PTL

-----------------------------------------------------------------------------
(* What the root reaches *)

\* Each round adds what the ones before lead to.
Rounds(g, X, r, next) ==
    /\ g \in [Nat -> SUBSET X] /\ g[0] = {r}
    /\ \A n \in Nat \ {0} : g[n] = g[n - 1] \cup UNION {next[s] : s \in g[n - 1]}

\* What is there after n rounds is what a walk of n moves, of which some stay
\* where they are, ends at.
LEMMA RoundsExist ==
    ASSUME NEW X, NEW r \in X, NEW next \in [X -> SUBSET X]
    PROVE  \E g : Rounds(g, X, r, next)
<1> DEFINE Walk(n, q) == /\ q \in [0..n -> X] /\ q[0] = r
                         /\ \A i \in 0..(n - 1) : q[i + 1] = q[i] \/ q[i + 1] \in next[q[i]]
           Ends(n) == {s \in X : \E q : Walk(n, q) /\ q[n] = s}
           g == [n \in Nat |-> Ends(n)]
<1>1. g \in [Nat -> SUBSET X]
  OBVIOUS
<1>2. Ends(0) = {r}
  <2>1. Walk(0, [i \in 0..0 |-> r])
    OBVIOUS
  <2>2. r \in Ends(0)
    BY <2>1
  <2> QED
    BY <2>2
<1>3. ASSUME NEW n \in Nat \ {0}
      PROVE  Ends(n) = Ends(n - 1) \cup UNION {next[s] : s \in Ends(n - 1)}
  <2>1. n - 1 \in Nat /\ (n - 1) + 1 = n /\ n \in 0..n /\ n - 1 \in 0..n
    OBVIOUS
  <2>2. ASSUME NEW s \in Ends(n)
        PROVE  \E t \in Ends(n - 1) : s = t \/ s \in next[t]
    <3>1. PICK q : Walk(n, q) /\ q[n] = s
      OBVIOUS
    <3> DEFINE w == [i \in 0..(n - 1) |-> q[i]]
    <3>2. Walk(n - 1, w)
      BY <2>1, <3>1
    <3>3. w[n - 1] = q[n - 1] /\ q[n - 1] \in X /\ n - 1 \in 0..(n - 1)
      BY <2>1, <3>1
    <3>4. q[n - 1] \in Ends(n - 1)
      BY <3>2, <3>3
    <3>5. q[(n - 1) + 1] = q[n - 1] \/ q[(n - 1) + 1] \in next[q[n - 1]]
      BY <3>1, <3>3
    <3> QED
      BY <2>1, <3>1, <3>4, <3>5
  <2>3. ASSUME NEW t \in Ends(n - 1), NEW s \in X, s = t \/ s \in next[t]
        PROVE  s \in Ends(n)
    <3>1. PICK q : Walk(n - 1, q) /\ q[n - 1] = t
      OBVIOUS
    <3> DEFINE w == [i \in 0..n |-> IF i = n THEN s ELSE q[i]]
    <3>2. w \in [0..n -> X] /\ w[0] = r /\ w[n] = s
      BY <2>1, <3>1
    <3>3. ASSUME NEW i \in 0..(n - 1)
          PROVE  w[i + 1] = w[i] \/ w[i + 1] \in next[w[i]]
      <4>1. w[i] = q[i]
        OBVIOUS
      <4>2. CASE i = n - 1
        BY <2>1, <2>3, <3>1, <3>2, <4>1, <4>2
      <4>3. CASE i # n - 1
        <5>1. i \in 0..((n - 1) - 1) /\ i + 1 # n /\ i + 1 \in 0..n
          BY <4>3
        <5>2. w[i + 1] = q[i + 1]
          BY <5>1
        <5> QED
          BY <3>1, <4>1, <5>1, <5>2
      <4> QED
        BY <4>2, <4>3
    <3>4. Walk(n, w)
      BY <3>2, <3>3
    <3> QED
      BY <3>2, <3>4
  <2>4. Ends(n - 1) \subseteq X /\ Ends(n) \subseteq X
    OBVIOUS
  <2> HIDE DEF Ends
  <2>5. ASSUME NEW s \in UNION {next[t] : t \in Ends(n - 1)}
        PROVE  s \in Ends(n)
    BY <2>3, <2>4
  <2> QED
    BY <2>2, <2>3, <2>4, <2>5
<1> HIDE DEF Ends
<1>4. \A n \in Nat : g[n] = Ends(n)
  OBVIOUS
<1>5. ASSUME NEW n \in Nat \ {0}
      PROVE  g[n] = g[n - 1] \cup UNION {next[s] : s \in g[n - 1]}
  <2>1. n \in Nat /\ n - 1 \in Nat
    OBVIOUS
  <2>2. g[n] = Ends(n) /\ g[n - 1] = Ends(n - 1)
    BY <1>4, <2>1
  <2> HIDE DEF g
  <2> QED
    BY <1>3, <2>2
<1>6. g[0] = {r}
  BY <1>2, <1>4
<1> HIDE DEF g
<1> QED
  BY <1>1, <1>5, <1>6 DEF Rounds

\* What holds of the root, and of what it leads to, holds of what the root reaches.
LEMMA ReachedHave ==
    ASSUME NEW m \in Archives, NEW S, S \subseteq Slots(m), Root \in S,
           \A s \in S : \A p \in {GetSlot(m, s)} :
               p \in Addresses(m) => \A i \in 1..Len(m.heap[p].slots) : <<p, i>> \in S
    PROVE  L!ReachableFrom(m) \subseteq S
<1> DEFINE X == Slots(m)
           Next1(s) == IF GetSlot(m, s) \in Addresses(m)
                       THEN {<<GetSlot(m, s), i>> : i \in 1..Len(m.heap[GetSlot(m, s)].slots)}
                       ELSE {}
           Body(f) == [n \in Nat |->
                          IF n = 0 THEN {L!Root}
                          ELSE f[n - 1] \cup
                               UNION {{<<L!GetSlot(m, s), i>> :
                                          i \in 1..Len(m.heap[L!GetSlot(m, s)].slots)} :
                                      s \in {t \in f[n - 1] : L!InHeap(m, L!GetSlot(m, t))}}]
           grow == CHOOSE f : f = Body(f)
           next == [s \in X |-> Next1(s)]
<1>1. L!ReachableFrom(m) = grow[Len(m.heap)]
  BY DEF L!ReachableFrom
<1>2. ASSUME NEW T
      PROVE  UNION {{<<L!GetSlot(m, s), i>> : i \in 1..Len(m.heap[L!GetSlot(m, s)].slots)} :
                    s \in {t \in T : L!InHeap(m, L!GetSlot(m, t))}}
             = UNION {Next1(s) : s \in T}
  <2>1. \A s : L!GetSlot(m, s) = GetSlot(m, s) /\ (L!InHeap(m, s) <=> s \in Addresses(m))
    BY SameMemory DEF InHeap, Addresses
  <2> QED
    BY <2>1
<1>3. ASSUME NEW f, NEW n \in Nat
      PROVE  Body(f)[n] = IF n = 0 THEN {Root}
                          ELSE f[n - 1] \cup UNION {Next1(s) : s \in f[n - 1]}
  BY <1>2, SameMemory
<1>4. next \in [X -> SUBSET X]
  BY SlotIn DEF Addresses
<1>5. Root \in X
  OBVIOUS
<1> HIDE DEF X, Next1
<1>6. PICK g \in [Nat -> SUBSET X] :
          /\ g[0] = {Root}
          /\ \A n \in Nat \ {0} : g[n] = g[n - 1] \cup UNION {next[s] : s \in g[n - 1]}
  <2> HIDE DEF next, Body, grow
  <2>1. PICK h : Rounds(h, X, Root, next)
    BY <1>4, <1>5, RoundsExist
  <2> QED
    BY <2>1 DEF Rounds
<1>7. ASSUME NEW n \in Nat PROVE g[n] = Body(g)[n]
  <2>1. CASE n = 0
    BY <1>3, <1>6, <2>1
  <2>2. CASE n # 0
    <3>1. n - 1 \in Nat /\ g[n - 1] \subseteq X
      BY <1>6, <2>2
    <3>2. \A s \in g[n - 1] : next[s] = Next1(s)
      BY <3>1
    <3>3. UNION {next[s] : s \in g[n - 1]} = UNION {Next1(s) : s \in g[n - 1]}
      BY <3>2
    <3>4. g[n] = g[n - 1] \cup UNION {next[s] : s \in g[n - 1]}
      BY <1>6, <2>2
    <3>5. Body(g)[n] = g[n - 1] \cup UNION {Next1(s) : s \in g[n - 1]}
      BY <1>3, <2>2
    <3> QED
      BY <3>3, <3>4, <3>5
  <2> QED
    BY <2>1, <2>2
<1>8. g = Body(g)
  <2>1. g = [n \in Nat |-> g[n]] /\ Body(g) = [n \in Nat |-> Body(g)[n]]
    BY <1>6
  <2> HIDE DEF Body
  <2> QED
    BY <1>7, <2>1
<1>9. ASSUME NEW n \in Nat
      PROVE  grow[n] = IF n = 0 THEN {Root}
                       ELSE grow[n - 1] \cup UNION {Next1(s) : s \in grow[n - 1]}
  <2> HIDE DEF Body
  <2>1. grow = Body(grow)
    BY <1>8
  <2> HIDE DEF grow
  <2> QED
    BY <1>3, <2>1
<1> HIDE DEF grow, Body, next
<1>10. \A s \in S : Next1(s) \subseteq S
  BY DEF Next1
<1>11. \A n \in Nat : grow[n] \subseteq S
  <2> DEFINE T == {n \in Nat : ~ (grow[n] \subseteq S)}
             R == OpToRel(<, Nat)
  <2> SUFFICES ASSUME T # {} PROVE FALSE
    OBVIOUS
  <2>1. PICK n \in T : \A k \in T : <<k, n>> \notin R
    <3>1. T \subseteq Nat
      OBVIOUS
    <3> QED
      BY <3>1, NatLessThanWellFounded, WFMin
  <2>2. \A k \in T : ~ (k < n)
    BY <2>1, Zenon DEF OpToRel
  <2>3. n # 0
    BY <1>9
  <2>4. n - 1 \in Nat /\ n - 1 < n
    BY <2>3
  <2>5. grow[n - 1] \subseteq S
    BY <2>2, <2>4
  <2>6. grow[n] = grow[n - 1] \cup UNION {Next1(s) : s \in grow[n - 1]}
    BY <1>9, <2>3
  <2>7. grow[n] \subseteq S
    BY <1>10, <2>5, <2>6
  <2> QED
    BY <2>7
<1>12. Len(m.heap) \in Nat
  BY ArchiveIs
<1> QED
  BY <1>1, <1>11, <1>12

\* The root reaches slots that the patch came to.
LEMMA ReachedOpened ==
    ASSUME DumpOK, ValuesOK, MemOK, base \in LoadBases, Slots(mem) = Slots(archive),
           VisitedStand(archive, mem, base, {})
    PROVE  \A s \in L!ReachableFrom(mem) : s \in Slots(archive) /\ Opened(archive, mem, base, s)
<1> DEFINE S == {s \in Slots(archive) : Opened(archive, mem, base, s)}
<1>1. /\ archive \in Archives /\ mem \in Archives /\ ArchiveOK /\ env \in Environments
      /\ Addresses(mem) = Addresses(archive)
  BY DEF DumpOK, MoveOK, ArchiveOK, MemOK
<1>2. Addresses(archive) \subseteq 1..HeapCells /\ HeapCells \in Nat
  <2>1. /\ archive.used \in Nat /\ Len(archive.heap) <= archive.used
        /\ archive.used <= HeapCells /\ Len(archive.heap) \in Nat
    BY <1>1, ArchiveIs DEF ArchiveOK
  <2>2. HeapCells \in Nat
    BY <1>1, LoadBaseIs
  <2> QED
    BY <2>1, <2>2 DEF Addresses
<1>3. /\ base \in Nat /\ DumpBase \in Nat /\ HeapCells < base /\ HeapCells < DumpBase
  BY <1>1, LoadBaseIs
<1>4. Root \in S
  BY RootIn DEF Opened
<1>5. ASSUME NEW s \in S, NEW q, q = GetSlot(mem, s), q \in Addresses(mem),
             NEW i \in 1..Len(mem.heap[q].slots)
      PROVE  <<q, i>> \in S
  <2>1. q \in Addresses(archive) /\ q \in Int /\ q # NULL /\ ~ (q >= base)
    BY <1>1, <1>2, <1>3, <1>5, ArchiveIs DEF NULL
  <2>2. StandsAs(archive, mem, base, GetSlot(archive, s), q)
    BY <1>5 DEF VisitedStand, Visited
  <2>3. GetSlot(archive, s) >= DumpBase => ~ (q = GetSlot(archive, s) + (base - DumpBase))
    BY <1>1, <2>1, OutsideMoved, SlotIs
  <2>4. Patched(archive, mem, base, q)
    BY <2>1, <2>2, <2>3 DEF StandsAs, StringIs
  <2>5. Len(mem.heap[q].slots) = Len(archive.heap[q].slots)
    BY <1>1, <2>1, LengthsSame
  <2>6. <<q, i>> \in Slots(archive)
    BY <1>5, <2>1, <2>5, SlotIn
  <2>7. archive.heap[q].type \in ContainerTypes
    BY <1>5, <2>1, <2>5 DEF ValuesOK, Typed
  <2> QED
    BY <2>4, <2>6, <2>7 DEF Opened
<1> HIDE DEF S
<1>6. \A s \in S : \A q \in {GetSlot(mem, s)} :
          q \in Addresses(mem) => \A i \in 1..Len(mem.heap[q].slots) : <<q, i>> \in S
  BY <1>5
<1>7. S \subseteq Slots(mem)
  BY DEF S
<1>8. L!ReachableFrom(mem) \subseteq S
  BY <1>1, <1>4, <1>6, <1>7, ReachedHave
<1> QED
  BY <1>8 DEF S

LEMMA StringOutside ==
    ASSUME NEW b \in Int, NEW p \in Int, OutOfHeapValue(b, p)[1] = "str"
    PROVE  \E v \in 0..(Span - 1) : OutOfHeapValue(b, p) = <<"str", v>>
<1> DEFINE off == p - b - 8
<1>1. Span \in Nat /\ off \in Int
  BY SpanAssumption
<1>2. PICK k \in {1, 3} : /\ off - k * Span >= 0 /\ off - k * Span < Span
                          /\ OutOfHeapValue(b, p) = <<"str", off - k * Span>>
  BY <1>1 DEF OutOfHeapValue
<1>3. off - k * Span \in 0..(Span - 1)
  BY <1>1, <1>2
<1> QED
  BY <1>2, <1>3

\* A slot that the root reaches and that stands for a string holds the interned
\* one, or one of static_strings.
LEMMA ReachedInterned ==
    ASSUME AllOK, RefsOK, loader = "ready", dumper = "returned", ~ TableMayFail,
           archive.obj # NULL, NEW s \in L!ReachableFrom(mem),
           NEW v, v = Value(mem, base, GetSlot(mem, s)), v[1] = "str"
    PROVE  \/ canon[v[2]] = GetSlot(mem, s)
           \/ Py312 /\ v[2] \in ListedStrs /\ GetSlot(mem, s) = StaticStr(base, v[2])
<1>1. DumpOK /\ ValuesOK /\ LoadOK /\ LoadedOK /\ MemOK
  BY DEF AllOK, LoadOK
<1>2. /\ archive \in Archives /\ mem \in Archives /\ ArchiveOK /\ env \in Environments
      /\ Pointers /\ Statics /\ DOMAIN interned \subseteq DOMAIN canon
      /\ Addresses(mem) = Addresses(archive)
  BY <1>1 DEF DumpOK, MoveOK, ArchiveOK, StringsOK, ValuesOK, MemOK
<1>3. /\ base \in LoadBases /\ Slots(mem) = Slots(archive)
      /\ Types(archive, mem, base) /\ VisitedStand(archive, mem, base, {})
  <2>1. ToSet(<<>>) = {}
    BY DEF ToSet
  <2> QED
    BY <1>1, <2>1 DEF LoadedOK
<1>4. CanonOK(base, canon) /\ BehindOK(mem, base, canon, 0)
  BY DEF RefsOK
<1> DEFINE p == GetSlot(archive, s)
           q == GetSlot(mem, s)
<1>5. /\ s \in Slots(archive) /\ Opened(archive, mem, base, s) /\ p \in Int /\ q \in Int
      /\ StandsAs(archive, mem, base, p, q)
  <2>1. s \in Slots(archive) /\ Opened(archive, mem, base, s)
    BY <1>1, <1>3, ReachedOpened
  <2> QED
    BY <1>2, <1>3, <2>1, SlotIs DEF VisitedStand, Visited
<1>6. HeapGrounded(mem, base)
  BY <1>1, <1>3, LoadedGrounded
<1> HIDE DEF p, q
<1>7. q \notin Branch(mem, base) /\ v = LeafValue(mem, base, q)
  <2>1. v = IF q \in Branch(mem, base)
            THEN <<TypeOf(base, mem.heap[q].type),
                   [i \in DOMAIN mem.heap[q].slots |-> Value(mem, base, mem.heap[q].slots[i])]>>
            ELSE LeafValue(mem, base, q)
    BY <1>2, <1>5, <1>6, ValueIs DEF q
  <2>2. q \in Branch(mem, base) => TypeOf(base, mem.heap[q].type) # "str"
    BY DEF Branch
  <2> QED
    BY <2>1, <2>2
<1>8. p \notin Branch(archive, DumpBase) /\ v = LeafValue(archive, DumpBase, p)
  BY <1>1, <1>3, <1>5, <1>7, LeavesAgree
\* The archive's string, or what took its place.
<1>9. CASE p \in Addresses(archive)
  <2>1. v = <<TypeOf(DumpBase, archive.heap[p].type), archive.heap[p].val>>
    BY <1>8, <1>9 DEF LeafValue
  <2>2. p \in HeapStrings
    <3>1. PICK ty \in {"atom", "str", "tuple", "code"} :
              archive.heap[p].type = TypeAddr(DumpBase, ty)
      BY <1>1, <1>9 DEF ValuesOK, Typed, HeapTypes
    <3>2. TypeOf(DumpBase, TypeAddr(DumpBase, ty)) = ty
      BY <1>2, <1>3, TypesMoved
    <3>3. ty = "str"
      BY <2>1, <3>1, <3>2
    <3> QED
      BY <1>9, <3>1, <3>3 DEF HeapStrings, Addresses
  <2>3. ~ Pending(p)
    BY <1>1 DEF DumpOK, MoveOK, StackOK, Pending
  <2>4. PICK j \in 1..Len(Lists) : Lists[j].str = p
    BY <1>1, <2>2, <2>3 DEF DumpOK, StringsOK, Recorded, Listed
  <2>5. j \in (0 + 1)..Len(Lists)
    BY <2>4
  <2>6. q = canon[archive.heap[p].val]
    BY <1>4, <1>5, <2>4, <2>5 DEF BehindOK, p, q
  <2> QED
    BY <2>1, <2>6 DEF q
\* A string of the interpreter.
<1>10. CASE p \notin Addresses(archive)
  <2>1. v = OutOfHeapValue(DumpBase, p) /\ DumpBase \in Nat /\ base \in Nat
    BY <1>2, <1>3, <1>8, <1>10, LoadBaseIs DEF LeafValue
  <2>2. PICK w \in 0..(Span - 1) : v = <<"str", w>>
    BY <1>5, <2>1, StringOutside
  <2>3. p # NULL
    <3>1. OutOfHeapValue(DumpBase, NULL) = <<"null">>
      BY ONLY <2>1, SpanAssumption DEF OutOfHeapValue, NULL
    <3>2. <<"null">>[1] = "null" /\ <<"str", w>>[1] = "str"
      OBVIOUS
    <3> QED
      BY <2>1, <2>2, <3>1, <3>2
  <2>4. p >= DumpBase
    BY <1>2, <1>5, <1>10, <2>3 DEF Pointers, IsPointer, p
  <2>5. /\ Py312 /\ w \in StaticStrs /\ w \in DOMAIN canon /\ p = StaticStr(DumpBase, w)
    BY <1>2, <1>5, <2>1, <2>2, <2>4 DEF Statics, Pointed, p
  <2>6. q = p + (base - DumpBase)
    BY <1>5, <1>10, <2>3 DEF StandsAs, IsStr
  <2>7. q = StaticStr(base, w)
    BY <2>1, <2>5, <2>6, SpanAssumption DEF StaticStr
  <2>8. w \in IdStrs => canon[w] = StaticStr(base, w)
    BY <1>4, <2>5 DEF CanonOK
  <2> QED
    BY <2>2, <2>5, <2>7, <2>8 DEF q, StaticStrs
<1> QED
  BY <1>9, <1>10

\* An archive without a root gives nothing.
LEMMA NothingReached ==
    ASSUME AllOK, loader = "ready", archive.obj = NULL,
           NEW s \in L!ReachableFrom(mem)
    PROVE  Value(mem, base, GetSlot(mem, s)) = <<"null">>
<1>1. DumpOK /\ ValuesOK /\ MemOK /\ mem = archive /\ base \in LoadBases
  BY DEF AllOK, LoadOK, LoadedOK
<1>2. archive \in Archives /\ HeapOrdered
  BY <1>1 DEF DumpOK, MoveOK, ArchiveOK, ValuesOK, Layout
<1>3. NULL \notin Addresses(archive) /\ NULL \in Int
  BY DEF Addresses, NULL
<1>4. s = Root
  <2>1. {Root} \subseteq Slots(mem) /\ GetSlot(mem, Root) = NULL
    BY <1>1, RootIn
  <2>2. L!ReachableFrom(mem) \subseteq {Root}
    BY <1>1, <1>2, <1>3, <2>1, ReachedHave
  <2> QED
    BY <2>2
<1>5. HeapGrounded(mem, base)
  <2>1. Types(archive, mem, base)
    BY <1>1 DEF Types
  <2>2. Branch(mem, base) \subseteq Branch(archive, DumpBase)
    <3>1. Branch(mem, base) \subseteq Addresses(archive)
      BY <1>1 DEF Branch
    <3> QED
      BY <1>1, <2>1, <3>1, PatchedAre
  <2>3. \A r \in Slots(mem) : r # Root /\ GetSlot(mem, r) \in Branch(mem, base)
                              => GetSlot(mem, r) > r[1]
    BY <1>1, <1>2, <2>2 DEF HeapOrdered, Containing
  <2> QED
    BY <1>1, <1>2, <2>3, OrderedSlots
<1>6. GetSlot(mem, s) = NULL
  BY <1>1, <1>4, RootIn
<1>7. Value(mem, base, NULL) = LeafValue(mem, base, NULL)
  <2>1. NULL \notin Branch(mem, base)
    BY <1>1, <1>3 DEF Branch
  <2> QED
    BY <1>1, <1>2, <1>3, <1>5, <2>1, ValueIs
<1>8. LeafValue(mem, base, NULL) = <<"null">>
  <2>1. base \in Nat
    BY <1>1, LoadBaseIs DEF DumpOK, MoveOK, ArchiveOK
  <2>2. OutOfHeapValue(base, NULL) = <<"null">>
    BY ONLY <2>1, SpanAssumption DEF OutOfHeapValue, NULL
  <2> QED
    BY <1>1, <1>3, <2>2 DEF LeafValue
<1> QED
  BY <1>6, <1>7, <1>8

\* LoadedStringsInterned: every string that a loaded object refers to, directly or
\* through others, is the one that the loading program's intern table holds, or a
\* static string that the dumper found in static_strings: that one the archive
\* refers to whether or not the loading program interned it, or an equal one.
THEOREM LoadedStringsAreInterned == Spec => []LoadedStringsInterned
<1>1. AllOK /\ RefsOK => LoadedStringsInterned
  <2> SUFFICES ASSUME AllOK, RefsOK, loader = "ready", dumper = "returned", ~ TableMayFail,
                      NEW s \in L!ReachableFrom(mem),
                      NEW v, v = Value(mem, base, GetSlot(mem, s)), v[1] = "str"
               PROVE  \/ canon[v[2]] = GetSlot(mem, s)
                      \/ /\ Py312 /\ v[2] \in ListedStrs
                         /\ GetSlot(mem, s) = StaticStr(base, v[2])
    BY DEF LoadedStringsInterned
  <2>1. CASE archive.obj = NULL
    <3>1. v = <<"null">>
      BY <2>1, NothingReached
    <3> QED
      BY <3>1
  <2>2. CASE archive.obj # NULL
    BY <2>2, ReachedInterned
  <2> QED
    BY <2>1, <2>2
<1> QED
  BY <1>1, RefsInvariant, PTL

-----------------------------------------------------------------------------
(* The accounts of the heap: what was allocated is an object, a list, or a *)
(* record of one.                                                          *)

\* The records of the lists whose indices are in s.
RecordsOf(ls, s) == UNION {{j} \X (1..Len(ls[j].refs)) : j \in s}

Records(ls) == RecordsOf(ls, 1..Len(ls))

LEMMA RecordsFinite ==
    ASSUME NEW ls \in Seq(RefLists), NEW s, s \subseteq 1..Len(ls)
    PROVE  /\ IsFiniteSet(s) /\ IsFiniteSet(RecordsOf(ls, s))
           /\ Cardinality(RecordsOf(ls, s)) \in Nat
           /\ \A j \in s : Len(ls[j].refs) \in Nat
<1> DEFINE of(j) == {j} \X (1..Len(ls[j].refs))
           f == [j \in s |-> of(j)]
           all == {of(j) : j \in s}
<1>1. IsFiniteSet(s)
  <2>1. Len(ls) \in Nat
    BY LenProperties
  <2>2. IsFiniteSet(1..Len(ls))
    BY <2>1, FS_Interval
  <2> QED
    BY <2>2, FS_Subset
<1>2. ASSUME NEW j \in s
      PROVE  Len(ls[j].refs) \in Nat /\ IsFiniteSet(of(j))
  <2>1. ls[j] \in RefLists
    BY ElementOfSeq
  <2>2. Len(ls[j].refs) \in Nat
    BY <2>1, LenProperties DEF RefLists
  <2> DEFINE n == Len(ls[j].refs)
  <2> HIDE DEF n
  <2>3. n \in Nat /\ of(j) = {j} \X (1..n)
    BY <2>2 DEF n
  <2> HIDE DEF of
  <2>4. IsFiniteSet(1..n) /\ IsFiniteSet({j})
    <3>1. 1 \in Int /\ n \in Int
      BY <2>3
    <3>2. IsFiniteSet(1..n)
      BY <3>1, FS_Interval
    <3> QED
      BY <3>2, FS_Singleton
  <2>5. IsFiniteSet({j} \X (1..n))
    BY <2>4, FS_Product
  <2> QED
    BY <2>2, <2>3, <2>5
<1>3. f \in Surjection(s, all)
  BY DEF Surjection
<1>4. \A T \in all : IsFiniteSet(T)
  BY <1>2
<1>5. UNION all = RecordsOf(ls, s)
  BY DEF RecordsOf
<1> HIDE DEF f, all
<1>6. IsFiniteSet(all)
  BY <1>1, <1>3, FS_Surjection
<1>7. IsFiniteSet(RecordsOf(ls, s))
  BY <1>4, <1>5, <1>6, FS_UNION
<1> QED
  BY <1>1, <1>2, <1>7, FS_CardinalityType

\* One list more has as many records more as it is long.
LEMMA OneMoreList ==
    ASSUME NEW ls \in Seq(RefLists), NEW s, s \subseteq 1..Len(ls), NEW x \in s
    PROVE  Cardinality(RecordsOf(ls, s)) =
               Cardinality(RecordsOf(ls, s \ {x})) + Len(ls[x].refs)
<1> DEFINE n == Len(ls[x].refs)
           A == RecordsOf(ls, s \ {x})
           B == {x} \X (1..n)
<1>1. /\ IsFiniteSet(A) /\ Cardinality(A) \in Nat /\ n \in Nat
  BY RecordsFinite
<1>2. RecordsOf(ls, s) = A \cup B
  BY DEF RecordsOf
<1>3. A \cap B = {}
  BY DEF RecordsOf
<1> HIDE DEF n, A
<1>4. IsFiniteSet(B) /\ Cardinality(B) = n
  <2>1. IsFiniteSet({x}) /\ Cardinality({x}) = 1
    BY FS_Singleton
  <2>2. IsFiniteSet(1..n) /\ Cardinality(1..n) = n
    <3>1. 1 \in Int /\ n \in Int
      BY <1>1
    <3>2. IsFiniteSet(1..n) /\ Cardinality(1..n) = IF 1 > n THEN 0 ELSE n - 1 + 1
      BY <3>1, FS_Interval
    <3>3. (IF 1 > n THEN 0 ELSE n - 1 + 1) = n
      BY <1>1
    <3> QED
      BY <3>2, <3>3
  <2>3. IsFiniteSet(B) /\ Cardinality(B) = Cardinality({x}) * Cardinality(1..n)
    BY <2>1, <2>2, FS_Product
  <2> QED
    BY <1>1, <2>1, <2>2, <2>3
<1> HIDE DEF B
<1>5. Cardinality(A \cup B) = Cardinality(A) + Cardinality(B) - Cardinality(A \cap B)
  BY <1>1, <1>4, FS_Union
<1>6. Cardinality(A \cap B) = 0
  BY <1>3, FS_EmptySet
<1>7. Cardinality(A \cup B) = Cardinality(A) + n
  BY <1>1, <1>4, <1>5, <1>6
<1> QED
  BY <1>2, <1>7 DEF n, A

\* What the sum over the lists in TypeOK computes.
LEMMA RecordsSum ==
    ASSUME NEW ls \in Seq(RefLists)
    PROVE  FoldLeft(LAMBDA n, l : n + Len(l.refs), 0, ls) = Cardinality(Records(ls))
<1> DEFINE D == 1..Len(ls)
           Body(f) == [s \in SUBSET D |->
                          IF s = {} THEN 0 ELSE f[s \ {Max(s)}] + Len(ls[Max(s)].refs)]
           sum == CHOOSE f : f = Body(f)
           card(s) == Cardinality(RecordsOf(ls, s))
           g == [s \in SUBSET D |-> card(s)]
<1>1. D = DOMAIN ls /\ Len(ls) \in Nat
  BY LenProperties
<1>2. FoldLeft(LAMBDA n, l : n + Len(l.refs), 0, ls) = sum[D]
  BY <1>1 DEF FoldLeft, MapThenFoldSet
<1>3. ASSUME NEW s \in SUBSET D, s # {}
      PROVE  /\ Max(s) \in s /\ s \ {Max(s)} \in SUBSET D
             /\ card(s) = card(s \ {Max(s)}) + Len(ls[Max(s)].refs)
  <2>1. PICK p \in s : \A q \in s : q <= p
    BY <1>1, <1>3, LastAddress
  <2>2. \A q \in s : p >= q
    BY <1>1, <2>1
  <2>3. Max(s) \in s
    BY <2>2 DEF Max
  <2> QED
    BY <2>3, OneMoreList
<1>4. card({}) = 0
  BY FS_EmptySet DEF RecordsOf
<1> HIDE DEF D, card
<1>5. \A s \in SUBSET D : g[s] = card(s)
  OBVIOUS
<1>6. g = Body(g)
  <2>1. ASSUME NEW s \in SUBSET D
        PROVE  g[s] = IF s = {} THEN 0 ELSE g[s \ {Max(s)}] + Len(ls[Max(s)].refs)
    <3>1. CASE s = {}
      BY <1>4, <1>5, <3>1
    <3>2. CASE s # {}
      BY <1>3, <1>5, <3>2
    <3> QED
      BY <3>1, <3>2
  <2> QED
    BY <2>1
<1> HIDE DEF g
<1>7. sum = Body(sum)
  <2> HIDE DEF Body
  <2> QED
    BY <1>6
<1> HIDE DEF sum
<1>8. \A s \in SUBSET D :
          sum[s] = IF s = {} THEN 0 ELSE sum[s \ {Max(s)}] + Len(ls[Max(s)].refs)
  BY <1>7
<1> HIDE DEF Body
<1>9. \A s \in SUBSET D : sum[s] = card(s)
  <2> DEFINE R == OpToRel(<, Nat)
             Bad == {s \in SUBSET D : sum[s] # card(s)}
             sizes == {Cardinality(s) : s \in Bad}
  <2>1. ASSUME NEW s \in SUBSET D
        PROVE  IsFiniteSet(s) /\ Cardinality(s) \in Nat
    BY RecordsFinite, FS_CardinalityType DEF D
  <2> SUFFICES ASSUME Bad # {} PROVE FALSE
    OBVIOUS
  <2>2. sizes \subseteq Nat /\ sizes # {}
    BY <2>1
  <2>3. PICK k \in sizes : \A j \in sizes : <<j, k>> \notin R
    BY <2>2, NatLessThanWellFounded, WFMin
  <2>4. \A j \in sizes : ~ (j < k)
    BY <2>2, <2>3, Zenon DEF OpToRel
  <2>5. PICK s \in Bad : k = Cardinality(s)
    OBVIOUS
  <2>6. s # {}
    BY <1>4, <1>8
  <2> DEFINE t == s \ {Max(s)}
  <2>7. t \in SUBSET D /\ Max(s) \in s /\ card(s) = card(t) + Len(ls[Max(s)].refs)
    BY <1>3, <2>6
  <2>8. Cardinality(t) < Cardinality(s)
    <3>1. IsFiniteSet(s) /\ Cardinality(s) \in Nat
      BY <2>1
    <3>2. Cardinality(t) = Cardinality(s) - 1
      BY <2>7, <3>1, FS_RemoveElement
    <3> QED
      BY <3>1, <3>2
  <2>9. t \notin Bad
    BY <2>4, <2>5, <2>8
  <2>10. sum[s] = card(s)
    BY <1>8, <2>6, <2>7, <2>9
  <2> QED
    BY <2>10
<1> QED
  BY <1>2, <1>9 DEF card, D, Records

\* One allocation is one record more: a list is linked ...
LEMMA RecordsLinked ==
    ASSUME NEW ls \in Seq(RefLists), NEW ms \in Seq(RefLists), NEW n \in 1..Len(ls),
           Len(ms) = Len(ls), Len(ms[n].refs) = Len(ls[n].refs) + 1,
           \A j \in 1..Len(ls) : j # n => ms[j] = ls[j]
    PROVE  Cardinality(Records(ms)) = Cardinality(Records(ls)) + 1
<1> DEFINE D == 1..Len(ls)
           rest == D \ {n}
           k == Len(ls[n].refs)
           c == Cardinality(RecordsOf(ls, rest))
<1>1. RecordsOf(ms, rest) = RecordsOf(ls, rest)
  BY DEF RecordsOf
<1>2. Cardinality(RecordsOf(ls, D)) = c + k
  BY OneMoreList
<1>3. Cardinality(RecordsOf(ms, D)) = Cardinality(RecordsOf(ms, rest)) + (k + 1)
  BY OneMoreList
<1>4. c \in Nat /\ k \in Nat
  BY RecordsFinite
<1>5. Records(ls) = RecordsOf(ls, D) /\ Records(ms) = RecordsOf(ms, D)
  BY DEF Records
<1> HIDE DEF D, rest, k
<1>6. Cardinality(RecordsOf(ms, D)) = c + (k + 1)
  BY <1>1, <1>3
<1> HIDE DEF c
<1>7. c + (k + 1) = (c + k) + 1
  BY <1>4
<1> QED
  BY <1>2, <1>5, <1>6, <1>7

\* ... and a list that is new has none.
LEMMA RecordsAppended ==
    ASSUME NEW ls \in Seq(RefLists), NEW l \in RefLists, Len(l.refs) = 0
    PROVE  Records(Append(ls, l)) = Records(ls)
<1> DEFINE ms == Append(ls, l)
           n == Len(ls) + 1
<1>1. Len(ls) \in Nat
  BY LenProperties
<1>2. Len(ms) = n /\ ms[n] = l /\ \A j \in 1..Len(ls) : ms[j] = ls[j]
  BY AppendProperties
<1>3. 1..n = 1..Len(ls) \cup {n}
  BY <1>1
<1> HIDE DEF ms
<1>4. {n} \X (1..Len(ms[n].refs)) = {}
  BY <1>2
<1>5. Records(ms) = RecordsOf(ms, 1..Len(ls)) \cup ({n} \X (1..Len(ms[n].refs)))
  BY <1>2, <1>3 DEF Records, RecordsOf
<1>6. RecordsOf(ms, 1..Len(ls)) = Records(ls)
  BY <1>2 DEF Records, RecordsOf
<1> QED
  BY <1>4, <1>5, <1>6 DEF ms

\* Every allocation is an object, a list or a record.
UsedOK == archive.used = Len(archive.heap) + Len(Lists) + Cardinality(Records(Lists))

\* No more was allocated, of anything.
LEMMA SameUsed ==
    ASSUME UsedOK, Len(archive'.heap) = Len(archive.heap), archive'.used = archive.used,
           archive'.all_string_ref = archive.all_string_ref
    PROVE  UsedOK'
BY DEF UsedOK, Lists

\* *target = p
LEMMA StoreUsed ==
    ASSUME UsedOK, ArchiveOK, NEW m \in Archives, NEW s \in Slots(archive), NEW p \in Int,
           Len(m.heap) = Len(archive.heap), Slots(m) = Slots(archive),
           m.used = archive.used, m.all_string_ref = archive.all_string_ref,
           archive' = SetSlot(m, s, p)
    PROVE  UsedOK'
<1>1. /\ SameObjects(m, archive') /\ archive'.used = m.used
      /\ archive'.all_string_ref = m.all_string_ref
  BY SetSlotIs
<1> QED
  BY <1>1, SameUsed DEF SameObjects

\* An object is allocated, and its address stored.
LEMMA AllocUsed ==
    ASSUME UsedOK, ArchiveOK, NEW o \in HeapObjects,
           \A i \in 1..Len(o.slots) : o.slots[i] = NULL,
           NEW s \in Slots(archive), NEW p \in Int,
           archive' = SetSlot(NewObject(archive, o), s, p)
    PROVE  UsedOK'
<1> DEFINE m == NewObject(archive, o)
           n == Len(archive.heap)
           k == Len(Lists)
           c == Cardinality(Records(Lists))
<1>1. archive \in Archives
  BY DEF ArchiveOK
<1>2. /\ m \in Archives /\ m.used = archive.used + 1
      /\ m.all_string_ref = archive.all_string_ref
      /\ Len(m.heap) = n + 1 /\ Slots(archive) \subseteq Slots(m)
  BY <1>1, NewObjectIs
<1> HIDE DEF m
<1>3. /\ Len(archive'.heap) = Len(m.heap) /\ archive'.used = m.used
      /\ archive'.all_string_ref = m.all_string_ref
  BY <1>2, SetSlotIs DEF SameObjects, m
<1>4. n \in Nat /\ k \in Nat /\ c \in Nat
  BY <1>1, ArchiveIs, RecordsFinite DEF Lists, Records
<1>5. archive.used = n + k + c
  BY DEF UsedOK
<1>6. Lists' = Lists /\ Len(archive'.heap) = n + 1 /\ archive'.used = archive.used + 1
  BY <1>2, <1>3 DEF Lists
<1>7. Len(Lists') = k /\ Cardinality(Records(Lists')) = c
  BY <1>6
<1> HIDE DEF n, k, c
<1>8. archive'.used = (n + 1) + k + c
  BY <1>4, <1>5, <1>6
<1> QED
  BY <1>6, <1>7, <1>8 DEF UsedOK

\* The steps that make an object.
LEMMA ObjectsUsed ==
    ASSUME MoveOK, UsedOK, MoveAtom \/ MoveContainer
    PROVE  UsedOK'
<1>1. archive \in Archives /\ ArchiveOK /\ DumpBase \in Nat
  BY InterpreterAddr DEF MoveOK, ArchiveOK
<1>2. ASSUME NEW t \in Int, NEW v \in Nat, NEW n \in Nat, NEW p \in Int, stack # <<>>,
             archive' = SetSlot(NewObject(archive, HeapObject(t, v, n)), top.target, p)
      PROVE  UsedOK'
  <2> DEFINE o == HeapObject(t, v, n)
  <2>1. o \in HeapObjects /\ \A i \in 1..Len(o.slots) : o.slots[i] = NULL
    BY HeapObjectIs
  <2>2. top.target \in Slots(archive)
    BY <1>2, ObjIs
  <2>3. archive' = SetSlot(NewObject(archive, o), top.target, p)
    BY <1>2
  <2> HIDE DEF o
  <2> QED
    BY <1>1, <2>1, <2>2, <2>3, AllocUsed
<1>3. ASSUME Crash PROVE UsedOK'
  BY <1>3, SameUsed DEF Crash
<1>4. ASSUME NEW t \in Int, NEW v \in Nat, NEW n \in Nat
      PROVE  Len(NewObject(archive, HeapObject(t, v, n)).heap) \in Int
  <2> DEFINE o == HeapObject(t, v, n)
  <2>1. o \in HeapObjects /\ \A i \in 1..Len(o.slots) : o.slots[i] = NULL
    BY HeapObjectIs
  <2> HIDE DEF o
  <2>2. NewObject(archive, o) \in Archives
    BY <1>1, <2>1, NewObjectIs
  <2>3. Len(NewObject(archive, o).heap) \in Nat
    BY <2>2, ArchiveIs
  <2> QED
    BY <2>3 DEF o
<1>5. CASE MoveAtom
  <2> DEFINE t == TypeAddr(DumpBase, "atom")
             v == obj.val
             m == NewObject(archive, HeapObject(t, v, 0))
  <2>1. stack # <<>>
    BY <1>5 DEF MoveAtom, Entering, Running
  <2>2. Crash \/ archive' = SetSlot(m, top.target, Len(m.heap))
    BY <1>5 DEF MoveAtom
  <2>3. v \in Nat /\ t \in Int /\ 0 \in Nat
    BY <1>1, <2>1, ObjIs, TypesDiffer
  <2> HIDE DEF t, v
  <2>4. Len(m.heap) \in Int
    BY <1>4, <2>3
  <2> QED
    BY <1>2, <1>3, <2>1, <2>2, <2>3, <2>4
<1>6. CASE MoveContainer
  <2> DEFINE ty == IF obj.kind = "code" THEN "code" ELSE "tuple"
             t == TypeAddr(DumpBase, ty)
             n == Len(obj.items)
             m == NewObject(archive, HeapObject(t, 0, n))
  <2>1. stack # <<>>
    BY <1>6 DEF MoveContainer, Entering, Running
  <2>2. Crash \/ archive' = SetSlot(m, top.target, NULL)
    BY <1>6 DEF MoveContainer, TargetAtEntry
  <2>3. n \in Nat /\ t \in Int /\ 0 \in Nat /\ NULL \in Int
    BY <1>1, <2>1, ObjIs, TypesDiffer DEF NULL
  <2> HIDE DEF ty, t, n
  <2> QED
    BY <1>2, <1>3, <2>1, <2>2, <2>3
<1> QED
  BY <1>5, <1>6

LEMMA StringUsed ==
    ASSUME MoveOK, UsedOK, MoveString
    PROVE  UsedOK'
<1>1. stack # <<>> /\ obj.kind = "str" /\ Running
  BY DEF MoveString, Entering, Running
<1>2. /\ archive \in Archives /\ ArchiveOK /\ DumpBase \in Nat
      /\ top.target \in Slots(archive) /\ obj.val \in 0..(Span - 1) /\ obj.val \in Nat
  BY <1>1, ObjIs, InterpreterAddr DEF MoveOK, Objects
<1>3. CASE Refers
  <2> DEFINE p == StaticStr(DumpBase, obj.val)
  <2>1. archive' = SetSlot(archive, top.target, p)
    BY <1>3, ReferMoves DEF ReferToStatic
  <2>2. p \in Int
    BY <1>2, InterpreterValues
  <2> HIDE DEF p
  <2> QED
    BY <1>2, <2>1, <2>2, StoreUsed
<1>4. CASE ~ Refers /\ orig_map[InternedKey] # NULL
  <2> DEFINE a == orig_map[InternedKey]
             m == SetSlot(archive, top.target, a)
  <2>1. archive' = Counted(m, a, 1)
    BY <1>4 DEF MoveString, Refers
  <2>2. a \in Int
    BY <1>1, CanonicalIs DEF InternedKey, MoveOK, TablesOK
  <2> HIDE DEF a
  <2>3. /\ m \in Archives /\ SameObjects(archive, m) /\ m.used = archive.used
        /\ m.all_string_ref = archive.all_string_ref
    BY <1>2, <2>2, SetSlotIs
  <2> HIDE DEF m
  <2>4. /\ SameObjects(m, archive') /\ archive'.used = m.used
        /\ archive'.all_string_ref = m.all_string_ref
    BY <2>1, <2>2, <2>3, CountedIs
  <2> QED
    BY <2>3, <2>4, SameUsed DEF SameObjects
<1>5. CASE ~ Refers /\ orig_map[InternedKey] = NULL /\ HeapFull
  BY <1>5, SameUsed DEF MoveString, Refers
<1>6. CASE ~ Refers /\ orig_map[InternedKey] = NULL /\ ~ HeapFull
  <2> DEFINE t == TypeAddr(DumpBase, "str")
             v == obj.val
             h == HeapObject(t, v, 0)
             o == [h EXCEPT !.interned = TRUE]
             m == NewObject(archive, o)
  <2>1. archive' = SetSlot(m, top.target, Len(m.heap))
    BY <1>6 DEF MoveString, Refers
  <2>2. v \in Nat /\ t \in Int /\ 0 \in Nat
    BY <1>2, TypesDiffer
  <2> HIDE DEF t, v
  <2>3. h \in HeapObjects /\ Len(h.slots) = 0
    BY <2>2, HeapObjectIs
  <2> HIDE DEF h
  <2>4. o \in HeapObjects /\ \A i \in 1..Len(o.slots) : o.slots[i] = NULL
    BY <2>3, InternedObjectIs
  <2> HIDE DEF o
  <2>5. m \in Archives
    BY <1>2, <2>4, NewObjectIs
  <2>6. Len(m.heap) \in Int
    BY <2>5, ArchiveIs
  <2> QED
    BY <1>2, <2>1, <2>4, <2>6, AllocUsed
<1> QED
  BY <1>3, <1>4, <1>5, <1>6

\* The lists change, and one record is allocated.
LEMMA ListUsed ==
    ASSUME MoveOK, UsedOK, NEW m \in Archives, NEW ls \in Seq(RefLists),
           Len(m.heap) = Len(archive.heap), m.used = archive.used,
           \/ Len(ls) = Len(Lists) + 1 /\ Records(ls) = Records(Lists)
           \/ Len(ls) = Len(Lists)
              /\ Cardinality(Records(ls)) = Cardinality(Records(Lists)) + 1,
           archive' = [[m EXCEPT !.all_string_ref = ls] EXCEPT !.used = @ + 1]
    PROVE  UsedOK'
<1> DEFINE n == Len(archive.heap)
           k == Len(Lists)
           c == Cardinality(Records(Lists))
           k2 == Len(ls)
           c2 == Cardinality(Records(ls))
<1>1. archive'.heap = m.heap /\ archive'.used = m.used + 1 /\ archive'.all_string_ref = ls
  BY ListsReplaced
<1>2. archive \in Archives
  BY DEF MoveOK, ArchiveOK
<1>3. n \in Nat /\ k \in Nat /\ c \in Nat
  BY <1>2, ArchiveIs, RecordsFinite DEF Lists, Records
<1>4. archive.used = n + k + c
  BY DEF UsedOK
<1>5. Lists' = ls /\ Len(archive'.heap) = n /\ archive'.used = archive.used + 1
  BY <1>1 DEF Lists
<1>6. (k2 = k + 1 /\ c2 = c) \/ (k2 = k /\ c2 = c + 1)
  OBVIOUS
<1>7. Len(Lists') = k2 /\ Cardinality(Records(Lists')) = c2
  BY <1>5
<1> HIDE DEF n, k, c, k2, c2
<1>8. archive'.used = n + k2 + c2
  BY <1>3, <1>4, <1>5, <1>6
<1> QED
  BY <1>5, <1>7, <1>8 DEF UsedOK

LEMMA ListsUsed ==
    ASSUME MoveOK, UsedOK, ListString
    PROVE  UsedOK'
<1>1. CASE str_map[top.res] # 0 \/ HeapFull
  BY <1>1, SameUsed DEF ListString
<1>2. CASE str_map[top.res] = 0 /\ ~ HeapFull
  <2> DEFINE l == [str |-> top.res, refs |-> <<>>]
             m == Pinned(archive, top.res)
             ls == Append(m.all_string_ref, l)
  <2>1. /\ stack # <<>>
        /\ archive' = [[m EXCEPT !.all_string_ref = ls] EXCEPT !.used = @ + 1]
    BY <1>2 DEF ListString, Running
  <2>2. archive \in Archives /\ top.res \in Nat /\ Lists \in Seq(RefLists)
    BY <2>1, ObjIs, ArchiveIs DEF Lists
  <2>3. /\ m \in Archives /\ SameObjects(archive, m) /\ m.used = archive.used
        /\ m.all_string_ref = Lists
    <3>1. m = Counted(archive, top.res, 1) /\ top.res \in Int /\ 1 \in Int
      BY <2>2 DEF Pinned
    <3> HIDE DEF m
    <3> QED
      BY <2>2, <3>1, CountedIs DEF Lists
  <2>4. l \in RefLists /\ Len(l.refs) = 0
    BY <2>2, EmptyList
  <2> HIDE DEF l
  <2>5. ls = Append(Lists, l)
    BY <2>3
  <2> HIDE DEF m, ls
  <2>6. /\ ls \in Seq(RefLists) /\ Len(ls) = Len(Lists) + 1
        /\ Records(ls) = Records(Lists)
    BY <2>2, <2>4, <2>5, AppendProperties, RecordsAppended
  <2> QED
    BY <2>1, <2>3, <2>6, ListUsed DEF SameObjects
<1> QED
  BY <1>1, <1>2

LEMMA RecordUsed ==
    ASSUME MoveOK, UsedOK, RecordString
    PROVE  UsedOK'
<1>1. CASE HeapFull
  BY <1>1, SameUsed DEF RecordString, Crash
<1>2. CASE ~ HeapFull
  <2> DEFINE n == top.list
             l == Lists[n]
             rs == <<top.target>> \o l.refs
             q == [l EXCEPT !.refs = rs]
             ls == [Lists EXCEPT ![n] = q]
  <2>1. /\ Running /\ stack # <<>> /\ obj.kind = "str" /\ top.list # 0
        /\ archive' = [archive EXCEPT !.all_string_ref[n].refs = Linked(top.target, @),
                                      !.used = @ + 1]
    BY <1>2 DEF RecordString, Running
  <2>2. archive' = [[archive EXCEPT !.all_string_ref = ls] EXCEPT !.used = @ + 1]
    BY <2>1 DEF Linked, Lists
  <2>3. IsString(top) /\ FrameOK(top)
    BY <2>1, StringTop
  <2>4. /\ n \in 1..Len(Lists) /\ archive \in Archives /\ top.target \in Slots(archive)
    BY <2>1, <2>3, ObjIs DEF FrameOK
  <2>5. /\ Lists \in Seq(RefLists) /\ l \in RefLists /\ l.refs \in Seq(Nat \X Nat)
        /\ Len(l.refs) \in Nat /\ top.target \in Nat \X Nat
    BY <2>4, ArchiveIs, SlotIs DEF Lists
  <2>6. rs \in Seq(Nat \X Nat) /\ Len(rs) = Len(l.refs) + 1
    <3> DEFINE t == top.target
               s1 == <<t>>
               r == l.refs
    <3> HIDE DEF t
    <3>1. s1 \in Seq(Nat \X Nat) /\ Len(s1) = 1
      BY <2>5 DEF t
    <3>2. rs = s1 \o r /\ r \in Seq(Nat \X Nat) /\ Len(r) \in Nat
      BY <2>5 DEF t
    <3> HIDE DEF s1, r, rs
    <3>3. rs \in Seq(Nat \X Nat) /\ Len(rs) = 1 + Len(r)
      BY <3>1, <3>2, ConcatProperties
    <3>4. 1 + Len(r) = Len(r) + 1
      BY <3>2
    <3> QED
      BY <3>3, <3>4 DEF r
  <2> HIDE DEF rs
  <2>7. q \in RefLists /\ q.refs = rs
    BY <2>5, <2>6 DEF RefLists
  <2> HIDE DEF q
  <2>8. /\ ls \in Seq(RefLists) /\ Len(ls) = Len(Lists)
        /\ \A j \in 1..Len(Lists) : ls[j] = IF j = n THEN q ELSE Lists[j]
    BY <2>4, <2>5, <2>7, ExceptSeq
  <2> HIDE DEF ls
  <2>9. Len(ls[n].refs) = Len(Lists[n].refs) + 1
    BY <2>4, <2>6, <2>7, <2>8
  <2>10. Cardinality(Records(ls)) = Cardinality(Records(Lists)) + 1
    <3> HIDE DEF n, l
    <3>1. \A j \in 1..Len(Lists) : j # n => ls[j] = Lists[j]
      BY <2>8
    <3> QED
      BY <2>4, <2>5, <2>8, <2>9, <3>1, RecordsLinked
  <2> QED
    BY <2>2, <2>4, <2>8, <2>10, ListUsed
<1> QED
  BY <1>1, <1>2

\* A step of the dump allocates what it accounts for.
LEMMA UsedStep ==
    ASSUME MoveOK, UsedOK, NextDump
    PROVE  UsedOK'
<1>1. CASE MoveReference
  <2>1. stack # <<>>
    BY <1>1 DEF MoveReference, Entering, Running
  <2>2. /\ archive \in Archives /\ top.target \in Slots(archive) /\ obj.val \in 0..(Span - 1)
        /\ ArchiveOK /\ DumpBase \in Nat
    BY <2>1, ObjIs, InterpreterAddr DEF Objects, MoveOK
  <2>3. PICK p \in Int : archive' = SetSlot(archive, top.target, p)
    BY <1>1, <2>2, InterpreterValues DEF MoveReference
  <2> QED
    BY <2>2, <2>3, StoreUsed
<1>2. CASE MoveUnsupported
  <2>1. stack # <<>> /\ archive' = SetSlot(archive, top.target, NULL) /\ NULL \in Int
    BY <1>2 DEF MoveUnsupported, Entering, Running, NULL
  <2>2. archive \in Archives /\ top.target \in Slots(archive) /\ ArchiveOK
    BY <2>1, ObjIs DEF MoveOK
  <2> QED
    BY <2>1, <2>2, StoreUsed
<1>3. CASE MoveItem
  <2>1. Filling /\ archive' = ItemCounted
    BY <1>3 DEF MoveItem
  <2>2. /\ SameObjects(archive, archive') /\ archive'.used = archive.used
        /\ archive'.all_string_ref = archive.all_string_ref
    BY <2>1, ItemCountedIs
  <2> QED
    BY <2>2, SameUsed DEF SameObjects
<1>4. CASE PublishContainer
  <2> DEFINE m == ItemCounted
  <2>1. Filling /\ stack # <<>> /\ archive' = SetSlot(m, top.target, top.res)
    BY <1>4 DEF PublishContainer, Filling, Running
  <2>2. /\ m \in Archives /\ SameObjects(archive, m) /\ m.used = archive.used
        /\ m.all_string_ref = archive.all_string_ref
    BY <2>1, ItemCountedIs
  <2> HIDE DEF m
  <2>3. /\ archive \in Archives /\ top.target \in Slots(archive) /\ ArchiveOK
        /\ top.res \in Int
    BY <2>1, ObjIs DEF MoveOK
  <2>4. Slots(m) = Slots(archive) /\ Len(m.heap) = Len(archive.heap)
    BY <2>2, <2>3, SlotsKept DEF SameObjects
  <2> QED
    BY <2>1, <2>2, <2>3, <2>4, StoreUsed
<1>5. CASE Unwind \/ Return \/ Kill
  BY <1>5, SameUsed DEF Unwind, Return, Kill
<1> QED
  BY <1>1, <1>2, <1>3, <1>4, <1>5, ObjectsUsed, StringUsed, ListsUsed, RecordUsed
     DEF NextDump, Move

\* What the two programs have come to.
PhasesOK == /\ dumper \in {"running", "returned", "crashed", "killed"}
            /\ loader \in {"absent", "patching", "interning", "ready"}

LEMMA UsedInvariant == Spec => [](DumpOK /\ UsedOK /\ PhasesOK)
<1>1. Init => DumpOK /\ UsedOK /\ PhasesOK
  <2> SUFFICES ASSUME Init PROVE DumpOK /\ UsedOK /\ PhasesOK
    OBVIOUS
  <2>1. DumpOK
    BY DumpInit DEF Init
  <2>2. archive.used = 0 /\ archive.heap = <<>> /\ Lists = <<>>
    BY DEF Init, InitDump, EmptyArchive, Lists
  <2>3. Records(<<>>) = {}
    BY DEF Records, RecordsOf
  <2>4. UsedOK
    BY <2>2, <2>3, FS_EmptySet DEF UsedOK
  <2>5. PhasesOK
    BY DEF Init, InitDump, L!InitLoad, PhasesOK
  <2> QED
    BY <2>1, <2>4, <2>5
<1>2. DumpOK /\ UsedOK /\ PhasesOK /\ [Next]_vars => DumpOK' /\ UsedOK' /\ PhasesOK'
  <2> SUFFICES ASSUME DumpOK, UsedOK, PhasesOK, [Next]_vars
               PROVE  DumpOK' /\ UsedOK' /\ PhasesOK'
    OBVIOUS
  <2>1. CASE Dump /\ env' = env
    <3>1. NextDump /\ loader' = loader
      BY <2>1 DEF Dump, loadVars
    <3>2. DumpOK' /\ UsedOK'
      BY <2>1, <3>1, DumpStep, UsedStep DEF DumpOK
    <3>3. dumper' \in {"running", "returned", "crashed", "killed"}
      BY <3>1 DEF PhasesOK, NextDump, Move, Kill, MoveReference, MoveAtom, MoveUnsupported,
           Unwind, MoveString, ReferToStatic, ListString, RecordString, MoveContainer,
           MoveItem, PublishContainer, Return, Crash
    <3> QED
      BY <3>1, <3>2, <3>3 DEF PhasesOK
  <2>2. CASE Load /\ env' = env
    <3>1. UNCHANGED <<env, dumpVars>> /\ L!NextLoad
      BY <2>2 DEF Load
    <3>2. DumpOK' /\ UsedOK' /\ dumper' = dumper
      BY <3>1, DumpStays DEF UsedOK, Lists, dumpVars
    <3>3. loader' \in {"absent", "patching", "interning", "ready"}
      BY <3>1 DEF PhasesOK, L!NextLoad, L!Load, L!Map, L!Patch, L!PatchEnd, L!InternString,
           L!InternEnd, L!Exit
    <3> QED
      BY <3>2, <3>3 DEF PhasesOK
  <2>3. CASE UNCHANGED vars
    <3>1. UNCHANGED <<env, dumpVars>> /\ UNCHANGED loader
      BY <2>3 DEF vars, loadVars
    <3> QED
      BY <3>1, DumpStays DEF UsedOK, PhasesOK, Lists, dumpVars
  <2> QED
    BY <2>1, <2>2, <2>3 DEF Next
<1> QED
  BY <1>1, <1>2, PTL DEF Spec

\* TypeOK: the header and the calls on the stack are what they should be, and the
\* heap's count is exact, also in the file of a killed dump: every allocation is
\* an object, a list or a record of one.
THEOREM ArchiveIsTyped == Spec => []TypeOK
<1>1. DumpOK /\ UsedOK /\ PhasesOK => TypeOK
  <2> SUFFICES ASSUME DumpOK, UsedOK, PhasesOK PROVE TypeOK
    OBVIOUS
  <2>1. MoveOK /\ archive \in Archives
    BY DEF DumpOK, MoveOK, ArchiveOK
  <2>2. /\ archive.obj \in Int /\ archive.used \in Nat /\ Lists \in Seq(RefLists)
        /\ HeapCells \in Nat /\ archive.used <= HeapCells
    BY <2>1, ArchiveIs, InterpreterAddr DEF Lists, MoveOK, ArchiveOK
  <2>3. archive.used \in 0..HeapCells
    BY <2>2
  <2>4. archive.used = Len(archive.heap) + Len(Lists) +
                       FoldLeft(LAMBDA n, l : n + Len(l.refs), 0, Lists)
    <3>1. FoldLeft(LAMBDA n, l : n + Len(l.refs), 0, Lists) = Cardinality(Records(Lists))
      BY <2>2, RecordsSum
    <3> QED
      BY <3>1 DEF UsedOK
  <2>5. ASSUME NEW f \in ToSet(stack)
        PROVE  f.op \in Nodes /\ f.target \in Slots(archive)
    <3>1. stack \in Seq(Frames)
      BY <2>1 DEF MoveOK, StackOK
    <3>2. PICK k \in 1..Len(stack) : f = stack[k]
      BY <3>1, LenProperties DEF ToSet
    <3> QED
      BY <2>1, <3>2 DEF MoveOK, StackOK, FrameOK
  <2> QED
    BY <2>2, <2>3, <2>4, <2>5 DEF TypeOK, PhasesOK
<1> QED
  BY <1>1, UsedInvariant, PTL
=============================================================================
