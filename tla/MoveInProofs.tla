------------------------------ MODULE MoveInProofs ------------------------------
(***************************************************************************)
(* Proofs about MoveIn, for every object graph, every size of the heap and *)
(* a dump that is killed, or runs out of memory, anywhere: the lists of    *)
(* all_string_ref (StringsOK), the reference counts (CountsOK), and what   *)
(* the source and the copies stand for (ValuesOK).  They rest on lemmas    *)
(* about archive memory: the stores that are made to it, and the values    *)
(* that its pointers stand for.                                            *)
(***************************************************************************)
EXTENDS MoveIn, SequenceTheorems, FiniteSetTheorems, WellFoundedInduction, TLAPS

-----------------------------------------------------------------------------
(* Archives, and the stores that are made to them. *)

HeapObjects == [type : Int, val : Nat, interned : BOOLEAN, rc : Int, slots : Seq(Int)]
RefLists    == [str : Nat, refs : Seq(Nat \X Nat)]
Archives    == [none_base : Int, obj : Int, all_string_ref : Seq(RefLists),
                used : Nat, heap : Seq(HeapObjects)]

Addresses(m) == 1..Len(m.heap)

\* What a store leaves alone in an object.
SameKind(o, q) == /\ o.type = q.type /\ o.val = q.val /\ o.interned = q.interned
                  /\ Len(o.slots) = Len(q.slots)

\* The header but the root, and the objects but their slots and counts.
SameObjects(m, w) ==
    /\ w.none_base = m.none_base
    /\ Len(w.heap) = Len(m.heap)
    /\ \A a \in Addresses(m) : SameKind(w.heap[a], m.heap[a])

SameSlots(m, w) == \A s \in Slots(m) : GetSlot(w, s) = GetSlot(m, s)

SameCounts(m, w) == \A a \in Addresses(m) : w.heap[a].rc = m.heap[a].rc

LEMMA ArchiveIs ==
    ASSUME NEW m \in Archives
    PROVE  /\ m.heap \in Seq(HeapObjects) /\ Len(m.heap) \in Nat
           /\ m.all_string_ref \in Seq(RefLists) /\ Len(m.all_string_ref) \in Nat
           /\ m.obj \in Int /\ m.used \in Nat
           /\ \A a \in Addresses(m) :
                 /\ m.heap[a] \in HeapObjects /\ a \in Nat /\ a # 0
                 /\ m.heap[a].slots \in Seq(Int) /\ Len(m.heap[a].slots) \in Nat
                 /\ m.heap[a].val \in Nat /\ m.heap[a].rc \in Int
                 /\ m.heap[a].type \in Int
           /\ \A j \in 1..Len(m.all_string_ref) :
                 /\ m.all_string_ref[j] \in RefLists
                 /\ m.all_string_ref[j].refs \in Seq(Nat \X Nat)
                 /\ m.all_string_ref[j].str \in Nat
                 /\ Len(m.all_string_ref[j].refs) \in Nat
<1>1. /\ m.heap \in Seq(HeapObjects) /\ m.all_string_ref \in Seq(RefLists)
      /\ m.obj \in Int /\ m.used \in Nat
  BY DEF Archives
<1>2. Len(m.heap) \in Nat /\ Len(m.all_string_ref) \in Nat
  BY <1>1, LenProperties
<1>3. ASSUME NEW a \in Addresses(m)
      PROVE  /\ m.heap[a] \in HeapObjects /\ a \in Nat /\ a # 0
             /\ m.heap[a].slots \in Seq(Int) /\ Len(m.heap[a].slots) \in Nat
             /\ m.heap[a].val \in Nat /\ m.heap[a].rc \in Int
             /\ m.heap[a].type \in Int
  <2>1. m.heap[a] \in HeapObjects
    BY <1>1, ElementOfSeq DEF Addresses
  <2>2. /\ m.heap[a].slots \in Seq(Int) /\ m.heap[a].val \in Nat /\ m.heap[a].rc \in Int
        /\ m.heap[a].type \in Int
    BY <2>1 DEF HeapObjects
  <2>3. Len(m.heap[a].slots) \in Nat
    BY <2>2, LenProperties
  <2> QED
    BY <1>2, <2>1, <2>2, <2>3 DEF Addresses
<1>4. ASSUME NEW j \in 1..Len(m.all_string_ref)
      PROVE  /\ m.all_string_ref[j] \in RefLists
             /\ m.all_string_ref[j].refs \in Seq(Nat \X Nat)
             /\ m.all_string_ref[j].str \in Nat
             /\ Len(m.all_string_ref[j].refs) \in Nat
  <2>1. m.all_string_ref[j] \in RefLists
    BY <1>1, ElementOfSeq
  <2>2. m.all_string_ref[j].refs \in Seq(Nat \X Nat) /\ m.all_string_ref[j].str \in Nat
    BY <2>1 DEF RefLists
  <2> QED
    BY <2>1, <2>2, LenProperties
<1> QED
  BY <1>1, <1>2, <1>3, <1>4

LEMMA SlotIs ==
    ASSUME NEW m \in Archives, NEW s \in Slots(m)
    PROVE  /\ s \in Nat \X Nat /\ GetSlot(m, s) \in Int
           /\ s # Root => /\ s[1] \in Addresses(m) /\ s[2] \in 1..Len(m.heap[s[1]].slots)
                          /\ s = <<s[1], s[2]>>
<1>1. CASE s = Root
  <2>1. m.obj \in Int
    BY DEF Archives
  <2> QED
    BY <1>1, <2>1 DEF GetSlot, Root
<1>2. CASE s # Root
  <2>1. PICK a \in Addresses(m) : \E i \in 1..Len(m.heap[a].slots) : s = <<a, i>>
    BY <1>2 DEF Slots, Addresses
  <2>2. PICK i \in 1..Len(m.heap[a].slots) : s = <<a, i>>
    BY <2>1
  <2>3. m.heap[a].slots \in Seq(Int) /\ a \in Nat /\ Len(m.heap[a].slots) \in Nat
    BY ArchiveIs
  <2>4. m.heap[a].slots[i] \in Int /\ i \in Nat
    BY <2>3, ElementOfSeq
  <2>5. s[1] = a /\ s[2] = i
    BY <2>2
  <2> QED
    BY <1>2, <2>2, <2>3, <2>4, <2>5 DEF GetSlot
<1> QED
  BY <1>1, <1>2

LEMMA SlotIn ==
    ASSUME NEW m, NEW a \in Addresses(m), NEW i \in 1..Len(m.heap[a].slots)
    PROVE  /\ <<a, i>> \in Slots(m) /\ <<a, i>> # Root
           /\ GetSlot(m, <<a, i>>) = m.heap[a].slots[i]
<1>1. <<a, i>> \in Slots(m)
  BY DEF Slots, Addresses
<1>2. <<a, i>> # Root
  BY DEF Root, Addresses
<1> QED
  BY <1>1, <1>2 DEF GetSlot

LEMMA RootIn ==
    ASSUME NEW m
    PROVE  Root \in Slots(m) /\ GetSlot(m, Root) = m.obj
BY DEF Slots, GetSlot

\* The slots that refer to p.
Holding(m, p) == {s \in Slots(m) : GetSlot(m, s) = p}

LEMMA SlotsFinite ==
    ASSUME NEW m \in Archives
    PROVE  IsFiniteSet(Slots(m))
<1> DEFINE len(a) == Len(m.heap[a].slots)
           of(a) == {a} \X (1..len(a))
           n == Len(m.heap)
           f == [a \in 1..n |-> of(a)]
           all == {of(a) : a \in 1..n}
<1>1. n \in Nat
  BY LenProperties DEF Archives
<1>2. ASSUME NEW a \in 1..n
      PROVE  IsFiniteSet(of(a)) /\ of(a) = {<<a, i>> : i \in 1..Len(m.heap[a].slots)}
  <2>1. len(a) \in Nat
    <3>1. m.heap[a] \in HeapObjects
      BY DEF Archives
    <3>2. m.heap[a].slots \in Seq(Int)
      BY <3>1 DEF HeapObjects
    <3> QED
      BY <3>2, LenProperties
  <2> HIDE DEF len
  <2>2. IsFiniteSet(1..len(a))
    <3>1. 1 \in Int /\ len(a) \in Int
      BY <2>1
    <3> QED
      BY <3>1, FS_Interval
  <2>3. IsFiniteSet(of(a))
    <3>1. IsFiniteSet({a})
      BY FS_Singleton
    <3> QED
      BY <2>2, <3>1, FS_Product
  <2>4. of(a) = {<<a, i>> : i \in 1..len(a)}
    OBVIOUS
  <2> QED
    BY <2>3, <2>4 DEF len
<1>3. IsFiniteSet(all)
  <2>1. f \in Surjection(1..n, all)
    BY DEF Surjection
  <2>2. IsFiniteSet(1..n)
    BY <1>1, FS_Interval
  <2> HIDE DEF f, all, n
  <2> QED
    BY <2>1, <2>2, FS_Surjection
<1>4. \A T \in all : IsFiniteSet(T)
  BY <1>2
<1>5. IsFiniteSet(UNION all) /\ IsFiniteSet({Root})
  BY <1>3, <1>4, FS_UNION, FS_Singleton
<1>6. Slots(m) = {Root} \cup UNION all
  BY <1>2 DEF Slots
<1> HIDE DEF all
<1> QED
  BY <1>5, <1>6, FS_Union

LEMMA HoldingFinite ==
    ASSUME NEW m \in Archives, NEW p
    PROVE  IsFiniteSet(Holding(m, p)) /\ Cardinality(Holding(m, p)) \in Nat
<1>1. IsFiniteSet(Holding(m, p))
  BY SlotsFinite, FS_Subset DEF Holding
<1> QED
  BY <1>1, FS_CardinalityType

LEMMA SlotsByLength ==
    ASSUME NEW m, NEW w, Addresses(w) = Addresses(m),
           \A a \in Addresses(m) : Len(w.heap[a].slots) = Len(m.heap[a].slots)
    PROVE  Slots(w) = Slots(m)
<1> DEFINE of(x, a) == {<<a, i>> : i \in 1..Len(x.heap[a].slots)}
<1>1. Slots(m) = {Root} \cup UNION {of(m, a) : a \in Addresses(m)}
  BY DEF Slots, Addresses
<1>2. Slots(w) = {Root} \cup UNION {of(w, a) : a \in Addresses(w)}
  BY DEF Slots, Addresses
<1>3. \A a \in Addresses(m) : of(w, a) = of(m, a)
  OBVIOUS
<1> HIDE DEF of
<1>4. UNION {of(w, a) : a \in Addresses(w)} = UNION {of(m, a) : a \in Addresses(m)}
  BY <1>3
<1> QED
  BY <1>1, <1>2, <1>4

LEMMA SlotsKept ==
    ASSUME NEW m, NEW w, SameObjects(m, w)
    PROVE  Slots(w) = Slots(m) /\ Addresses(w) = Addresses(m)
<1>1. Addresses(w) = Addresses(m)
  BY DEF SameObjects, Addresses
<1>2. \A a \in Addresses(m) : Len(w.heap[a].slots) = Len(m.heap[a].slots)
  BY DEF SameObjects, SameKind
<1> QED
  BY <1>1, <1>2, SlotsByLength

\* *s = p
LEMMA SetSlotIs ==
    ASSUME NEW m \in Archives, NEW s \in Slots(m), NEW p \in Int
    PROVE  LET w == SetSlot(m, s, p) IN
           /\ w \in Archives /\ SameObjects(m, w) /\ SameCounts(m, w)
           /\ w.used = m.used /\ w.all_string_ref = m.all_string_ref
           /\ \A r \in Slots(m) : GetSlot(w, r) = IF r = s THEN p ELSE GetSlot(m, r)
<1> DEFINE w == SetSlot(m, s, p)
<1>1. CASE s = Root
  <2>1. w = [m EXCEPT !.obj = p]
    BY <1>1 DEF SetSlot
  <2>2. /\ w \in Archives /\ w.used = m.used /\ w.all_string_ref = m.all_string_ref
        /\ w.heap = m.heap /\ w.none_base = m.none_base /\ w.obj = p
    BY <2>1 DEF Archives
  <2> HIDE DEF w
  <2>3. SameObjects(m, w) /\ SameCounts(m, w)
    BY <2>2 DEF SameObjects, SameCounts, SameKind
  <2>4. \A r \in Slots(m) : GetSlot(w, r) = IF r = s THEN p ELSE GetSlot(m, r)
    BY <1>1, <2>2 DEF GetSlot
  <2> QED
    BY <2>2, <2>3, <2>4 DEF w
<1>2. CASE s # Root
  <2> DEFINE a == s[1]
             i == s[2]
             o == m.heap[a]
             sl == [o.slots EXCEPT ![i] = p]
             q == [o EXCEPT !.slots = sl]
             h == [m.heap EXCEPT ![a] = q]
  <2>1. a \in Addresses(m) /\ i \in 1..Len(o.slots) /\ s = <<a, i>>
    BY <1>2, SlotIs
  <2>2. o \in HeapObjects /\ o.slots \in Seq(Int) /\ m.heap \in Seq(HeapObjects)
    BY <2>1, ArchiveIs
  <2>3. /\ sl \in Seq(Int) /\ Len(sl) = Len(o.slots)
        /\ \A j \in 1..Len(o.slots) : sl[j] = IF j = i THEN p ELSE o.slots[j]
    BY <2>1, <2>2, ExceptSeq
  <2>4. w = [m EXCEPT !.heap = h]
    BY <1>2 DEF SetSlot
  <2> HIDE DEF a, i, o, sl
  <2>5. q \in HeapObjects /\ q.slots = sl /\ SameKind(q, o) /\ q.rc = o.rc
    BY <2>2, <2>3 DEF HeapObjects, SameKind
  <2> HIDE DEF q
  <2>6. /\ h \in Seq(HeapObjects) /\ Len(h) = Len(m.heap)
        /\ \A b \in Addresses(m) : h[b] = IF b = a THEN q ELSE m.heap[b]
    BY <2>1, <2>2, <2>5, ExceptSeq DEF Addresses
  <2> HIDE DEF h
  <2>7. /\ w \in Archives /\ w.used = m.used /\ w.all_string_ref = m.all_string_ref
        /\ w.heap = h /\ w.none_base = m.none_base /\ w.obj = m.obj
    BY <2>4, <2>6 DEF Archives
  <2> HIDE DEF w
  <2>8. SameObjects(m, w) /\ SameCounts(m, w)
    BY <2>5, <2>6, <2>7 DEF SameObjects, SameCounts, SameKind, o
  <2>9. ASSUME NEW r \in Slots(m)
        PROVE  GetSlot(w, r) = IF r = s THEN p ELSE GetSlot(m, r)
    <3>1. CASE r = Root
      BY <1>2, <2>7, <3>1 DEF GetSlot
    <3>2. CASE r # Root
      <4> DEFINE b == r[1]
                 j == r[2]
      <4>1. b \in Addresses(m) /\ j \in 1..Len(m.heap[b].slots) /\ r = <<b, j>>
        BY <3>2, SlotIs
      <4>2. GetSlot(w, r) = h[b].slots[j] /\ GetSlot(m, r) = m.heap[b].slots[j]
        BY <2>7, <3>2 DEF GetSlot
      <4> HIDE DEF b, j
      <4>3. CASE b = a
        <5>1. r = s <=> j = i
          BY <2>1, <4>1, <4>3
        <5>2. h[b].slots[j] = IF j = i THEN p ELSE m.heap[b].slots[j]
          BY <2>3, <2>5, <2>6, <4>1, <4>3 DEF o
        <5> QED
          BY <4>2, <5>1, <5>2
      <4>4. CASE b # a
        BY <2>1, <2>6, <4>1, <4>2, <4>4
      <4> QED
        BY <4>3, <4>4
    <3> QED
      BY <3>1, <3>2
  <2> QED
    BY <2>7, <2>8, <2>9 DEF w
<1> QED
  BY <1>1, <1>2

\* n more references to p.
LEMMA CountedIs ==
    ASSUME NEW m \in Archives, NEW p \in Int, NEW n \in Int
    PROVE  LET w == Counted(m, p, n) IN
           /\ w \in Archives /\ SameObjects(m, w) /\ SameSlots(m, w)
           /\ w.used = m.used /\ w.all_string_ref = m.all_string_ref /\ w.obj = m.obj
           /\ \A a \in Addresses(m) :
                 w.heap[a].rc = IF a = p /\ ~ Py312 THEN m.heap[a].rc + n
                                ELSE m.heap[a].rc
<1> DEFINE w == Counted(m, p, n)
<1>1. CASE ~ (InHeap(m, p) /\ ~ Py312)
  <2>1. w = m
    BY <1>1 DEF Counted
  <2> HIDE DEF w
  <2>2. \A a \in Addresses(m) : ~ (a = p /\ ~ Py312)
    BY <1>1 DEF InHeap, Addresses
  <2> QED
    BY <2>1, <2>2 DEF SameObjects, SameKind, SameSlots, w
<1>2. CASE InHeap(m, p) /\ ~ Py312
  <2> DEFINE o == m.heap[p]
             q == [o EXCEPT !.rc = @ + n]
             h == [m.heap EXCEPT ![p] = q]
  <2>1. p \in Addresses(m) /\ o \in HeapObjects /\ m.heap \in Seq(HeapObjects)
    BY <1>2, ArchiveIs DEF InHeap, Addresses
  <2>2. w = [m EXCEPT !.heap = h]
    BY <1>2 DEF Counted
  <2> HIDE DEF o
  <2>3. q \in HeapObjects /\ q.slots = o.slots /\ SameKind(q, o) /\ q.rc = o.rc + n
    BY <2>1 DEF HeapObjects, SameKind
  <2> HIDE DEF q
  <2>4. /\ h \in Seq(HeapObjects) /\ Len(h) = Len(m.heap)
        /\ \A b \in Addresses(m) : h[b] = IF b = p THEN q ELSE m.heap[b]
    BY <2>1, <2>3, ExceptSeq DEF Addresses
  <2> HIDE DEF h
  <2>5. /\ w \in Archives /\ w.used = m.used /\ w.all_string_ref = m.all_string_ref
        /\ w.heap = h /\ w.none_base = m.none_base /\ w.obj = m.obj
    BY <2>2, <2>4 DEF Archives
  <2> HIDE DEF w
  <2>6. SameObjects(m, w)
    BY <2>3, <2>4, <2>5 DEF SameObjects, SameKind, o
  <2>7. \A b \in Addresses(m) : w.heap[b].slots = m.heap[b].slots
    BY <2>3, <2>4, <2>5 DEF o
  <2>8. SameSlots(m, w)
    <3> SUFFICES ASSUME NEW s \in Slots(m) PROVE GetSlot(w, s) = GetSlot(m, s)
      BY DEF SameSlots
    <3>1. s # Root => s[1] \in Addresses(m)
      BY SlotIs
    <3> QED
      BY <2>5, <2>7, <3>1 DEF GetSlot
  <2>9. \A a \in Addresses(m) :
           w.heap[a].rc = IF a = p /\ ~ Py312 THEN m.heap[a].rc + n ELSE m.heap[a].rc
    BY <1>2, <2>3, <2>4, <2>5 DEF o
  <2> QED
    BY <2>5, <2>6, <2>8, <2>9 DEF w
<1> QED
  BY <1>1, <1>2

\* An object is allocated; its slots are empty.
LEMMA HeapObjectIs ==
    ASSUME NEW type \in Int, NEW val \in Nat, NEW n \in Nat
    PROVE  LET o == HeapObject(type, val, n) IN
           /\ o \in HeapObjects /\ o.type = type /\ o.val = val /\ o.rc = 1
           /\ ~ o.interned
           /\ Len(o.slots) = n /\ \A i \in 1..n : o.slots[i] = NULL
<1> DEFINE sl == [i \in 1..n |-> NULL]
           o == HeapObject(type, val, n)
<1>1. sl \in Seq(Int) /\ Len(sl) = n /\ \A i \in 1..n : sl[i] = NULL
  BY DEF NULL
<1> HIDE DEF sl
<1>2. o = [type |-> type, val |-> val, interned |-> FALSE, rc |-> 1, slots |-> sl]
  BY DEF HeapObject, sl
<1> HIDE DEF o
<1>3. o \in HeapObjects
  BY <1>1, <1>2 DEF HeapObjects
<1>4. /\ o.type = type /\ o.val = val /\ o.rc = 1 /\ o.slots = sl
      /\ ~ o.interned
  BY <1>2
<1> QED
  BY <1>1, <1>3, <1>4 DEF o

LEMMA InternedObjectIs ==
    ASSUME NEW o \in HeapObjects
    PROVE  LET q == [o EXCEPT !.interned = TRUE] IN
           /\ q \in HeapObjects /\ q.type = o.type /\ q.val = o.val /\ q.rc = o.rc
           /\ q.slots = o.slots
BY DEF HeapObjects

-----------------------------------------------------------------------------
(* Values that are defined by recursion over data without cycles.  D are the *)
(* points, B those that have items; an item of p is slots[p][i].             *)

\* Any group of points has one whose items are not in the group.
Grounded(D, B, slots) ==
    \A T \in SUBSET D : T # {} =>
        \E p \in T : p \in B => \A i \in DOMAIN slots[p] : slots[p][i] \notin T

\* f gives the points of A their values.
Folded(f, A, B, tag, slots, leaf) ==
    \A p \in A : f[p] = IF p \in B THEN <<tag[p], [i \in DOMAIN slots[p] |-> f[slots[p][i]]]>>
                        ELSE leaf[p]

Fold(f, D, B, tag, slots, leaf) ==
    [p \in D |-> IF p \in B THEN <<tag[p], [i \in DOMAIN slots[p] |-> f[slots[p][i]]]>>
                 ELSE leaf[p]]

Attempt(f, D, B, tag, slots, leaf) ==
    /\ f = [p \in DOMAIN f |-> f[p]] /\ DOMAIN f \subseteq D
    /\ \A p \in DOMAIN f : p \in B => \A i \in DOMAIN slots[p] : slots[p][i] \in DOMAIN f
    /\ Folded(f, DOMAIN f, B, tag, slots, leaf)

LEMMA AttemptsAgree ==
    ASSUME NEW D, NEW B, NEW tag, NEW slots, NEW leaf, Grounded(D, B, slots),
           NEW f, NEW g, Attempt(f, D, B, tag, slots, leaf), Attempt(g, D, B, tag, slots, leaf),
           NEW q \in DOMAIN f, q \in DOMAIN g
    PROVE  f[q] = g[q]
<1> DEFINE T == {p \in DOMAIN f \cap DOMAIN g : f[p] # g[p]}
<1> SUFFICES T = {}
  OBVIOUS
<1> SUFFICES ASSUME T # {} PROVE FALSE
  OBVIOUS
<1>1. T \in SUBSET D
  BY DEF Attempt
<1>2. PICK p \in T : p \in B => \A i \in DOMAIN slots[p] : slots[p][i] \notin T
  BY <1>1 DEF Grounded
<1>3. p \in DOMAIN f /\ p \in DOMAIN g /\ f[p] # g[p]
  OBVIOUS
<1>4. CASE p \in B
  <2>1. \A i \in DOMAIN slots[p] : f[slots[p][i]] = g[slots[p][i]]
    BY <1>2, <1>3, <1>4 DEF Attempt
  <2>2. [i \in DOMAIN slots[p] |-> f[slots[p][i]]] = [i \in DOMAIN slots[p] |-> g[slots[p][i]]]
    BY <2>1
  <2>3. f[p] = <<tag[p], [i \in DOMAIN slots[p] |-> f[slots[p][i]]]>>
    BY <1>3, <1>4 DEF Attempt, Folded
  <2>4. g[p] = <<tag[p], [i \in DOMAIN slots[p] |-> g[slots[p][i]]]>>
    BY <1>3, <1>4 DEF Attempt, Folded
  <2> QED
    BY <1>3, <2>2, <2>3, <2>4
<1>5. CASE p \notin B
  BY <1>3, <1>5 DEF Attempt, Folded
<1> QED
  BY <1>4, <1>5

\* So there is a function that satisfies the recursive definition.
LEMMA FoldExists ==
    ASSUME NEW D, NEW B, NEW tag, NEW slots, NEW leaf, Grounded(D, B, slots),
           \A p \in D \cap B : \A i \in DOMAIN slots[p] : slots[p][i] \in D
    PROVE  \E f : f = Fold(f, D, B, tag, slots, leaf)
<1> DEFINE Good(g) == Attempt(g, D, B, tag, slots, leaf)
           A == {p \in D : \E g : Good(g) /\ p \in DOMAIN g}
           att(p) == CHOOSE g : Good(g) /\ p \in DOMAIN g
           f == [p \in A |-> att(p)[p]]
           T == D \ A
<1>1. ASSUME NEW p \in A PROVE Good(att(p)) /\ p \in DOMAIN att(p)
  OBVIOUS
<1>2. ASSUME NEW g, Good(g), NEW p \in DOMAIN g PROVE p \in A /\ f[p] = g[p]
  <2>1. p \in A
    BY <1>2 DEF Attempt
  <2>2. Good(att(p)) /\ p \in DOMAIN att(p)
    BY <1>1, <2>1
  <2> HIDE DEF att
  <2>3. att(p)[p] = g[p]
    BY <1>2, <2>2, AttemptsAgree
  <2> QED
    BY <2>1, <2>3
<1> HIDE DEF att
<1>3. ASSUME NEW p \in A
      PROVE  /\ p \in B => \A i \in DOMAIN slots[p] : slots[p][i] \in A
             /\ f[p] = IF p \in B THEN <<tag[p], [i \in DOMAIN slots[p] |-> f[slots[p][i]]]>>
                       ELSE leaf[p]
  <2> DEFINE g == att(p)
  <2>1. Good(g) /\ p \in DOMAIN g
    BY <1>1
  <2> HIDE DEF g
  <2>2. f[p] = g[p]
    BY <1>2, <2>1
  <2>3. CASE p \in B
    <3>1. \A i \in DOMAIN slots[p] : slots[p][i] \in DOMAIN g
      BY <2>1, <2>3 DEF Attempt
    <3> HIDE DEF f, A
    <3>2. \A i \in DOMAIN slots[p] : slots[p][i] \in A /\ f[slots[p][i]] = g[slots[p][i]]
      BY <1>2, <2>1, <3>1
    <3>3. [i \in DOMAIN slots[p] |-> f[slots[p][i]]] = [i \in DOMAIN slots[p] |-> g[slots[p][i]]]
      BY <3>2
    <3>4. g[p] = <<tag[p], [i \in DOMAIN slots[p] |-> g[slots[p][i]]]>>
      BY <2>1, <2>3 DEF Attempt, Folded
    <3> QED
      BY <2>2, <2>3, <3>2, <3>3, <3>4
  <2>4. CASE p \notin B
    BY <2>1, <2>2, <2>4 DEF Attempt, Folded
  <2> QED
    BY <2>3, <2>4
<1>4. T = {}
  <2> SUFFICES ASSUME T # {} PROVE FALSE
    OBVIOUS
  <2>1. PICK p \in T : p \in B => \A i \in DOMAIN slots[p] : slots[p][i] \notin T
    BY DEF Grounded
  <2>2. p \in B => \A i \in DOMAIN slots[p] : slots[p][i] \in A
    BY <2>1
  <2> DEFINE v == IF p \in B THEN <<tag[p], [i \in DOMAIN slots[p] |-> f[slots[p][i]]]>>
                  ELSE leaf[p]
             h == [q \in A \cup {p} |-> IF q = p THEN v ELSE f[q]]
  <2>3. p \notin A /\ p \in D /\ A \subseteq D
    BY <2>1
  <2>4. DOMAIN h = A \cup {p} /\ h[p] = v /\ \A q \in A : h[q] = f[q]
    BY <2>3
  <2>5. h = [q \in DOMAIN h |-> h[q]]
    OBVIOUS
  <2> HIDE DEF h, f, A, T
  <2>6. ASSUME NEW q \in DOMAIN h
        PROVE /\ q \in B => \A i \in DOMAIN slots[q] : slots[q][i] \in A
              /\ h[q] = IF q \in B THEN <<tag[q], [i \in DOMAIN slots[q] |-> f[slots[q][i]]]>>
                        ELSE leaf[q]
    <3>1. CASE q = p
      BY <2>2, <2>4, <3>1
    <3>2. CASE q \in A
      BY <1>3, <2>4, <3>2
    <3> QED
      BY <2>4, <3>1, <3>2
  <2>7. ASSUME NEW q \in DOMAIN h
        PROVE h[q] = IF q \in B THEN <<tag[q], [i \in DOMAIN slots[q] |-> h[slots[q][i]]]>>
                        ELSE leaf[q]
    <3>1. CASE q \in B
      <4>1. \A i \in DOMAIN slots[q] : h[slots[q][i]] = f[slots[q][i]]
        BY <2>4, <2>6, <3>1
      <4>2. [i \in DOMAIN slots[q] |-> h[slots[q][i]]] = [i \in DOMAIN slots[q] |-> f[slots[q][i]]]
        BY <4>1
      <4> QED
        BY <2>6, <3>1, <4>2
    <3> QED
      BY <2>6, <3>1
  <2>8. Good(h)
    BY <2>3, <2>4, <2>5, <2>6, <2>7 DEF Attempt, Folded
  <2>9. p \in A
    BY <2>3, <2>4, <2>8 DEF A
  <2> QED
    BY <2>3, <2>9
<1>5. A = D
  BY <1>4
<1> HIDE DEF A
<1>6. DOMAIN f = D
  BY <1>5
<1>7. f = [p \in D |-> f[p]]
  BY <1>5
<1> HIDE DEF f
<1>8. [p \in D |-> f[p]] = Fold(f, D, B, tag, slots, leaf)
  BY <1>3, <1>5 DEF Fold
<1> QED
  BY <1>7, <1>8

\* Points of two definitions that have the same tags and leaves all the way down.
Corresponds(R, D, B, tag, slots, leaf, E, C, tag2, slots2, leaf2) ==
    \A r \in R :
        /\ r[1] \in D /\ r[2] \in E /\ (r[1] \in B <=> r[2] \in C)
        /\ r[1] \in B => /\ tag[r[1]] = tag2[r[2]]
                         /\ DOMAIN slots[r[1]] = DOMAIN slots2[r[2]]
                         /\ \A i \in DOMAIN slots[r[1]] :
                                <<slots[r[1]][i], slots2[r[2]][i]>> \in R
        /\ r[1] \notin B => leaf[r[1]] = leaf2[r[2]]

\* Two definitions give the same values to points that correspond.
LEMMA FoldsAgree ==
    ASSUME NEW D, NEW B, NEW tag, NEW slots, NEW leaf, Grounded(D, B, slots),
           NEW f, Folded(f, D, B, tag, slots, leaf),
           NEW E, NEW C, NEW tag2, NEW slots2, NEW leaf2,
           NEW g, Folded(g, E, C, tag2, slots2, leaf2),
           NEW R,
           Corresponds(R, D, B, tag, slots, leaf, E, C, tag2, slots2, leaf2)
    PROVE  \A r \in R : f[r[1]] = g[r[2]]
<1> USE DEF Corresponds
<1> DEFINE T == {p \in D : \E r \in R : r[1] = p /\ f[p] # g[r[2]]}
<1> SUFFICES ASSUME T # {} PROVE FALSE
  OBVIOUS
<1>1. PICK p \in T : p \in B => \A i \in DOMAIN slots[p] : slots[p][i] \notin T
  BY DEF Grounded
<1>2. PICK r \in R : r[1] = p /\ f[p] # g[r[2]]
  OBVIOUS
<1> DEFINE q == r[2]
<1>3. /\ p \in D /\ q \in E /\ (p \in B <=> q \in C)
      /\ p \in B => /\ tag[p] = tag2[q] /\ DOMAIN slots[p] = DOMAIN slots2[q]
                    /\ \A i \in DOMAIN slots[p] : <<slots[p][i], slots2[q][i]>> \in R
      /\ p \notin B => leaf[p] = leaf2[q]
  BY <1>2
<1>4. CASE p \in B
  <2>1. ASSUME NEW i \in DOMAIN slots[p] PROVE f[slots[p][i]] = g[slots2[q][i]]
    <3> DEFINE s == <<slots[p][i], slots2[q][i]>>
    <3>1. s \in R /\ s[1] = slots[p][i] /\ s[2] = slots2[q][i]
      BY <1>3, <1>4
    <3> HIDE DEF s
    <3>2. s[1] \in D /\ s[1] \notin T
      BY <1>1, <1>4, <3>1
    <3> QED
      BY <3>1, <3>2
  <2>2. [i \in DOMAIN slots[p] |-> f[slots[p][i]]] = [i \in DOMAIN slots2[q] |-> g[slots2[q][i]]]
    BY <1>3, <1>4, <2>1
  <2>3. f[p] = <<tag[p], [i \in DOMAIN slots[p] |-> f[slots[p][i]]]>>
    BY <1>3, <1>4 DEF Folded
  <2>4. g[q] = <<tag2[q], [i \in DOMAIN slots2[q] |-> g[slots2[q][i]]]>>
    BY <1>3, <1>4 DEF Folded
  <2> QED
    BY <1>2, <1>3, <1>4, <2>2, <2>3, <2>4
<1>5. CASE p \notin B
  <2>1. f[p] = leaf[p] /\ g[q] = leaf2[q]
    BY <1>3, <1>5 DEF Folded
  <2> QED
    BY <1>2, <1>3, <1>5, <2>1
<1> QED
  BY <1>4, <1>5

\* A group of addresses has a last one.
LEMMA LastAddress ==
    ASSUME NEW n \in Nat, NEW T, T \subseteq 1..n, T # {}
    PROVE  \E p \in T : \A q \in T : q <= p
<1> DEFINE R == OpToRel(<, Nat)
           S == {n - p : p \in T}
<1>1. S \subseteq Nat /\ S # {}
  <2>1. \A p \in T : n - p \in Nat
    OBVIOUS
  <2> QED
    BY <2>1
<1>2. PICK x \in S : \A y \in S : <<y, x>> \notin R
  BY <1>1, NatLessThanWellFounded, WFMin
<1>3. \A y \in S : ~ (y < x)
  BY <1>1, <1>2, Zenon DEF OpToRel
<1>4. PICK p \in T : x = n - p
  OBVIOUS
<1>5. ASSUME NEW q \in T PROVE q <= p
  <2>1. n - q \in S /\ n - q \in Int /\ x \in Int
    BY <1>4
  <2>2. ~ (n - q < x)
    BY <1>3, <2>1
  <2> QED
    BY <1>4, <2>1, <2>2
<1> QED
  BY <1>5

-----------------------------------------------------------------------------
(* The values of pointers. *)

Branch(m, base) == {p \in Addresses(m) : TypeOf(base, m.heap[p].type) \in {"tuple", "code"}}

LeafValue(m, base, p) ==
    IF p \in Addresses(m) THEN <<TypeOf(base, m.heap[p].type), m.heap[p].val>>
    ELSE OutOfHeapValue(base, p)

HeapGrounded(m, base) ==
    Grounded(Int, Branch(m, base), [p \in Addresses(m) |-> m.heap[p].slots])

LEMMA ValueIs ==
    ASSUME NEW m \in Archives, NEW base, HeapGrounded(m, base), NEW p \in Int
    PROVE  Value(m, base, p) =
               IF p \in Branch(m, base)
               THEN <<TypeOf(base, m.heap[p].type),
                      [i \in DOMAIN m.heap[p].slots |-> Value(m, base, m.heap[p].slots[i])]>>
               ELSE LeafValue(m, base, p)
<1> DEFINE B == Branch(m, base)
           slots == [q \in Addresses(m) |-> m.heap[q].slots]
           tag == [q \in Addresses(m) |-> TypeOf(base, m.heap[q].type)]
           leaf == [q \in Int |-> LeafValue(m, base, q)]
           Body(f) == [q \in Int |-> IF ~ InHeap(m, q) THEN OutOfHeapValue(base, q)
                          ELSE IF TypeOf(base, m.heap[q].type) \in {"tuple", "code"}
                          THEN <<TypeOf(base, m.heap[q].type),
                                 [i \in DOMAIN m.heap[q].slots |-> f[m.heap[q].slots[i]]]>>
                          ELSE <<TypeOf(base, m.heap[q].type), m.heap[q].val>>]
           v == CHOOSE f : f = Body(f)
<1>1. \A q : Value(m, base, q) = v[q]
  BY DEF Value
<1>2. \A q \in Addresses(m) : m.heap[q].slots \in Seq(Int)
  BY ArchiveIs
<1>3. \A q \in Int \cap B : \A i \in DOMAIN slots[q] : slots[q][i] \in Int
  BY <1>2 DEF Branch
<1>4. Grounded(Int, B, slots)
  BY DEF HeapGrounded
<1> DEFINE fold(f) == Fold(f, Int, B, tag, slots, leaf)
<1>5. ASSUME NEW f PROVE fold(f) = Body(f)
  <2>1. ASSUME NEW q \in Int PROVE fold(f)[q] = Body(f)[q]
    <3>1. CASE q \in B
      BY <3>1 DEF Fold, Branch, InHeap, Addresses
    <3>2. CASE q \notin B
      BY <3>2 DEF Fold, Branch, LeafValue, InHeap, Addresses
    <3> QED
      BY <3>1, <3>2
  <2> QED
    BY <2>1 DEF Fold
<1> HIDE DEF B, slots, tag, leaf
<1>6. \E f : f = fold(f)
  BY <1>3, <1>4, FoldExists
<1> HIDE DEF Body
<1>7. v = Body(v)
  BY <1>5, <1>6
<1> HIDE DEF v
<1>8. v = fold(v)
  BY <1>5, <1>7
<1>9. v[p] = IF p \in B THEN <<tag[p], [i \in DOMAIN slots[p] |-> v[slots[p][i]]]>>
             ELSE leaf[p]
  BY <1>8 DEF Fold
<1>10. CASE p \in B
  <2>1. /\ p \in Addresses(m) /\ slots[p] = m.heap[p].slots
        /\ tag[p] = TypeOf(base, m.heap[p].type)
    BY <1>10 DEF B, Branch, slots, tag
  <2>2. [i \in DOMAIN m.heap[p].slots |-> v[m.heap[p].slots[i]]]
        = [i \in DOMAIN m.heap[p].slots |-> Value(m, base, m.heap[p].slots[i])]
    BY <1>1
  <2> QED
    BY <1>1, <1>9, <1>10, <2>1, <2>2 DEF B
<1>11. CASE p \notin B
  BY <1>1, <1>9, <1>11 DEF B, leaf
<1> QED
  BY <1>10, <1>11

LEMMA ValueFolds ==
    ASSUME NEW m \in Archives, NEW base, HeapGrounded(m, base)
    PROVE  Folded([p \in Int |-> Value(m, base, p)], Int, Branch(m, base),
                  [p \in Addresses(m) |-> TypeOf(base, m.heap[p].type)],
                  [p \in Addresses(m) |-> m.heap[p].slots],
                  [p \in Int |-> LeafValue(m, base, p)])
<1> DEFINE f == [p \in Int |-> Value(m, base, p)]
           B == Branch(m, base)
           tag == [p \in Addresses(m) |-> TypeOf(base, m.heap[p].type)]
           slots == [p \in Addresses(m) |-> m.heap[p].slots]
           leaf == [p \in Int |-> LeafValue(m, base, p)]
<1> SUFFICES ASSUME NEW p \in Int
             PROVE  f[p] = IF p \in B
                           THEN <<tag[p], [i \in DOMAIN slots[p] |-> f[slots[p][i]]]>>
                           ELSE leaf[p]
  BY DEF Folded
<1>1. f[p] = IF p \in B
             THEN <<TypeOf(base, m.heap[p].type),
                    [i \in DOMAIN m.heap[p].slots |-> Value(m, base, m.heap[p].slots[i])]>>
             ELSE LeafValue(m, base, p)
  BY ValueIs
<1>2. CASE p \in B
  <2>1. p \in Addresses(m) /\ m.heap[p].slots \in Seq(Int)
    BY <1>2, ArchiveIs DEF Branch
  <2>2. slots[p] = m.heap[p].slots /\ tag[p] = TypeOf(base, m.heap[p].type)
    BY <2>1
  <2>3. \A i \in DOMAIN m.heap[p].slots : m.heap[p].slots[i] \in Int
    BY <2>1
  <2>4. [i \in DOMAIN m.heap[p].slots |-> Value(m, base, m.heap[p].slots[i])]
        = [i \in DOMAIN m.heap[p].slots |-> f[m.heap[p].slots[i]]]
    BY <2>3
  <2> HIDE DEF f, slots, tag, B
  <2> QED
    BY <1>1, <1>2, <2>2, <2>4
<1>3. CASE p \notin B
  BY <1>1, <1>3
<1> QED
  BY <1>2, <1>3

\* Pointers of two memories stand for the same value when they correspond.
LEMMA ValuesAgree ==
    ASSUME NEW m \in Archives, NEW b, HeapGrounded(m, b),
           NEW w \in Archives, NEW c, HeapGrounded(w, c),
           NEW R,
           \A r \in R :
               /\ r[1] \in Int /\ r[2] \in Int
               /\ r[1] \in Branch(m, b) <=> r[2] \in Branch(w, c)
               /\ r[1] \in Branch(m, b) =>
                      /\ TypeOf(b, m.heap[r[1]].type) = TypeOf(c, w.heap[r[2]].type)
                      /\ Len(m.heap[r[1]].slots) = Len(w.heap[r[2]].slots)
                      /\ \A i \in 1..Len(m.heap[r[1]].slots) :
                            <<m.heap[r[1]].slots[i], w.heap[r[2]].slots[i]>> \in R
               /\ r[1] \notin Branch(m, b) => LeafValue(m, b, r[1]) = LeafValue(w, c, r[2])
    PROVE  \A r \in R : Value(m, b, r[1]) = Value(w, c, r[2])
<1> DEFINE f == [p \in Int |-> Value(m, b, p)]
           B == Branch(m, b)
           tag == [p \in Addresses(m) |-> TypeOf(b, m.heap[p].type)]
           slots == [p \in Addresses(m) |-> m.heap[p].slots]
           leaf == [p \in Int |-> LeafValue(m, b, p)]
           g == [p \in Int |-> Value(w, c, p)]
           C == Branch(w, c)
           tag2 == [p \in Addresses(w) |-> TypeOf(c, w.heap[p].type)]
           slots2 == [p \in Addresses(w) |-> w.heap[p].slots]
           leaf2 == [p \in Int |-> LeafValue(w, c, p)]
<1>1. Folded(f, Int, B, tag, slots, leaf) /\ Folded(g, Int, C, tag2, slots2, leaf2)
  BY ValueFolds
<1>2. Grounded(Int, B, slots)
  BY DEF HeapGrounded
<1>3. ASSUME NEW r \in R
      PROVE  /\ r[1] \in Int /\ r[2] \in Int /\ (r[1] \in B <=> r[2] \in C)
             /\ r[1] \in B => /\ tag[r[1]] = tag2[r[2]]
                              /\ DOMAIN slots[r[1]] = DOMAIN slots2[r[2]]
                              /\ \A i \in DOMAIN slots[r[1]] :
                                     <<slots[r[1]][i], slots2[r[2]][i]>> \in R
             /\ r[1] \notin B => leaf[r[1]] = leaf2[r[2]]
  <2>1. r[1] \in Int /\ r[2] \in Int /\ (r[1] \in B <=> r[2] \in C)
    OBVIOUS
  <2>2. CASE r[1] \in B
    <3>1. r[1] \in Addresses(m) /\ r[2] \in Addresses(w)
      BY <2>1, <2>2 DEF Branch
    <3>2. m.heap[r[1]].slots \in Seq(Int) /\ w.heap[r[2]].slots \in Seq(Int)
      BY <3>1, ArchiveIs
    <3>3. /\ DOMAIN slots[r[1]] = 1..Len(m.heap[r[1]].slots)
          /\ DOMAIN slots2[r[2]] = 1..Len(w.heap[r[2]].slots)
          /\ slots[r[1]] = m.heap[r[1]].slots /\ slots2[r[2]] = w.heap[r[2]].slots
      BY <3>1, <3>2, LenProperties
    <3>4. tag[r[1]] = tag2[r[2]]
      BY <2>2, <3>1
    <3> QED
      BY <2>1, <2>2, <3>3, <3>4
  <2>3. CASE r[1] \notin B
    BY <2>1, <2>3
  <2> QED
    BY <2>1, <2>2, <2>3
<1> HIDE DEF B, tag, slots, leaf, C, tag2, slots2, leaf2, f, g
<1>4. Corresponds(R, Int, B, tag, slots, leaf, Int, C, tag2, slots2, leaf2)
  BY <1>3 DEF Corresponds
<1>5. \A r \in R : f[r[1]] = g[r[2]]
  BY <1>1, <1>2, <1>4, FoldsAgree
<1> QED
  BY <1>3, <1>5 DEF f, g

\* Containers that are allocated before what they refer to have no cycles.
LEMMA OrderedIsGrounded ==
    ASSUME NEW m \in Archives, NEW b,
           \A p \in Branch(m, b) : \A i \in 1..Len(m.heap[p].slots) :
               m.heap[p].slots[i] \in Branch(m, b) => m.heap[p].slots[i] > p
    PROVE  HeapGrounded(m, b)
<1> DEFINE slots == [p \in Addresses(m) |-> m.heap[p].slots]
<1> SUFFICES ASSUME NEW T \in SUBSET Int, T # {}
             PROVE  \E p \in T : p \in Branch(m, b) =>
                        \A i \in DOMAIN slots[p] : slots[p][i] \notin T
  BY DEF HeapGrounded, Grounded
<1>1. CASE \E p \in T : p \notin Branch(m, b)
  BY <1>1
<1>2. CASE \A p \in T : p \in Branch(m, b)
  <2>1. Len(m.heap) \in Nat /\ T \subseteq 1..Len(m.heap)
    BY <1>2, ArchiveIs DEF Branch, Addresses
  <2>2. PICK p \in T : \A q \in T : q <= p
    BY <2>1, LastAddress
  <2>3. p \in Branch(m, b) /\ p \in Addresses(m) /\ p \in Int
    BY <1>2, <2>2 DEF Branch
  <2>4. m.heap[p].slots \in Seq(Int) /\ slots[p] = m.heap[p].slots
    BY <2>3, ArchiveIs
  <2>5. ASSUME NEW i \in 1..Len(m.heap[p].slots) PROVE m.heap[p].slots[i] \notin T
    <3>1. m.heap[p].slots[i] \in Int
      BY <2>4
    <3> QED
      BY <1>2, <2>2, <2>3, <2>5, <3>1
  <2>6. DOMAIN slots[p] = 1..Len(m.heap[p].slots)
    BY <2>4, LenProperties
  <2> QED
    BY <2>2, <2>4, <2>5, <2>6
<1> QED
  BY <1>1, <1>2

-----------------------------------------------------------------------------
(* A new object *)

LEMMA NewObjectIs ==
    ASSUME NEW m \in Archives, NEW o \in HeapObjects,
           \A i \in 1..Len(o.slots) : o.slots[i] = NULL
    PROVE  LET w == NewObject(m, o)
               a == Len(m.heap) + 1
           IN  /\ w \in Archives /\ w.used = m.used + 1 /\ w.all_string_ref = m.all_string_ref
               /\ w.none_base = m.none_base
               /\ Len(w.heap) = a /\ w.heap[a] = o
               /\ \A b \in Addresses(m) : w.heap[b] = m.heap[b]
               /\ SameSlots(m, w) /\ Slots(m) \subseteq Slots(w)
               /\ \A s \in Slots(w) \ Slots(m) : s[1] = a /\ GetSlot(w, s) = NULL
<1> DEFINE w == NewObject(m, o)
           a == Len(m.heap) + 1
           h == Append(m.heap, o)
<1>1. m.heap \in Seq(HeapObjects) /\ Len(m.heap) \in Nat /\ m.used \in Nat
  BY ArchiveIs
<1>2. /\ h \in Seq(HeapObjects) /\ Len(h) = a /\ h[a] = o
      /\ \A b \in Addresses(m) : h[b] = m.heap[b]
  BY <1>1, AppendProperties DEF Addresses
<1>3. w = [[m EXCEPT !.heap = h] EXCEPT !.used = @ + 1]
  BY DEF NewObject
<1> HIDE DEF h
<1>4. /\ w \in Archives /\ w.used = m.used + 1 /\ w.all_string_ref = m.all_string_ref
      /\ w.none_base = m.none_base /\ w.heap = h /\ w.obj = m.obj
  <2> DEFINE v == [m EXCEPT !.heap = h]
  <2>1. /\ v \in Archives /\ v.used = m.used /\ v.all_string_ref = m.all_string_ref
        /\ v.none_base = m.none_base /\ v.heap = h /\ v.obj = m.obj
    BY <1>1, <1>2 DEF Archives
  <2>2. w = [v EXCEPT !.used = v.used + 1]
    BY <1>3
  <2> HIDE DEF v, w
  <2>3. v.used + 1 \in Nat
    BY <1>1, <2>1
  <2> QED
    BY <2>1, <2>2, <2>3 DEF Archives
<1> HIDE DEF w
<1>5. \A b \in Addresses(m) : b \in Addresses(w) /\ w.heap[b] = m.heap[b]
  BY <1>1, <1>2, <1>4 DEF Addresses
<1>6. Slots(m) \subseteq Slots(w) /\ SameSlots(m, w)
  <2> SUFFICES ASSUME NEW s \in Slots(m)
               PROVE  s \in Slots(w) /\ GetSlot(w, s) = GetSlot(m, s)
    BY DEF SameSlots
  <2>1. CASE s = Root
    BY <1>4, <2>1, RootIn
  <2>2. CASE s # Root
    <3>1. /\ s[1] \in Addresses(m) /\ s[2] \in 1..Len(m.heap[s[1]].slots)
          /\ s = <<s[1], s[2]>>
      BY <2>2, SlotIs
    <3>2. s[1] \in Addresses(w) /\ w.heap[s[1]] = m.heap[s[1]]
      BY <1>5, <3>1
    <3>3. s \in Slots(w)
      BY <3>1, <3>2, SlotIn
    <3> QED
      BY <2>2, <3>2, <3>3 DEF GetSlot
  <2> QED
    BY <2>1, <2>2
<1>7. ASSUME NEW s \in Slots(w), s \notin Slots(m)
      PROVE  s[1] = a /\ GetSlot(w, s) = NULL
  <2>1. s # Root
    BY <1>7, RootIn
  <2>2. /\ s[1] \in Addresses(w) /\ s[2] \in 1..Len(w.heap[s[1]].slots)
        /\ s = <<s[1], s[2]>>
    BY <1>4, <2>1, SlotIs
  <2>3. s[1] \notin Addresses(m)
    BY <1>5, <1>7, <2>2, SlotIn
  <2>4. s[1] = a
    BY <1>1, <1>2, <1>4, <2>2, <2>3 DEF Addresses
  <2> QED
    BY <1>2, <1>4, <2>1, <2>2, <2>4 DEF GetSlot
<1> QED
  BY <1>2, <1>4, <1>5, <1>6, <1>7 DEF w

-----------------------------------------------------------------------------
(* The invariant: what is in the source, in the tables and on the stack. *)

Objects == [kind : {"str", "atom", "basic", "other"} \cup Containers,
            val : 0..(Span - 1), items : Seq(Nat), static : BOOLEAN]
Frames  == [op : Nat, target : Nat \X Nat, source_ref : Nat \X Nat,
            res : Nat, list : Nat, i : Nat]

SourceOK ==
    /\ src \in Seq(Objects) /\ root \in Nodes
    /\ \A n \in Nodes : \A i \in 1..Len(src[n].items) :
           src[n].items[i] \in Nodes \cup {NULL}
    /\ \A n \in Nodes : src[n].kind = "str" => src[n].val \in DOMAIN interned
    /\ interned \in [DOMAIN interned -> Nodes \cup {NULL}]
    /\ \A v \in DOMAIN interned : interned[v] # NULL =>
           src[interned[v]].kind = "str" /\ src[interned[v]].val = v
    /\ \A n \in Nodes : src[n].static => src[n].val \in StaticStrs
    /\ \A v \in DOMAIN interned \cap IdStrs :
           interned[v] # NULL /\ src[interned[v]].static

ArchiveOK ==
    /\ env \in Environments
    /\ archive \in Archives /\ archive.none_base = DumpBase
    /\ Len(archive.heap) <= archive.used /\ archive.used <= HeapCells
    /\ \A j \in 1..Len(Lists) :
           /\ Lists[j].str \in HeapStrings
           /\ \A i \in 1..Len(Lists[j].refs) : Lists[j].refs[i] \in Slots(archive)

TablesOK ==
    /\ orig_map \in [Nodes -> Nat]
    /\ \A n \in Nodes : orig_map[n] # NULL =>
           /\ orig_map[n] \in HeapStrings
           /\ src[n].kind = "str" /\ archive.heap[orig_map[n]].val = src[n].val
    /\ str_map \in [1..HeapCells -> Nat]
    /\ \A a \in 1..HeapCells : str_map[a] # 0 =>
           str_map[a] \in 1..Len(Lists) /\ Lists[str_map[a]].str = a

IsString(f) == src[f.op].kind = "str"

\* A container whose copy is being filled, up to the slot i - 1.
Open(f) == src[f.op].kind \in Containers /\ f.res # NULL

ContainerTypes == {TypeAddr(DumpBase, "tuple"), TypeAddr(DumpBase, "code")}

FrameOK(f) ==
    /\ f.op \in Nodes /\ f.target \in Slots(archive) /\ f.i # 0
    /\ f.res # NULL => IsString(f) \/ Open(f)
    /\ f.list # 0 => IsString(f) /\ f.res # NULL
    /\ f.res = NULL => f.i = 1
    /\ Open(f) => /\ f.res \in Addresses(archive)
                  /\ archive.heap[f.res].type \in ContainerTypes
                  /\ Len(archive.heap[f.res].slots) = Len(src[f.op].items)
                  /\ f.i <= Len(src[f.op].items) + 1
    /\ IsString(f) /\ f.res # NULL =>
           /\ f.res \in HeapStrings /\ archive.heap[f.res].val = src[f.op].val
           /\ GetSlot(archive, f.target) = f.res
           /\ f.list # 0 => f.list \in 1..Len(Lists) /\ Lists[f.list].str = f.res

\* The string a is in the archive, and its slot is not recorded yet.
Pending(a) == stack # <<>> /\ IsString(top) /\ top.res = a

\* f is the call that moves in the item g has come to.
Called(f, g) == /\ Open(g) /\ g.i >= 2
                /\ f.target = <<g.res, g.i - 1>> /\ f.source_ref = <<g.op, g.i - 1>>

StackOK ==
    /\ stack \in Seq(Frames)
    /\ \A k \in 1..Len(stack) : FrameOK(stack[k])
    /\ \A k \in 1..(Len(stack) - 1) : Called(stack[k], stack[k + 1])
    /\ stack # <<>> => stack[Len(stack)].target = Root /\ stack[Len(stack)].source_ref = Root
    /\ \A j, k \in 1..Len(stack) :
           Open(stack[j]) /\ Open(stack[k]) /\ stack[j].res = stack[k].res => j = k
    /\ traverse_error \in BOOLEAN
    /\ traverse_error => \A k \in 1..Len(stack) : Open(stack[k])
    /\ dumper = "returned" => stack = <<>>

MoveOK == SourceOK /\ ArchiveOK /\ TablesOK /\ StackOK

\* A slot that the calls on the stack will not write to any more.
Closed(s) ==
    \A k \in 1..Len(stack) :
        s # stack[k].target
        /\ (Open(stack[k]) /\ s[1] = stack[k].res => s[2] < stack[k].i)

\* Slots are recorded once they are closed, each once.
RefsSound ==
    \A j \in 1..Len(Lists) : \A i \in 1..Len(Lists[j].refs) :
        Closed(Lists[j].refs[i]) /\ GetSlot(archive, Lists[j].refs[i]) = Lists[j].str

-----------------------------------------------------------------------------
(* What a step does. *)

\* The source keeps its objects, but for items that are replaced by interned
\* strings, and the intern table keeps its strings.
SourceGrows ==
    /\ SourceOK' /\ root' = root /\ Nodes' = Nodes
    /\ \A n \in Nodes : /\ src'[n].kind = src[n].kind /\ src'[n].val = src[n].val
                        /\ Len(src'[n].items) = Len(src[n].items)
    /\ DOMAIN interned' = DOMAIN interned
    /\ \A v \in DOMAIN interned : interned[v] # NULL => interned'[v] = interned[v]

\* The archive keeps its objects and its lists, and may get new ones.
ArchiveGrows ==
    /\ ArchiveOK' /\ env' = env
    /\ Len(archive.heap) <= Len(archive'.heap)
    /\ \A a \in Addresses(archive) : SameKind(archive'.heap[a], archive.heap[a])
    /\ Len(Lists) <= Len(Lists')
    /\ \A j \in 1..Len(Lists) : Lists'[j].str = Lists[j].str

\* A slot is written, maybe of a new object.
Writes(s, p) ==
    \A r \in Slots(archive') :
        GetSlot(archive', r) = IF r = s THEN p
                               ELSE IF r \in Slots(archive) THEN GetSlot(archive, r)
                               ELSE NULL

LEMMA Grown ==
    ASSUME ArchiveOK, ArchiveGrows
    PROVE  /\ Addresses(archive) \subseteq Addresses(archive')
           /\ Slots(archive) \subseteq Slots(archive')
           /\ \A a \in Addresses(archive) : a \in HeapStrings <=> a \in HeapStrings'
           /\ HeapStrings \subseteq HeapStrings'
<1>1. Len(archive.heap) \in Nat /\ Len(archive'.heap) \in Nat
  BY ArchiveIs DEF ArchiveOK, ArchiveGrows
<1>2. Addresses(archive) \subseteq Addresses(archive')
  BY <1>1 DEF ArchiveGrows, Addresses
<1>3. \A a \in Addresses(archive) : a \in HeapStrings <=> a \in HeapStrings'
  BY <1>2 DEF HeapStrings, Addresses, ArchiveGrows, SameKind
<1>4. Slots(archive) \subseteq Slots(archive')
  <2> SUFFICES ASSUME NEW s \in Slots(archive) PROVE s \in Slots(archive')
    OBVIOUS
  <2>1. CASE s = Root
    BY <2>1, RootIn
  <2>2. CASE s # Root
    <3>1. /\ s[1] \in Addresses(archive) /\ s[2] \in 1..Len(archive.heap[s[1]].slots)
          /\ s = <<s[1], s[2]>>
      BY <2>2, SlotIs DEF ArchiveOK
    <3>2. s[1] \in Addresses(archive') /\ s[2] \in 1..Len(archive'.heap[s[1]].slots)
      BY <1>2, <3>1 DEF ArchiveGrows, SameKind
    <3>3. <<s[1], s[2]>> \in Slots(archive')
      BY <3>2, SlotIn
    <3> QED
      BY <3>1, <3>3
  <2> QED
    BY <2>1, <2>2
<1>5. HeapStrings \subseteq HeapStrings'
  <2>1. HeapStrings \subseteq Addresses(archive)
    BY DEF HeapStrings, Addresses
  <2> QED
    BY <1>3, <2>1
<1> QED
  BY <1>2, <1>3, <1>4, <1>5

\* A frame stays what it is, if the slot of a string keeps it.
LEMMA FrameKept ==
    ASSUME MoveOK, SourceGrows, ArchiveGrows, NEW f \in Frames, FrameOK(f),
           IsString(f) /\ f.res # NULL =>
               GetSlot(archive', f.target) = GetSlot(archive, f.target)
    PROVE  /\ FrameOK(f)'
           /\ (IsString(f)' <=> IsString(f)) /\ (Open(f)' <=> Open(f))
<1>1. f.op \in Nodes' /\ f.op \in Nodes /\ f.target \in Slots(archive')
  BY Grown DEF FrameOK, SourceGrows, MoveOK
<1>2. /\ src'[f.op].kind = src[f.op].kind /\ src'[f.op].val = src[f.op].val
      /\ Len(src'[f.op].items) = Len(src[f.op].items)
  BY <1>1 DEF SourceGrows
<1>3. (IsString(f)' <=> IsString(f)) /\ (Open(f)' <=> Open(f))
  BY <1>2 DEF IsString, Open
<1>4. ASSUME Open(f)
      PROVE  /\ f.res \in Addresses(archive')
             /\ archive'.heap[f.res].type \in ContainerTypes
             /\ Len(archive'.heap[f.res].slots) = Len(src'[f.op].items)
             /\ f.i <= Len(src'[f.op].items) + 1
  <2>1. f.res \in Addresses(archive)
    BY <1>4 DEF FrameOK
  <2>2. SameKind(archive'.heap[f.res], archive.heap[f.res]) /\ f.res \in Addresses(archive')
    BY <2>1, Grown DEF ArchiveGrows, MoveOK
  <2> QED
    BY <1>2, <1>4, <2>2 DEF FrameOK, SameKind
<1>5. ASSUME IsString(f), f.res # NULL
      PROVE  /\ f.res \in HeapStrings' /\ archive'.heap[f.res].val = src'[f.op].val
             /\ GetSlot(archive', f.target) = f.res
             /\ f.list # 0 => f.list \in 1..Len(Lists') /\ Lists'[f.list].str = f.res
  <2>1. f.res \in HeapStrings /\ f.res \in Addresses(archive)
    BY <1>5 DEF FrameOK, HeapStrings, Addresses
  <2>2. SameKind(archive'.heap[f.res], archive.heap[f.res]) /\ f.res \in HeapStrings'
    BY <2>1, Grown DEF ArchiveGrows, MoveOK
  <2>3. Len(Lists) \in Nat /\ Len(Lists') \in Nat
    BY ArchiveIs DEF MoveOK, ArchiveOK, ArchiveGrows, Lists
  <2>4. f.list # 0 => f.list \in 1..Len(Lists') /\ Lists'[f.list].str = f.res
    BY <1>5, <2>3 DEF FrameOK, ArchiveGrows
  <2> QED
    BY <1>2, <1>5, <2>2, <2>4 DEF FrameOK, SameKind
<1>6. ContainerTypes' = ContainerTypes
  BY DEF ContainerTypes, TypeAddr
<1> QED
  BY <1>1, <1>3, <1>4, <1>5, <1>6 DEF FrameOK

-----------------------------------------------------------------------------
(* The stack. *)

LEMMA TopIs ==
    ASSUME StackOK, stack # <<>>
    PROVE  /\ Len(stack) \in Nat /\ Len(stack) >= 1 /\ top = stack[1]
           /\ top \in Frames /\ FrameOK(top)
           /\ \A k \in 1..Len(stack) : stack[k] \in Frames /\ FrameOK(stack[k])
           /\ \A k \in 2..Len(stack) : Open(stack[k])
           /\ Tail(stack) \in Seq(Frames) /\ Len(Tail(stack)) = Len(stack) - 1
           /\ \A k \in 1..(Len(stack) - 1) : Tail(stack)[k] = stack[k + 1]
<1>1. stack \in Seq(Frames)
  BY DEF StackOK
<1>2. Len(stack) \in Nat /\ Len(stack) >= 1 /\ top = stack[1]
  BY <1>1, EmptySeq, LenProperties DEF top
<1>3. ASSUME NEW k \in 1..Len(stack)
      PROVE  stack[k] \in Frames /\ FrameOK(stack[k])
  <2>1. stack[k] \in Frames
    BY <1>1, ElementOfSeq
  <2> QED
    BY <2>1 DEF StackOK
<1>4. ASSUME NEW k \in 2..Len(stack)
      PROVE  Open(stack[k])
  <2> DEFINE j == k - 1
  <2>1. j \in 1..(Len(stack) - 1) /\ j + 1 = k
    BY <1>2
  <2>2. Called(stack[j], stack[j + 1])
    BY <2>1 DEF StackOK
  <2> QED
    BY <2>1, <2>2 DEF Called
<1>5. /\ Tail(stack) \in Seq(Frames) /\ Len(Tail(stack)) = Len(stack) - 1
      /\ \A k \in 1..(Len(stack) - 1) : Tail(stack)[k] = stack[k + 1]
  BY <1>1, <1>2, HeadTailProperties
<1>6. top \in Frames /\ FrameOK(top)
  BY <1>2, <1>3
<1> QED
  BY <1>2, <1>3, <1>4, <1>5, <1>6

LEMMA ReplacedIs ==
    ASSUME StackOK, stack # <<>>, NEW f \in Frames
    PROVE  /\ Replace(f) \in Seq(Frames) /\ Len(Replace(f)) = Len(stack)
           /\ Replace(f)[1] = f
           /\ \A k \in 2..Len(stack) : Replace(f)[k] = stack[k]
<1>1. /\ Tail(stack) \in Seq(Frames) /\ Len(Tail(stack)) = Len(stack) - 1
      /\ \A k \in 1..(Len(stack) - 1) : Tail(stack)[k] = stack[k + 1]
      /\ Len(stack) \in Nat /\ Len(stack) >= 1
  BY TopIs
<1>2. <<f>> \in Seq(Frames) /\ Len(<<f>>) = 1 /\ <<f>>[1] = f
  OBVIOUS
<1>3. /\ Replace(f) \in Seq(Frames) /\ Len(Replace(f)) = 1 + Len(Tail(stack))
      /\ \A i \in 1..(1 + Len(Tail(stack))) :
            Replace(f)[i] = IF i <= 1 THEN <<f>>[i] ELSE Tail(stack)[i - 1]
  BY <1>1, <1>2, ConcatProperties DEF Replace
<1>4. ASSUME NEW k \in 2..Len(stack)
      PROVE  Replace(f)[k] = stack[k]
  <2>1. Replace(f)[k] = Tail(stack)[k - 1]
    BY <1>1, <1>3
  <2>2. k - 1 \in 1..(Len(stack) - 1) /\ (k - 1) + 1 = k
    BY <1>1
  <2>3. Tail(stack)[k - 1] = stack[(k - 1) + 1]
    BY <1>1, <2>2
  <2> QED
    BY <2>1, <2>2, <2>3
<1> QED
  BY <1>1, <1>2, <1>3, <1>4

LEMMA PushedIs ==
    ASSUME StackOK, stack # <<>>, NEW f \in Frames, NEW g \in Frames
    PROVE  LET s == <<g>> \o Replace(f) IN
           /\ s \in Seq(Frames) /\ Len(s) = Len(stack) + 1
           /\ s[1] = g /\ s[2] = f
           /\ \A k \in 2..Len(stack) : s[k + 1] = stack[k]
<1> DEFINE r == Replace(f)
           s == <<g>> \o r
<1>1. /\ r \in Seq(Frames) /\ Len(r) = Len(stack) /\ r[1] = f
      /\ \A k \in 2..Len(stack) : r[k] = stack[k]
      /\ Len(stack) \in Nat /\ Len(stack) >= 1
  BY ReplacedIs, TopIs
<1>2. <<g>> \in Seq(Frames) /\ Len(<<g>>) = 1 /\ <<g>>[1] = g
  OBVIOUS
<1> HIDE DEF r
<1>3. /\ s \in Seq(Frames) /\ Len(s) = 1 + Len(r)
      /\ \A i \in 1..(1 + Len(r)) : s[i] = IF i <= 1 THEN <<g>>[i] ELSE r[i - 1]
  BY <1>1, <1>2, ConcatProperties
<1> HIDE DEF s
<1>4. ASSUME NEW k \in 1..Len(stack)
      PROVE  s[k + 1] = r[k]
  <2>1. k + 1 \in 1..(1 + Len(r)) /\ ~ (k + 1 <= 1) /\ (k + 1) - 1 = k
    BY <1>1
  <2>2. s[k + 1] = r[(k + 1) - 1]
    BY <1>3, <2>1
  <2> QED
    BY <2>1, <2>2
<1>5. s[1] = g
  BY <1>1, <1>2, <1>3
<1>6. s[2] = f
  <2>1. s[1 + 1] = r[1]
    BY <1>1, <1>4
  <2> QED
    BY <1>1, <2>1
<1>7. \A k \in 2..Len(stack) : s[k + 1] = stack[k]
  BY <1>1, <1>4
<1> QED
  BY <1>1, <1>3, <1>5, <1>6, <1>7 DEF s, r

\* A frame below the innermost one stays as it is.
LEMMA LowerFrameKept ==
    ASSUME MoveOK, SourceGrows, ArchiveGrows, stack # <<>>,
           NEW f \in Frames, NEW k \in 2..Len(stack), f = stack[k]
    PROVE  FrameOK(f)' /\ Open(f)' /\ Open(f) /\ ~ IsString(f)
<1>1. FrameOK(f) /\ Open(f)
  BY TopIs DEF MoveOK
<1>2. ~ IsString(f)
  BY <1>1 DEF Open, IsString, Containers
<1>3. FrameOK(f)' /\ (Open(f)' <=> Open(f))
  BY <1>1, <1>2, FrameKept
<1> QED
  BY <1>1, <1>2, <1>3

\* The innermost call returns.
LEMMA StackPopped ==
    ASSUME MoveOK, SourceGrows, ArchiveGrows, stack # <<>>, stack' = Tail(stack),
           traverse_error' \in BOOLEAN, dumper' # "returned"
    PROVE  /\ StackOK'
           /\ \A k \in 1..Len(stack') : Open(stack[k])'
           /\ \A s : Closed(s) => Closed(s)'
<1>1. /\ Len(stack) \in Nat /\ Len(stack) >= 1
      /\ \A k \in 1..Len(stack) : stack[k] \in Frames
      /\ stack' \in Seq(Frames) /\ Len(stack') = Len(stack) - 1
      /\ \A k \in 1..Len(stack') : stack'[k] = stack[k + 1]
  BY TopIs DEF MoveOK
<1>2. ASSUME NEW k \in 1..Len(stack')
      PROVE  FrameOK(stack[k])' /\ Open(stack[k])' /\ Open(stack[k + 1])
  <2>1. k + 1 \in 2..Len(stack) /\ stack[k + 1] \in Frames
    BY <1>1
  <2>2. PICK f \in Frames : f = stack[k + 1]
    BY <2>1
  <2>3. FrameOK(f)' /\ Open(f)' /\ Open(f)
    BY <2>1, <2>2, LowerFrameKept
  <2>4. stack'[k] = f
    BY <1>1, <2>2
  <2> QED
    BY <2>2, <2>3, <2>4
<1>3. ASSUME NEW k \in 1..(Len(stack') - 1)
      PROVE  Called(stack[k], stack[k + 1])'
  <2>1. k + 1 \in 1..(Len(stack) - 1) /\ k \in 1..Len(stack') /\ k + 1 \in 1..Len(stack')
    BY <1>1
  <2>2. Called(stack[k + 1], stack[(k + 1) + 1])
    BY <2>1 DEF MoveOK, StackOK
  <2>3. stack'[k] = stack[k + 1] /\ stack'[k + 1] = stack[(k + 1) + 1]
    BY <1>1, <2>1
  <2>4. Open(stack[k + 1])'
    BY <1>2, <2>1
  <2> QED
    BY <2>2, <2>3, <2>4 DEF Called
<1>4. stack' # <<>> => stack'[Len(stack')].target = Root /\ stack'[Len(stack')].source_ref = Root
  <2>1. SUFFICES ASSUME stack' # <<>>
                 PROVE  stack'[Len(stack')].target = Root /\ stack'[Len(stack')].source_ref = Root
    OBVIOUS
  <2>2. Len(stack') >= 1
    BY <1>1, <2>1, EmptySeq
  <2>3. stack'[Len(stack')] = stack[Len(stack)]
    BY <1>1, <2>2
  <2> QED
    BY <2>3 DEF MoveOK, StackOK
<1>5. ASSUME NEW j \in 1..Len(stack'), NEW k \in 1..Len(stack'), stack'[j].res = stack'[k].res
      PROVE  j = k
  <2>1. j + 1 \in 1..Len(stack) /\ k + 1 \in 1..Len(stack)
    BY <1>1
  <2>2. stack[j + 1].res = stack[k + 1].res /\ Open(stack[j + 1]) /\ Open(stack[k + 1])
    BY <1>1, <1>2, <1>5
  <2>3. j + 1 = k + 1
    BY <2>1, <2>2 DEF MoveOK, StackOK
  <2> QED
    BY <1>1, <2>3
<1>6. ASSUME NEW s, Closed(s)
      PROVE  Closed(s)'
  <2> SUFFICES ASSUME NEW k \in 1..Len(stack')
               PROVE  /\ s # stack'[k].target
                      /\ s[1] = stack'[k].res => s[2] < stack'[k].i
    BY DEF Closed
  <2>1. k + 1 \in 1..Len(stack) /\ stack'[k] = stack[k + 1] /\ Open(stack[k + 1])
    BY <1>1, <1>2
  <2>2. /\ s # stack[k + 1].target
        /\ Open(stack[k + 1]) /\ s[1] = stack[k + 1].res => s[2] < stack[k + 1].i
    BY <1>6, <2>1 DEF Closed
  <2> QED
    BY <2>1, <2>2
<1> QED
  BY <1>1, <1>2, <1>3, <1>4, <1>5, <1>6 DEF StackOK

\* The innermost call goes on.
LEMMA StackReplaced ==
    ASSUME MoveOK, SourceGrows, ArchiveGrows, stack # <<>>,
           NEW f \in Frames, stack' = Replace(f), FrameOK(f)',
           f.op = top.op, f.target = top.target, f.source_ref = top.source_ref,
           f.res = top.res \/ (top.res = NULL /\ f.res \notin Addresses(archive)) \/ IsString(top),
           f.i >= top.i,
           traverse_error' = FALSE, dumper' # "returned"
    PROVE  /\ StackOK' /\ stack' # <<>> /\ top' = f
           /\ \A k \in 2..Len(stack') : Open(stack[k])'
           /\ \A s \in Slots(archive) : Closed(s) => Closed(s)'
<1>1. /\ Len(stack) \in Nat /\ Len(stack) >= 1 /\ top = stack[1]
      /\ \A k \in 1..Len(stack) : stack[k] \in Frames
      /\ stack' \in Seq(Frames) /\ Len(stack') = Len(stack)
      /\ stack'[1] = f
      /\ \A k \in 2..Len(stack) : stack'[k] = stack[k]
  BY TopIs, ReplacedIs DEF MoveOK
<1>2. ASSUME NEW k \in 2..Len(stack)
      PROVE  /\ FrameOK(stack[k])' /\ Open(stack[k])' /\ Open(stack[k])
             /\ stack[k].res \in Addresses(archive)
  <2>2. PICK g \in Frames : g = stack[k]
    BY <1>1
  <2>3. FrameOK(g)' /\ Open(g)' /\ Open(g)
    BY <2>2, LowerFrameKept
  <2>4. stack'[k] = g
    BY <1>1, <2>2
  <2>5. FrameOK(stack[k]) /\ Open(stack[k])
    BY TopIs DEF MoveOK
  <2> QED
    BY <2>2, <2>3, <2>4, <2>5 DEF FrameOK
<1>3. top' = f /\ stack' # <<>>
  BY <1>1, EmptySeq, HeadTailProperties DEF top
<1>4. /\ Open(f)' => Open(f)
      /\ IsString(top) => ~ Open(f)
  <2>1. f.op \in Nodes /\ f.op = top.op
    BY <1>1, TopIs DEF FrameOK, MoveOK
  <2>2. src'[f.op].kind = src[f.op].kind
    BY <2>1 DEF SourceGrows
  <2> QED
    BY <2>1, <2>2 DEF Open, IsString, Containers
<1>5. ASSUME NEW k \in 1..(Len(stack') - 1)
      PROVE  Called(stack[k], stack[k + 1])'
  <2>1. k + 1 \in 2..Len(stack) /\ k \in 1..Len(stack) /\ k \in 1..(Len(stack) - 1)
    BY <1>1
  <2>2. Called(stack[k], stack[k + 1])
    BY <2>1 DEF MoveOK, StackOK
  <2>3. /\ stack'[k + 1] = stack[k + 1] /\ stack'[k].target = stack[k].target
        /\ stack'[k].source_ref = stack[k].source_ref
    BY <1>1, <2>1
  <2>4. Open(stack[k + 1])'
    BY <1>2, <2>1
  <2> QED
    BY <2>2, <2>3, <2>4 DEF Called
<1>6. stack'[Len(stack')].target = Root /\ stack'[Len(stack')].source_ref = Root
  <2>1. stack[Len(stack)].target = Root /\ stack[Len(stack)].source_ref = Root
    BY DEF MoveOK, StackOK
  <2>2. /\ stack'[Len(stack)].target = stack[Len(stack)].target
        /\ stack'[Len(stack)].source_ref = stack[Len(stack)].source_ref
    BY <1>1
  <2> QED
    BY <1>1, <2>1, <2>2
<1>7. ASSUME Open(f)', NEW k \in 2..Len(stack)
      PROVE  f.res # stack[k].res
  <2>1. stack[k].res \in Addresses(archive) /\ Open(stack[k])
    BY <1>2
  <2>2. ~ IsString(top) /\ Open(f)
    BY <1>4, <1>7
  <2>3. CASE f.res = top.res
    <3>1. Open(stack[1])
      BY <1>1, <2>2, <2>3 DEF Open
    <3>2. 1 \in 1..Len(stack) /\ k \in 1..Len(stack) /\ k # 1
      BY <1>1
    <3>3. stack[1].res # stack[k].res
      BY <2>1, <3>1, <3>2 DEF MoveOK, StackOK
    <3> QED
      BY <1>1, <2>3, <3>3
  <2> QED
    BY <2>1, <2>2, <2>3
<1>8. ASSUME NEW j \in 1..Len(stack'), NEW k \in 1..Len(stack'),
             Open(stack[j])', Open(stack[k])', stack'[j].res = stack'[k].res
      PROVE  j = k
  <2>1. CASE j = 1 /\ k # 1
    <3>1. k \in 2..Len(stack)
      BY <1>1, <2>1
    <3>2. f.res # stack[k].res
      BY <1>1, <1>7, <1>8, <2>1, <3>1
    <3> QED
      BY <1>1, <1>8, <2>1, <3>1, <3>2
  <2>2. CASE k = 1 /\ j # 1
    <3>1. j \in 2..Len(stack)
      BY <1>1, <2>2
    <3>2. f.res # stack[j].res
      BY <1>1, <1>7, <1>8, <2>2, <3>1
    <3> QED
      BY <1>1, <1>8, <2>2, <3>1, <3>2
  <2>3. CASE j # 1 /\ k # 1
    <3>1. j \in 2..Len(stack) /\ k \in 2..Len(stack)
      BY <1>1, <2>3
    <3>2. Open(stack[j]) /\ Open(stack[k]) /\ stack[j].res = stack[k].res
      BY <1>1, <1>2, <1>8, <3>1
    <3>3. j \in 1..Len(stack) /\ k \in 1..Len(stack)
      BY <1>1
    <3> QED
      BY <3>2, <3>3 DEF MoveOK, StackOK
  <2> QED
    BY <2>1, <2>2, <2>3
<1>9. ASSUME NEW s \in Slots(archive), Closed(s)
      PROVE  Closed(s)'
  <2> SUFFICES ASSUME NEW k \in 1..Len(stack')
               PROVE  /\ s # stack'[k].target
                      /\ Open(stack[k])' /\ s[1] = stack'[k].res => s[2] < stack'[k].i
    BY DEF Closed
  <2>1. /\ s # stack[k].target
        /\ Open(stack[k]) /\ s[1] = stack[k].res => s[2] < stack[k].i
    BY <1>1, <1>9 DEF Closed
  <2>2. CASE k # 1
    <3>1. k \in 2..Len(stack)
      BY <1>1, <2>2
    <3> QED
      BY <1>1, <1>2, <2>1, <3>1
  <2>3. CASE k = 1
    <3>1. s # stack'[1].target
      BY <1>1, <2>1, <2>3
    <3>2. ASSUME Open(f)', s[1] = f.res
          PROVE  s[2] < f.i
      <4>1. Open(f) /\ ~ IsString(top)
        BY <1>4, <3>2
      <4>2. CASE f.res = top.res
        <5>1. Open(stack[1])
          BY <1>1, <4>1, <4>2 DEF Open
        <5>2. s[2] < top.i
          BY <1>1, <2>1, <2>3, <3>2, <4>2, <5>1
        <5>3. top.i \in Nat /\ f.i \in Nat
          BY <1>1 DEF Frames
        <5>4. s[2] \in Nat
          <6>1. s \in Nat \X Nat
            BY SlotIs DEF MoveOK, ArchiveOK
          <6> QED
            BY <6>1
        <5> QED
          BY <5>2, <5>3, <5>4
      <4>3. CASE f.res # top.res
        <5>1. f.res \notin Addresses(archive) /\ f.res # NULL
          BY <4>1, <4>3 DEF Open
        <5>2. s = Root => s[1] = NULL
          BY DEF Root, NULL
        <5>3. s # Root => s[1] \in Addresses(archive)
          BY SlotIs DEF MoveOK, ArchiveOK
        <5> QED
          BY <3>2, <5>1, <5>2, <5>3
      <4> QED
        BY <4>2, <4>3
    <3> QED
      BY <1>1, <2>3, <3>1, <3>2
  <2> QED
    BY <2>2, <2>3
<1>10. \A k \in 1..Len(stack') : FrameOK(stack[k])'
  <2> SUFFICES ASSUME NEW k \in 1..Len(stack') PROVE FrameOK(stack[k])'
    OBVIOUS
  <2>1. CASE k = 1
    BY <1>1, <2>1
  <2>2. CASE k # 1
    <3>1. k \in 2..Len(stack)
      BY <1>1, <2>2
    <3> QED
      BY <1>2, <3>1
  <2> QED
    BY <2>1, <2>2
<1> QED
  BY <1>1, <1>2, <1>3, <1>5, <1>6, <1>8, <1>9, <1>10 DEF StackOK

\* The innermost call makes a call of its own, for its item i.
LEMMA StackPushed ==
    ASSUME MoveOK, SourceGrows, ArchiveGrows, stack # <<>>,
           NEW f \in Frames, NEW g \in Frames, stack' = <<g>> \o Replace(f),
           FrameOK(f)', FrameOK(g)', Open(top),
           f.op = top.op, f.target = top.target, f.source_ref = top.source_ref,
           f.res = top.res, f.i = top.i + 1,
           g.res = NULL, g.target = <<top.res, top.i>>, g.source_ref = <<top.op, top.i>>,
           traverse_error' = FALSE, dumper' # "returned"
    PROVE  /\ StackOK' /\ stack' # <<>> /\ top' = g
           /\ \A k \in 2..Len(stack') : Open(stack[k])'
           /\ \A s \in Slots(archive) : Closed(s) => Closed(s)'
<1>1. /\ Len(stack) \in Nat /\ Len(stack) >= 1 /\ top = stack[1]
      /\ \A k \in 1..Len(stack) : stack[k] \in Frames
      /\ stack' \in Seq(Frames) /\ Len(stack') = Len(stack) + 1
      /\ stack'[1] = g /\ stack'[2] = f
      /\ \A k \in 2..Len(stack) : stack'[k + 1] = stack[k]
  <2>1. StackOK
    BY DEF MoveOK
  <2>2. /\ Len(stack) \in Nat /\ Len(stack) >= 1 /\ top = stack[1]
        /\ \A k \in 1..Len(stack) : stack[k] \in Frames
    BY <2>1, TopIs
  <2> DEFINE s == <<g>> \o Replace(f)
  <2>3. /\ s \in Seq(Frames) /\ Len(s) = Len(stack) + 1 /\ s[1] = g /\ s[2] = f
        /\ \A k \in 2..Len(stack) : s[k + 1] = stack[k]
    BY <2>1, PushedIs
  <2>4. stack' = s
    OBVIOUS
  <2> HIDE DEF s
  <2> QED
    BY <2>2, <2>3, <2>4
<1>2. ASSUME NEW k \in 2..Len(stack)
      PROVE  FrameOK(stack[k + 1])' /\ Open(stack[k + 1])' /\ Open(stack[k])
  <2>1. PICK h \in Frames : h = stack[k]
    BY <1>1
  <2>2. FrameOK(h)' /\ Open(h)' /\ Open(h)
    BY <2>1, LowerFrameKept
  <2>3. stack'[k + 1] = h
    BY <1>1, <2>1
  <2> QED
    BY <2>1, <2>2, <2>3
<1>3. top' = g /\ stack' # <<>>
  BY <1>1, EmptySeq, HeadTailProperties DEF top
<1>4. Open(f)' /\ ~ Open(g)'
  <2>1. f.op \in Nodes /\ f.op = top.op
    BY <1>1, TopIs DEF FrameOK, MoveOK
  <2>2. src'[f.op].kind = src[f.op].kind
    BY <2>1 DEF SourceGrows
  <2> QED
    BY <2>1, <2>2 DEF Open
<1>5. top.i \in Nat /\ top.i >= 1
  <2>1. top \in Frames /\ FrameOK(top)
    BY TopIs DEF MoveOK
  <2>2. top.i \in Nat
    BY <2>1 DEF Frames
  <2>3. top.i # 0
    BY <2>1 DEF FrameOK
  <2> QED
    BY <2>2, <2>3
<1>6. ASSUME NEW k \in 2..Len(stack')
      PROVE  /\ k - 1 \in 1..Len(stack) /\ FrameOK(stack[k])' /\ Open(stack[k])'
             /\ Open(stack[k - 1])
             /\ stack'[k].op = stack[k - 1].op /\ stack'[k].target = stack[k - 1].target
             /\ stack'[k].source_ref = stack[k - 1].source_ref
             /\ stack'[k].res = stack[k - 1].res
             /\ IF k = 2 THEN stack'[k].i = stack[k - 1].i + 1 ELSE stack'[k].i = stack[k - 1].i
  <2>1. CASE k = 2
    BY <1>1, <1>4, <2>1
  <2>2. CASE k # 2
    <3> DEFINE j == k - 1
    <3>1. j \in 2..Len(stack) /\ j + 1 = k
      BY <1>1, <2>2
    <3>2. FrameOK(stack[j + 1])' /\ Open(stack[j + 1])' /\ Open(stack[j])
          /\ stack'[j + 1] = stack[j]
      BY <1>1, <1>2, <3>1
    <3> QED
      BY <1>1, <2>2, <3>1, <3>2
  <2> QED
    BY <2>1, <2>2
<1>7. ASSUME NEW k \in 1..(Len(stack') - 1)
      PROVE  Called(stack[k], stack[k + 1])'
  <2>1. CASE k = 1
    <3>1. stack'[2].i >= 2 /\ stack'[2].i - 1 = top.i
      BY <1>1, <1>5
    <3>2. stack'[1].target = <<stack'[2].res, stack'[2].i - 1>>
          /\ stack'[1].source_ref = <<stack'[2].op, stack'[2].i - 1>>
      BY <1>1, <3>1
    <3>3. Open(stack[2])'
      BY <1>1, <1>4
    <3> QED
      BY <2>1, <3>1, <3>2, <3>3 DEF Called
  <2>2. CASE k # 1
    <3> DEFINE j == k - 1
    <3>1. j \in 1..(Len(stack) - 1) /\ j + 1 = k /\ k \in 2..Len(stack') /\ k + 1 \in 2..Len(stack')
          /\ k + 1 # 2 /\ (k + 1) - 1 = k
      BY <1>1, <2>2
    <3>2. Called(stack[j], stack[j + 1])
      BY <3>1 DEF MoveOK, StackOK
    <3>3. stack'[k].target = stack[j].target /\ stack'[k].source_ref = stack[j].source_ref
      BY <1>6, <3>1
    <3>4. /\ Open(stack[k + 1])' /\ stack'[k + 1].op = stack[k].op
          /\ stack'[k + 1].res = stack[k].res /\ stack'[k + 1].i = stack[k].i
      BY <1>6, <3>1
    <3> QED
      BY <3>1, <3>2, <3>3, <3>4 DEF Called
  <2> QED
    BY <2>1, <2>2
<1>8. stack'[Len(stack')].target = Root /\ stack'[Len(stack')].source_ref = Root
  <2>1. Len(stack') \in 2..Len(stack') /\ Len(stack') - 1 = Len(stack)
    BY <1>1
  <2>2. /\ stack'[Len(stack')].target = stack[Len(stack)].target
        /\ stack'[Len(stack')].source_ref = stack[Len(stack)].source_ref
    BY <1>6, <2>1
  <2> QED
    BY <2>2 DEF MoveOK, StackOK
<1>9. ASSUME NEW j \in 1..Len(stack'), NEW k \in 1..Len(stack'),
             Open(stack[j])', Open(stack[k])', stack'[j].res = stack'[k].res
      PROVE  j = k
  <2>1. j \in 2..Len(stack') /\ k \in 2..Len(stack')
    BY <1>1, <1>4, <1>9
  <2>2. j - 1 \in 1..Len(stack) /\ k - 1 \in 1..Len(stack)
        /\ Open(stack[j - 1]) /\ Open(stack[k - 1]) /\ stack[j - 1].res = stack[k - 1].res
    BY <1>6, <1>9, <2>1
  <2>3. j - 1 = k - 1
    BY <2>2 DEF MoveOK, StackOK
  <2> QED
    BY <2>1, <2>3
<1>10. ASSUME NEW s \in Slots(archive), Closed(s)
       PROVE  Closed(s)'
  <2> SUFFICES ASSUME NEW k \in 1..Len(stack')
               PROVE  /\ s # stack'[k].target
                      /\ Open(stack[k])' /\ s[1] = stack'[k].res => s[2] < stack'[k].i
    BY DEF Closed
  <2>1. s[2] \in Nat
    <3>1. s \in Nat \X Nat
      BY SlotIs DEF MoveOK, ArchiveOK
    <3> QED
      BY <3>1
  <2>2. CASE k # 1
    <3> DEFINE j == k - 1
    <3>1. k \in 2..Len(stack')
      BY <1>1, <2>2
    <3>2. /\ j \in 1..Len(stack) /\ Open(stack[j]) /\ stack'[k].target = stack[j].target
          /\ stack'[k].res = stack[j].res
          /\ IF k = 2 THEN stack'[k].i = stack[j].i + 1 ELSE stack'[k].i = stack[j].i
      BY <1>6, <3>1
    <3>3. stack[j].i \in Nat
      <4>1. stack[j] \in Frames
        BY <1>1, <3>2
      <4> QED
        BY <4>1 DEF Frames
    <3> HIDE DEF j
    <3>4. s # stack[j].target /\ (s[1] = stack[j].res => s[2] < stack[j].i)
      BY <1>10, <3>2 DEF Closed
    <3> QED
      BY <2>1, <3>2, <3>3, <3>4
  <2>3. CASE k = 1
    <3>1. s[1] = top.res => s[2] < top.i
      <4>1. 1 \in 1..Len(stack)
        BY <1>1
      <4> QED
        BY <1>1, <1>10, <4>1 DEF Closed
    <3>2. s # <<top.res, top.i>>
      BY <1>5, <2>1, <3>1
    <3> QED
      BY <1>1, <1>4, <2>3, <3>2
  <2> QED
    BY <2>2, <2>3
<1>11. \A k \in 1..Len(stack') : FrameOK(stack[k])'
  <2> SUFFICES ASSUME NEW k \in 1..Len(stack') PROVE FrameOK(stack[k])'
    OBVIOUS
  <2>1. CASE k = 1
    BY <1>1, <2>1
  <2>2. CASE k # 1
    <3>1. k \in 2..Len(stack')
      BY <1>1, <2>2
    <3> QED
      BY <1>6, <3>1
  <2> QED
    BY <2>1, <2>2
<1> QED
  BY <1>1, <1>3, <1>6, <1>7, <1>8, <1>9, <1>10, <1>11 DEF StackOK

\* The stack stays as it is.
LEMMA StackSame ==
    ASSUME MoveOK, SourceGrows, ArchiveGrows, archive' = archive, stack' = stack,
           traverse_error' = traverse_error, dumper' = "returned" => stack = <<>>
    PROVE  /\ StackOK' /\ \A s : Closed(s) => Closed(s)'
           /\ \A a : Pending(a)' <=> Pending(a)
<1>1. ASSUME NEW k \in 1..Len(stack)
      PROVE  FrameOK(stack[k])' /\ (Open(stack[k])' <=> Open(stack[k]))
             /\ (IsString(stack[k])' <=> IsString(stack[k]))
  <2>1. stack[k] \in Frames /\ FrameOK(stack[k])
    <3>1. stack # <<>>
      BY EmptySeq
    <3> QED
      BY <3>1, TopIs DEF MoveOK
  <2>2. PICK f \in Frames : f = stack[k]
    BY <2>1
  <2>3. FrameOK(f)' /\ (Open(f)' <=> Open(f)) /\ (IsString(f)' <=> IsString(f))
    BY <2>1, <2>2, FrameKept
  <2>4. stack'[k] = f
    BY <2>2
  <2> QED
    BY <2>2, <2>3, <2>4
<1>2. ASSUME NEW k \in 1..(Len(stack) - 1)
      PROVE  Called(stack[k], stack[k + 1])'
  <2>1. Len(stack) \in Nat
    BY LenProperties DEF MoveOK, StackOK
  <2>2. k + 1 \in 1..Len(stack) /\ Called(stack[k], stack[k + 1])
    BY <2>1 DEF MoveOK, StackOK
  <2>3. Open(stack[k + 1])'
    BY <1>1, <2>2 DEF Called
  <2> QED
    BY <2>2, <2>3 DEF Called
<1>3. StackOK'
  BY <1>1, <1>2 DEF MoveOK, StackOK
<1>4. \A s : Closed(s) => Closed(s)'
  BY <1>1 DEF Closed
<1>5. \A a : Pending(a)' <=> Pending(a)
  <2>1. CASE stack = <<>>
    BY <2>1 DEF Pending
  <2>2. CASE stack # <<>>
    <3>1. top = stack[1] /\ 1 \in 1..Len(stack)
      BY <2>2, TopIs DEF MoveOK
    <3>2. top' = stack'[1]
      BY <3>1 DEF top
    <3> QED
      BY <1>1, <2>2, <3>1, <3>2 DEF Pending
  <2> QED
    BY <2>1, <2>2
<1> QED
  BY <1>3, <1>4, <1>5

-----------------------------------------------------------------------------
(* The source, the tables and the archive. *)

LEMMA SourceSame ==
    ASSUME SourceOK, UNCHANGED <<src, root, interned>>
    PROVE  SourceGrows
BY DEF SourceOK, SourceGrows, Nodes

LEMMA TablesKept ==
    ASSUME MoveOK, SourceGrows, ArchiveGrows, UNCHANGED <<orig_map, str_map>>
    PROVE  TablesOK'
<1>1. ASSUME NEW n \in Nodes, orig_map[n] # NULL
      PROVE  /\ orig_map[n] \in HeapStrings'
             /\ src'[n].kind = "str" /\ archive'.heap[orig_map[n]].val = src'[n].val
  <2>1. /\ orig_map[n] \in HeapStrings /\ src[n].kind = "str"
        /\ archive.heap[orig_map[n]].val = src[n].val
    BY <1>1 DEF MoveOK, TablesOK
  <2>2. orig_map[n] \in Addresses(archive) /\ orig_map[n] \in HeapStrings'
    BY <2>1, Grown DEF HeapStrings, Addresses, MoveOK
  <2> QED
    BY <2>1, <2>2 DEF ArchiveGrows, SameKind, SourceGrows
<1>2. ASSUME NEW a \in 1..HeapCells, str_map[a] # 0
      PROVE  str_map[a] \in 1..Len(Lists') /\ Lists'[str_map[a]].str = a
  <2>1. str_map[a] \in 1..Len(Lists) /\ Lists[str_map[a]].str = a
    BY <1>2 DEF MoveOK, TablesOK
  <2>2. Len(Lists) \in Nat /\ Len(Lists') \in Nat /\ Len(Lists) <= Len(Lists')
    BY ArchiveIs DEF MoveOK, ArchiveOK, ArchiveGrows, Lists
  <2> QED
    BY <2>1, <2>2 DEF ArchiveGrows
<1>3. HeapCells' = HeapCells /\ Nodes' = Nodes
  BY DEF HeapCells, ArchiveGrows, SourceGrows
<1>4. orig_map \in [Nodes -> Nat] /\ str_map \in [1..HeapCells -> Nat]
  BY DEF MoveOK, TablesOK
<1> QED
  BY <1>1, <1>2, <1>3, <1>4 DEF TablesOK

\* The root, the fields and the counts may be stored to.
LEMMA StoreGrows ==
    ASSUME ArchiveOK, env' = env, archive' \in Archives, SameObjects(archive, archive'),
           archive'.used = archive.used, archive'.all_string_ref = archive.all_string_ref
    PROVE  /\ ArchiveGrows /\ Lists' = Lists /\ HeapStrings' = HeapStrings
           /\ Slots(archive') = Slots(archive) /\ Addresses(archive') = Addresses(archive)
<1>1. Slots(archive') = Slots(archive) /\ Addresses(archive') = Addresses(archive)
  BY SlotsKept
<1>2. Lists' = Lists
  BY DEF Lists
<1>3. \A a \in Addresses(archive) : SameKind(archive'.heap[a], archive.heap[a])
  BY DEF SameObjects
<1>4. HeapStrings' = HeapStrings
  BY <1>1, <1>3 DEF HeapStrings, Addresses, SameKind
<1>5. HeapCells' = HeapCells /\ Len(archive'.heap) = Len(archive.heap)
  BY DEF HeapCells, SameObjects
<1>6. ArchiveOK'
  <2>1. archive'.none_base = archive.none_base
    BY DEF SameObjects
  <2> QED
    BY <1>1, <1>2, <1>4, <1>5, <2>1 DEF ArchiveOK
<1>7. Len(archive.heap) \in Nat /\ Len(Lists) \in Nat
  BY ArchiveIs DEF ArchiveOK, Lists
<1> QED
  BY <1>1, <1>2, <1>3, <1>4, <1>5, <1>6, <1>7 DEF ArchiveGrows

\* An object is allocated, and a slot stored to.
LEMMA AllocGrows ==
    ASSUME ArchiveOK, env' = env, ~ HeapFull, NEW o \in HeapObjects,
           \A i \in 1..Len(o.slots) : o.slots[i] = NULL,
           NEW s \in Slots(archive), NEW p \in Int,
           archive' = SetSlot(NewObject(archive, o), s, p)
    PROVE  LET a == Len(archive.heap) + 1 IN
           /\ ArchiveGrows /\ Lists' = Lists /\ Writes(s, p)
           /\ Len(archive'.heap) = a /\ a \in Nat /\ a # NULL
           /\ a \notin Addresses(archive) /\ a \in 1..HeapCells
           /\ SameKind(archive'.heap[a], o) /\ archive'.heap[a].rc = o.rc
           /\ \A b \in Addresses(archive) : archive'.heap[b].rc = archive.heap[b].rc
           /\ HeapStrings' = IF o.type = TypeAddr(DumpBase, "str")
                             THEN HeapStrings \cup {a} ELSE HeapStrings
<1> DEFINE a == Len(archive.heap) + 1
           m == NewObject(archive, o)
<1>1. /\ archive \in Archives /\ Len(archive.heap) \in Nat /\ archive.used \in Nat
      /\ Len(archive.heap) <= archive.used /\ archive.used < HeapCells
      /\ HeapCells \in Nat /\ Len(Lists) \in Nat
  <2>1. archive \in Archives /\ env \in Environments
    BY DEF ArchiveOK
  <2>2. HeapCells \in Nat
    BY <2>1, EnvironmentsAssumption DEF HeapCells
  <2> QED
    BY <2>1, <2>2, ArchiveIs DEF ArchiveOK, HeapFull, Lists
<1>2. /\ m \in Archives /\ m.used = archive.used + 1
      /\ m.all_string_ref = archive.all_string_ref /\ m.none_base = archive.none_base
      /\ Len(m.heap) = a /\ m.heap[a] = o
      /\ \A b \in Addresses(archive) : m.heap[b] = archive.heap[b]
      /\ SameSlots(archive, m) /\ Slots(archive) \subseteq Slots(m)
      /\ \A r \in Slots(m) \ Slots(archive) : r[1] = a /\ GetSlot(m, r) = NULL
  BY <1>1, NewObjectIs
<1>3. archive' = SetSlot(m, s, p)
  OBVIOUS
<1> HIDE DEF m
<1>4. s \in Slots(m)
  BY <1>2
<1>5. /\ archive' \in Archives /\ SameObjects(m, archive') /\ SameCounts(m, archive')
      /\ archive'.used = m.used /\ archive'.all_string_ref = m.all_string_ref
      /\ \A r \in Slots(m) : GetSlot(archive', r) = IF r = s THEN p ELSE GetSlot(m, r)
  BY <1>2, <1>3, <1>4, SetSlotIs
<1>6. Slots(archive') = Slots(m) /\ Addresses(archive') = Addresses(m)
  BY <1>5, SlotsKept
<1>7. Writes(s, p)
  <2> SUFFICES ASSUME NEW r \in Slots(archive')
               PROVE  GetSlot(archive', r) = IF r = s THEN p
                                             ELSE IF r \in Slots(archive) THEN GetSlot(archive, r)
                                             ELSE NULL
    BY DEF Writes
  <2>1. GetSlot(archive', r) = IF r = s THEN p ELSE GetSlot(m, r)
    BY <1>5, <1>6
  <2>2. GetSlot(m, r) = IF r \in Slots(archive) THEN GetSlot(archive, r) ELSE NULL
    BY <1>2, <1>6 DEF SameSlots
  <2> QED
    BY <2>1, <2>2
<1>8. /\ Addresses(m) = Addresses(archive) \cup {a} /\ a \notin Addresses(archive)
      /\ a \in 1..HeapCells /\ a \in Nat /\ a # NULL
  BY SMTT(20), <1>1, <1>2 DEF Addresses, NULL
<1>9. Len(archive'.heap) = a /\ SameKind(archive'.heap[a], o) /\ archive'.heap[a].rc = o.rc
  BY <1>2, <1>5, <1>8 DEF SameObjects, SameCounts
<1>10. \A b \in Addresses(archive) : /\ SameKind(archive'.heap[b], archive.heap[b])
                                     /\ archive'.heap[b].rc = archive.heap[b].rc
  BY <1>2, <1>5, <1>8 DEF SameObjects, SameCounts
<1>11. HeapStrings' = IF o.type = TypeAddr(DumpBase, "str")
                      THEN HeapStrings \cup {a} ELSE HeapStrings
  <2>1. HeapStrings' = {b \in Addresses(archive) \cup {a} :
                           archive'.heap[b].type = TypeAddr(DumpBase, "str")}
    BY <1>6, <1>8 DEF HeapStrings, Addresses
  <2>2. HeapStrings = {b \in Addresses(archive) :
                           archive.heap[b].type = TypeAddr(DumpBase, "str")}
    BY DEF HeapStrings, Addresses
  <2>3. archive'.heap[a].type = o.type
    BY <1>9 DEF SameKind
  <2>4. \A b \in Addresses(archive) : archive'.heap[b].type = archive.heap[b].type
    BY <1>10 DEF SameKind
  <2> HIDE DEF a
  <2> QED
    BY <1>8, <2>1, <2>2, <2>3, <2>4
<1>12. Lists' = Lists
  BY <1>2, <1>5 DEF Lists
<1>13. ArchiveOK'
  <2>1. archive'.none_base = DumpBase
    BY <1>2, <1>5 DEF SameObjects, ArchiveOK
  <2>2. HeapCells' = HeapCells
    BY DEF HeapCells
  <2>3. Len(archive'.heap) <= archive'.used /\ archive'.used <= HeapCells
    BY <1>1, <1>2, <1>5, <1>9
  <2>4. HeapStrings \subseteq HeapStrings' /\ Slots(archive) \subseteq Slots(archive')
    BY <1>2, <1>6, <1>11
  <2> QED
    BY <1>5, <1>12, <2>1, <2>2, <2>3, <2>4 DEF ArchiveOK
<1>14. ArchiveGrows
  BY <1>1, <1>9, <1>10, <1>12, <1>13 DEF ArchiveGrows
<1> QED
  BY <1>7, <1>8, <1>9, <1>10, <1>11, <1>12, <1>14

LEMMA InterpreterAddr ==
    ASSUME ArchiveOK
    PROVE  /\ DumpBase \in Nat /\ HeapCells \in Nat /\ NULL \notin HeapStrings
           /\ \A a \in Addresses(archive) : a \in Nat /\ a < DumpBase
           /\ \A a \in HeapStrings : a \in Addresses(archive)
           /\ \A p : p \in Int /\ p >= DumpBase => p \notin HeapStrings
<1>1. DumpBase \in Nat /\ HeapCells \in Nat /\ HeapCells < DumpBase
  BY DumpBaseAssumption, EnvironmentsAssumption DEF ArchiveOK, HeapCells
<1>2. Len(archive.heap) \in Nat /\ Len(archive.heap) <= HeapCells
  BY <1>1, ArchiveIs DEF ArchiveOK
<1>3. \A a \in HeapStrings : a \in Addresses(archive)
  BY DEF HeapStrings, Addresses
<1>4. \A a \in Addresses(archive) : a \in Nat /\ a < DumpBase /\ a # NULL
  BY <1>1, <1>2 DEF Addresses, NULL
<1> QED
  BY <1>1, <1>3, <1>4

LEMMA TypesDiffer ==
    ASSUME DumpBase \in Nat
    PROVE  /\ \A ty \in {"atom", "str", "tuple", "code"} : TypeAddr(DumpBase, ty) \in Int
           /\ \A ty \in {"atom", "tuple", "code"} :
                 TypeAddr(DumpBase, ty) # TypeAddr(DumpBase, "str")
<1>1. TypeAddr(DumpBase, "atom") = DumpBase + 1
  BY DEF TypeAddr
<1>2. TypeAddr(DumpBase, "str") = DumpBase + 2
  BY DEF TypeAddr
<1>3. TypeAddr(DumpBase, "tuple") = DumpBase + 3
  BY DEF TypeAddr
<1>4. TypeAddr(DumpBase, "code") = DumpBase + 4
  BY DEF TypeAddr
<1> QED
  BY <1>1, <1>2, <1>3, <1>4

-----------------------------------------------------------------------------
(* Steps that move no string in, and record no slot. *)

\* NULL, or an object of the archive or of the interpreter.
IsPointer(m, p) == p = NULL \/ p \in Addresses(m) \/ p >= DumpBase

\* What they do to the archive ...
QuietStore ==
    /\ Lists' = Lists /\ HeapStrings' = HeapStrings
    /\ \A s \in Slots(archive) : s # top.target => GetSlot(archive', s) = GetSlot(archive, s)
    /\ \A s \in Slots(archive') : GetSlot(archive', s) \in HeapStrings =>
           s \in Slots(archive) /\ GetSlot(archive, s) = GetSlot(archive', s)
    /\ \A s \in Slots(archive') :
           \/ s \in Slots(archive) /\ GetSlot(archive', s) = GetSlot(archive, s)
           \/ IsPointer(archive', GetSlot(archive', s))
    /\ \A a \in Addresses(archive) : archive'.heap[a].rc >= archive.heap[a].rc
    /\ \A a \in Addresses(archive') \ Addresses(archive) :
           archive'.heap[a].rc = 1 /\ ~ archive'.heap[a].interned

\* ... and to the whole state.
Quiet ==
    /\ MoveOK' /\ SourceGrows /\ ArchiveGrows /\ UNCHANGED <<orig_map, str_map>>
    /\ Lists' = Lists /\ HeapStrings' = HeapStrings
    /\ \A s \in Slots(archive) : Closed(s) =>
           Closed(s)' /\ GetSlot(archive', s) = GetSlot(archive, s)
    /\ \A s \in Slots(archive') : GetSlot(archive', s) \in HeapStrings =>
           s \in Slots(archive) /\ GetSlot(archive, s) = GetSlot(archive', s)
    /\ \A s \in Slots(archive') :
           \/ s \in Slots(archive) /\ GetSlot(archive', s) = GetSlot(archive, s)
           \/ IsPointer(archive', GetSlot(archive', s))
    /\ \A a \in Addresses(archive) : archive'.heap[a].rc >= archive.heap[a].rc
    /\ \A a \in Addresses(archive') \ Addresses(archive) :
           archive'.heap[a].rc = 1 /\ ~ archive'.heap[a].interned
    /\ \/ stack' = stack /\ \A a : Pending(a)' <=> Pending(a)
       \/ \A a \in HeapStrings : ~ Pending(a) /\ ~ Pending(a)'

LEMMA QuietEnough ==
    ASSUME MoveOK, SourceGrows, ArchiveGrows, UNCHANGED <<orig_map, str_map>>, QuietStore,
           StackOK', stack # <<>>,
           \A s \in Slots(archive) : Closed(s) => Closed(s)',
           top.res = NULL \/ Open(top),
           stack' = <<>> \/ top'.res = NULL \/ Open(top)'
    PROVE  Quiet
<1>1. MoveOK'
  <2>1. SourceOK' /\ ArchiveOK'
    BY DEF SourceGrows, ArchiveGrows
  <2> QED
    BY <2>1, TablesKept DEF MoveOK
<1>2. NULL \notin HeapStrings
  BY InterpreterAddr DEF MoveOK
<1>3. ASSUME NEW a \in HeapStrings
      PROVE  ~ Pending(a) /\ ~ Pending(a)'
  <2>1. ~ Pending(a)
    BY <1>2 DEF Pending, Open, IsString, Containers
  <2>2. ~ Pending(a)'
    BY <1>2 DEF Pending, Open, IsString, Containers
  <2> QED
    BY <2>1, <2>2
<1>4. ASSUME NEW s \in Slots(archive), Closed(s)
      PROVE  Closed(s)' /\ GetSlot(archive', s) = GetSlot(archive, s)
  <2>1. 1 \in 1..Len(stack) /\ top = stack[1]
    BY TopIs DEF MoveOK
  <2>2. s # top.target
    BY <1>4, <2>1 DEF Closed
  <2> QED
    BY <1>4, <2>2 DEF QuietStore
<1> QED
  BY <1>1, <1>3, <1>4 DEF Quiet, QuietStore

\* A slot is stored to.
LEMMA SetQuiet ==
    ASSUME ArchiveOK, env' = env, NEW s \in Slots(archive), s = top.target, NEW p \in Int,
           p \notin HeapStrings, IsPointer(archive, p), archive' = SetSlot(archive, s, p)
    PROVE  ArchiveGrows /\ QuietStore
<1>1. archive \in Archives
  BY DEF ArchiveOK
<1>2. /\ archive' \in Archives /\ SameObjects(archive, archive')
      /\ SameCounts(archive, archive')
      /\ archive'.used = archive.used /\ archive'.all_string_ref = archive.all_string_ref
      /\ \A r \in Slots(archive) :
            GetSlot(archive', r) = IF r = s THEN p ELSE GetSlot(archive, r)
  BY <1>1, SetSlotIs
<1>3. /\ ArchiveGrows /\ Lists' = Lists /\ HeapStrings' = HeapStrings
      /\ Slots(archive') = Slots(archive) /\ Addresses(archive') = Addresses(archive)
  BY <1>2, StoreGrows
<1>4. \A a \in Addresses(archive) : archive'.heap[a].rc >= archive.heap[a].rc
  BY <1>1, <1>2, ArchiveIs DEF SameCounts
<1>5. IsPointer(archive', p)
  BY <1>3 DEF IsPointer
<1> QED
  BY <1>2, <1>3, <1>4, <1>5 DEF QuietStore

\* An object that is not a string is allocated, and a slot stored to.
LEMMA AllocQuiet ==
    ASSUME ArchiveOK, env' = env, ~ HeapFull, NEW o \in HeapObjects,
           \A i \in 1..Len(o.slots) : o.slots[i] = NULL,
           o.type # TypeAddr(DumpBase, "str"), o.rc = 1, ~ o.interned,
           NEW s \in Slots(archive), s = top.target, NEW p \in Int, p \notin HeapStrings,
           p \in {NULL, Len(archive.heap) + 1},
           archive' = SetSlot(NewObject(archive, o), s, p)
    PROVE  ArchiveGrows /\ QuietStore
<1> DEFINE a == Len(archive.heap) + 1
<1>1. /\ ArchiveGrows /\ Lists' = Lists /\ Writes(s, p)
      /\ Len(archive'.heap) = a /\ a \in Nat /\ a # NULL
      /\ SameKind(archive'.heap[a], o) /\ archive'.heap[a].rc = o.rc
      /\ \A b \in Addresses(archive) : archive'.heap[b].rc = archive.heap[b].rc
      /\ HeapStrings' = HeapStrings
  BY AllocGrows
<1>2. \A b \in Addresses(archive') \ Addresses(archive) : b = a
  <2>1. Len(archive.heap) \in Nat
    BY ArchiveIs DEF ArchiveOK
  <2> QED
    BY <1>1, <2>1 DEF Addresses
<1>3. \A b \in Addresses(archive) : archive.heap[b].rc \in Int
  BY ArchiveIs DEF ArchiveOK
<1>4. NULL \notin HeapStrings /\ Slots(archive) \subseteq Slots(archive')
  BY <1>1, InterpreterAddr, Grown
<1> HIDE DEF a
<1>5. \A r \in Slots(archive) : r # top.target => GetSlot(archive', r) = GetSlot(archive, r)
  BY <1>1, <1>4 DEF Writes
<1>6. \A r \in Slots(archive') : GetSlot(archive', r) \in HeapStrings =>
         r \in Slots(archive) /\ GetSlot(archive, r) = GetSlot(archive', r)
  BY <1>1, <1>4 DEF Writes
<1>7. \A b \in Addresses(archive) : archive'.heap[b].rc >= archive.heap[b].rc
  BY <1>1, <1>3
<1>8. \A b \in Addresses(archive') \ Addresses(archive) :
         archive'.heap[b].rc = 1 /\ ~ archive'.heap[b].interned
  BY <1>1, <1>2 DEF SameKind
<1>9. \A r \in Slots(archive') :
         \/ r \in Slots(archive) /\ GetSlot(archive', r) = GetSlot(archive, r)
         \/ IsPointer(archive', GetSlot(archive', r))
  <2>1. p = NULL \/ p \in Addresses(archive')
    BY <1>1 DEF a, Addresses, NULL
  <2> QED
    BY <1>1, <2>1 DEF Writes, IsPointer
<1> QED
  BY <1>1, <1>5, <1>6, <1>7, <1>8, <1>9 DEF QuietStore

LEMMA ObjIs ==
    ASSUME MoveOK, stack # <<>>
    PROVE  /\ top.op \in Nodes /\ obj = src[top.op] /\ obj \in Objects
           /\ obj.val \in Nat /\ obj.items \in Seq(Nat) /\ Len(obj.items) \in Nat
           /\ obj.kind \in {"str", "atom", "basic", "other"} \cup Containers
           /\ top.target \in Slots(archive) /\ archive \in Archives
           /\ top \in Frames /\ FrameOK(top)
           /\ top.res \in Nat /\ top.list \in Nat /\ top.i \in Nat /\ top.i >= 1
<1>1. top \in Frames /\ FrameOK(top)
  BY TopIs DEF MoveOK
<1>2. top.op \in Nodes /\ top.target \in Slots(archive) /\ top.i # 0
  BY <1>1 DEF FrameOK
<1>3. top.res \in Nat /\ top.list \in Nat /\ top.i \in Nat
  BY <1>1 DEF Frames
<1>4. obj \in Objects
  <2>1. src \in Seq(Objects)
    BY DEF MoveOK, SourceOK
  <2>2. top.op \in 1..Len(src)
    BY <1>2, <2>1, LenProperties DEF Nodes
  <2> QED
    BY <2>1, <2>2, ElementOfSeq DEF obj
<1>5. /\ obj.val \in Nat /\ obj.items \in Seq(Nat)
      /\ obj.kind \in {"str", "atom", "basic", "other"} \cup Containers
  BY <1>4 DEF Objects
<1>6. Len(obj.items) \in Nat
  BY <1>5, LenProperties
<1> QED
  BY <1>1, <1>2, <1>3, <1>4, <1>5, <1>6 DEF obj, MoveOK, ArchiveOK

LEMMA PopQuiet ==
    ASSUME MoveOK, Running, SourceGrows, ArchiveGrows, QuietStore,
           UNCHANGED <<orig_map, str_map, dumper>>, Pop, traverse_error' \in BOOLEAN,
           top.res = NULL \/ Open(top)
    PROVE  Quiet
<1>1. stack # <<>> /\ stack' = Tail(stack) /\ dumper' # "returned"
  BY DEF Running, Pop
<1>2. /\ StackOK' /\ \A k \in 1..Len(stack') : Open(stack[k])'
      /\ \A s : Closed(s) => Closed(s)'
  BY <1>1, StackPopped
<1>3. stack' = <<>> \/ Open(top)'
  <2>1. SUFFICES ASSUME stack' # <<>> PROVE Open(top)'
    OBVIOUS
  <2>2. stack' \in Seq(Frames)
    BY <1>2 DEF StackOK
  <2>3. Len(stack') \in Nat /\ Len(stack') >= 1 /\ Head(stack') = stack'[1]
    BY <2>1, <2>2, EmptySeq
  <2>4. Open(stack[1])'
    BY <1>2, <2>3
  <2> QED
    BY <2>3, <2>4 DEF top
<1> QED
  BY <1>1, <1>2, <1>3, QuietEnough

LEMMA ReferenceQuiet ==
    ASSUME MoveOK, env' = env, MoveReference
    PROVE  Quiet
<1>1. Running /\ ~ traverse_error /\ top.res = NULL /\ stack # <<>>
  BY DEF MoveReference, Entering, Running
<1>2. PICK p : /\ p \in {BasicAddr(DumpBase, obj.val), StaticAtom(DumpBase, obj.val),
                         StaticStr(DumpBase, obj.val)}
               /\ archive' = SetSlot(archive, top.target, p)
  BY DEF MoveReference
<1>3. p \in Int /\ p \notin HeapStrings /\ IsPointer(archive, p)
  <2>1. obj.val \in Nat /\ DumpBase \in Nat
    BY <1>1, ObjIs, InterpreterAddr DEF MoveOK
  <2>2. p \in Int /\ p >= DumpBase
    BY <1>2, <2>1, SpanAssumption DEF BasicAddr, StaticAtom, StaticStr
  <2> QED
    BY <2>2, InterpreterAddr DEF MoveOK, IsPointer
<1>4. ArchiveGrows /\ QuietStore
  <2>1. top.target \in Slots(archive)
    BY <1>1, ObjIs
  <2> QED
    BY <1>2, <1>3, <2>1, SetQuiet DEF MoveOK
<1>5. /\ UNCHANGED <<src, root, interned, orig_map, str_map, traverse_error, dumper>>
      /\ Pop
  BY DEF MoveReference
<1>6. SourceGrows
  BY <1>5, SourceSame DEF MoveOK
<1>7. traverse_error' \in BOOLEAN
  BY <1>5 DEF MoveOK, StackOK
<1> QED
  BY <1>1, <1>4, <1>5, <1>6, <1>7, PopQuiet

LEMMA UnsupportedQuiet ==
    ASSUME MoveOK, env' = env, MoveUnsupported
    PROVE  Quiet
<1>1. Running /\ ~ traverse_error /\ top.res = NULL /\ stack # <<>>
  BY DEF MoveUnsupported, Entering, Running
<1>2. ArchiveGrows /\ QuietStore
  <2>1. top.target \in Slots(archive) /\ archive' = SetSlot(archive, top.target, NULL)
    BY <1>1, ObjIs DEF MoveUnsupported
  <2>2. NULL \in Int /\ NULL \notin HeapStrings
    BY InterpreterAddr DEF MoveOK, NULL
  <2>3. IsPointer(archive, NULL)
    BY DEF IsPointer
  <2> QED
    BY <2>1, <2>2, <2>3, SetQuiet DEF MoveOK
<1>3. /\ UNCHANGED <<src, root, interned, orig_map, str_map, dumper>> /\ Pop
      /\ traverse_error' \in BOOLEAN
  BY DEF MoveUnsupported
<1>4. SourceGrows
  BY <1>3, SourceSame DEF MoveOK
<1> QED
  BY <1>1, <1>2, <1>3, <1>4, PopQuiet

\* Steps that leave the archive alone.
LEMMA ArchiveSame ==
    ASSUME ArchiveOK, env' = env, archive' = archive
    PROVE  ArchiveGrows /\ QuietStore
<1>1. archive' \in Archives /\ SameObjects(archive, archive')
  BY DEF ArchiveOK, SameObjects, SameKind
<1>2. ArchiveGrows /\ Lists' = Lists /\ HeapStrings' = HeapStrings
  BY <1>1, StoreGrows
<1>3. \A a \in Addresses(archive) : archive'.heap[a].rc >= archive.heap[a].rc
  BY <1>1, ArchiveIs
<1> QED
  BY <1>2, <1>3 DEF QuietStore

LEMMA UnwindQuiet ==
    ASSUME MoveOK, env' = env, Unwind
    PROVE  Quiet
<1>1. /\ Running /\ stack # <<>> /\ traverse_error /\ Pop /\ archive' = archive
      /\ UNCHANGED <<src, root, interned, orig_map, str_map, traverse_error, dumper>>
  BY DEF Unwind, Running
<1>2. ArchiveGrows /\ QuietStore
  BY <1>1, ArchiveSame DEF MoveOK
<1>3. SourceGrows
  BY <1>1, SourceSame DEF MoveOK
<1>4. traverse_error' \in BOOLEAN
  BY <1>1 DEF MoveOK, StackOK
<1>5. Open(top)
  <2>1. top = stack[1] /\ 1 \in 1..Len(stack)
    BY <1>1, TopIs DEF MoveOK
  <2> QED
    BY <1>1, <2>1 DEF MoveOK, StackOK
<1> QED
  BY <1>1, <1>2, <1>3, <1>4, <1>5, PopQuiet

\* Steps that change neither the archive nor the stack.
LEMMA SameQuiet ==
    ASSUME MoveOK, env' = env, SourceGrows,
           UNCHANGED <<archive, orig_map, str_map, stack, traverse_error>>,
           dumper' = "returned" => stack = <<>>
    PROVE  Quiet
<1>1. ArchiveGrows /\ QuietStore
  BY ArchiveSame DEF MoveOK
<1>2. /\ StackOK' /\ \A s : Closed(s) => Closed(s)'
      /\ \A a : Pending(a)' <=> Pending(a)
  BY <1>1, StackSame
<1>3. MoveOK'
  <2>1. SourceOK' /\ ArchiveOK'
    BY <1>1 DEF SourceGrows, ArchiveGrows
  <2> QED
    BY <1>1, <1>2, <2>1, TablesKept DEF MoveOK
<1> QED
  BY <1>1, <1>2, <1>3 DEF Quiet, QuietStore

LEMMA CrashQuiet ==
    ASSUME MoveOK, env' = env, Crash
    PROVE  Quiet
<1>1. /\ UNCHANGED <<src, root, interned, archive, orig_map, str_map, stack,
                     traverse_error>>
      /\ dumper' # "returned"
  BY DEF Crash
<1>2. SourceGrows
  BY <1>1, SourceSame DEF MoveOK
<1> QED
  BY <1>1, <1>2, SameQuiet

LEMMA EndQuiet ==
    ASSUME MoveOK, env' = env, Return \/ Kill
    PROVE  Quiet
<1>1. /\ UNCHANGED <<src, root, interned, archive, orig_map, str_map, stack,
                     traverse_error>>
      /\ dumper' = "returned" => stack = <<>>
  BY DEF Return, Kill
<1>2. SourceGrows
  BY <1>1, SourceSame DEF MoveOK
<1> QED
  BY <1>1, <1>2, SameQuiet

LEMMA AtomQuiet ==
    ASSUME MoveOK, env' = env, MoveAtom
    PROVE  Quiet
<1>1. CASE HeapFull
  BY <1>1, CrashQuiet DEF MoveAtom
<1>2. CASE ~ HeapFull
  <2> DEFINE o == HeapObject(TypeAddr(DumpBase, "atom"), obj.val, 0)
             m == NewObject(archive, o)
             a == Len(archive.heap) + 1
  <2>1. Running /\ ~ traverse_error /\ top.res = NULL /\ stack # <<>>
    BY DEF MoveAtom, Entering, Running
  <2>2. obj.val \in Nat /\ archive \in Archives /\ top.target \in Slots(archive)
    BY <2>1, ObjIs
  <2>3. /\ TypeAddr(DumpBase, "atom") \in Int
        /\ TypeAddr(DumpBase, "atom") # TypeAddr(DumpBase, "str")
    BY InterpreterAddr, TypesDiffer DEF MoveOK
  <2> DEFINE t == TypeAddr(DumpBase, "atom")
  <2> HIDE DEF t
  <2>4. /\ o \in HeapObjects /\ o.type = TypeAddr(DumpBase, "atom") /\ o.rc = 1
        /\ ~ o.interned
        /\ \A i \in 1..Len(o.slots) : o.slots[i] = NULL
    <3>1. t \in Int /\ 0 \in Nat
      BY <2>3 DEF t
    <3>2. o = HeapObject(t, obj.val, 0)
      BY DEF t
    <3> DEFINE v == obj.val
               q == HeapObject(t, v, 0)
    <3> HIDE DEF v
    <3>3. v \in Nat
      BY <2>2 DEF v
    <3>4. /\ q \in HeapObjects /\ q.type = t /\ q.rc = 1 /\ ~ q.interned
          /\ Len(q.slots) = 0 /\ \A i \in 1..0 : q.slots[i] = NULL
      BY <3>1, <3>3, HeapObjectIs
    <3> QED
      BY <3>2, <3>4 DEF t, v
  <2> HIDE DEF o
  <2>5. Len(m.heap) = a
    BY <2>2, <2>4, NewObjectIs
  <2>6. archive' = SetSlot(m, top.target, a) /\ Pop
        /\ UNCHANGED <<src, root, interned, orig_map, str_map, traverse_error, dumper>>
    BY <1>2, <2>5 DEF MoveAtom, o
  <2>7. a \in Int /\ a \notin HeapStrings
    <3>1. Len(archive.heap) \in Nat
      BY <2>2, ArchiveIs
    <3> QED
      BY <3>1 DEF HeapStrings
  <2>8. ArchiveGrows /\ QuietStore
    BY <1>2, <2>2, <2>3, <2>4, <2>6, <2>7, AllocQuiet DEF MoveOK
  <2>9. SourceGrows
    BY <2>6, SourceSame DEF MoveOK
  <2>10. traverse_error' \in BOOLEAN
    BY <2>6 DEF MoveOK, StackOK
  <2> QED
    BY <2>1, <2>6, <2>8, <2>9, <2>10, PopQuiet
<1> QED
  BY <1>1, <1>2

LEMMA FrameWithRes ==
    ASSUME NEW f \in Frames, NEW r \in Nat
    PROVE  LET g == [f EXCEPT !.res = r] IN
           /\ g \in Frames /\ g.op = f.op /\ g.target = f.target
           /\ g.source_ref = f.source_ref /\ g.res = r /\ g.list = f.list /\ g.i = f.i
BY DEF Frames

LEMMA FrameWithList ==
    ASSUME NEW f \in Frames, NEW n \in Nat
    PROVE  LET g == [f EXCEPT !.list = n] IN
           /\ g \in Frames /\ g.op = f.op /\ g.target = f.target
           /\ g.source_ref = f.source_ref /\ g.res = f.res /\ g.list = n /\ g.i = f.i
BY DEF Frames

LEMMA FrameNext ==
    ASSUME NEW f \in Frames
    PROVE  LET g == [f EXCEPT !.i = @ + 1] IN
           /\ g \in Frames /\ g.op = f.op /\ g.target = f.target
           /\ g.source_ref = f.source_ref /\ g.res = f.res /\ g.list = f.list
           /\ g.i = f.i + 1
BY DEF Frames

LEMMA FrameIs ==
    ASSUME NEW op \in Nat, NEW t \in Nat \X Nat, NEW r \in Nat \X Nat
    PROVE  LET g == Frame(op, t, r) IN
           /\ g \in Frames /\ g.op = op /\ g.target = t /\ g.source_ref = r
           /\ g.res = NULL /\ g.list = 0 /\ g.i = 1
BY DEF Frames, Frame, NULL

LEMMA ContainerQuiet ==
    ASSUME MoveOK, env' = env, MoveContainer
    PROVE  Quiet
<1>1. CASE HeapFull
  BY <1>1, CrashQuiet DEF MoveContainer
<1>2. CASE ~ HeapFull
  <2> DEFINE ty == IF obj.kind = "code" THEN "code" ELSE "tuple"
             t  == TypeAddr(DumpBase, ty)
             n  == Len(obj.items)
             o  == HeapObject(t, 0, n)
             m  == NewObject(archive, o)
             a  == Len(archive.heap) + 1
             f  == [top EXCEPT !.res = a]
  <2>1. Running /\ ~ traverse_error /\ top.res = NULL /\ stack # <<>> /\ obj.kind \in Containers
    BY DEF MoveContainer, Entering, Running
  <2>2. /\ archive \in Archives /\ top.target \in Slots(archive) /\ n \in Nat
        /\ top \in Frames /\ FrameOK(top) /\ obj = src[top.op] /\ top.op \in Nodes
    BY <2>1, ObjIs
  <2>3. t \in Int /\ t # TypeAddr(DumpBase, "str") /\ t \in ContainerTypes
    BY InterpreterAddr, TypesDiffer DEF MoveOK, ContainerTypes
  <2>4. /\ archive' = TargetAtEntry(m) /\ stack' = Replace([top EXCEPT !.res = Len(m.heap)])
        /\ UNCHANGED <<src, root, interned, orig_map, str_map, traverse_error, dumper>>
    BY <1>2 DEF MoveContainer
  <2> HIDE DEF n, ty, t
  <2>5. /\ o \in HeapObjects /\ o.type = t /\ o.rc = 1 /\ ~ o.interned /\ Len(o.slots) = n
        /\ \A i \in 1..n : o.slots[i] = NULL
    BY <2>2, <2>3, HeapObjectIs
  <2> HIDE DEF o
  <2>6. Len(m.heap) = a
    BY <2>2, <2>5, NewObjectIs
  <2>7. archive' = SetSlot(m, top.target, NULL) /\ stack' = Replace(f)
    BY <2>4, <2>6 DEF TargetAtEntry
  <2>8. NULL \in Int /\ NULL \notin HeapStrings
    BY InterpreterAddr DEF MoveOK, NULL
  <2>9. ArchiveGrows /\ QuietStore
    BY <1>2, <2>2, <2>3, <2>5, <2>7, <2>8, AllocQuiet DEF MoveOK
  <2>10. /\ Len(archive'.heap) = a /\ a \in Nat /\ a # NULL /\ a \notin Addresses(archive)
         /\ SameKind(archive'.heap[a], o)
    BY <1>2, <2>2, <2>5, <2>7, <2>8, AllocGrows DEF MoveOK
  <2>11. SourceGrows
    BY <2>4, SourceSame DEF MoveOK
  <2> HIDE DEF m, a
  <2>12. /\ f \in Frames /\ f.op = top.op /\ f.target = top.target
         /\ f.source_ref = top.source_ref /\ f.res = a /\ f.list = top.list /\ f.i = top.i
    BY <2>2, <2>10, FrameWithRes
  <2> HIDE DEF f
  <2>13. PICK g \in Frames : g = f
    BY <2>12
  <2>14. g.list = 0 /\ g.i = 1 /\ g.res # NULL
    BY <2>1, <2>2, <2>10, <2>12, <2>13 DEF FrameOK
  <2>15. g.op \in Nodes' /\ g.target \in Slots(archive') /\ src'[g.op] = obj
    BY <2>2, <2>4, <2>9, <2>12, <2>13, Grown DEF MoveOK, Nodes
  <2>16. Open(g)' /\ ~ IsString(g)'
    BY <2>1, <2>14, <2>15 DEF Open, IsString, Containers
  <2>17. /\ g.res \in Addresses(archive')
         /\ archive'.heap[g.res].type \in ContainerTypes
         /\ Len(archive'.heap[g.res].slots) = Len(src'[g.op].items)
         /\ g.i <= Len(src'[g.op].items) + 1
    <3>1. g.res = a /\ a \in 1..a /\ Len(src'[g.op].items) = n
      BY <2>10, <2>12, <2>13, <2>15 DEF NULL, n
    <3>2. SameKind(archive'.heap[a], o) /\ a \in Addresses(archive')
      BY <2>10, <3>1 DEF Addresses
    <3>3. archive'.heap[a].type = t /\ Len(archive'.heap[a].slots) = n
      BY <2>5, <3>2 DEF SameKind
    <3>4. 1 <= n + 1
      BY <2>2
    <3> QED
      BY <2>3, <2>14, <3>1, <3>2, <3>3, <3>4
  <2>18. FrameOK(g)'
    <3>1. ContainerTypes' = ContainerTypes
      BY DEF ContainerTypes, TypeAddr
    <3> QED
      BY <2>14, <2>15, <2>16, <2>17, <3>1 DEF FrameOK
  <2>19. traverse_error' = FALSE /\ dumper' # "returned"
    <3>1. traverse_error \in BOOLEAN
      BY DEF MoveOK, StackOK
    <3> QED
      BY <2>1, <2>4, <3>1 DEF Running
  <2>20. g.op = top.op /\ g.target = top.target /\ g.source_ref = top.source_ref
         /\ g.res = a /\ g.i = top.i /\ stack' = Replace(g) /\ g.i >= top.i
    <3>1. top.i \in Nat
      BY <2>2 DEF Frames
    <3>2. g.i = top.i
      BY <2>12, <2>13
    <3>3. g.i >= top.i
      BY <3>1, <3>2
    <3> QED
      BY <2>7, <2>12, <2>13, <3>2, <3>3
  <2>21. /\ StackOK' /\ stack' # <<>> /\ top' = g
         /\ \A s \in Slots(archive) : Closed(s) => Closed(s)'
    <3>1. top.res = NULL /\ g.res \notin Addresses(archive)
      BY <2>1, <2>10, <2>20
    <3> QED
      BY <2>1, <2>9, <2>11, <2>18, <2>19, <2>20, <3>1, StackReplaced
  <2>22. Open(top)'
    BY <2>16, <2>21 DEF Open
  <2>23. UNCHANGED <<orig_map, str_map>>
    BY <2>4
  <2> QED
    BY <2>1, <2>9, <2>11, <2>21, <2>22, <2>23, QuietEnough
<1> QED
  BY <1>1, <1>2

LEMMA ItemCountedIs ==
    ASSUME MoveOK, Filling
    PROVE  LET m == ItemCounted IN
           /\ m \in Archives /\ SameObjects(archive, m) /\ SameSlots(archive, m)
           /\ m.used = archive.used /\ m.all_string_ref = archive.all_string_ref
           /\ \A a \in Addresses(archive) : m.heap[a].rc >= archive.heap[a].rc
<1> DEFINE m == ItemCounted
           p == archive.heap[top.res].slots[top.i - 1]
<1>1. stack # <<>> /\ obj.kind \in Containers /\ top.res # NULL
  BY DEF Filling, Running
<1>2. archive \in Archives /\ \A a \in Addresses(archive) : archive.heap[a].rc \in Int
  BY ArchiveIs DEF MoveOK, ArchiveOK
<1>3. CASE obj.kind = "code" \/ top.i = 1
  <2>1. m = archive
    BY <1>3 DEF ItemCounted
  <2> HIDE DEF m
  <2> QED
    BY <1>2, <2>1 DEF SameObjects, SameKind, SameSlots, m
<1>4. CASE ~ (obj.kind = "code" \/ top.i = 1)
  <2>1. m = Counted(archive, p, 1)
    BY <1>4 DEF ItemCounted
  <2>2. p \in Int
    <3>1. /\ Open(top) /\ FrameOK(top) /\ top.i \in Nat /\ top.i >= 1 /\ obj = src[top.op]
          /\ Len(obj.items) \in Nat
      BY <1>1, ObjIs DEF Open
    <3>2. /\ top.res \in Addresses(archive) /\ top.i - 1 \in 1..Len(archive.heap[top.res].slots)
      BY <1>4, <3>1 DEF FrameOK
    <3>3. archive.heap[top.res].slots \in Seq(Int)
      BY <1>2, <3>2, ArchiveIs
    <3> QED
      BY <3>2, <3>3, ElementOfSeq
  <2> HIDE DEF m, p
  <2>3. /\ m \in Archives /\ SameObjects(archive, m) /\ SameSlots(archive, m)
        /\ m.used = archive.used /\ m.all_string_ref = archive.all_string_ref
        /\ \A a \in Addresses(archive) :
              m.heap[a].rc = IF a = p /\ ~ Py312 THEN archive.heap[a].rc + 1
                             ELSE archive.heap[a].rc
    BY <1>2, <2>1, <2>2, CountedIs
  <2>4. \A a \in Addresses(archive) : m.heap[a].rc >= archive.heap[a].rc
    BY <1>2, <2>3
  <2> QED
    BY <2>3, <2>4 DEF m
<1> QED
  BY <1>3, <1>4

LEMMA FillingTop ==
    ASSUME MoveOK, Filling
    PROVE  /\ stack # <<>> /\ Running /\ Open(top) /\ FrameOK(top) /\ ~ IsString(top)
           /\ traverse_error = FALSE
<1>1. Running /\ stack # <<>> /\ ~ traverse_error /\ obj.kind \in Containers /\ top.res # NULL
  BY DEF Filling, Running
<1>2. FrameOK(top) /\ obj = src[top.op] /\ traverse_error \in BOOLEAN
  BY <1>1, ObjIs DEF MoveOK, StackOK
<1> QED
  BY <1>1, <1>2 DEF Open, IsString, Containers

LEMMA PublishQuiet ==
    ASSUME MoveOK, env' = env, PublishContainer
    PROVE  Quiet
<1> DEFINE m == ItemCounted
<1>1. /\ Filling /\ archive' = SetSlot(m, top.target, top.res) /\ Pop
      /\ UNCHANGED <<src, root, interned, orig_map, str_map, traverse_error, dumper>>
  BY DEF PublishContainer
<1>2. /\ stack # <<>> /\ Running /\ Open(top) /\ FrameOK(top) /\ traverse_error = FALSE
  BY <1>1, FillingTop
<1>3. /\ m \in Archives /\ SameObjects(archive, m) /\ SameSlots(archive, m)
      /\ m.used = archive.used /\ m.all_string_ref = archive.all_string_ref
      /\ \A a \in Addresses(archive) : m.heap[a].rc >= archive.heap[a].rc
  BY <1>1, ItemCountedIs
<1> HIDE DEF m
<1>4. Slots(m) = Slots(archive) /\ Addresses(m) = Addresses(archive)
  BY <1>3, SlotsKept
<1>5. /\ top.res \in Int /\ top.res \notin HeapStrings /\ top.target \in Slots(archive)
      /\ top.res \in Addresses(archive)
  <2>1. top.res \in Addresses(archive) /\ archive.heap[top.res].type \in ContainerTypes
    BY <1>2 DEF FrameOK
  <2>2. archive.heap[top.res].type # TypeAddr(DumpBase, "str")
    BY <2>1, InterpreterAddr, TypesDiffer DEF MoveOK, ContainerTypes
  <2>3. top.res \in Nat /\ top.target \in Slots(archive)
    BY <1>2, ObjIs
  <2> QED
    BY <2>1, <2>2, <2>3 DEF HeapStrings
<1>6. /\ archive' \in Archives /\ SameObjects(m, archive') /\ SameCounts(m, archive')
      /\ archive'.used = m.used /\ archive'.all_string_ref = m.all_string_ref
      /\ \A r \in Slots(m) : GetSlot(archive', r) = IF r = top.target THEN top.res
                                                    ELSE GetSlot(m, r)
  BY <1>1, <1>3, <1>4, <1>5, SetSlotIs
<1>7. SameObjects(archive, archive')
  BY <1>3, <1>4, <1>6 DEF SameObjects, SameKind
<1>8. /\ ArchiveGrows /\ Lists' = Lists /\ HeapStrings' = HeapStrings
      /\ Slots(archive') = Slots(archive) /\ Addresses(archive') = Addresses(archive)
  BY <1>3, <1>6, <1>7, StoreGrows DEF MoveOK
<1>9. QuietStore
  <2>1. \A r \in Slots(archive) : GetSlot(archive', r) = IF r = top.target THEN top.res
                                                         ELSE GetSlot(archive, r)
    BY <1>3, <1>4, <1>6 DEF SameSlots
  <2>2. \A a \in Addresses(archive) : archive'.heap[a].rc >= archive.heap[a].rc
    BY <1>3, <1>4, <1>6 DEF SameCounts
  <2>3. IsPointer(archive', top.res)
    BY <1>5, <1>8 DEF IsPointer
  <2>4. \A s \in Slots(archive') :
            \/ s \in Slots(archive) /\ GetSlot(archive', s) = GetSlot(archive, s)
            \/ IsPointer(archive', GetSlot(archive', s))
    BY <1>8, <2>1, <2>3
  <2> QED
    BY <1>5, <1>8, <2>1, <2>2, <2>4 DEF QuietStore
<1>10. SourceGrows
  BY <1>1, SourceSame DEF MoveOK
<1>11. traverse_error' \in BOOLEAN
  BY <1>1, <1>2
<1>12. UNCHANGED <<orig_map, str_map, dumper>> /\ Pop
  BY <1>1
<1> QED
  BY <1>2, <1>8, <1>9, <1>10, <1>11, <1>12, PopQuiet

LEMMA ItemQuiet ==
    ASSUME MoveOK, env' = env, MoveItem
    PROVE  Quiet
<1> DEFINE item == obj.items[top.i]
           f == NextItem
           h == Frame(item, <<top.res, top.i>>, <<top.op, top.i>>)
<1>1. /\ Filling /\ archive' = ItemCounted /\ top.i <= Len(obj.items)
      /\ stack' = IF item = NULL THEN Replace(f) ELSE <<h>> \o Replace(f)
      /\ UNCHANGED <<src, root, interned, orig_map, str_map, traverse_error, dumper>>
  BY DEF MoveItem
<1>2. /\ stack # <<>> /\ Running /\ Open(top) /\ FrameOK(top) /\ traverse_error = FALSE
      /\ ~ IsString(top)
  BY <1>1, FillingTop
<1>3. /\ archive' \in Archives /\ SameObjects(archive, archive') /\ SameSlots(archive, archive')
      /\ archive'.used = archive.used /\ archive'.all_string_ref = archive.all_string_ref
      /\ \A a \in Addresses(archive) : archive'.heap[a].rc >= archive.heap[a].rc
  BY <1>1, ItemCountedIs
<1>4. /\ ArchiveGrows /\ Lists' = Lists /\ HeapStrings' = HeapStrings
      /\ Slots(archive') = Slots(archive) /\ Addresses(archive') = Addresses(archive)
  BY <1>3, StoreGrows DEF MoveOK
<1>5. QuietStore
  BY <1>3, <1>4 DEF QuietStore, SameSlots
<1>6. SourceGrows
  BY <1>1, SourceSame DEF MoveOK
<1>7. traverse_error' = FALSE /\ dumper' # "returned" /\ UNCHANGED <<orig_map, str_map>>
  BY <1>1, <1>2 DEF Running
<1>8. /\ top \in Frames /\ obj = src[top.op] /\ top.op \in Nodes /\ Len(obj.items) \in Nat
      /\ top.i \in Nat /\ top.i >= 1 /\ top.res \in Nat
  BY <1>2, ObjIs
<1>9. /\ f \in Frames /\ f.op = top.op /\ f.target = top.target
      /\ f.source_ref = top.source_ref /\ f.res = top.res /\ f.list = top.list
      /\ f.i = top.i + 1
  BY <1>8, FrameNext DEF NextItem
<1> HIDE DEF f
<1>10. PICK ff \in Frames : ff = f
  BY <1>9
<1>11. FrameOK(ff)' /\ (Open(ff)' <=> Open(ff)) /\ Open(ff)
  <2>1. Open(ff) /\ ~ IsString(ff)
    BY <1>2, <1>9, <1>10 DEF Open, IsString
  <2>2. /\ ff.op \in Nodes /\ ff.target \in Slots(archive) /\ ff.i # 0
        /\ ff.list # 0 => IsString(ff) /\ ff.res # NULL
        /\ ff.res \in Addresses(archive) /\ archive.heap[ff.res].type \in ContainerTypes
        /\ Len(archive.heap[ff.res].slots) = Len(src[ff.op].items)
        /\ ff.i <= Len(src[ff.op].items) + 1
    <3>1. /\ top.op \in Nodes /\ top.target \in Slots(archive)
          /\ top.res \in Addresses(archive) /\ archive.heap[top.res].type \in ContainerTypes
          /\ Len(archive.heap[top.res].slots) = Len(src[top.op].items)
          /\ top.list = 0
      BY <1>2 DEF FrameOK
    <3>2. top.i + 1 # 0 /\ top.i + 1 <= Len(src[top.op].items) + 1
      BY <1>1, <1>8
    <3> QED
      BY <1>9, <1>10, <3>1, <3>2
  <2>3. FrameOK(ff)
    BY <2>1, <2>2 DEF FrameOK, Open
  <2> QED
    BY <1>4, <1>6, <2>1, <2>3, FrameKept
<1>12. CASE item = NULL
  <2>1. stack' = Replace(ff) /\ ff.i >= top.i
    BY <1>1, <1>8, <1>9, <1>10, <1>12
  <2>2. /\ ff.op = top.op /\ ff.target = top.target /\ ff.source_ref = top.source_ref
        /\ ff.res = top.res
    BY <1>9, <1>10
  <2>3. /\ StackOK' /\ stack' # <<>> /\ top' = ff
        /\ \A s \in Slots(archive) : Closed(s) => Closed(s)'
    BY <1>2, <1>4, <1>6, <1>7, <1>11, <2>1, <2>2, StackReplaced
  <2>4. Open(top)'
    BY <1>11, <2>3 DEF Open
  <2> QED
    BY <1>2, <1>4, <1>5, <1>6, <1>7, <2>3, <2>4, QuietEnough
<1>13. CASE item # NULL
  <2>1. item \in Nodes
    BY <1>1, <1>8, <1>13 DEF MoveOK, SourceOK
  <2>2. item \in Nat /\ top.op \in Nat
    <3>1. src \in Seq(Objects)
      BY DEF MoveOK, SourceOK
    <3>2. DOMAIN src = 1..Len(src) /\ Len(src) \in Nat
      BY <3>1, LenProperties
    <3> QED
      BY <1>8, <2>1, <3>2 DEF Nodes
  <2> DEFINE sl == <<top.res, top.i>>
             sr == <<top.op, top.i>>
  <2> HIDE DEF item
  <2>3. sl \in Nat \X Nat /\ sr \in Nat \X Nat
    BY <1>8, <2>2
  <2>4. sl \in Slots(archive)
    <3>1. top.res \in Addresses(archive) /\ top.i \in 1..Len(archive.heap[top.res].slots)
      BY <1>1, <1>2, <1>8 DEF FrameOK
    <3> QED
      BY <3>1, SlotIn
  <2>5. h = Frame(item, sl, sr)
    BY DEF item
  <2> HIDE DEF sl, sr, h
  <2>6. /\ h \in Frames /\ h.op = item /\ h.target = sl /\ h.source_ref = sr
        /\ h.res = NULL /\ h.list = 0 /\ h.i = 1
    BY <2>2, <2>3, <2>5, FrameIs
  <2>7. PICK g \in Frames : g = h
    BY <2>6
  <2>8. FrameOK(g)'
    <3>1. /\ g.op \in Nodes /\ g.target \in Slots(archive) /\ g.res = NULL /\ g.list = 0
          /\ g.i = 1
      BY <2>1, <2>4, <2>6, <2>7
    <3>2. Nodes' = Nodes
      BY <1>1 DEF Nodes
    <3> QED
      BY <1>4, <3>1, <3>2 DEF FrameOK, Open
  <2>9. stack' = <<g>> \o Replace(ff)
    BY <1>1, <1>10, <1>13, <2>7 DEF h
  <2>10. /\ ff.op = top.op /\ ff.target = top.target /\ ff.source_ref = top.source_ref
         /\ ff.res = top.res /\ ff.i = top.i + 1
    BY <1>9, <1>10
  <2>11. /\ g.res = NULL /\ g.target = <<top.res, top.i>> /\ g.source_ref = <<top.op, top.i>>
    BY <2>6, <2>7 DEF sl, sr
  <2>12. /\ StackOK' /\ stack' # <<>> /\ top' = g
         /\ \A s \in Slots(archive) : Closed(s) => Closed(s)'
    BY <1>2, <1>4, <1>6, <1>7, <1>11, <2>8, <2>9, <2>10, <2>11, StackPushed
  <2>13. top'.res = NULL
    BY <2>11, <2>12
  <2> QED
    BY <1>2, <1>4, <1>5, <1>6, <1>7, <2>12, <2>13, QuietEnough
<1> QED
  BY <1>12, <1>13

-----------------------------------------------------------------------------
(* Strings. *)

NotStatic(v) == Py312 => v \notin StaticStrs

\* A string of the source for which the archive refers to a static one.
Refers ==
    \/ IsStatic(src[Canonical])
    \/ orig_map[InternedKey] = NULL /\ Py312 /\ obj.val \in ListedStrs

LEMMA CanonicalIs ==
    ASSUME MoveOK, stack # <<>>, obj.kind = "str"
    PROVE  /\ Canonical \in Nodes /\ src[Canonical].kind = "str"
           /\ src[Canonical].val = obj.val /\ obj.val \in DOMAIN interned
           /\ interned[obj.val] # NULL => Canonical = interned[obj.val]
<1>1. top.op \in Nodes /\ obj = src[top.op]
  BY ObjIs
<1>2. obj.val \in DOMAIN interned
  BY <1>1 DEF MoveOK, SourceOK
<1>3. interned[obj.val] # NULL =>
         /\ interned[obj.val] \in Nodes /\ src[interned[obj.val]].kind = "str"
         /\ src[interned[obj.val]].val = obj.val
  BY <1>2 DEF MoveOK, SourceOK
<1> QED
  BY <1>1, <1>2, <1>3 DEF Canonical

\* What the archive refers to is static.
LEMMA RefersIs ==
    ASSUME MoveOK, stack # <<>>, obj.kind = "str", Refers
    PROVE  Py312 /\ obj.val \in StaticStrs
<1>1. CASE IsStatic(src[Canonical])
  <2>1. Canonical \in Nodes /\ src[Canonical].kind = "str" /\ src[Canonical].val = obj.val
    BY CanonicalIs
  <2>2. Py312 /\ src[Canonical].static
    BY <1>1, <2>1 DEF IsStatic
  <2> QED
    BY <2>1, <2>2 DEF MoveOK, SourceOK
<1>2. CASE Py312 /\ obj.val \in ListedStrs
  BY <1>2 DEF StaticStrs
<1> QED
  BY <1>1, <1>2 DEF Refers

LEMMA CopiedIsNot ==
    ASSUME MoveOK, stack # <<>>, obj.kind = "str", ~ Refers, orig_map[InternedKey] = NULL
    PROVE  NotStatic(obj.val)
<1> SUFFICES ASSUME Py312 PROVE obj.val \notin StaticStrs
  BY DEF NotStatic
<1>1. /\ Canonical \in Nodes /\ src[Canonical].kind = "str" /\ obj.val \in DOMAIN interned
      /\ interned[obj.val] # NULL => Canonical = interned[obj.val]
  BY CanonicalIs
<1>2. obj.val \notin ListedStrs /\ ~ src[Canonical].static
  BY <1>1 DEF Refers, IsStatic
<1>3. obj.val \notin IdStrs
  BY <1>1, <1>2 DEF MoveOK, SourceOK
<1> QED
  BY <1>2, <1>3 DEF StaticStrs

LEMMA ReferMoves ==
    ASSUME MoveString, Refers
    PROVE  ReferToStatic
BY DEF MoveString, Refers

\* The item that the innermost call is about may be replaced by the interned string.
ItemInterned(n, j) ==
    \/ src'[n].items[j] = src[n].items[j]
    \/ /\ Len(stack) >= 2 /\ n = stack[2].op /\ j = stack[2].i - 1
       /\ src'[n].items[j] = Canonical

LEMMA InternGrows ==
    ASSUME MoveOK, Entering, obj.kind = "str", root' = root, src' = SourceInterned,
           interned' = [interned EXCEPT ![obj.val] = Canonical]
    PROVE  /\ SourceGrows /\ obj.val \in DOMAIN interned /\ interned'[obj.val] = Canonical
           /\ \A v \in DOMAIN interned : v # obj.val => interned'[v] = interned[v]
           /\ \A n \in Nodes : \A j \in 1..Len(src[n].items) : ItemInterned(n, j)
<1> DEFINE c == top.source_ref[1]
           i == top.source_ref[2]
<1>1. Running /\ top.res = NULL /\ stack # <<>>
  BY DEF Entering, Running
<1>2. /\ Canonical \in Nodes /\ src[Canonical].kind = "str"
      /\ src[Canonical].val = obj.val /\ obj.val \in DOMAIN interned
      /\ interned[obj.val] # NULL => Canonical = interned[obj.val]
  BY <1>1, CanonicalIs
<1>3. src \in Seq(Objects) /\ Nodes = 1..Len(src) /\ Len(src) \in Nat
  <2>1. src \in Seq(Objects)
    BY DEF MoveOK, SourceOK
  <2> QED
    BY <2>1, LenProperties DEF Nodes
<1>4. /\ src' \in Seq(Objects) /\ Len(src') = Len(src)
      /\ \A n \in Nodes : /\ src'[n].kind = src[n].kind /\ src'[n].val = src[n].val
                          /\ src'[n].static = src[n].static
                          /\ Len(src'[n].items) = Len(src[n].items)
                          /\ \A j \in 1..Len(src[n].items) : ItemInterned(n, j)
  <2>1. CASE top.source_ref = Root \/ src[c].kind = "frozenset"
    BY <1>3, <2>1 DEF SourceInterned, ItemInterned
  <2>2. CASE ~ (top.source_ref = Root \/ src[c].kind = "frozenset")
    <3> DEFINE o == src[c]
               its == [o.items EXCEPT ![i] = Canonical]
               q == [o EXCEPT !.items = its]
    <3>1. src' = [src EXCEPT ![c] = q]
      BY <2>2 DEF SourceInterned
    <3>2. /\ c \in Nodes /\ i \in 1..Len(o.items)
          /\ Len(stack) >= 2 /\ c = stack[2].op /\ i = stack[2].i - 1
      <4>1. /\ Len(stack) \in Nat /\ Len(stack) >= 1 /\ top = stack[1]
        BY <1>1, TopIs DEF MoveOK
      <4>2. Len(stack) # 1
        <5>1. stack[Len(stack)].source_ref = Root
          BY <1>1 DEF MoveOK, StackOK
        <5> QED
          BY <2>2, <4>1, <5>1
      <4>3. 1 \in 1..(Len(stack) - 1) /\ 2 \in 1..Len(stack)
        <5> DEFINE n == Len(stack)
        <5>1. n \in Nat /\ n >= 1 /\ n # 1
          BY <4>1, <4>2
        <5> HIDE DEF n
        <5>2. 1 \in 1..(n - 1) /\ 2 \in 1..n
          BY <5>1
        <5> QED
          BY <5>2 DEF n
      <4>4. Called(stack[1], stack[2])
        <5>1. 1 + 1 = 2
          OBVIOUS
        <5>2. Called(stack[1], stack[1 + 1])
          BY <4>3 DEF MoveOK, StackOK
        <5> QED
          BY <5>1, <5>2
      <4>5. stack[2] \in Frames /\ FrameOK(stack[2])
        BY <1>1, <4>3, TopIs DEF MoveOK
      <4>6. /\ stack[2].op \in Nodes /\ stack[2].i \in Nat /\ stack[2].i >= 2
            /\ stack[2].i <= Len(src[stack[2].op].items) + 1
            /\ top.source_ref = <<stack[2].op, stack[2].i - 1>>
        BY <4>1, <4>4, <4>5 DEF Called, FrameOK, Frames
      <4>7. Len(src[stack[2].op].items) \in Nat
        <5>1. src[stack[2].op] \in Objects
          BY <1>3, <4>6, ElementOfSeq
        <5>2. src[stack[2].op].items \in Seq(Nat)
          BY <5>1 DEF Objects
        <5> QED
          BY <5>2, LenProperties
      <4>8. c = stack[2].op /\ i = stack[2].i - 1
        BY <4>6
      <4>9. Len(stack) >= 2
        BY <4>1, <4>3
      <4> QED
        BY <4>6, <4>7, <4>8, <4>9
    <3>3. o \in Objects /\ o.items \in Seq(Nat)
      <4>1. o \in Objects
        BY <1>3, <3>2, ElementOfSeq
      <4> QED
        BY <4>1 DEF Objects
    <3>4. Canonical \in Nat
      BY <1>2, <1>3
    <3>5. /\ its \in Seq(Nat) /\ Len(its) = Len(o.items)
          /\ \A j \in 1..Len(o.items) : its[j] = IF j = i THEN Canonical ELSE o.items[j]
      BY <3>2, <3>3, <3>4, ExceptSeq
    <3> HIDE DEF its, c, i
    <3> HIDE DEF o
    <3>6. /\ q \in Objects /\ q.kind = o.kind /\ q.val = o.val /\ q.items = its
          /\ q.static = o.static
      BY <3>3, <3>5 DEF Objects
    <3> HIDE DEF q
    <3>7. /\ src' \in Seq(Objects) /\ Len(src') = Len(src)
          /\ \A n \in Nodes : src'[n] = IF n = c THEN q ELSE src[n]
      BY <1>3, <3>1, <3>2, <3>6, ExceptSeq
    <3>8. ASSUME NEW n \in Nodes
          PROVE  /\ src'[n].kind = src[n].kind /\ src'[n].val = src[n].val
                 /\ src'[n].static = src[n].static
                 /\ Len(src'[n].items) = Len(src[n].items)
                 /\ \A j \in 1..Len(src[n].items) :
                       \/ src'[n].items[j] = src[n].items[j]
                       \/ n = c /\ j = i /\ src'[n].items[j] = Canonical
      <4>1. CASE n # c
        BY <3>7, <4>1
      <4>2. CASE n = c
        <5>1. src'[n] = q /\ src[n] = o
          BY <3>7, <4>2 DEF o
        <5> QED
          BY <3>5, <3>6, <4>2, <5>1
      <4> QED
        BY <4>1, <4>2
    <3>9. \A n \in Nodes : \A j \in 1..Len(src[n].items) : ItemInterned(n, j)
      BY <3>2, <3>8 DEF ItemInterned
    <3> QED
      BY <3>7, <3>8, <3>9
  <2> QED
    BY <2>1, <2>2
<1>5. Nodes' = Nodes
  <2>1. DOMAIN src' = 1..Len(src')
    BY <1>4, LenProperties
  <2> QED
    BY <1>3, <1>4, <2>1 DEF Nodes
<1>6. /\ DOMAIN interned' = DOMAIN interned /\ interned' \in [DOMAIN interned -> Nodes \cup {NULL}]
      /\ interned'[obj.val] = Canonical
      /\ \A v \in DOMAIN interned : v # obj.val => interned'[v] = interned[v]
  BY <1>2 DEF MoveOK, SourceOK
<1>7. SourceOK'
  <2>1. \A n \in Nodes : src'[n].kind = "str" => src'[n].val \in DOMAIN interned
    BY <1>4 DEF MoveOK, SourceOK
  <2>2. \A v \in DOMAIN interned : interned'[v] # NULL =>
           src'[interned'[v]].kind = "str" /\ src'[interned'[v]].val = v
    BY SMTT(20), <1>2, <1>4, <1>6 DEF MoveOK, SourceOK
  <2>3. \A n \in Nodes : \A j \in 1..Len(src'[n].items) :
           src'[n].items[j] \in Nodes \cup {NULL}
    BY <1>2, <1>4 DEF MoveOK, SourceOK, ItemInterned
  <2>4. root' \in Nodes
    BY DEF MoveOK, SourceOK
  <2>5. \A n \in Nodes : src'[n].static => src'[n].val \in StaticStrs
    BY <1>4 DEF MoveOK, SourceOK
  <2>6. \A v \in DOMAIN interned \cap IdStrs : interned'[v] # NULL /\ src'[interned'[v]].static
    <3> SUFFICES ASSUME NEW v \in DOMAIN interned \cap IdStrs
                 PROVE  interned'[v] # NULL /\ src'[interned'[v]].static
      OBVIOUS
    <3>1. interned[v] # NULL /\ interned[v] \in Nodes /\ src[interned[v]].static
      BY DEF MoveOK, SourceOK
    <3>2. interned'[v] = interned[v]
      BY <1>2, <1>6, <3>1
    <3> QED
      BY <1>4, <3>1, <3>2
  <2> QED
    BY <1>4, <1>5, <1>6, <2>1, <2>2, <2>3, <2>4, <2>5, <2>6 DEF SourceOK
<1>8. \A v \in DOMAIN interned : interned[v] # NULL => interned'[v] = interned[v]
  BY <1>2, <1>6
<1>9. \A n \in Nodes : /\ src'[n].kind = src[n].kind /\ src'[n].val = src[n].val
                       /\ Len(src'[n].items) = Len(src[n].items)
  BY <1>4
<1> QED
  BY <1>2, <1>4, <1>5, <1>6, <1>7, <1>8, <1>9 DEF SourceGrows

LEMMA StringTop ==
    ASSUME MoveOK, Running, obj.kind = "str"
    PROVE  /\ stack # <<>> /\ IsString(top) /\ ~ Open(top) /\ traverse_error = FALSE
           /\ top \in Frames /\ FrameOK(top) /\ top.op \in Nodes
<1>1. stack # <<>>
  BY DEF Running
<1>2. obj = src[top.op] /\ top \in Frames /\ FrameOK(top) /\ top.op \in Nodes
  BY <1>1, ObjIs
<1>3. IsString(top) /\ ~ Open(top)
  BY <1>2 DEF IsString, Open, Containers
<1>4. top = stack[1] /\ 1 \in 1..Len(stack)
  BY <1>1, TopIs DEF MoveOK
<1>5. traverse_error = FALSE
  BY <1>3, <1>4 DEF MoveOK, StackOK
<1> QED
  BY <1>1, <1>2, <1>3, <1>5

\* A string whose copy need not be recorded, or for which there is no memory.
LEMMA StaticQuiet ==
    ASSUME MoveOK, env' = env, MoveString,
           Refers \/ (orig_map[InternedKey] = NULL /\ HeapFull)
    PROVE  Quiet
<1>1. Entering /\ Running /\ obj.kind = "str" /\ top.res = NULL /\ ~ traverse_error
  BY DEF MoveString, Entering
<1>2. /\ root' = root /\ src' = SourceInterned
      /\ interned' = [interned EXCEPT ![obj.val] = Canonical]
      /\ UNCHANGED <<str_map, traverse_error>>
  BY DEF MoveString
<1>3. SourceGrows
  BY <1>1, <1>2, InternGrows
<1>4. stack # <<>> /\ traverse_error = FALSE
  BY <1>1, StringTop
<1>5. CASE Refers
  <2> DEFINE p == StaticStr(DumpBase, obj.val)
  <2>1. archive' = SetSlot(archive, top.target, p) /\ Pop /\ UNCHANGED <<orig_map, dumper>>
    BY <1>5, ReferMoves DEF ReferToStatic
  <2>2. p \in Int /\ p \notin HeapStrings /\ IsPointer(archive, p)
    <3>1. obj.val \in Nat /\ DumpBase \in Nat
      BY <1>4, ObjIs, InterpreterAddr DEF MoveOK
    <3>2. p \in Int /\ p >= DumpBase
      BY <3>1, SpanAssumption DEF StaticStr
    <3> QED
      BY <3>2, InterpreterAddr DEF MoveOK, IsPointer
  <2> HIDE DEF p
  <2>3. ArchiveGrows /\ QuietStore
    <3>1. top.target \in Slots(archive)
      BY <1>4, ObjIs
    <3> QED
      BY <2>1, <2>2, <3>1, SetQuiet DEF MoveOK
  <2>4. UNCHANGED <<orig_map, str_map, dumper>> /\ traverse_error' \in BOOLEAN
    BY <1>2, <1>4, <2>1
  <2> QED
    BY <1>1, <1>3, <2>1, <2>3, <2>4, PopQuiet
<1>6. CASE ~ Refers
  <2>1. /\ UNCHANGED <<archive, orig_map, stack>> /\ dumper' = "crashed"
    BY <1>6 DEF MoveString, Refers
  <2> QED
    BY <1>2, <1>3, <2>1, SameQuiet
<1> QED
  BY <1>5, <1>6

\* The copy a takes its place in the slot.
StringMoved(a) ==
    /\ MoveOK' /\ SourceGrows /\ ArchiveGrows /\ Lists' = Lists /\ str_map' = str_map
    /\ IsString(top) /\ top.res = NULL /\ top.target \in Slots(archive)
    /\ a # NULL /\ HeapStrings' = HeapStrings \cup {a} /\ Writes(top.target, a)
    /\ \A s \in Slots(archive) : Closed(s) => Closed(s)'
    /\ \A b : Pending(b)' <=> b = a
    /\ stack # <<>> /\ stack' # <<>> /\ top'.list = 0 /\ top'.target = top.target
    /\ \A b \in Addresses(archive) : archive'.heap[b].rc >= archive.heap[b].rc
    /\ IF a \in HeapStrings
       THEN /\ Addresses(archive') = Addresses(archive)
            /\ ~ Py312 => archive'.heap[a].rc = archive.heap[a].rc + 1
       ELSE /\ Addresses(archive') = Addresses(archive) \cup {a} /\ a \notin Addresses(archive)
            /\ archive'.heap[a].rc = 1 /\ a \in 1..HeapCells
            /\ archive'.heap[a].interned /\ Len(archive'.heap[a].slots) = 0
            /\ NotStatic(obj.val)
    /\ archive'.heap[a].val = obj.val /\ obj.val \in DOMAIN interned
    /\ Canonical \in Nodes /\ interned'[obj.val] = Canonical
    /\ \A v \in DOMAIN interned : v # obj.val => interned'[v] = interned[v]
    /\ IF a \in HeapStrings THEN orig_map' = orig_map /\ orig_map[Canonical] = a
       ELSE orig_map[Canonical] = NULL /\ orig_map' \in Inserted(orig_map, Canonical, a)

\* What is left to show once the archive and the source are done with.
LEMMA StringEnough ==
    ASSUME MoveOK, env' = env, MoveString, SourceGrows, ArchiveGrows, TablesOK',
           NEW a \in Nat, a # NULL, a \in HeapStrings', archive'.heap[a].val = obj.val,
           GetSlot(archive', top.target) = a,
           dumper' = dumper, stack' = Replace([top EXCEPT !.res = a])
    PROVE  /\ MoveOK' /\ \A s \in Slots(archive) : Closed(s) => Closed(s)'
           /\ \A b : Pending(b)' <=> b = a
           /\ stack # <<>> /\ stack' # <<>> /\ top'.list = 0 /\ top'.target = top.target
<1> DEFINE f == [top EXCEPT !.res = a]
<1>1. Entering /\ Running /\ obj.kind = "str" /\ top.res = NULL /\ ~ traverse_error
      /\ traverse_error' = traverse_error
  BY DEF MoveString, Entering
<1>2. /\ stack # <<>> /\ IsString(top) /\ ~ Open(top) /\ traverse_error = FALSE
      /\ top \in Frames /\ FrameOK(top) /\ top.op \in Nodes /\ obj = src[top.op]
      /\ top.i \in Nat
  BY <1>1, StringTop, ObjIs
<1>3. /\ f \in Frames /\ f.op = top.op /\ f.target = top.target
      /\ f.source_ref = top.source_ref /\ f.res = a /\ f.list = top.list /\ f.i = top.i
  BY <1>2, FrameWithRes
<1>4. stack' = Replace(f)
  OBVIOUS
<1> HIDE DEF f
<1>5. PICK g \in Frames : g = f
  BY <1>3
<1>6. /\ g.op = top.op /\ g.target = top.target /\ g.source_ref = top.source_ref
      /\ g.res = a /\ g.list = top.list /\ g.i = top.i /\ stack' = Replace(g)
  BY <1>3, <1>4, <1>5
<1>7. top.list = 0 /\ top.i = 1
  BY <1>1, <1>2 DEF FrameOK
<1>8. /\ g.op \in Nodes' /\ src'[g.op].kind = "str" /\ src'[g.op].val = obj.val
      /\ g.target \in Slots(archive')
  <2>1. top.target \in Slots(archive')
    BY <1>2, Grown DEF FrameOK, MoveOK
  <2> QED
    BY <1>1, <1>2, <1>6, <2>1 DEF SourceGrows
<1>9. IsString(g)' /\ ~ Open(g)'
  BY <1>8 DEF IsString, Open, Containers
<1>10. FrameOK(g)'
  <2>1. g.i = 1 /\ g.list = 0 /\ g.res = a
    BY <1>6, <1>7
  <2>2. GetSlot(archive', g.target) = g.res
    BY <1>6
  <2>3. g.res \in HeapStrings' /\ archive'.heap[g.res].val = src'[g.op].val
    BY <1>8, <2>1
  <2> QED
    BY <1>8, <1>9, <2>1, <2>2, <2>3 DEF FrameOK
<1>11. traverse_error' = FALSE /\ dumper' # "returned"
  BY <1>1, <1>2 DEF Running
<1>12. g.i >= top.i
  BY <1>2, <1>6
<1>13. /\ StackOK' /\ stack' # <<>> /\ top' = g
       /\ \A s \in Slots(archive) : Closed(s) => Closed(s)'
  BY <1>2, <1>6, <1>10, <1>11, <1>12, StackReplaced
<1>14. MoveOK'
  BY <1>13 DEF MoveOK, SourceGrows, ArchiveGrows
<1>15. \A b : Pending(b)' <=> b = a
  BY <1>6, <1>9, <1>13 DEF Pending, IsString
<1> QED
  BY <1>2, <1>6, <1>7, <1>13, <1>14, <1>15

LEMMA KnownString ==
    ASSUME MoveOK, env' = env, MoveString, ~ Refers, orig_map[InternedKey] # NULL
    PROVE  StringMoved(orig_map[InternedKey])
<1> DEFINE a == orig_map[InternedKey]
           m == SetSlot(archive, top.target, a)
<1>1. Entering /\ Running /\ obj.kind = "str" /\ top.res = NULL /\ stack # <<>>
  BY DEF MoveString, Entering, Running
<1>2. /\ archive' = Counted(m, a, 1) /\ stack' = Replace([top EXCEPT !.res = a])
      /\ UNCHANGED <<orig_map, dumper, str_map>>
      /\ root' = root /\ src' = SourceInterned
      /\ interned' = [interned EXCEPT ![obj.val] = Canonical]
  BY DEF MoveString, Refers
<1>3. /\ SourceGrows /\ obj.val \in DOMAIN interned /\ interned'[obj.val] = Canonical
      /\ \A v \in DOMAIN interned : v # obj.val => interned'[v] = interned[v]
  BY <1>1, <1>2, InternGrows
<1>4. Canonical \in Nodes /\ src[Canonical].val = obj.val /\ InternedKey = Canonical
  BY <1>1, CanonicalIs DEF InternedKey
<1>5. /\ a \in HeapStrings /\ archive.heap[a].val = obj.val /\ a \in Addresses(archive)
      /\ a # NULL /\ a \in Nat /\ a \in Int
  <2>1. a \in HeapStrings /\ archive.heap[a].val = obj.val
    BY <1>4 DEF MoveOK, TablesOK
  <2>2. a \in Addresses(archive) /\ a # NULL
    BY <2>1, InterpreterAddr DEF MoveOK
  <2> QED
    BY <2>1, <2>2, InterpreterAddr DEF MoveOK
<1> HIDE DEF a
<1>6. /\ archive \in Archives /\ top.target \in Slots(archive) /\ IsString(top)
      /\ \A b \in Addresses(archive) : archive.heap[b].rc \in Int
  BY <1>1, StringTop, ObjIs, ArchiveIs
<1>7. /\ m \in Archives /\ SameObjects(archive, m) /\ SameCounts(archive, m)
      /\ m.used = archive.used /\ m.all_string_ref = archive.all_string_ref
      /\ \A r \in Slots(archive) : GetSlot(m, r) = IF r = top.target THEN a
                                                   ELSE GetSlot(archive, r)
  BY <1>5, <1>6, SetSlotIs
<1> HIDE DEF m
<1>8. Slots(m) = Slots(archive) /\ Addresses(m) = Addresses(archive)
  BY <1>7, SlotsKept
<1>9. /\ archive' \in Archives /\ SameObjects(m, archive') /\ SameSlots(m, archive')
      /\ archive'.used = m.used /\ archive'.all_string_ref = m.all_string_ref
      /\ \A b \in Addresses(m) :
            archive'.heap[b].rc = IF b = a /\ ~ Py312 THEN m.heap[b].rc + 1
                                  ELSE m.heap[b].rc
  BY <1>2, <1>5, <1>7, CountedIs
<1>10. SameObjects(archive, archive')
  BY <1>7, <1>8, <1>9 DEF SameObjects, SameKind
<1>11. /\ ArchiveGrows /\ Lists' = Lists /\ HeapStrings' = HeapStrings
       /\ Slots(archive') = Slots(archive) /\ Addresses(archive') = Addresses(archive)
  BY <1>7, <1>9, <1>10, StoreGrows DEF MoveOK
<1>12. Writes(top.target, a)
  BY <1>6, <1>7, <1>8, <1>9, <1>11 DEF Writes, SameSlots
<1>13. \A b \in Addresses(archive) :
          archive'.heap[b].rc = IF b = a /\ ~ Py312 THEN archive.heap[b].rc + 1
                                ELSE archive.heap[b].rc
  BY <1>7, <1>8, <1>9 DEF SameCounts
<1>14. \A b \in Addresses(archive) : archive'.heap[b].rc >= archive.heap[b].rc
  BY <1>6, <1>13
<1>15. ~ Py312 => archive'.heap[a].rc = archive.heap[a].rc + 1
  BY <1>5, <1>13
<1>16. archive'.heap[a].val = obj.val
  BY <1>5, <1>10 DEF SameObjects, SameKind
<1>17. TablesOK'
  BY <1>2, <1>3, <1>11, TablesKept
<1>18. GetSlot(archive', top.target) = a
  BY <1>6, <1>11, <1>12 DEF Writes
<1>19. /\ MoveOK' /\ \A s \in Slots(archive) : Closed(s) => Closed(s)'
       /\ \A b : Pending(b)' <=> b = a
       /\ stack # <<>> /\ stack' # <<>> /\ top'.list = 0 /\ top'.target = top.target
  BY <1>2, <1>3, <1>5, <1>11, <1>16, <1>17, <1>18, StringEnough
<1>20. orig_map' = orig_map /\ orig_map[Canonical] = a /\ str_map' = str_map
  BY <1>2, <1>4 DEF a
<1>21. HeapStrings \cup {a} = HeapStrings
  BY <1>5
<1>22. StringMoved(a)
  BY <1>1, <1>3, <1>4, <1>5, <1>6, <1>11, <1>12, <1>14, <1>15, <1>16, <1>19, <1>20, <1>21
     DEF StringMoved
<1> QED
  BY <1>22 DEF a

LEMMA NewString ==
    ASSUME MoveOK, env' = env, MoveString, ~ Refers, orig_map[InternedKey] = NULL,
           ~ HeapFull
    PROVE  StringMoved(Len(archive.heap) + 1) /\ Len(archive.heap) + 1 \notin HeapStrings
<1> DEFINE t == TypeAddr(DumpBase, "str")
           v == obj.val
           h == HeapObject(t, v, 0)
           o == [h EXCEPT !.interned = TRUE]
           m == NewObject(archive, o)
           a == Len(archive.heap) + 1
<1>1. Entering /\ Running /\ obj.kind = "str" /\ top.res = NULL /\ stack # <<>>
  BY DEF MoveString, Entering, Running
<1>2. /\ archive' = SetSlot(m, top.target, Len(m.heap))
      /\ stack' = Replace([top EXCEPT !.res = Len(m.heap)])
      /\ orig_map' \in Inserted(orig_map, InternedKey, Len(m.heap))
      /\ UNCHANGED <<dumper, str_map>>
      /\ root' = root /\ src' = SourceInterned
      /\ interned' = [interned EXCEPT ![obj.val] = Canonical]
  BY DEF MoveString, Refers
<1>3. /\ SourceGrows /\ obj.val \in DOMAIN interned /\ interned'[obj.val] = Canonical
      /\ \A w \in DOMAIN interned : w # obj.val => interned'[w] = interned[w]
  BY <1>1, <1>2, InternGrows
<1>4. /\ Canonical \in Nodes /\ src[Canonical].kind = "str" /\ src[Canonical].val = obj.val
      /\ InternedKey = Canonical
  BY <1>1, CanonicalIs DEF InternedKey
<1>5. /\ archive \in Archives /\ top.target \in Slots(archive) /\ IsString(top)
      /\ v \in Nat /\ \A b \in Addresses(archive) : archive.heap[b].rc \in Int
  BY <1>1, StringTop, ObjIs, ArchiveIs
<1>6. t \in Int
  BY InterpreterAddr, TypesDiffer DEF MoveOK
<1> HIDE DEF v, t
<1>7. h \in HeapObjects /\ h.type = t /\ h.val = v /\ h.rc = 1 /\ Len(h.slots) = 0
  BY <1>5, <1>6, HeapObjectIs
<1> HIDE DEF h
<1>8. /\ o \in HeapObjects /\ o.type = t /\ o.val = v /\ o.rc = 1 /\ Len(o.slots) = 0
      /\ o.interned /\ \A i \in 1..Len(o.slots) : o.slots[i] = NULL
  BY <1>7, InternedObjectIs
<1> HIDE DEF o
<1>9. Len(m.heap) = a
  BY <1>5, <1>8, NewObjectIs
<1>10. a \in Nat /\ a \in Int
  BY <1>5, ArchiveIs
<1>11. archive' = SetSlot(NewObject(archive, o), top.target, a)
  BY <1>2, <1>9
<1>12. /\ ArchiveGrows /\ Lists' = Lists /\ Writes(top.target, a)
       /\ Len(archive'.heap) = a /\ a # NULL
       /\ a \notin Addresses(archive) /\ a \in 1..HeapCells
       /\ SameKind(archive'.heap[a], o) /\ archive'.heap[a].rc = o.rc
       /\ \A b \in Addresses(archive) : archive'.heap[b].rc = archive.heap[b].rc
       /\ HeapStrings' = HeapStrings \cup {a}
  <2>1. o.type = TypeAddr(DumpBase, "str")
    BY <1>8 DEF t
  <2> HIDE DEF m
  <2> QED
    BY <1>5, <1>8, <1>10, <1>11, <2>1, AllocGrows DEF MoveOK
<1> HIDE DEF m
<1>13. Addresses(archive') = Addresses(archive) \cup {a}
  <2>1. Len(archive.heap) \in Nat
    BY <1>5, ArchiveIs
  <2> QED
    BY <1>12, <2>1 DEF Addresses
<1>14. a \notin HeapStrings
  BY <1>12, InterpreterAddr DEF MoveOK
<1>15. \A b \in Addresses(archive) : archive'.heap[b].rc >= archive.heap[b].rc
  BY <1>5, <1>12
<1>16. /\ archive'.heap[a].val = obj.val /\ archive'.heap[a].rc = 1
       /\ archive'.heap[a].interned /\ Len(archive'.heap[a].slots) = 0
  BY <1>8, <1>12 DEF SameKind, v
<1>17. /\ stack' = Replace([top EXCEPT !.res = a])
       /\ orig_map' \in Inserted(orig_map, Canonical, a) /\ orig_map[Canonical] = NULL
  BY <1>2, <1>4, <1>9
<1> HIDE DEF a
<1>18. TablesOK'
  <2>1. DEFINE q == [orig_map EXCEPT ![Canonical] = a]
  <2>2. orig_map' \in {orig_map, q}
    BY <1>17 DEF Inserted
  <2>3. /\ q \in [Nodes -> Nat]
        /\ \A n \in Nodes : q[n] = IF n = Canonical THEN a ELSE orig_map[n]
        /\ orig_map \in [Nodes -> Nat]
    BY <1>4, <1>10 DEF MoveOK, TablesOK
  <2> HIDE DEF q
  <2>4. ASSUME NEW n \in Nodes, orig_map'[n] # NULL
        PROVE  /\ orig_map'[n] \in HeapStrings'
               /\ src'[n].kind = "str" /\ archive'.heap[orig_map'[n]].val = src'[n].val
    <3>1. src'[n].kind = src[n].kind /\ src'[n].val = src[n].val
      BY <1>3 DEF SourceGrows
    <3>2. CASE orig_map'[n] = orig_map[n]
      <4>1. /\ orig_map[n] \in HeapStrings /\ src[n].kind = "str"
            /\ archive.heap[orig_map[n]].val = src[n].val
        BY <2>4, <3>2 DEF MoveOK, TablesOK
      <4>2. orig_map[n] \in Addresses(archive)
        BY <4>1, InterpreterAddr DEF MoveOK
      <4> QED
        BY <1>12, <3>1, <3>2, <4>1, <4>2 DEF ArchiveGrows, SameKind
    <3>3. CASE orig_map'[n] # orig_map[n]
      <4>1. n = Canonical /\ orig_map'[n] = a
        BY <2>2, <2>3, <3>3
      <4> QED
        BY <1>4, <1>12, <1>16, <3>1, <4>1
    <3> QED
      BY <3>2, <3>3
  <2>5. HeapCells' = HeapCells /\ Nodes' = Nodes
    BY <1>3 DEF HeapCells, SourceGrows
  <2>6. str_map' = str_map /\ str_map \in [1..HeapCells -> Nat]
        /\ \A b \in 1..HeapCells : str_map[b] # 0 =>
              str_map[b] \in 1..Len(Lists) /\ Lists[str_map[b]].str = b
    BY <1>2 DEF MoveOK, TablesOK
  <2>7. orig_map' \in [Nodes -> Nat]
    BY <2>2, <2>3
  <2> QED
    BY <1>12, <2>4, <2>5, <2>6, <2>7 DEF TablesOK
<1>19. GetSlot(archive', top.target) = a
  <2>1. top.target \in Slots(archive')
    BY <1>5, <1>12, Grown DEF MoveOK
  <2> QED
    BY <1>12, <2>1 DEF Writes
<1>20. a \in HeapStrings' /\ dumper' = dumper
  BY <1>2, <1>12
<1>21. /\ MoveOK' /\ \A s \in Slots(archive) : Closed(s) => Closed(s)'
       /\ \A b : Pending(b)' <=> b = a
       /\ stack # <<>> /\ stack' # <<>> /\ top'.list = 0 /\ top'.target = top.target
  BY <1>3, <1>10, <1>12, <1>16, <1>17, <1>18, <1>19, <1>20, StringEnough
<1>22. NotStatic(obj.val)
  BY <1>1, CopiedIsNot
<1>23. StringMoved(a)
  BY <1>1, <1>2, <1>3, <1>4, <1>5, <1>12, <1>13, <1>14, <1>15, <1>16, <1>17, <1>21, <1>22
     DEF StringMoved
<1> QED
  BY <1>14, <1>23 DEF a

-----------------------------------------------------------------------------
(* The lists of all_string_ref. *)

LEMMA ListsReplaced ==
    ASSUME NEW m \in Archives, NEW ls \in Seq(RefLists)
    PROVE  LET w == [[m EXCEPT !.all_string_ref = ls] EXCEPT !.used = @ + 1] IN
           /\ w \in Archives /\ w.none_base = m.none_base /\ w.obj = m.obj
           /\ w.heap = m.heap /\ w.used = m.used + 1 /\ w.all_string_ref = ls
<1> DEFINE v == [m EXCEPT !.all_string_ref = ls]
           w == [v EXCEPT !.used = @ + 1]
<1>1. /\ v \in Archives /\ v.none_base = m.none_base /\ v.obj = m.obj
      /\ v.heap = m.heap /\ v.used = m.used /\ v.all_string_ref = ls
  BY DEF Archives
<1>2. m.used \in Nat
  BY ArchiveIs
<1> HIDE DEF v
<1>3. w = [v EXCEPT !.used = v.used + 1]
  OBVIOUS
<1> HIDE DEF w
<1>4. /\ w \in Archives /\ w.none_base = m.none_base /\ w.obj = m.obj
      /\ w.heap = m.heap /\ w.used = m.used + 1 /\ w.all_string_ref = ls
  <2>1. v.used + 1 \in Nat
    BY <1>1, <1>2
  <2> QED
    BY <1>1, <1>3, <2>1 DEF Archives
<1> QED
  BY <1>4 DEF v, w

LEMMA EmptyList ==
    ASSUME NEW a \in Nat
    PROVE  LET l == [str |-> a, refs |-> <<>>] IN
           l \in RefLists /\ l.str = a /\ l.refs = <<>> /\ Len(l.refs) = 0
<1>1. <<>> \in Seq(Nat \X Nat) /\ Len(<<>>) = 0
  BY EmptySeq
<1> QED
  BY <1>1 DEF RefLists

\* The lists change; the objects do not, but for their counts.
LEMMA ListsGrow ==
    ASSUME ArchiveOK, env' = env, ~ HeapFull, archive' \in Archives,
           SameObjects(archive, archive'), archive'.used = archive.used + 1,
           Len(Lists) <= Len(Lists'),
           \A j \in 1..Len(Lists) : Lists'[j].str = Lists[j].str,
           \A j \in 1..Len(Lists') : /\ Lists'[j].str \in HeapStrings
                                     /\ \A i \in 1..Len(Lists'[j].refs) :
                                           Lists'[j].refs[i] \in Slots(archive)
    PROVE  /\ ArchiveGrows /\ HeapStrings' = HeapStrings
           /\ Slots(archive') = Slots(archive) /\ Addresses(archive') = Addresses(archive)
<1>1. Slots(archive') = Slots(archive) /\ Addresses(archive') = Addresses(archive)
  BY SlotsKept DEF ArchiveOK
<1>2. \A a \in Addresses(archive) : SameKind(archive'.heap[a], archive.heap[a])
  BY DEF SameObjects
<1>3. HeapStrings' = HeapStrings
  BY <1>1, <1>2 DEF HeapStrings, Addresses, SameKind
<1>4. HeapCells' = HeapCells /\ Len(archive'.heap) = Len(archive.heap)
  BY DEF HeapCells, SameObjects
<1>5. Len(archive.heap) \in Nat /\ archive.used \in Nat /\ HeapCells \in Nat
  BY ArchiveIs, InterpreterAddr DEF ArchiveOK
<1>6. ArchiveOK'
  <2>1. archive'.none_base = archive.none_base
    BY DEF SameObjects
  <2>2. Len(archive'.heap) <= archive'.used /\ archive'.used <= HeapCells
    BY <1>4, <1>5 DEF ArchiveOK, HeapFull
  <2> QED
    BY <1>1, <1>3, <1>4, <2>1, <2>2 DEF ArchiveOK
<1>7. Len(archive.heap) <= Len(archive'.heap)
  BY <1>4, <1>5
<1> QED
  BY <1>1, <1>2, <1>3, <1>6, <1>7 DEF ArchiveGrows

\* The string that is moved in has the list n.
StringListed(n) ==
    /\ MoveOK' /\ SourceGrows /\ ArchiveGrows /\ UNCHANGED <<src, interned, orig_map>>
    /\ IsString(top) /\ top.res \in HeapStrings /\ top.list = 0
    /\ \A b : /\ Pending(b) <=> b = top.res
              /\ Pending(b)' <=> b = top.res
    /\ stack # <<>> /\ stack' # <<>> /\ n # 0 /\ top'.list = n /\ top'.target = top.target
    /\ HeapStrings' = HeapStrings /\ Slots(archive') = Slots(archive)
    /\ Addresses(archive') = Addresses(archive) /\ SameSlots(archive, archive')
    /\ \A s \in Slots(archive) : Closed(s) => Closed(s)'
    /\ \A b \in Addresses(archive) : archive'.heap[b].rc >= archive.heap[b].rc
    /\ IF str_map[top.res] # 0
       THEN n = str_map[top.res] /\ Lists' = Lists /\ str_map' = str_map
       ELSE /\ n = Len(Lists) + 1 /\ Len(Lists') = n
            /\ Lists'[n].str = top.res /\ Lists'[n].refs = <<>>
            /\ \A j \in 1..Len(Lists) : Lists'[j] = Lists[j]
            /\ str_map' \in Inserted(str_map, top.res, n)
            /\ ~ Py312 => archive'.heap[top.res].rc = archive.heap[top.res].rc + 1

LEMMA ListEnough ==
    ASSUME MoveOK, env' = env, ListString, ArchiveGrows, TablesOK', dumper' = dumper,
           SameSlots(archive, archive'),
           NEW n \in 1..Len(Lists'), Lists'[n].str = top.res,
           stack' = Replace([top EXCEPT !.list = n])
    PROVE  /\ MoveOK' /\ \A s \in Slots(archive) : Closed(s) => Closed(s)'
           /\ SourceGrows /\ IsString(top) /\ top.res \in HeapStrings /\ top.list = 0
           /\ \A b : /\ Pending(b) <=> b = top.res
                     /\ Pending(b)' <=> b = top.res
           /\ stack # <<>> /\ stack' # <<>> /\ top'.list = n /\ top'.target = top.target
<1> DEFINE f == [top EXCEPT !.list = n]
<1>1. /\ Running /\ obj.kind = "str" /\ top.res # NULL /\ top.list = 0
      /\ UNCHANGED <<src, root, interned, orig_map, traverse_error>>
  BY DEF ListString
<1>2. /\ stack # <<>> /\ IsString(top) /\ ~ Open(top) /\ traverse_error = FALSE
      /\ top \in Frames /\ FrameOK(top) /\ top.op \in Nodes /\ obj = src[top.op]
      /\ top.i \in Nat
  BY <1>1, StringTop, ObjIs
<1>3. SourceGrows
  BY <1>1, SourceSame DEF MoveOK
<1>4. n \in Nat /\ n # 0
  <2>1. Len(Lists') \in Nat
    BY ArchiveIs DEF ArchiveGrows, ArchiveOK, Lists
  <2> QED
    BY <2>1
<1>5. /\ f \in Frames /\ f.op = top.op /\ f.target = top.target
      /\ f.source_ref = top.source_ref /\ f.res = top.res /\ f.list = n /\ f.i = top.i
  BY <1>2, <1>4, FrameWithList
<1>6. stack' = Replace(f)
  OBVIOUS
<1> HIDE DEF f
<1>7. PICK g \in Frames : g = f
  BY <1>5
<1>8. /\ g.op = top.op /\ g.target = top.target /\ g.source_ref = top.source_ref
      /\ g.res = top.res /\ g.list = n /\ g.i = top.i /\ stack' = Replace(g)
  BY <1>5, <1>6, <1>7
<1>9. /\ top.res \in HeapStrings /\ archive.heap[top.res].val = src[top.op].val
      /\ GetSlot(archive, top.target) = top.res /\ top.i # 0 /\ top.target \in Slots(archive)
  BY <1>1, <1>2 DEF FrameOK
<1>10. FrameOK(g)' /\ IsString(g)'
  <2>1. g.op \in Nodes' /\ src'[g.op] = src[top.op] /\ src'[g.op].kind = "str"
    BY <1>1, <1>2, <1>8 DEF Nodes
  <2>2. IsString(g)' /\ ~ Open(g)'
    BY <2>1 DEF IsString, Open, Containers
  <2>3. g.target \in Slots(archive') /\ GetSlot(archive', g.target) = g.res
    BY <1>8, <1>9, Grown DEF SameSlots, MoveOK
  <2>4. g.res \in HeapStrings' /\ archive'.heap[g.res].val = src'[g.op].val
    <3>1. top.res \in Addresses(archive)
      BY <1>9, InterpreterAddr DEF MoveOK
    <3>2. archive'.heap[top.res].val = archive.heap[top.res].val
      BY <3>1 DEF ArchiveGrows, SameKind
    <3>3. top.res \in HeapStrings'
      BY <1>9, Grown DEF MoveOK
    <3> QED
      BY <1>8, <1>9, <2>1, <3>2, <3>3
  <2>5. g.list \in 1..Len(Lists') /\ Lists'[g.list].str = g.res
    BY <1>8
  <2>6. g.res # NULL /\ g.i # 0
    BY <1>1, <1>8, <1>9
  <2> QED
    BY <2>1, <2>2, <2>3, <2>4, <2>5, <2>6 DEF FrameOK
<1>11. traverse_error' = FALSE /\ dumper' # "returned"
  BY <1>1, <1>2 DEF Running
<1>12. g.i >= top.i
  BY <1>2, <1>8
<1>13. /\ StackOK' /\ stack' # <<>> /\ top' = g
       /\ \A s \in Slots(archive) : Closed(s) => Closed(s)'
  BY <1>2, <1>3, <1>8, <1>10, <1>11, <1>12, StackReplaced
<1>14. MoveOK'
  BY <1>3, <1>13 DEF MoveOK, SourceGrows, ArchiveGrows
<1>15. \A b : /\ Pending(b) <=> b = top.res
              /\ Pending(b)' <=> b = top.res
  BY <1>2, <1>8, <1>10, <1>13 DEF Pending, IsString
<1> QED
  BY <1>1, <1>2, <1>3, <1>8, <1>9, <1>13, <1>14, <1>15

LEMMA ListCrashes ==
    ASSUME MoveOK, env' = env, ListString, str_map[top.res] = 0, HeapFull
    PROVE  Quiet
<1>1. /\ UNCHANGED <<src, root, interned, archive, orig_map, str_map, stack,
                     traverse_error>>
      /\ dumper' # "returned"
  BY DEF ListString
<1>2. SourceGrows
  BY <1>1, SourceSame DEF MoveOK
<1> QED
  BY <1>1, <1>2, SameQuiet

LEMMA ListFound ==
    ASSUME MoveOK, env' = env, ListString, str_map[top.res] # 0
    PROVE  StringListed(str_map[top.res])
<1> DEFINE n == str_map[top.res]
<1>1. /\ Running /\ obj.kind = "str" /\ top.res # NULL /\ top.list = 0
      /\ UNCHANGED <<src, root, interned, orig_map, traverse_error, archive, str_map, dumper>>
      /\ stack' = Replace([top EXCEPT !.list = n])
  BY DEF ListString
<1>2. ArchiveGrows /\ Lists' = Lists /\ HeapStrings' = HeapStrings
  BY <1>1, ArchiveSame DEF MoveOK, QuietStore
<1>3. top.res \in HeapStrings /\ top.res \in 1..HeapCells
  <2>1. IsString(top) /\ FrameOK(top)
    BY <1>1, StringTop
  <2>2. top.res \in HeapStrings
    BY <1>1, <2>1 DEF FrameOK
  <2>3. Len(archive.heap) \in Nat /\ HeapCells \in Nat /\ Len(archive.heap) <= HeapCells
    <3>1. archive.used \in Nat /\ Len(archive.heap) \in Nat
      BY ArchiveIs DEF MoveOK, ArchiveOK
    <3> QED
      BY <3>1, InterpreterAddr DEF MoveOK, ArchiveOK
  <2> QED
    BY <2>2, <2>3 DEF HeapStrings
<1>4. n \in 1..Len(Lists) /\ Lists[n].str = top.res
  BY <1>3 DEF MoveOK, TablesOK
<1>5. n # 0
  OBVIOUS
<1> HIDE DEF n
<1>6. SourceGrows
  BY <1>1, SourceSame DEF MoveOK
<1>7. TablesOK'
  BY <1>1, <1>2, <1>6, TablesKept
<1>8. SameSlots(archive, archive')
  BY <1>1 DEF SameSlots
<1>9. n \in 1..Len(Lists') /\ Lists'[n].str = top.res
  BY <1>2, <1>4
<1>10. /\ MoveOK' /\ \A s \in Slots(archive) : Closed(s) => Closed(s)'
       /\ IsString(top) /\ top.res \in HeapStrings /\ top.list = 0
       /\ \A b : /\ Pending(b) <=> b = top.res
                 /\ Pending(b)' <=> b = top.res
       /\ stack # <<>> /\ stack' # <<>> /\ top'.list = n /\ top'.target = top.target
  BY <1>1, <1>2, <1>7, <1>8, <1>9, ListEnough
<1>11. \A b \in Addresses(archive) : archive'.heap[b].rc >= archive.heap[b].rc
  BY <1>1, ArchiveIs DEF MoveOK, ArchiveOK
<1>12. StringListed(n)
  BY <1>1, <1>2, <1>5, <1>6, <1>8, <1>10, <1>11 DEF StringListed, n
<1> QED
  BY <1>12 DEF n

LEMMA ListNew ==
    ASSUME MoveOK, env' = env, ListString, str_map[top.res] = 0, ~ HeapFull
    PROVE  StringListed(Len(Lists) + 1)
<1> DEFINE n == Len(Lists) + 1
           l == [str |-> top.res, refs |-> <<>>]
           m == Pinned(archive, top.res)
           ls == Append(m.all_string_ref, l)
<1>1. /\ Running /\ obj.kind = "str" /\ top.res # NULL /\ top.list = 0
      /\ UNCHANGED <<src, root, interned, orig_map, traverse_error, dumper>>
      /\ stack' = Replace([top EXCEPT !.list = n])
      /\ str_map' \in Inserted(str_map, top.res, n)
      /\ archive' = [[m EXCEPT !.all_string_ref = ls] EXCEPT !.used = @ + 1]
  BY DEF ListString, Lists
<1>2. top.res \in HeapStrings /\ top.res \in 1..HeapCells /\ top.res \in Nat
  <2>1. IsString(top) /\ FrameOK(top)
    BY <1>1, StringTop
  <2>2. top.res \in HeapStrings
    BY <1>1, <2>1 DEF FrameOK
  <2>3. Len(archive.heap) \in Nat /\ HeapCells \in Nat /\ Len(archive.heap) <= HeapCells
    <3>1. archive.used \in Nat /\ Len(archive.heap) \in Nat
      BY ArchiveIs DEF MoveOK, ArchiveOK
    <3> QED
      BY <3>1, InterpreterAddr DEF MoveOK, ArchiveOK
  <2> QED
    BY <2>2, <2>3 DEF HeapStrings
<1>3. /\ archive \in Archives /\ Len(Lists) \in Nat /\ Lists \in Seq(RefLists)
      /\ \A b \in Addresses(archive) : archive.heap[b].rc \in Int
  BY ArchiveIs DEF MoveOK, ArchiveOK, Lists
<1>4. /\ m \in Archives /\ SameObjects(archive, m) /\ SameSlots(archive, m)
      /\ m.used = archive.used /\ m.all_string_ref = Lists /\ m.obj = archive.obj
      /\ \A b \in Addresses(archive) :
            m.heap[b].rc = IF b = top.res /\ ~ Py312 THEN archive.heap[b].rc + 1
                           ELSE archive.heap[b].rc
  <2>1. m = Counted(archive, top.res, 1) /\ top.res \in Int /\ 1 \in Int
    BY <1>2 DEF Pinned
  <2> HIDE DEF m
  <2> QED
    BY <1>3, <2>1, CountedIs DEF Lists
<1>5. l \in RefLists /\ l.str = top.res /\ l.refs = <<>> /\ Len(l.refs) = 0
  BY <1>2, EmptyList
<1> HIDE DEF l
<1>6. ls = Append(Lists, l)
  BY <1>4
<1>7. /\ ls \in Seq(RefLists) /\ Len(ls) = n /\ ls[n] = l
      /\ \A j \in 1..Len(Lists) : ls[j] = Lists[j]
  BY <1>3, <1>5, <1>6, AppendProperties
<1> HIDE DEF m, ls
<1>8. /\ archive' \in Archives /\ archive'.none_base = m.none_base /\ archive'.obj = m.obj
      /\ archive'.heap = m.heap /\ archive'.used = m.used + 1 /\ archive'.all_string_ref = ls
  BY <1>1, <1>4, <1>7, ListsReplaced
<1>9. Lists' = ls
  BY <1>8 DEF Lists
<1>10. SameObjects(archive, archive') /\ SameSlots(archive, archive')
  BY <1>4, <1>8 DEF SameObjects, SameSlots, GetSlot
<1>11. n \in Nat /\ 1..n = 1..Len(Lists) \cup {n} /\ n # 0
  BY <1>3
<1> HIDE DEF n
<1>12. ASSUME NEW j \in 1..Len(Lists')
       PROVE  /\ Lists'[j].str \in HeapStrings
              /\ \A i \in 1..Len(Lists'[j].refs) : Lists'[j].refs[i] \in Slots(archive)
  <2>1. CASE j \in 1..Len(Lists)
    BY <1>7, <1>9, <2>1 DEF MoveOK, ArchiveOK
  <2>2. CASE j = n
    BY <1>2, <1>5, <1>7, <1>9, <2>2
  <2> QED
    BY <1>7, <1>9, <1>11, <2>1, <2>2
<1>13. Len(Lists) <= Len(Lists')
  BY <1>3, <1>7, <1>9 DEF n
<1>14. \A j \in 1..Len(Lists) : Lists'[j] = Lists[j]
  BY <1>7, <1>9
<1>15. /\ ArchiveGrows /\ HeapStrings' = HeapStrings
       /\ Slots(archive') = Slots(archive) /\ Addresses(archive') = Addresses(archive)
  BY <1>4, <1>8, <1>10, <1>12, <1>13, <1>14, ListsGrow DEF MoveOK
<1>16. /\ n \in 1..Len(Lists') /\ Lists'[n].str = top.res /\ Lists'[n].refs = <<>>
       /\ Len(Lists') = n
  BY <1>5, <1>7, <1>9, <1>11
<1>17. SourceGrows
  BY <1>1, SourceSame DEF MoveOK
<1>18. TablesOK'
  <2> DEFINE q == [str_map EXCEPT ![top.res] = n]
  <2>1. str_map' \in {str_map, q}
    BY <1>1 DEF Inserted
  <2>2. /\ q \in [1..HeapCells -> Nat] /\ str_map \in [1..HeapCells -> Nat]
        /\ \A b \in 1..HeapCells : q[b] = IF b = top.res THEN n ELSE str_map[b]
    BY <1>2, <1>11 DEF MoveOK, TablesOK
  <2> HIDE DEF q
  <2>3. ASSUME NEW b \in 1..HeapCells, str_map'[b] # 0
        PROVE  str_map'[b] \in 1..Len(Lists') /\ Lists'[str_map'[b]].str = b
    <3>1. CASE str_map'[b] = str_map[b]
      <4>1. str_map[b] \in 1..Len(Lists) /\ Lists[str_map[b]].str = b
        BY <2>3, <3>1 DEF MoveOK, TablesOK
      <4> QED
        BY <1>11, <1>14, <1>16, <3>1, <4>1
    <3>2. CASE str_map'[b] # str_map[b]
      <4>1. b = top.res /\ str_map'[b] = n
        BY <2>1, <2>2, <3>2
      <4> QED
        BY <1>16, <4>1
    <3> QED
      BY <3>1, <3>2
  <2>4. HeapCells' = HeapCells /\ Nodes' = Nodes
    BY <1>1 DEF HeapCells, Nodes
  <2>5. str_map' \in [1..HeapCells -> Nat]
    BY <2>1, <2>2
  <2>6. orig_map' = orig_map /\ orig_map \in [Nodes -> Nat]
        /\ \A k \in Nodes : orig_map[k] # NULL =>
              /\ orig_map[k] \in HeapStrings' /\ src'[k].kind = "str"
              /\ archive'.heap[orig_map[k]].val = src'[k].val
    <3>1. orig_map' = orig_map /\ orig_map \in [Nodes -> Nat] /\ src' = src
      BY <1>1 DEF MoveOK, TablesOK
    <3>2. ASSUME NEW k \in Nodes, orig_map[k] # NULL
          PROVE  /\ orig_map[k] \in HeapStrings' /\ src'[k].kind = "str"
                 /\ archive'.heap[orig_map[k]].val = src'[k].val
      <4>1. /\ orig_map[k] \in HeapStrings /\ src[k].kind = "str"
            /\ archive.heap[orig_map[k]].val = src[k].val
        BY <3>2 DEF MoveOK, TablesOK
      <4>2. orig_map[k] \in Addresses(archive)
        BY <4>1, InterpreterAddr DEF MoveOK
      <4> QED
        BY <1>15, <3>1, <4>1, <4>2 DEF ArchiveGrows, SameKind
    <3> QED
      BY <3>1, <3>2
  <2> QED
    BY <2>3, <2>4, <2>5, <2>6 DEF TablesOK
<1>19. /\ MoveOK' /\ \A s \in Slots(archive) : Closed(s) => Closed(s)'
       /\ IsString(top) /\ top.res \in HeapStrings /\ top.list = 0
       /\ \A b : /\ Pending(b) <=> b = top.res
                 /\ Pending(b)' <=> b = top.res
       /\ stack # <<>> /\ stack' # <<>> /\ top'.list = n /\ top'.target = top.target
  BY <1>1, <1>10, <1>15, <1>16, <1>18, ListEnough
<1>20. \A b \in Addresses(archive) : archive'.heap[b].rc >= archive.heap[b].rc
  BY <1>3, <1>4, <1>8
<1>21. ~ Py312 => archive'.heap[top.res].rc = archive.heap[top.res].rc + 1
  <2>1. top.res \in Addresses(archive)
    BY <1>2, InterpreterAddr DEF MoveOK
  <2> QED
    BY <1>4, <1>8, <2>1
<1>22. StringListed(n)
  BY <1>1, <1>10, <1>11, <1>14, <1>15, <1>16, <1>17, <1>19, <1>20, <1>21
     DEF StringListed, n
<1> QED
  BY <1>22 DEF n

-----------------------------------------------------------------------------
(* A slot is recorded. *)

SlotRecorded ==
    /\ MoveOK' /\ SourceGrows /\ ArchiveGrows
    /\ UNCHANGED <<src, interned, orig_map, str_map>>
    /\ IsString(top) /\ stack # <<>> /\ top.list \in 1..Len(Lists)
    /\ top.target \in Slots(archive) /\ ~ Closed(top.target)
    /\ \A s : s = top.target => Closed(s)'
    /\ Lists[top.list].str = top.res /\ GetSlot(archive, top.target) = top.res
    /\ HeapStrings' = HeapStrings /\ Slots(archive') = Slots(archive)
    /\ archive'.heap = archive.heap /\ SameSlots(archive, archive')
    /\ \A s : Closed(s) => Closed(s)'
    /\ \A b : Pending(b) <=> b = top.res
    /\ \A b \in HeapStrings : ~ Pending(b)'
    /\ Len(Lists') = Len(Lists)
    /\ \A j \in 1..Len(Lists) : Lists'[j].str = Lists[j].str
    /\ \A j \in 1..Len(Lists) : j # top.list => Lists'[j] = Lists[j]
    /\ LET new == Lists'[top.list].refs
           old == Lists[top.list].refs
       IN  /\ Len(new) = Len(old) + 1 /\ new[1] = top.target
           /\ \A i \in 1..Len(old) : new[i + 1] = old[i]

\* The slot of a call that returns is not written to again.
LEMMA TargetCloses ==
    ASSUME MoveOK, stack # <<>>, ~ Open(top), stack' = Tail(stack)
    PROVE  /\ ~ Closed(top.target)
           /\ \A k \in 1..Len(stack') : /\ top.target # stack'[k].target
                                        /\ top.target[1] = stack'[k].res =>
                                              top.target[2] < stack'[k].i
<1>1. /\ Len(stack) \in Nat /\ Len(stack) >= 1 /\ top = stack[1]
      /\ \A k \in 1..Len(stack) : stack[k] \in Frames /\ FrameOK(stack[k])
      /\ \A k \in 2..Len(stack) : Open(stack[k])
      /\ Len(stack') = Len(stack) - 1
      /\ \A k \in 1..(Len(stack) - 1) : stack'[k] = stack[k + 1]
  BY TopIs DEF MoveOK
<1>2. ~ Closed(top.target)
  BY <1>1 DEF Closed
<1>3. ASSUME NEW k \in 2..Len(stack)
      PROVE  /\ top.target # stack[k].target
             /\ top.target[1] = stack[k].res => top.target[2] < stack[k].i
  <2> DEFINE n == Len(stack)
  <2>1. 1 \in 1..(n - 1) /\ 2 \in 1..n /\ 2 \in 2..n /\ k \in 1..n
    BY <1>1
  <2>2. Called(stack[1], stack[2])
    <3>1. 1 + 1 = 2
      OBVIOUS
    <3>2. Called(stack[1], stack[1 + 1])
      BY <2>1 DEF MoveOK, StackOK
    <3> QED
      BY <3>1, <3>2
  <2>3. top.target = <<stack[2].res, stack[2].i - 1>> /\ stack[2].i \in Nat
    BY <1>1, <2>1, <2>2 DEF Called, Frames
  <2>4. \A j \in 1..n : Open(stack[j]) /\ stack[j].res = stack[2].res => j = 2
    BY <1>1, <2>1 DEF MoveOK, StackOK
  <2>5. Open(stack[k]) /\ Open(stack[2])
    BY <1>1, <2>1
  <2>6. top.target[1] = stack[2].res /\ top.target[2] = stack[2].i - 1
    BY <2>3
  <2>7. top.target[1] = stack[k].res => top.target[2] < stack[k].i
    <3>1. SUFFICES ASSUME top.target[1] = stack[k].res PROVE top.target[2] < stack[k].i
      OBVIOUS
    <3>2. k = 2
      BY <2>1, <2>4, <2>5, <2>6, <3>1
    <3> QED
      BY <2>3, <2>6, <3>2
  <2>8. top.target # stack[k].target
    <3>1. CASE k = n
      <4>1. stack[k].target = Root
        BY <3>1 DEF MoveOK, StackOK
      <4>2. stack[2].res # NULL
        BY <2>5 DEF Open
      <4> QED
        BY <2>3, <4>1, <4>2 DEF Root, NULL
    <3>2. CASE k # n
      <4>1. k \in 1..(n - 1) /\ k + 1 \in 2..n /\ k + 1 \in 1..n /\ k + 1 # 2
        <5>1. n \in Nat /\ k \in 2..n
          BY <1>1
        <5> HIDE DEF n
        <5> QED
          BY <3>2, <5>1
      <4>2. Called(stack[k], stack[k + 1])
        BY <4>1 DEF MoveOK, StackOK
      <4>3. stack[k].target[1] = stack[k + 1].res /\ Open(stack[k + 1])
        BY <4>2 DEF Called
      <4>4. stack[k + 1].res # stack[2].res
        BY <2>4, <4>1, <4>3
      <4> QED
        BY <2>6, <4>3, <4>4
    <3> QED
      BY <3>1, <3>2
  <2> QED
    BY <2>7, <2>8
<1>4. ASSUME NEW k \in 1..Len(stack')
      PROVE  /\ top.target # stack'[k].target
             /\ top.target[1] = stack'[k].res => top.target[2] < stack'[k].i
  <2>1. k + 1 \in 2..Len(stack) /\ stack'[k] = stack[k + 1]
    BY <1>1
  <2> QED
    BY <1>3, <2>1
<1> QED
  BY <1>2, <1>4

LEMMA RecordIs ==
    ASSUME MoveOK, env' = env, RecordString
    PROVE  Quiet \/ SlotRecorded
<1>1. Running /\ obj.kind = "str" /\ top.list # 0
  BY DEF RecordString
<1>2. /\ stack # <<>> /\ IsString(top) /\ ~ Open(top) /\ traverse_error = FALSE
      /\ top \in Frames /\ FrameOK(top)
  BY <1>1, StringTop
<1>3. CASE HeapFull
  BY <1>3, CrashQuiet DEF RecordString
<1>4. CASE ~ HeapFull
  <2> DEFINE n == top.list
             l == Lists[n]
             rs == <<top.target>> \o l.refs
             q == [l EXCEPT !.refs = rs]
             ls == [Lists EXCEPT ![n] = q]
  <2>1. /\ Pop /\ UNCHANGED <<src, root, interned, orig_map, str_map, traverse_error, dumper>>
        /\ archive' = [archive EXCEPT !.all_string_ref[n].refs = Linked(top.target, @),
                                      !.used = @ + 1]
    BY <1>4 DEF RecordString
  <2>2. /\ n \in 1..Len(Lists) /\ top.target \in Slots(archive) /\ archive \in Archives
        /\ l.str = top.res /\ GetSlot(archive, top.target) = top.res
        /\ top.res \in HeapStrings
    BY <1>1, <1>2, ObjIs DEF FrameOK
  <2>3. archive' = [[archive EXCEPT !.all_string_ref = ls] EXCEPT !.used = @ + 1]
    BY <2>1 DEF Linked, Lists
  <2>4. /\ Lists \in Seq(RefLists) /\ l \in RefLists /\ l.refs \in Seq(Nat \X Nat)
        /\ Len(l.refs) \in Nat
    BY <2>2, ArchiveIs DEF Lists
  <2>5. top.target \in Nat \X Nat
    BY <2>2, SlotIs
  <2>6. /\ rs \in Seq(Nat \X Nat) /\ Len(rs) = Len(l.refs) + 1 /\ rs[1] = top.target
        /\ \A i \in 1..Len(l.refs) : rs[i + 1] = l.refs[i]
    <3> DEFINE t == top.target
               s1 == <<t>>
    <3> HIDE DEF t
    <3>1. s1 \in Seq(Nat \X Nat) /\ Len(s1) = 1 /\ s1[1] = t
      BY <2>5 DEF t
    <3>2. rs = s1 \o l.refs
      BY DEF t
    <3> DEFINE r == l.refs
               k == Len(r)
    <3>3. r \in Seq(Nat \X Nat) /\ k \in Nat /\ rs = s1 \o r
      BY <2>4, <3>2
    <3> HIDE DEF s1, r, rs
    <3>4. /\ rs \in Seq(Nat \X Nat) /\ Len(rs) = 1 + k
          /\ \A i \in 1..(1 + k) : rs[i] = IF i <= 1 THEN s1[i] ELSE r[i - 1]
      <4>1. /\ s1 \o r \in Seq(Nat \X Nat) /\ Len(s1 \o r) = Len(s1) + Len(r)
            /\ \A i \in 1..(Len(s1) + Len(r)) :
                  (s1 \o r)[i] = IF i <= Len(s1) THEN s1[i] ELSE r[i - Len(s1)]
        BY <3>1, <3>3, ConcatProperties
      <4> QED
        BY <3>1, <3>3, <4>1
    <3> HIDE DEF k
    <3>5. rs[1] = t
      BY <3>1, <3>3, <3>4
    <3>6. ASSUME NEW i \in 1..k
          PROVE  rs[i + 1] = r[i]
      <4>1. i + 1 \in 1..(1 + k) /\ ~ (i + 1 <= 1) /\ (i + 1) - 1 = i
        BY <3>3
      <4> QED
        BY <3>4, <4>1
    <3>7. Len(rs) = k + 1
      BY <3>3, <3>4
    <3> QED
      BY <3>4, <3>5, <3>6, <3>7 DEF t, r, k
  <2> HIDE DEF rs
  <2>7. q \in RefLists /\ q.str = l.str /\ q.refs = rs
    BY <2>4, <2>6 DEF RefLists
  <2> HIDE DEF q
  <2>8. /\ ls \in Seq(RefLists) /\ Len(ls) = Len(Lists)
        /\ \A j \in 1..Len(Lists) : ls[j] = IF j = n THEN q ELSE Lists[j]
    BY <2>2, <2>4, <2>7, ExceptSeq
  <2> HIDE DEF ls
  <2>9. /\ archive' \in Archives /\ archive'.none_base = archive.none_base
        /\ archive'.obj = archive.obj /\ archive'.heap = archive.heap
        /\ archive'.used = archive.used + 1 /\ archive'.all_string_ref = ls
    BY <2>2, <2>3, <2>8, ListsReplaced
  <2>10. Lists' = ls
    BY <2>9 DEF Lists
  <2>11. SameObjects(archive, archive') /\ SameSlots(archive, archive')
    BY <2>9 DEF SameObjects, SameKind, SameSlots, GetSlot
  <2>12. ASSUME NEW j \in 1..Len(Lists')
         PROVE  /\ Lists'[j].str \in HeapStrings
                /\ \A i \in 1..Len(Lists'[j].refs) : Lists'[j].refs[i] \in Slots(archive)
    <3>1. j \in 1..Len(Lists)
      BY <2>8, <2>10
    <3>2. /\ Lists[j].str \in HeapStrings
          /\ \A i \in 1..Len(Lists[j].refs) : Lists[j].refs[i] \in Slots(archive)
      BY <3>1 DEF MoveOK, ArchiveOK
    <3>3. CASE j # n
      BY <2>8, <2>10, <3>1, <3>2, <3>3
    <3>4. CASE j = n
      <4>1. Lists'[j].str = l.str /\ Lists'[j].refs = rs
        BY <2>7, <2>8, <2>10, <3>1, <3>4
      <4>2. ASSUME NEW i \in 1..Len(rs)
            PROVE  rs[i] \in Slots(archive)
        <5>1. CASE i = 1
          BY <2>2, <2>6, <5>1
        <5>2. CASE i # 1
          <6>1. i - 1 \in 1..Len(l.refs) /\ (i - 1) + 1 = i
            BY <2>4, <2>6, <5>2
          <6>2. rs[(i - 1) + 1] = l.refs[i - 1]
            BY <2>6, <6>1
          <6> QED
            BY <3>2, <3>4, <6>1, <6>2
        <5> QED
          BY <5>1, <5>2
      <4> QED
        BY <2>2, <4>1, <4>2
    <3> QED
      BY <3>3, <3>4
  <2>13. \A j \in 1..Len(Lists) : Lists'[j].str = Lists[j].str
    BY <2>7, <2>8, <2>10
  <2>14. Len(Lists) <= Len(Lists') /\ Len(Lists') = Len(Lists)
    <3>1. Len(Lists) \in Nat
      BY <2>4, LenProperties
    <3> QED
      BY <2>8, <2>10, <3>1
  <2>15. /\ ArchiveGrows /\ HeapStrings' = HeapStrings
         /\ Slots(archive') = Slots(archive) /\ Addresses(archive') = Addresses(archive)
    BY <1>4, <2>9, <2>11, <2>12, <2>13, <2>14, ListsGrow DEF MoveOK
  <2>16. SourceGrows
    BY <2>1, SourceSame DEF MoveOK
  <2>17. TablesOK'
    BY <2>1, <2>15, <2>16, TablesKept
  <2>18. traverse_error' \in BOOLEAN /\ dumper' # "returned" /\ stack' = Tail(stack)
    BY <1>1, <1>2, <2>1 DEF Running, Pop
  <2>19. /\ StackOK' /\ \A k \in 1..Len(stack') : Open(stack[k])'
         /\ \A s : Closed(s) => Closed(s)'
    BY <1>2, <2>15, <2>16, <2>18, StackPopped
  <2>20. MoveOK'
    BY <2>15, <2>16, <2>17, <2>19 DEF MoveOK, SourceGrows, ArchiveGrows
  <2>21. ~ Closed(top.target) /\ \A s : s = top.target => Closed(s)'
    <3>1. /\ ~ Closed(top.target)
          /\ \A k \in 1..Len(stack') : /\ top.target # stack'[k].target
                                       /\ top.target[1] = stack'[k].res =>
                                             top.target[2] < stack'[k].i
      BY <1>2, <2>18, TargetCloses
    <3>2. ASSUME NEW s, s = top.target
          PROVE  Closed(s)'
      BY <3>1, <3>2 DEF Closed
    <3> QED
      BY <3>1, <3>2
  <2>22. \A b \in HeapStrings : ~ Pending(b)'
    <3> SUFFICES ASSUME NEW b \in HeapStrings, Pending(b)' PROVE FALSE
      OBVIOUS
    <3>1. stack' # <<>> /\ IsString(top)'
      BY DEF Pending
    <3>2. stack' \in Seq(Frames)
      BY <2>19 DEF StackOK
    <3>3. Len(stack') \in Nat /\ Len(stack') >= 1 /\ Head(stack') = stack'[1]
      BY <3>1, <3>2, EmptySeq
    <3>4. Open(stack[1])'
      BY <2>19, <3>3
    <3> QED
      BY <3>1, <3>3, <3>4 DEF top, Open, IsString, Containers
  <2>23. \A b : Pending(b) <=> b = top.res
    BY <1>2 DEF Pending
  <2>24. /\ Len(Lists'[n].refs) = Len(Lists[n].refs) + 1 /\ Lists'[n].refs[1] = top.target
         /\ \A i \in 1..Len(Lists[n].refs) : Lists'[n].refs[i + 1] = Lists[n].refs[i]
    <3>1. Lists'[n].refs = rs
      BY <2>2, <2>7, <2>8, <2>10
    <3> QED
      BY <2>6, <3>1
  <2>25. \A j \in 1..Len(Lists) : j # n => Lists'[j] = Lists[j]
    BY <2>8, <2>10
  <2>26. SlotRecorded
    BY <1>2, <2>1, <2>2, <2>9, <2>11, <2>13, <2>14, <2>15, <2>16, <2>19, <2>20, <2>21,
       <2>22, <2>23, <2>24, <2>25 DEF SlotRecorded
  <2> QED
    BY <2>26
<1> QED
  BY <1>3, <1>4

-----------------------------------------------------------------------------
\* Every step has one of four effects.
LEMMA MoveStep ==
    ASSUME MoveOK, env' = env, NextDump
    PROVE  \/ Quiet
           \/ \E a : StringMoved(a)
           \/ \E n : StringListed(n)
           \/ SlotRecorded
<1>1. CASE MoveReference
  BY <1>1, ReferenceQuiet
<1>2. CASE MoveAtom
  BY <1>2, AtomQuiet
<1>3. CASE MoveUnsupported
  BY <1>3, UnsupportedQuiet
<1>4. CASE Unwind
  BY <1>4, UnwindQuiet
<1>5. CASE MoveString
  <2>1. CASE Refers \/ (orig_map[InternedKey] = NULL /\ HeapFull)
    BY <1>5, <2>1, StaticQuiet
  <2>2. CASE ~ Refers /\ orig_map[InternedKey] # NULL
    BY <1>5, <2>2, KnownString
  <2>3. CASE ~ Refers /\ orig_map[InternedKey] = NULL /\ ~ HeapFull
    BY <1>5, <2>3, NewString
  <2> QED
    BY <2>1, <2>2, <2>3
<1>6. CASE ListString
  <2>1. CASE str_map[top.res] # 0
    BY <1>6, <2>1, ListFound
  <2>2. CASE str_map[top.res] = 0 /\ HeapFull
    BY <1>6, <2>2, ListCrashes
  <2>3. CASE str_map[top.res] = 0 /\ ~ HeapFull
    BY <1>6, <2>3, ListNew
  <2> QED
    BY <2>1, <2>2, <2>3
<1>7. CASE RecordString
  BY <1>7, RecordIs
<1>8. CASE MoveContainer
  BY <1>8, ContainerQuiet
<1>9. CASE MoveItem
  BY <1>9, ItemQuiet
<1>10. CASE PublishContainer
  BY <1>10, PublishQuiet
<1>11. CASE Return \/ Kill
  BY <1>11, EndQuiet
<1> QED
  BY <1>1, <1>2, <1>3, <1>4, <1>5, <1>6, <1>7, <1>8, <1>9, <1>10, <1>11 DEF NextDump, Move

-----------------------------------------------------------------------------
(* What the lists say of the strings, the slots and the tables. *)

\* A slot holds nothing but NULL, an object of the archive or of the dumper.
Pointers == \A s \in Slots(archive) : IsPointer(archive, GetSlot(archive, s))

Listed(a) == \E j \in 1..Len(Lists) : Lists[j].str = a

RecordedFor(s, a) ==
    \E j \in 1..Len(Lists) :
        Lists[j].str = a /\ \E i \in 1..Len(Lists[j].refs) : Lists[j].refs[i] = s

\* All that is not recorded is the string that is being moved in.
Recorded ==
    /\ \A a \in HeapStrings : Listed(a) \/ Pending(a)
    /\ \A s \in Slots(archive), a \in HeapStrings :
           GetSlot(archive, s) = a =>
               RecordedFor(s, a) \/ (Pending(a) /\ s = top.target)

OneList == ~ TableMayFail => \A j \in 1..Len(Lists) : str_map[Lists[j].str] = j

OneRef == \A j \in 1..Len(Lists) : \A i, k \in 1..Len(Lists[j].refs) :
              Lists[j].refs[i] = Lists[j].refs[k] => i = k

\* The tables lead from the value of a string to its copy.
OneCopy ==
    ~ TableMayFail =>
        \A a \in HeapStrings : \A v \in {archive.heap[a].val} :
            /\ v \in DOMAIN interned /\ interned[v] # NULL
            /\ orig_map[interned[v]] = a

StringsOK == Pointers /\ RefsSound /\ Recorded /\ OneList /\ OneRef /\ OneCopy

LEMMA HeapStringIs ==
    ASSUME ArchiveOK, NEW a \in HeapStrings
    PROVE  a \in Addresses(archive) /\ a # NULL /\ a \in Nat
<1>1. archive \in Archives /\ a \in Addresses(archive)
  BY DEF ArchiveOK, HeapStrings, Addresses
<1> QED
  BY <1>1, ArchiveIs DEF NULL

\* The archive only grows.
LEMMA StillPointer ==
    ASSUME ArchiveOK, ArchiveGrows, NEW p, IsPointer(archive, p)
    PROVE  IsPointer(archive', p)
<1>1. archive \in Archives /\ archive' \in Archives /\ Len(archive.heap) <= Len(archive'.heap)
  BY DEF ArchiveOK, ArchiveGrows
<1>2. Len(archive.heap) \in Nat /\ Len(archive'.heap) \in Nat
  BY <1>1, ArchiveIs
<1> QED
  BY <1>1, <1>2 DEF IsPointer, Addresses

LEMMA QuietStrings ==
    ASSUME MoveOK, StringsOK, Quiet
    PROVE  StringsOK'
<1>1. Lists' = Lists /\ HeapStrings' = HeapStrings /\ env' = env /\ ArchiveOK
  BY DEF Quiet, MoveOK, ArchiveGrows
<1>2. Pointers'
  <2> SUFFICES ASSUME NEW s \in Slots(archive')
               PROVE  IsPointer(archive', GetSlot(archive', s))
    BY DEF Pointers
  <2>1. CASE s \in Slots(archive) /\ GetSlot(archive', s) = GetSlot(archive, s)
    <3>1. IsPointer(archive, GetSlot(archive, s))
      BY <2>1 DEF StringsOK, Pointers
    <3> QED
      BY <1>1, <2>1, <3>1, StillPointer DEF Quiet
  <2>2. CASE IsPointer(archive', GetSlot(archive', s))
    BY <2>2
  <2> QED
    BY <2>1, <2>2 DEF Quiet
<1>3. RefsSound'
  <2> SUFFICES ASSUME NEW j \in 1..Len(Lists), NEW i \in 1..Len(Lists[j].refs)
               PROVE  /\ \A s : s = Lists[j].refs[i] => Closed(s)'
                      /\ GetSlot(archive', Lists[j].refs[i]) = Lists[j].str
    BY <1>1 DEF RefsSound
  <2>1. Closed(Lists[j].refs[i]) /\ GetSlot(archive, Lists[j].refs[i]) = Lists[j].str
    BY DEF StringsOK, RefsSound
  <2>2. Lists[j].refs[i] \in Slots(archive)
    BY <1>1 DEF ArchiveOK
  <2> QED
    BY <2>1, <2>2 DEF Quiet
<1>4. Recorded'
  <2>1. ASSUME NEW a \in HeapStrings PROVE Listed(a)' \/ Pending(a)'
    <3>1. Listed(a) \/ Pending(a)
      BY DEF StringsOK, Recorded
    <3>2. Listed(a) => Listed(a)'
      BY <1>1 DEF Listed
    <3> QED
      BY <3>1, <3>2 DEF Quiet
  <2>2. ASSUME NEW s \in Slots(archive'), NEW a \in HeapStrings, GetSlot(archive', s) = a
        PROVE  RecordedFor(s, a)' \/ (Pending(a)' /\ s = top'.target)
    <3>1. s \in Slots(archive) /\ GetSlot(archive, s) = a
      BY <2>2 DEF Quiet
    <3>2. RecordedFor(s, a) \/ (Pending(a) /\ s = top.target)
      BY <3>1 DEF StringsOK, Recorded
    <3>3. RecordedFor(s, a) => RecordedFor(s, a)'
      BY <1>1 DEF RecordedFor
    <3>4. Pending(a) => Pending(a)' /\ top' = top
      BY DEF Quiet, top
    <3> QED
      BY <3>2, <3>3, <3>4
  <2> QED
    BY <1>1, <2>1, <2>2 DEF Recorded
<1>5. OneList'
  BY <1>1 DEF StringsOK, OneList, Quiet, TableMayFail
<1>6. OneRef'
  BY <1>1 DEF StringsOK, OneRef
<1>7. OneCopy'
  <2> SUFFICES ASSUME ~ TableMayFail, NEW a \in HeapStrings, NEW v \in {archive'.heap[a].val}
               PROVE  /\ v \in DOMAIN interned' /\ interned'[v] # NULL
                      /\ orig_map'[interned'[v]] = a
    BY <1>1 DEF OneCopy, TableMayFail
  <2>1. a \in Addresses(archive)
    BY <1>1, HeapStringIs
  <2>2. v = archive.heap[a].val
    BY <2>1 DEF Quiet, ArchiveGrows, SameKind
  <2>3. v \in DOMAIN interned /\ interned[v] # NULL /\ orig_map[interned[v]] = a
    BY <2>2 DEF StringsOK, OneCopy
  <2> QED
    BY <2>3 DEF Quiet, SourceGrows
<1> QED
  BY <1>2, <1>3, <1>4, <1>5, <1>6, <1>7 DEF StringsOK

LEMMA StringMovedStrings ==
    ASSUME MoveOK, StringsOK, NEW a, StringMoved(a)
    PROVE  StringsOK'
<1>1. /\ Lists' = Lists /\ HeapStrings' = HeapStrings \cup {a} /\ env' = env /\ ArchiveOK
      /\ ArchiveGrows /\ ArchiveOK'
  BY DEF StringMoved, MoveOK, ArchiveGrows
<1>2. a \in Addresses(archive') /\ a # NULL
  <2>1. a \in HeapStrings'
    BY <1>1
  <2> QED
    BY <2>1 DEF HeapStrings, Addresses, StringMoved
<1>3. \A r \in Slots(archive') :
          GetSlot(archive', r) = IF r = top.target THEN a
                                 ELSE IF r \in Slots(archive) THEN GetSlot(archive, r)
                                 ELSE NULL
  BY DEF StringMoved, Writes
\* Before, no slot held the address of the new string.
<1>4. ASSUME NEW s \in Slots(archive), GetSlot(archive, s) = a
      PROVE  a \in HeapStrings
  <2>1. IsPointer(archive, a)
    BY <1>4 DEF StringsOK, Pointers
  <2>2. SUFFICES ASSUME a \notin HeapStrings PROVE FALSE
    OBVIOUS
  <2>3. a \notin Addresses(archive) /\ a \in 1..HeapCells
    BY <2>2 DEF StringMoved
  <2>4. HeapCells < DumpBase /\ HeapCells \in Nat /\ DumpBase \in Nat
    BY <1>1, DumpBaseAssumption, EnvironmentsAssumption DEF ArchiveOK, HeapCells
  <2> QED
    BY <1>2, <2>1, <2>3, <2>4 DEF IsPointer
<1>5. ASSUME NEW b \in HeapStrings PROVE ~ Pending(b)
  BY <1>1, HeapStringIs DEF Pending, StringMoved
<1>6. Pending(a)' /\ top'.target = top.target
  BY DEF StringMoved
<1>7. Pointers'
  <2> SUFFICES ASSUME NEW s \in Slots(archive')
               PROVE  IsPointer(archive', GetSlot(archive', s))
    BY DEF Pointers
  <2>1. CASE s = top.target
    BY <1>2, <1>3, <2>1 DEF IsPointer
  <2>2. CASE s # top.target /\ s \in Slots(archive)
    <3>1. IsPointer(archive, GetSlot(archive, s))
      BY <2>2 DEF StringsOK, Pointers
    <3>2. GetSlot(archive', s) = GetSlot(archive, s)
      BY <1>3, <2>2
    <3> QED
      BY <1>1, <3>1, <3>2, StillPointer
  <2>3. CASE s # top.target /\ s \notin Slots(archive)
    BY <1>3, <2>3 DEF IsPointer
  <2> QED
    BY <2>1, <2>2, <2>3
<1>8. RefsSound'
  <2> SUFFICES ASSUME NEW j \in 1..Len(Lists), NEW i \in 1..Len(Lists[j].refs)
               PROVE  /\ \A s : s = Lists[j].refs[i] => Closed(s)'
                      /\ GetSlot(archive', Lists[j].refs[i]) = Lists[j].str
    BY <1>1 DEF RefsSound
  <2>1. Closed(Lists[j].refs[i]) /\ GetSlot(archive, Lists[j].refs[i]) = Lists[j].str
    BY DEF StringsOK, RefsSound
  <2>2. Lists[j].refs[i] \in Slots(archive) /\ Lists'[j].refs[i] \in Slots(archive')
    BY <1>1 DEF ArchiveOK
  <2>3. top = stack[1] /\ 1 \in 1..Len(stack)
    BY TopIs DEF MoveOK, StringMoved
  <2>4. Lists[j].refs[i] # top.target
    BY <2>1, <2>3 DEF Closed
  <2>5. GetSlot(archive', Lists[j].refs[i]) = GetSlot(archive, Lists[j].refs[i])
    BY <1>1, <1>3, <2>2, <2>4
  <2> QED
    BY <2>1, <2>2, <2>5 DEF StringMoved
<1>9. Recorded'
  <2>1. ASSUME NEW b \in HeapStrings' PROVE Listed(b)' \/ Pending(b)'
    <3>1. b \in HeapStrings => Listed(b)
      BY <1>5 DEF StringsOK, Recorded
    <3>2. Listed(b) => Listed(b)'
      BY <1>1 DEF Listed
    <3> QED
      BY <1>1, <1>6, <3>1, <3>2
  <2>2. ASSUME NEW s \in Slots(archive'), NEW b \in HeapStrings', GetSlot(archive', s) = b
        PROVE  RecordedFor(s, b)' \/ (Pending(b)' /\ s = top'.target)
    <3>1. CASE s = top.target
      BY <1>3, <1>6, <2>2, <3>1
    <3>2. CASE s # top.target
      <4>1. b # NULL
        BY <1>1, <1>2, HeapStringIs
      <4>2. s \in Slots(archive) /\ GetSlot(archive, s) = b
        BY <1>3, <2>2, <3>2, <4>1
      <4>3. b \in HeapStrings
        BY <1>1, <1>4, <4>2
      <4>4. RecordedFor(s, b)
        BY <1>5, <4>2, <4>3 DEF StringsOK, Recorded
      <4> QED
        BY <1>1, <4>4 DEF RecordedFor
    <3> QED
      BY <3>1, <3>2
  <2> QED
    BY <2>1, <2>2 DEF Recorded
<1>10. OneList'
  BY <1>1 DEF StringsOK, OneList, StringMoved, TableMayFail
<1>11. OneRef'
  BY <1>1 DEF StringsOK, OneRef
<1>12. OneCopy'
  <2> SUFFICES ASSUME ~ TableMayFail, NEW b \in HeapStrings',
                      NEW v \in {archive'.heap[b].val}
               PROVE  /\ v \in DOMAIN interned' /\ interned'[v] # NULL
                      /\ orig_map'[interned'[v]] = b
    BY <1>1 DEF OneCopy, TableMayFail
  <2>1. DOMAIN interned' = DOMAIN interned /\ obj.val \in DOMAIN interned
    BY DEF StringMoved, SourceGrows
  <2>2. orig_map \in [Nodes -> Nat] /\ Canonical \in Nodes /\ Canonical # NULL
    BY DEF MoveOK, TablesOK, StringMoved, Nodes, NULL, SourceOK
  <2>3. orig_map' = [orig_map EXCEPT ![Canonical] = a]
    <3>1. CASE a \in HeapStrings
      BY <2>2, <3>1 DEF StringMoved
    <3>2. CASE a \notin HeapStrings
      BY <3>2 DEF StringMoved, Inserted
    <3> QED
      BY <3>1, <3>2
  <2>4. interned'[obj.val] = Canonical
    BY DEF StringMoved
  <2>5. CASE b = a
    BY <2>1, <2>2, <2>3, <2>4, <2>5 DEF StringMoved
  <2>6. CASE b # a
    <3>1. b \in HeapStrings /\ b \in Addresses(archive) /\ b # NULL
      BY <1>1, <2>6, HeapStringIs
    <3>2. v = archive.heap[b].val
      BY <1>1, <3>1 DEF ArchiveGrows, SameKind
    <3>3. v \in DOMAIN interned /\ interned[v] # NULL /\ orig_map[interned[v]] = b
      BY <3>1, <3>2 DEF StringsOK, OneCopy
    <3>4. interned[v] \in Nodes /\ interned'[v] = interned[v]
      BY <3>3 DEF MoveOK, SourceOK, StringMoved, SourceGrows
    <3>5. orig_map[Canonical] \in {a, NULL}
      BY DEF StringMoved
    <3>6. interned[v] # Canonical
      BY <2>6, <3>1, <3>3, <3>5
    <3> QED
      BY <2>1, <2>2, <2>3, <3>3, <3>4, <3>6
  <2> QED
    BY <2>5, <2>6
<1> QED
  BY <1>7, <1>8, <1>9, <1>10, <1>11, <1>12 DEF StringsOK

LEMMA StringListedStrings ==
    ASSUME MoveOK, StringsOK, NEW n, StringListed(n)
    PROVE  StringsOK'
<1>1. /\ HeapStrings' = HeapStrings /\ Slots(archive') = Slots(archive) /\ env' = env
      /\ Addresses(archive') = Addresses(archive) /\ ArchiveOK /\ archive \in Archives
      /\ \A s \in Slots(archive) : GetSlot(archive', s) = GetSlot(archive, s)
      /\ \A b : Pending(b)' <=> Pending(b)
      /\ top'.target = top.target /\ UNCHANGED <<interned, orig_map>>
  BY DEF StringListed, SameSlots, MoveOK, ArchiveOK, ArchiveGrows
<1>2. Len(Lists) \in Nat
  BY <1>1, ArchiveIs
<1>3. /\ Len(Lists) <= Len(Lists') /\ Len(Lists') \in Nat
      /\ \A j \in 1..Len(Lists) : j \in 1..Len(Lists') /\ Lists'[j] = Lists[j]
      /\ \A j \in 1..Len(Lists') : \/ j \in 1..Len(Lists)
                                   \/ j = n /\ str_map[top.res] = 0
                                      /\ Lists'[j].str = top.res /\ Lists'[j].refs = <<>>
  BY <1>2 DEF StringListed
<1>4. Pointers'
  <2> SUFFICES ASSUME NEW s \in Slots(archive)
               PROVE  IsPointer(archive', GetSlot(archive', s))
    BY <1>1 DEF Pointers
  <2>1. IsPointer(archive, GetSlot(archive, s))
    BY DEF StringsOK, Pointers
  <2> QED
    BY <1>1, <2>1 DEF IsPointer
<1>5. RefsSound'
  <2> SUFFICES ASSUME NEW j \in 1..Len(Lists'), NEW i \in 1..Len(Lists'[j].refs)
               PROVE  /\ \A s : s = Lists'[j].refs[i] => Closed(s)'
                      /\ GetSlot(archive', Lists'[j].refs[i]) = Lists'[j].str
    BY DEF RefsSound
  <2>1. j \in 1..Len(Lists) /\ Lists'[j] = Lists[j]
    BY <1>3
  <2>2. Closed(Lists[j].refs[i]) /\ GetSlot(archive, Lists[j].refs[i]) = Lists[j].str
    BY <2>1 DEF StringsOK, RefsSound
  <2>3. Lists[j].refs[i] \in Slots(archive)
    BY <1>1, <2>1 DEF ArchiveOK
  <2> QED
    BY <1>1, <2>1, <2>2, <2>3 DEF StringListed
<1>6. Recorded'
  <2>1. ASSUME NEW b \in HeapStrings PROVE Listed(b)' \/ Pending(b)'
    <3>1. Listed(b) \/ Pending(b)
      BY DEF StringsOK, Recorded
    <3>2. Listed(b) => Listed(b)'
      BY <1>3 DEF Listed
    <3> QED
      BY <1>1, <3>1, <3>2
  <2>2. ASSUME NEW s \in Slots(archive), NEW b \in HeapStrings, GetSlot(archive, s) = b
        PROVE  RecordedFor(s, b)' \/ (Pending(b)' /\ s = top'.target)
    <3>1. RecordedFor(s, b) \/ (Pending(b) /\ s = top.target)
      BY <2>2 DEF StringsOK, Recorded
    <3>2. RecordedFor(s, b) => RecordedFor(s, b)'
      BY <1>3 DEF RecordedFor
    <3> QED
      BY <1>1, <3>1, <3>2
  <2> QED
    BY <1>1, <2>1, <2>2 DEF Recorded
<1>7. OneList'
  <2> SUFFICES ASSUME ~ TableMayFail, NEW j \in 1..Len(Lists')
               PROVE  str_map'[Lists'[j].str] = j
    BY <1>1 DEF OneList, TableMayFail
  <2>1. ASSUME NEW k \in 1..Len(Lists)
        PROVE  str_map[Lists[k].str] = k
    BY DEF StringsOK, OneList
  <2>2. CASE str_map[top.res] # 0
    <3>1. Lists' = Lists /\ str_map' = str_map
      BY <2>2 DEF StringListed
    <3> QED
      BY <2>1, <3>1
  <2>3. CASE str_map[top.res] = 0
    <3>1. str_map' = [str_map EXCEPT ![top.res] = n]
      BY <2>3 DEF StringListed, Inserted
    <3>2. top.res \in 1..HeapCells /\ str_map \in [1..HeapCells -> Nat]
      <4>1. top.res \in Addresses(archive)
        BY <1>1, HeapStringIs DEF StringListed
      <4>2. /\ Len(archive.heap) \in Nat /\ archive.used \in Nat /\ HeapCells \in Nat
            /\ Len(archive.heap) <= archive.used /\ archive.used <= HeapCells
        BY <1>1, ArchiveIs, EnvironmentsAssumption DEF ArchiveOK, HeapCells
      <4> QED
        BY <4>1, <4>2 DEF Addresses, MoveOK, TablesOK
    <3>3. CASE j \in 1..Len(Lists)
      <4>1. Lists[j].str # top.res
        BY <2>1, <2>3, <3>3
      <4> QED
        BY <1>3, <2>1, <3>1, <3>2, <3>3, <4>1
    <3>4. CASE j \notin 1..Len(Lists)
      BY <1>3, <3>1, <3>2, <3>4
    <3> QED
      BY <3>3, <3>4
  <2> QED
    BY <2>2, <2>3
<1>8. OneRef'
  <2> SUFFICES ASSUME NEW j \in 1..Len(Lists'), NEW i \in 1..Len(Lists'[j].refs),
                      NEW k \in 1..Len(Lists'[j].refs),
                      Lists'[j].refs[i] = Lists'[j].refs[k]
               PROVE  i = k
    BY DEF OneRef
  <2>1. j \in 1..Len(Lists) /\ Lists'[j] = Lists[j]
    BY <1>3
  <2> QED
    BY <2>1 DEF StringsOK, OneRef
<1>9. OneCopy'
  <2> SUFFICES ASSUME ~ TableMayFail, NEW b \in HeapStrings, NEW v \in {archive'.heap[b].val}
               PROVE  /\ v \in DOMAIN interned /\ interned[v] # NULL
                      /\ orig_map[interned[v]] = b
    BY <1>1 DEF OneCopy, TableMayFail
  <2>1. b \in Addresses(archive)
    BY <1>1, HeapStringIs
  <2>2. v = archive.heap[b].val
    BY <2>1 DEF StringListed, ArchiveGrows, SameKind
  <2> QED
    BY <2>2 DEF StringsOK, OneCopy
<1> QED
  BY <1>4, <1>5, <1>6, <1>7, <1>8, <1>9 DEF StringsOK

LEMMA SlotRecordedStrings ==
    ASSUME MoveOK, StringsOK, SlotRecorded
    PROVE  StringsOK'
<1> DEFINE J   == top.list
           new == Lists'[J].refs
           old == Lists[J].refs
<1>1. /\ HeapStrings' = HeapStrings /\ Slots(archive') = Slots(archive) /\ env' = env
      /\ archive'.heap = archive.heap /\ ArchiveOK /\ archive \in Archives
      /\ \A s \in Slots(archive) : GetSlot(archive', s) = GetSlot(archive, s)
      /\ UNCHANGED <<interned, orig_map, str_map>>
      /\ Len(Lists') = Len(Lists) /\ J \in 1..Len(Lists)
      /\ \A j \in 1..Len(Lists) : Lists'[j].str = Lists[j].str
      /\ \A j \in 1..Len(Lists) : j # J => Lists'[j] = Lists[j]
  BY DEF SlotRecorded, SameSlots, MoveOK, ArchiveOK, ArchiveGrows
<1>2. /\ Len(old) \in Nat /\ Len(new) = Len(old) + 1 /\ new[1] = top.target
      /\ \A i \in 1..Len(old) : new[i + 1] = old[i]
  BY SMTT(20), <1>1, ArchiveIs DEF SlotRecorded
<1> HIDE DEF J, new, old
<1>3. ASSUME NEW i \in 1..Len(new)
      PROVE  \/ i = 1 /\ new[i] = top.target
             \/ i # 1 /\ (i - 1) \in 1..Len(old) /\ new[i] = old[i - 1]
  <2>1. CASE i = 1
    BY <1>2, <2>1
  <2>2. CASE i # 1
    <3>1. (i - 1) \in 1..Len(old) /\ (i - 1) + 1 = i
      BY <1>2, <2>2
    <3>2. new[(i - 1) + 1] = old[i - 1]
      BY <1>2, <3>1
    <3> QED
      BY <2>2, <3>1, <3>2
  <2> QED
    BY <2>1, <2>2
<1>4. ASSUME NEW j \in 1..Len(Lists), NEW i \in 1..Len(Lists[j].refs)
      PROVE  /\ Closed(Lists[j].refs[i]) /\ Lists[j].refs[i] \in Slots(archive)
             /\ GetSlot(archive, Lists[j].refs[i]) = Lists[j].str
  BY <1>1 DEF StringsOK, RefsSound, ArchiveOK
<1>5. /\ Lists[J].str = top.res /\ GetSlot(archive, top.target) = top.res
      /\ top.target \in Slots(archive) /\ ~ Closed(top.target)
  BY DEF SlotRecorded, J
<1>6. Pointers'
  <2> SUFFICES ASSUME NEW s \in Slots(archive)
               PROVE  IsPointer(archive', GetSlot(archive', s))
    BY <1>1 DEF Pointers
  <2>1. IsPointer(archive, GetSlot(archive, s))
    BY DEF StringsOK, Pointers
  <2> QED
    BY <1>1, <2>1 DEF IsPointer, Addresses
<1>7. RefsSound'
  <2> SUFFICES ASSUME NEW j \in 1..Len(Lists), NEW i \in 1..Len(Lists'[j].refs)
               PROVE  /\ \A s : s = Lists'[j].refs[i] => Closed(s)'
                      /\ GetSlot(archive', Lists'[j].refs[i]) = Lists'[j].str
    BY <1>1 DEF RefsSound
  <2>1. CASE j # J
    <3>1. Lists'[j] = Lists[j]
      BY <1>1, <2>1
    <3>2. /\ Closed(Lists[j].refs[i]) /\ Lists[j].refs[i] \in Slots(archive)
          /\ GetSlot(archive, Lists[j].refs[i]) = Lists[j].str
      BY <1>4, <3>1
    <3> QED
      BY <1>1, <3>1, <3>2 DEF SlotRecorded
  <2>2. CASE j = J /\ i = 1
    <3>1. Lists'[j].refs[i] = top.target
      BY <1>2, <2>2 DEF new
    <3> QED
      BY <1>1, <1>5, <2>2, <3>1 DEF SlotRecorded
  <2>3. CASE j = J /\ i # 1
    <3>1. (i - 1) \in 1..Len(old) /\ new[i] = old[i - 1]
      BY <1>3, <2>3 DEF new
    <3>2. Lists'[j].refs[i] = Lists[j].refs[i - 1] /\ (i - 1) \in 1..Len(Lists[j].refs)
      BY <2>3, <3>1 DEF new, old
    <3>3. /\ Closed(Lists[j].refs[i - 1]) /\ Lists[j].refs[i - 1] \in Slots(archive)
          /\ GetSlot(archive, Lists[j].refs[i - 1]) = Lists[j].str
      BY <1>4, <3>2
    <3> QED
      BY <1>1, <3>2, <3>3 DEF SlotRecorded
  <2> QED
    BY <2>1, <2>2, <2>3
<1>8. ASSUME NEW s, NEW b, RecordedFor(s, b) PROVE RecordedFor(s, b)'
  <2>1. PICK j \in 1..Len(Lists) :
            Lists[j].str = b /\ \E i \in 1..Len(Lists[j].refs) : Lists[j].refs[i] = s
    BY <1>8 DEF RecordedFor
  <2>2. PICK i \in 1..Len(Lists[j].refs) : Lists[j].refs[i] = s
    BY <2>1
  <2>3. j \in 1..Len(Lists') /\ Lists'[j].str = b
    BY <1>1, <2>1
  <2>4. \E k \in 1..Len(Lists'[j].refs) : Lists'[j].refs[k] = s
    <3>1. CASE j # J
      BY <1>1, <2>2, <3>1
    <3>2. CASE j = J
      <4>1. i \in 1..Len(old) /\ old[i] = s
        BY <2>2, <3>2 DEF old
      <4>2. (i + 1) \in 1..Len(new) /\ new[i + 1] = s
        BY <1>2, <4>1
      <4> QED
        BY <3>2, <4>2 DEF new
    <3> QED
      BY <3>1, <3>2
  <2> QED
    BY <2>3, <2>4 DEF RecordedFor
<1>9. Recorded'
  <2>1. ASSUME NEW b \in HeapStrings PROVE Listed(b)'
    <3>1. Listed(b) \/ b = top.res
      BY DEF StringsOK, Recorded, SlotRecorded
    <3>2. Listed(b)
      BY <1>1, <1>5, <3>1 DEF Listed
    <3> QED
      BY <1>1, <3>2 DEF Listed
  <2>2. ASSUME NEW s \in Slots(archive), NEW b \in HeapStrings, GetSlot(archive, s) = b
        PROVE  RecordedFor(s, b)'
    <3>1. CASE s = top.target
      <4>1. b = top.res /\ Lists'[J].str = b
        BY <1>1, <1>5, <2>2, <3>1
      <4>2. 1 \in 1..Len(new) /\ new[1] = s
        BY <1>2, <3>1
      <4>3. \E i \in 1..Len(Lists'[J].refs) : Lists'[J].refs[i] = s
        BY <4>2 DEF new
      <4> QED
        BY <1>1, <4>1, <4>3 DEF RecordedFor
    <3>2. CASE s # top.target
      <4>1. RecordedFor(s, b)
        BY <2>2, <3>2 DEF StringsOK, Recorded
      <4> QED
        BY <1>8, <4>1
    <3> QED
      BY <3>1, <3>2
  <2> QED
    BY <1>1, <2>1, <2>2 DEF Recorded
<1>10. OneList'
  BY <1>1 DEF StringsOK, OneList, TableMayFail
<1>11. OneRef'
  <2> SUFFICES ASSUME NEW j \in 1..Len(Lists), NEW i \in 1..Len(Lists'[j].refs),
                      NEW k \in 1..Len(Lists'[j].refs),
                      Lists'[j].refs[i] = Lists'[j].refs[k]
               PROVE  i = k
    BY <1>1 DEF OneRef
  <2>1. CASE j # J
    BY <1>1, <2>1 DEF StringsOK, OneRef
  <2>2. CASE j = J
    <3>1. i \in 1..Len(new) /\ k \in 1..Len(new) /\ new[i] = new[k]
      BY <2>2 DEF new
    <3>2. ASSUME NEW l \in 1..Len(old) PROVE old[l] # top.target
      BY <1>1, <1>4, <1>5 DEF old
    <3>3. (i = 1 /\ k = 1) \/ (i # 1 /\ k # 1)
      BY <1>3, <3>1, <3>2
    <3>4. CASE i # 1 /\ k # 1
      <4>1. /\ (i - 1) \in 1..Len(old) /\ (k - 1) \in 1..Len(old)
            /\ old[i - 1] = old[k - 1]
        BY <1>3, <3>1, <3>4
      <4>2. i - 1 = k - 1
        BY <1>1, <4>1 DEF StringsOK, OneRef, old
      <4> QED
        BY <3>1, <4>2
    <3> QED
      BY <3>3, <3>4
  <2> QED
    BY <2>1, <2>2
<1>12. OneCopy'
  BY <1>1 DEF StringsOK, OneCopy, TableMayFail
<1> QED
  BY <1>6, <1>7, <1>9, <1>10, <1>11, <1>12 DEF StringsOK

-----------------------------------------------------------------------------
(* Reference counts.  A string that gets a list is counted once when it is  *)
(* moved in and once more for the list, and each slot that is recorded was  *)
(* counted before: the loader may take that many references away.           *)

ListsOf(a) == {j \in 1..Len(Lists) : Lists[j].str = a}

RefCount(j) == Len(Lists[j].refs)

CountsOK ==
    /\ \A a \in Addresses(archive) :
           /\ archive.heap[a].rc >= 1
           /\ archive.heap[a].interned => a \in HeapStrings
    /\ \A a \in HeapStrings : archive.heap[a].val \in DOMAIN interned
    /\ ~ Py312 =>
           /\ \A a \in HeapStrings :
                  archive.heap[a].rc >= 2 * Cardinality(ListsOf(a))
                                        + (IF Pending(a) /\ top.list = 0 THEN 1 ELSE 0)
           /\ \A j \in 1..Len(Lists) : \A a \in {Lists[j].str} :
                  archive.heap[a].rc >= RefCount(j) + 1
                                        + (IF Pending(a) THEN 1 ELSE 0)

LEMMA ListsOfFinite ==
    ASSUME ArchiveOK, NEW a
    PROVE  IsFiniteSet(ListsOf(a)) /\ Cardinality(ListsOf(a)) \in Nat
<1>1. Len(Lists) \in Nat
  BY ArchiveIs DEF ArchiveOK
<1>2. IsFiniteSet(1..Len(Lists))
  BY <1>1, FS_Interval
<1>3. IsFiniteSet(ListsOf(a))
  BY <1>2, FS_Subset DEF ListsOf
<1> QED
  BY <1>3, FS_CardinalityType

LEMMA QuietCounts ==
    ASSUME MoveOK, CountsOK, Quiet
    PROVE  CountsOK'
<1>1. /\ Lists' = Lists /\ HeapStrings' = HeapStrings /\ env' = env
      /\ ArchiveOK /\ ArchiveOK' /\ ArchiveGrows /\ DOMAIN interned' = DOMAIN interned
  BY DEF Quiet, MoveOK, ArchiveGrows, SourceGrows
<1>2. \A a \in Addresses(archive) : archive'.heap[a].rc >= archive.heap[a].rc
  BY DEF Quiet
<1>3. \A a \in Addresses(archive) :
          /\ a \in Addresses(archive') /\ SameKind(archive'.heap[a], archive.heap[a])
          /\ archive.heap[a].rc \in Int /\ archive'.heap[a].rc \in Int
  <2>1. /\ archive \in Archives /\ archive' \in Archives
        /\ Len(archive.heap) <= Len(archive'.heap)
        /\ \A a \in Addresses(archive) : SameKind(archive'.heap[a], archive.heap[a])
    BY <1>1 DEF ArchiveOK, ArchiveGrows
  <2>2. Len(archive.heap) \in Nat /\ Len(archive'.heap) \in Nat
    BY <2>1, ArchiveIs
  <2>3. \A a \in Addresses(archive) : a \in Addresses(archive')
    BY <2>1, <2>2 DEF Addresses
  <2> QED
    BY <2>1, <2>3, ArchiveIs
<1>4. ASSUME NEW a \in Addresses(archive')
      PROVE  /\ archive'.heap[a].rc >= 1
             /\ archive'.heap[a].interned => a \in HeapStrings
  <2>1. CASE a \in Addresses(archive)
    <3>1. archive.heap[a].rc >= 1 /\ (archive.heap[a].interned => a \in HeapStrings)
      BY <2>1 DEF CountsOK
    <3>2. archive'.heap[a].interned = archive.heap[a].interned
      BY <1>3, <2>1 DEF SameKind
    <3>3. archive'.heap[a].rc >= 1
      BY <1>2, <1>3, <2>1, <3>1
    <3> QED
      BY <3>1, <3>2, <3>3
  <2>2. CASE a \notin Addresses(archive)
    BY <2>2 DEF Quiet
  <2> QED
    BY <2>1, <2>2
<1>5. ASSUME NEW a \in HeapStrings
      PROVE  archive'.heap[a].val \in DOMAIN interned
  <2>1. a \in Addresses(archive)
    BY <1>1, HeapStringIs
  <2> QED
    BY <1>3, <2>1 DEF CountsOK, SameKind
\* A string that is pending stays so only when the stack is left alone.
<1>6. ASSUME NEW a \in HeapStrings, Pending(a)'
      PROVE  Pending(a) /\ top' = top
  BY <1>6 DEF Quiet, top
<1>7. ASSUME ~ Py312, NEW a \in HeapStrings
      PROVE  archive'.heap[a].rc >= 2 * Cardinality(ListsOf(a))
                                    + (IF Pending(a)' /\ top'.list = 0 THEN 1 ELSE 0)
  <2>1. archive.heap[a].rc >= 2 * Cardinality(ListsOf(a))
                              + (IF Pending(a) /\ top.list = 0 THEN 1 ELSE 0)
    BY <1>7 DEF CountsOK
  <2>2. a \in Addresses(archive) /\ Cardinality(ListsOf(a)) \in Nat
    BY <1>1, HeapStringIs, ListsOfFinite
  <2>3. Pending(a)' /\ top'.list = 0 => Pending(a) /\ top.list = 0
    BY <1>6
  <2> QED
    BY <1>2, <1>3, <2>1, <2>2, <2>3
<1>8. ASSUME ~ Py312, NEW j \in 1..Len(Lists), NEW a \in {Lists[j].str}
      PROVE  archive'.heap[a].rc >= RefCount(j) + 1
                                    + (IF Pending(a)' THEN 1 ELSE 0)
  <2>1. archive.heap[a].rc >= RefCount(j) + 1 + (IF Pending(a) THEN 1 ELSE 0)
    BY <1>8 DEF CountsOK
  <2>2. a \in HeapStrings /\ a \in Addresses(archive) /\ RefCount(j) \in Nat
    BY <1>1, HeapStringIs, ArchiveIs DEF ArchiveOK, RefCount
  <2>3. Pending(a)' => Pending(a)
    BY <1>6, <2>2
  <2>4. /\ archive'.heap[a].rc \in Int /\ archive.heap[a].rc \in Int
        /\ archive'.heap[a].rc >= archive.heap[a].rc
    BY <1>2, <1>3, <2>2
  <2> QED
    BY <2>1, <2>2, <2>3, <2>4
<1>9. \A a : ListsOf(a)' = ListsOf(a)
  BY <1>1 DEF ListsOf
<1> QED
  BY <1>1, <1>4, <1>5, <1>7, <1>8, <1>9 DEF CountsOK, RefCount, Py312, PyMinor

LEMMA StringMovedCounts ==
    ASSUME MoveOK, StringsOK, CountsOK, NEW a, StringMoved(a)
    PROVE  CountsOK'
<1>1. /\ Lists' = Lists /\ HeapStrings' = HeapStrings \cup {a} /\ env' = env
      /\ ArchiveOK /\ ArchiveOK' /\ ArchiveGrows /\ DOMAIN interned' = DOMAIN interned
      /\ \A b \in Addresses(archive) : archive'.heap[b].rc >= archive.heap[b].rc
      /\ \A b : Pending(b)' <=> b = a
      /\ top'.list = 0
  BY DEF StringMoved, MoveOK, ArchiveGrows, SourceGrows
<1>2. \A b : ListsOf(b)' = ListsOf(b)
  BY <1>1 DEF ListsOf
<1>3. \A b \in Addresses(archive) :
          /\ b \in Addresses(archive') /\ SameKind(archive'.heap[b], archive.heap[b])
          /\ archive.heap[b].rc \in Int /\ archive'.heap[b].rc \in Int
  <2>1. /\ archive \in Archives /\ archive' \in Archives
        /\ Len(archive.heap) <= Len(archive'.heap)
        /\ \A b \in Addresses(archive) : SameKind(archive'.heap[b], archive.heap[b])
    BY <1>1 DEF ArchiveOK, ArchiveGrows
  <2>2. Len(archive.heap) \in Nat /\ Len(archive'.heap) \in Nat
    BY <2>1, ArchiveIs
  <2>3. \A b \in Addresses(archive) : b \in Addresses(archive')
    BY <2>1, <2>2 DEF Addresses
  <2> QED
    BY <2>1, <2>3, ArchiveIs
<1>4. \A b \in Addresses(archive') : b \in Addresses(archive) \/ b = a
  BY DEF StringMoved
<1>5. a \notin HeapStrings => a \notin Addresses(archive) /\ archive'.heap[a].rc = 1
  BY DEF StringMoved
<1>6. ASSUME NEW b \in HeapStrings
      PROVE  b \in Addresses(archive) /\ ~ Pending(b) /\ Cardinality(ListsOf(b)) \in Nat
  BY <1>1, HeapStringIs, ListsOfFinite DEF Pending, StringMoved
\* A new string has no list.
<1>7. a \notin HeapStrings => ListsOf(a) = {}
  BY <1>1 DEF ListsOf, ArchiveOK
<1>8. ASSUME NEW b \in Addresses(archive')
      PROVE  /\ archive'.heap[b].rc >= 1
             /\ archive'.heap[b].interned => b \in HeapStrings'
  <2>1. CASE b \in Addresses(archive)
    <3>1. archive.heap[b].rc >= 1 /\ (archive.heap[b].interned => b \in HeapStrings)
      BY <2>1 DEF CountsOK
    <3>2. archive'.heap[b].interned = archive.heap[b].interned
      BY <1>3, <2>1 DEF SameKind
    <3>3. archive'.heap[b].rc >= 1
      BY <1>1, <1>3, <2>1, <3>1
    <3> QED
      BY <1>1, <3>1, <3>2, <3>3
  <2>2. CASE b \notin Addresses(archive)
    <3>1. b = a /\ a \notin HeapStrings
      BY <1>4, <1>6, <2>2
    <3> QED
      BY <1>1, <1>5, <3>1
  <2> QED
    BY <2>1, <2>2
<1>9. ASSUME NEW b \in HeapStrings'
      PROVE  archive'.heap[b].val \in DOMAIN interned
  <2>1. CASE b = a
    BY <2>1 DEF StringMoved
  <2>2. CASE b # a
    <3>1. b \in HeapStrings /\ b \in Addresses(archive)
      BY <1>1, <1>6, <2>2
    <3>2. archive'.heap[b].val = archive.heap[b].val
      BY <1>3, <3>1 DEF SameKind
    <3> QED
      BY <3>1, <3>2 DEF CountsOK
  <2> QED
    BY <2>1, <2>2
<1>10. ASSUME ~ Py312, NEW b \in HeapStrings'
       PROVE  archive'.heap[b].rc >= 2 * Cardinality(ListsOf(b))
                                     + (IF b = a THEN 1 ELSE 0)
  <2>1. CASE b \in HeapStrings
    <3>1. archive.heap[b].rc >= 2 * Cardinality(ListsOf(b))
      <4>1. archive.heap[b].rc >= 2 * Cardinality(ListsOf(b))
                                  + (IF Pending(b) /\ top.list = 0 THEN 1 ELSE 0)
        BY <1>10, <2>1 DEF CountsOK
      <4> QED
        BY <1>6, <2>1, <4>1
    <3>2. /\ archive'.heap[b].rc \in Int /\ archive.heap[b].rc \in Int
          /\ archive'.heap[b].rc >= archive.heap[b].rc
          /\ Cardinality(ListsOf(b)) \in Nat
      BY <1>1, <1>3, <1>6, <2>1
    <3>3. b = a => archive'.heap[b].rc = archive.heap[b].rc + 1
      BY <1>10, <2>1 DEF StringMoved
    <3> QED
      BY <3>1, <3>2, <3>3
  <2>2. CASE b \notin HeapStrings
    <3>1. b = a /\ ListsOf(b) = {} /\ archive'.heap[b].rc = 1
      BY <1>1, <1>5, <1>7, <2>2
    <3>2. Cardinality(ListsOf(b)) = 0
      BY <3>1, FS_EmptySet
    <3> QED
      BY <3>1, <3>2
  <2> QED
    BY <2>1, <2>2
<1>11. ASSUME ~ Py312, NEW j \in 1..Len(Lists), NEW b \in {Lists[j].str}
       PROVE  archive'.heap[b].rc >= RefCount(j) + 1 + (IF b = a THEN 1 ELSE 0)
  <2>1. b \in HeapStrings /\ RefCount(j) \in Nat
    BY <1>1, ArchiveIs DEF ArchiveOK, RefCount
  <2>2. archive.heap[b].rc >= RefCount(j) + 1
    <3>1. archive.heap[b].rc >= RefCount(j) + 1 + (IF Pending(b) THEN 1 ELSE 0)
      BY <1>11 DEF CountsOK
    <3> QED
      BY <1>6, <2>1, <3>1
  <2>3. /\ archive'.heap[b].rc \in Int /\ archive.heap[b].rc \in Int
        /\ archive'.heap[b].rc >= archive.heap[b].rc
    BY <1>1, <1>3, <1>6, <2>1
  <2>4. b = a => archive'.heap[b].rc = archive.heap[b].rc + 1
    BY <1>11, <2>1 DEF StringMoved
  <2> QED
    BY <2>1, <2>2, <2>3, <2>4
<1>12. \A j : RefCount(j)' = RefCount(j)
  BY <1>1 DEF RefCount
<1>13. ASSUME ~ Py312, NEW b \in HeapStrings'
       PROVE  archive'.heap[b].rc >= 2 * Cardinality(ListsOf(b)')
                                     + (IF Pending(b)' /\ top'.list = 0 THEN 1 ELSE 0)
  BY <1>1, <1>2, <1>10, <1>13
<1>14. ASSUME ~ Py312, NEW j \in 1..Len(Lists), NEW b \in {Lists[j].str}
       PROVE  archive'.heap[b].rc >= RefCount(j)' + 1 + (IF Pending(b)' THEN 1 ELSE 0)
  BY <1>1, <1>11, <1>12, <1>14
<1>15. Py312' = Py312
  BY <1>1 DEF Py312, PyMinor
<1> QED
  BY <1>1, <1>8, <1>9, <1>13, <1>14, <1>15 DEF CountsOK

LEMMA StringListedCounts ==
    ASSUME MoveOK, StringsOK, CountsOK, NEW n, StringListed(n)
    PROVE  CountsOK'
<1> DEFINE a == top.res
<1>1. /\ HeapStrings' = HeapStrings /\ Addresses(archive') = Addresses(archive) /\ env' = env
      /\ ArchiveOK /\ ArchiveOK' /\ interned' = interned
      /\ \A b \in Addresses(archive) : archive'.heap[b].rc >= archive.heap[b].rc
      /\ \A b \in Addresses(archive) : SameKind(archive'.heap[b], archive.heap[b])
      /\ \A b : (Pending(b)' <=> b = a) /\ (Pending(b) <=> b = a)
      /\ top.list = 0 /\ top'.list # 0 /\ a \in HeapStrings
  BY DEF StringListed, MoveOK, ArchiveGrows
<1>2. Py312' = Py312
  BY <1>1 DEF Py312, PyMinor
<1>3. \A b \in Addresses(archive) : archive.heap[b].rc \in Int /\ archive'.heap[b].rc \in Int
  BY <1>1, ArchiveIs DEF ArchiveOK
<1>4. \A b \in HeapStrings : b \in Addresses(archive) /\ Cardinality(ListsOf(b)) \in Nat
  BY <1>1, HeapStringIs, ListsOfFinite
<1>5. Len(Lists) \in Nat /\ \A j \in 1..Len(Lists) : RefCount(j) \in Nat
                                                     /\ Lists[j].str \in HeapStrings
  BY <1>1, ArchiveIs DEF ArchiveOK, RefCount
\* Either nothing changes, or the string gets its list.
<1>6. \/ Lists' = Lists
      \/ /\ n = Len(Lists) + 1 /\ Len(Lists') = n
         /\ Lists'[n].str = a /\ Lists'[n].refs = <<>>
         /\ \A j \in 1..Len(Lists) : Lists'[j] = Lists[j]
         /\ ~ Py312 => archive'.heap[a].rc = archive.heap[a].rc + 1
  BY DEF StringListed
<1> HIDE DEF a
<1>7. ASSUME NEW b \in Addresses(archive)
      PROVE  /\ archive'.heap[b].rc >= 1
             /\ archive'.heap[b].interned => b \in HeapStrings
  <2>1. archive.heap[b].rc >= 1 /\ (archive.heap[b].interned => b \in HeapStrings)
    BY DEF CountsOK
  <2>2. archive'.heap[b].interned = archive.heap[b].interned
    BY <1>1 DEF SameKind
  <2>3. archive'.heap[b].rc >= 1
    BY <1>1, <1>3, <2>1
  <2> QED
    BY <2>1, <2>2, <2>3
<1>8. ASSUME NEW b \in HeapStrings PROVE archive'.heap[b].val \in DOMAIN interned
  BY <1>1, <1>4 DEF CountsOK, SameKind
<1>9. ASSUME ~ Py312, NEW b \in HeapStrings
      PROVE  archive'.heap[b].rc >= 2 * Cardinality(ListsOf(b)')
  <2>1. archive.heap[b].rc >= 2 * Cardinality(ListsOf(b)) + (IF b = a THEN 1 ELSE 0)
    BY <1>1, <1>9 DEF CountsOK
  <2>2. /\ archive'.heap[b].rc \in Int /\ archive.heap[b].rc \in Int
        /\ archive'.heap[b].rc >= archive.heap[b].rc
        /\ Cardinality(ListsOf(b)) \in Nat
    BY <1>1, <1>3, <1>4
  <2>3. CASE ListsOf(b)' = ListsOf(b)
    BY <2>1, <2>2, <2>3
  <2>4. CASE ListsOf(b)' # ListsOf(b)
    <3>1. /\ n = Len(Lists) + 1 /\ Len(Lists') = n /\ Lists'[n].str = a
          /\ \A j \in 1..Len(Lists) : Lists'[j] = Lists[j]
          /\ archive'.heap[a].rc = archive.heap[a].rc + 1
      BY <1>6, <1>9, <2>4 DEF ListsOf
    <3>2. \A j : j \in 1..n <=> j \in 1..Len(Lists) \/ j = n
      BY <1>5, <3>1
    <3>3. b = a /\ ListsOf(b)' = ListsOf(b) \cup {n} /\ n \notin ListsOf(b)
      <4>1. b = a
        BY <2>4, <3>1, <3>2 DEF ListsOf
      <4>2. n \notin 1..Len(Lists)
        BY <1>5, <3>1
      <4> QED
        BY <3>1, <3>2, <4>1, <4>2 DEF ListsOf
    <3>4. Cardinality(ListsOf(b)') = Cardinality(ListsOf(b)) + 1
      BY SMTT(20), <1>1, <3>3, ListsOfFinite, FS_AddElement
    <3> QED
      BY <2>1, <2>2, <3>1, <3>3, <3>4
  <2> QED
    BY <2>3, <2>4
<1>10. ASSUME ~ Py312, NEW j \in 1..Len(Lists'), NEW b \in {Lists'[j].str}
       PROVE  archive'.heap[b].rc >= RefCount(j)' + 1 + (IF b = a THEN 1 ELSE 0)
  <2>1. CASE j \in 1..Len(Lists)
    <3>1. Lists'[j] = Lists[j]
      BY <1>6, <2>1
    <3>2. b \in HeapStrings /\ b = Lists[j].str /\ RefCount(j) \in Nat
      BY <1>5, <2>1, <3>1
    <3>3. RefCount(j)' = RefCount(j)
      BY <3>1 DEF RefCount
    <3>4. archive.heap[b].rc >= RefCount(j) + 1 + (IF b = a THEN 1 ELSE 0)
      BY <1>1, <1>10, <2>1, <3>2 DEF CountsOK, RefCount
    <3>5. /\ archive'.heap[b].rc \in Int /\ archive.heap[b].rc \in Int
          /\ archive'.heap[b].rc >= archive.heap[b].rc
      BY <1>1, <1>3, <1>4, <3>2
    <3> QED
      BY <3>2, <3>3, <3>4, <3>5
  <2>2. CASE j \notin 1..Len(Lists)
    <3>1. /\ n = Len(Lists) + 1 /\ Len(Lists') = n /\ Lists'[n].str = a
          /\ Lists'[n].refs = <<>> /\ archive'.heap[a].rc = archive.heap[a].rc + 1
      BY <1>6, <1>10, <2>2
    <3>2. j = n /\ b = a
      BY <1>5, <2>2, <3>1
    <3>3. RefCount(j)' = 0
      BY <3>1, <3>2, EmptyList DEF RefCount
    <3>4. archive.heap[b].rc >= 2 * Cardinality(ListsOf(b)) + 1
      BY <1>1, <1>10, <3>2 DEF CountsOK
    <3>5. archive.heap[b].rc \in Int /\ Cardinality(ListsOf(b)) \in Nat
      BY <1>1, <1>3, <1>4, <3>2
    <3> QED
      BY <3>1, <3>2, <3>3, <3>4, <3>5
  <2> QED
    BY <2>1, <2>2
<1>11. ASSUME ~ Py312, NEW b \in HeapStrings'
       PROVE  archive'.heap[b].rc >= 2 * Cardinality(ListsOf(b)')
                                     + (IF Pending(b)' /\ top'.list = 0 THEN 1 ELSE 0)
  <2>1. archive'.heap[b].rc \in Int /\ Cardinality(ListsOf(b)') \in Nat
    <3>1. IsFiniteSet(ListsOf(b)') /\ Cardinality(ListsOf(b)') \in Nat
      <4>1. Len(Lists') \in Nat
        BY <1>1, ArchiveIs DEF ArchiveOK
      <4>2. IsFiniteSet(1..Len(Lists'))
        BY <4>1, FS_Interval
      <4>3. IsFiniteSet(ListsOf(b)')
        BY <4>2, FS_Subset DEF ListsOf
      <4> QED
        BY <4>3, FS_CardinalityType
    <3> QED
      BY <1>1, <1>3, <1>4, <3>1
  <2> QED
    BY <1>1, <1>9, <1>11, <2>1
<1>12. ASSUME ~ Py312, NEW j \in 1..Len(Lists'), NEW b \in {Lists'[j].str}
       PROVE  archive'.heap[b].rc >= RefCount(j)' + 1 + (IF Pending(b)' THEN 1 ELSE 0)
  BY <1>1, <1>10, <1>12
<1> QED
  BY <1>1, <1>2, <1>7, <1>8, <1>11, <1>12 DEF CountsOK

LEMMA SlotRecordedCounts ==
    ASSUME MoveOK, StringsOK, CountsOK, SlotRecorded
    PROVE  CountsOK'
<1>1. /\ HeapStrings' = HeapStrings /\ archive'.heap = archive.heap /\ env' = env
      /\ ArchiveOK /\ interned' = interned
      /\ \A b : Pending(b) <=> b = top.res
      /\ \A b \in HeapStrings : ~ Pending(b)'
      /\ Len(Lists') = Len(Lists) /\ top.list \in 1..Len(Lists)
      /\ Lists[top.list].str = top.res
      /\ \A j \in 1..Len(Lists) : Lists'[j].str = Lists[j].str
      /\ \A j \in 1..Len(Lists) : j # top.list => Lists'[j] = Lists[j]
  BY DEF SlotRecorded, MoveOK, ArchiveGrows
<1>2. Py312' = Py312 /\ Addresses(archive') = Addresses(archive)
  BY <1>1 DEF Py312, PyMinor, Addresses
<1>3. \A b \in Addresses(archive) : archive.heap[b].rc \in Int
  BY <1>1, ArchiveIs DEF ArchiveOK
<1>4. \A b \in HeapStrings : b \in Addresses(archive) /\ Cardinality(ListsOf(b)) \in Nat
  BY <1>1, HeapStringIs, ListsOfFinite
<1>5. \A j \in 1..Len(Lists) : RefCount(j) \in Nat /\ Lists[j].str \in HeapStrings
  BY <1>1, ArchiveIs DEF ArchiveOK, RefCount
<1>6. \A b : ListsOf(b)' = ListsOf(b)
  BY <1>1 DEF ListsOf
<1>7. \A j \in 1..Len(Lists) : RefCount(j)' = IF j = top.list THEN RefCount(j) + 1
                                              ELSE RefCount(j)
  BY <1>1 DEF RefCount, SlotRecorded
<1>8. ASSUME ~ Py312, NEW b \in HeapStrings
      PROVE  archive.heap[b].rc >= 2 * Cardinality(ListsOf(b)')
                                   + (IF Pending(b)' /\ top'.list = 0 THEN 1 ELSE 0)
  <2>1. archive.heap[b].rc >= 2 * Cardinality(ListsOf(b))
                              + (IF Pending(b) /\ top.list = 0 THEN 1 ELSE 0)
    BY <1>8 DEF CountsOK
  <2>2. archive.heap[b].rc \in Int /\ Cardinality(ListsOf(b)) \in Nat
    BY <1>3, <1>4
  <2> QED
    BY <1>1, <1>6, <2>1, <2>2
<1>9. ASSUME ~ Py312, NEW j \in 1..Len(Lists), NEW b \in {Lists[j].str}
      PROVE  archive.heap[b].rc >= RefCount(j)' + 1 + (IF Pending(b)' THEN 1 ELSE 0)
  <2>1. b \in HeapStrings /\ archive.heap[b].rc \in Int /\ RefCount(j) \in Nat
    BY <1>3, <1>4, <1>5
  <2>2. archive.heap[b].rc >= RefCount(j) + 1 + (IF Pending(b) THEN 1 ELSE 0)
    BY <1>9 DEF CountsOK, RefCount
  <2>3. j = top.list => Pending(b)
    BY <1>1
  <2> QED
    BY <1>1, <1>7, <2>1, <2>2, <2>3
<1>10. \A b \in Addresses(archive) :
           archive.heap[b].rc >= 1 /\ (archive.heap[b].interned => b \in HeapStrings)
  BY DEF CountsOK
<1>11. \A b \in HeapStrings : archive.heap[b].val \in DOMAIN interned
  BY DEF CountsOK
<1> QED
  BY <1>1, <1>2, <1>8, <1>9, <1>10, <1>11 DEF CountsOK

-----------------------------------------------------------------------------
(* The whole invariant of a dump. *)

DumpOK == MoveOK /\ StringsOK /\ CountsOK

LEMMA DumpStep ==
    ASSUME DumpOK, env' = env, NextDump
    PROVE  DumpOK'
<1>1. MoveOK /\ StringsOK /\ CountsOK
  BY DEF DumpOK
<1>2. CASE Quiet
  <2>1. MoveOK'
    BY <1>2 DEF Quiet
  <2> QED
    BY <1>1, <1>2, <2>1, QuietStrings, QuietCounts DEF DumpOK
<1>3. ASSUME NEW a, StringMoved(a) PROVE DumpOK'
  <2>1. MoveOK'
    BY <1>3 DEF StringMoved
  <2> QED
    BY <1>1, <1>3, <2>1, StringMovedStrings, StringMovedCounts DEF DumpOK
<1>4. ASSUME NEW n, StringListed(n) PROVE DumpOK'
  <2>1. MoveOK'
    BY <1>4 DEF StringListed
  <2> QED
    BY <1>1, <1>4, <2>1, StringListedStrings, StringListedCounts DEF DumpOK
<1>5. CASE SlotRecorded
  <2>1. MoveOK'
    BY <1>5 DEF SlotRecorded
  <2> QED
    BY <1>1, <1>5, <2>1, SlotRecordedStrings, SlotRecordedCounts DEF DumpOK
<1> QED
  BY <1>1, <1>2, <1>3, <1>4, <1>5, MoveStep

LEMMA DumpStays ==
    ASSUME DumpOK, UNCHANGED <<env, dumpVars>>
    PROVE  DumpOK'
<1>1. UNCHANGED <<env, src, root, interned, archive, orig_map, str_map, stack,
                  traverse_error, dumper>>
  BY DEF dumpVars
<1>2. MoveOK /\ StringsOK /\ CountsOK
  BY DEF DumpOK
<1>3. SourceGrows
  BY <1>1, <1>2, SourceSame DEF MoveOK
<1>4. dumper' = "returned" => stack = <<>>
  BY <1>1, <1>2 DEF MoveOK, StackOK
<1>5. Quiet
  BY <1>1, <1>2, <1>3, <1>4, SameQuiet
<1>6. MoveOK'
  BY <1>5 DEF Quiet
<1> QED
  BY <1>2, <1>5, <1>6, QuietStrings, QuietCounts DEF DumpOK

\* The graph of an input.
LEMMA GraphIs ==
    ASSUME NEW g \in Graphs
    PROVE  LET nodes == DOMAIN g.src IN
           /\ g.src \in Seq(Objects) /\ g.root \in nodes
           /\ nodes \subseteq Nat /\ NULL \notin nodes
           /\ \A n \in nodes : \A i \in 1..Len(g.src[n].items) :
                  g.src[n].items[i] \in nodes \cup {NULL}
           /\ \A n \in nodes : g.src[n].kind = "str" => g.src[n].val \in DOMAIN g.interned
           /\ g.interned \in [DOMAIN g.interned -> nodes \cup {NULL}]
           /\ \A v \in DOMAIN g.interned : g.interned[v] # NULL =>
                  g.src[g.interned[v]].kind = "str" /\ g.src[g.interned[v]].val = v
           /\ \A n \in nodes : g.src[n].static => g.src[n].val \in StaticStrs
           /\ \A v \in DOMAIN g.interned \cap IdStrs :
                  g.interned[v] # NULL /\ g.src[g.interned[v]].static
<1> DEFINE nodes == DOMAIN g.src
           R == [kind : {"str", "atom", "basic", "other"} \cup Containers,
                 val : 0..(Span - 1), items : Seq(nodes \cup {NULL}), static : BOOLEAN]
<1>1. /\ g.src \in Seq(R) /\ NULL \notin nodes /\ g.root \in nodes
      /\ g.interned \in [DOMAIN g.interned -> nodes \cup {NULL}]
      /\ \A n \in nodes : g.src[n].kind = "str" => g.src[n].val \in DOMAIN g.interned
      /\ \A v \in DOMAIN g.interned : g.interned[v] # NULL =>
             g.src[g.interned[v]].kind = "str" /\ g.src[g.interned[v]].val = v
      /\ \A n \in nodes : g.src[n].static => g.src[n].val \in StaticStrs
      /\ \A v \in DOMAIN g.interned \cap IdStrs :
             g.interned[v] # NULL /\ g.src[g.interned[v]].static
  BY GraphsAssumption
<1> DEFINE l == Len(g.src)
<1>2. l \in Nat /\ nodes = 1..l /\ g.src \in [1..l -> R]
  BY <1>1, LenProperties
<1> HIDE DEF l, R
<1>3. nodes \subseteq Nat
  BY <1>2
<1>4. ASSUME NEW n \in nodes
      PROVE  /\ g.src[n] \in Objects
             /\ \A i \in 1..Len(g.src[n].items) : g.src[n].items[i] \in nodes \cup {NULL}
  <2> DEFINE o == g.src[n]
             N == nodes \cup {NULL}
             k == Len(o.items)
  <2>1. o \in R
    BY <1>2
  <2>2. /\ o.items \in Seq(N) /\ o.val \in 0..(Span - 1)
        /\ o.kind \in {"str", "atom", "basic", "other"} \cup Containers
        /\ o.static \in BOOLEAN
        /\ o = [kind |-> o.kind, val |-> o.val, items |-> o.items, static |-> o.static]
    BY <2>1 DEF R
  <2>3. N \subseteq Nat
    BY <1>3 DEF NULL
  <2> HIDE DEF N, o
  <2>4. k \in Nat /\ o.items \in [1..k -> N]
    BY <2>2, LenProperties
  <2> HIDE DEF k
  <2>5. o.items \in [1..k -> Nat]
    BY <2>3, <2>4
  <2>6. o.items \in Seq(Nat)
    BY <2>4, <2>5
  <2>7. o \in Objects
    BY <2>2, <2>6 DEF Objects
  <2> QED
    BY <2>4, <2>7 DEF o, N, k
<1>5. g.src \in [1..l -> Objects]
  BY <1>2, <1>4
<1>6. g.src \in Seq(Objects)
  BY <1>2, <1>5
<1> QED
  BY <1>1, <1>3, <1>4, <1>6

LEMMA DumpInit ==
    ASSUME env \in Environments, InitDump
    PROVE  DumpOK
<1>1. PICK g \in Graphs : src = g.src /\ root = g.root /\ interned = g.interned
  BY DEF InitDump
<1>2. SourceOK /\ Nodes \subseteq Nat /\ NULL \notin Nodes
  BY <1>1, GraphIs DEF SourceOK, Nodes
<1>3. /\ archive = [none_base |-> DumpBase, obj |-> NULL, all_string_ref |-> <<>>,
                    used |-> 0, heap |-> <<>>]
      /\ DumpBase \in Nat /\ HeapCells \in Nat /\ HeapCells < DumpBase
  BY DumpBaseAssumption, EnvironmentsAssumption DEF InitDump, EmptyArchive, HeapCells
<1>4. <<>> \in Seq(RefLists) /\ <<>> \in Seq(HeapObjects) /\ Len(<<>>) = 0
  BY EmptySeq
<1>5. /\ archive \in Archives /\ archive.none_base = DumpBase /\ archive.used = 0
      /\ Len(archive.heap) = 0 /\ Len(Lists) = 0 /\ archive.obj = NULL
  BY <1>3, <1>4 DEF Archives, Lists, NULL
<1>6. Addresses(archive) = {} /\ HeapStrings = {} /\ 1..Len(Lists) = {}
  BY <1>5 DEF Addresses, HeapStrings
<1>7. Slots(archive) = {Root} /\ GetSlot(archive, Root) = NULL
  BY <1>5, <1>6 DEF Slots, Addresses, GetSlot
<1>8. ArchiveOK
  BY <1>3, <1>5, <1>6 DEF ArchiveOK
<1>9. TablesOK
  <2>1. orig_map = [n \in Nodes |-> NULL] /\ str_map = [a \in 1..HeapCells |-> 0]
    BY DEF InitDump
  <2> QED
    BY <2>1 DEF TablesOK, NULL
<1> DEFINE f == Frame(root, Root, Root)
<1>10. /\ f \in Frames /\ f.op = root /\ f.target = Root /\ f.source_ref = Root
       /\ f.res = NULL /\ f.list = 0 /\ f.i = 1
  <2>1. root \in Nat /\ Root \in Nat \X Nat
    BY <1>2 DEF Root, SourceOK
  <2> QED
    BY <2>1 DEF Frame, Frames, NULL
<1> HIDE DEF f
<1>11. /\ stack = <<f>> /\ traverse_error = FALSE /\ dumper = "running"
  BY DEF InitDump, f
<1>12. stack \in Seq(Frames) /\ Len(stack) = 1 /\ stack[1] = f
  BY <1>10, <1>11
<1>13. FrameOK(f) /\ ~ Open(f)
  BY <1>2, <1>7, <1>10 DEF FrameOK, Open, SourceOK
<1>14. StackOK
  <2>1. \A k \in 1..Len(stack) : k = 1 /\ stack[k] = f
    BY <1>12
  <2>2. 1..(Len(stack) - 1) = {}
    BY <1>12
  <2> QED
    BY <1>10, <1>11, <1>12, <1>13, <2>1, <2>2 DEF StackOK
<1>15. StringsOK
  <2>1. Pointers
    BY <1>7 DEF Pointers, IsPointer
  <2> QED
    BY <1>6, <2>1 DEF StringsOK, RefsSound, Recorded, OneList, OneRef, OneCopy
<1>16. CountsOK
  BY <1>6 DEF CountsOK
<1> QED
  BY <1>2, <1>8, <1>9, <1>14, <1>15, <1>16 DEF DumpOK, MoveOK

-----------------------------------------------------------------------------
(* What the source stands for.  A value is a fold over the graph: two folds *)
(* agree where their graphs correspond (FoldsAgree), so that putting an     *)
(* equal string in the place of another changes no value.                   *)

GraphBranch(g) == {n \in DOMAIN g : g[n].kind \in Containers}

GraphTag(o) == IF o.kind = "code" THEN "code" ELSE "tuple"

GraphLeaf(g, n) == IF n = NULL THEN <<"null">> ELSE <<g[n].kind, g[n].val>>

\* A graph whose containers have no cycles.
GraphOK(g) ==
    /\ g \in Seq(Objects)
    /\ \A n \in DOMAIN g : \A i \in 1..Len(g[n].items) : g[n].items[i] \in DOMAIN g \cup {NULL}
    /\ Grounded(DOMAIN g \cup {NULL}, GraphBranch(g), [n \in DOMAIN g |-> g[n].items])

LEMMA NodeIs ==
    ASSUME NEW g, GraphOK(g), NEW n \in DOMAIN g
    PROVE  /\ g[n] \in Objects /\ n # NULL /\ n \in Nat
           /\ g[n].items \in Seq(Nat) /\ Len(g[n].items) \in Nat
           /\ DOMAIN g[n].items = 1..Len(g[n].items)
           /\ \A i \in 1..Len(g[n].items) : g[n].items[i] \in DOMAIN g \cup {NULL}
<1>1. g \in Seq(Objects) /\ DOMAIN g = 1..Len(g) /\ Len(g) \in Nat
  BY LenProperties DEF GraphOK
<1>2. g[n] \in Objects /\ n # NULL /\ n \in Nat
  BY <1>1 DEF NULL
<1>3. g[n].items \in Seq(Nat)
  BY <1>2 DEF Objects
<1> QED
  BY <1>2, <1>3, LenProperties DEF GraphOK

LEMMA GraphValueIs ==
    ASSUME NEW g, GraphOK(g), NEW n \in DOMAIN g \cup {NULL}
    PROVE  GraphValue(g, n) =
               IF n \in GraphBranch(g)
               THEN <<GraphTag(g[n]),
                      [i \in DOMAIN g[n].items |-> GraphValue(g, g[n].items[i])]>>
               ELSE GraphLeaf(g, n)
<1> DEFINE D == DOMAIN g \cup {NULL}
           B == GraphBranch(g)
           items == [q \in DOMAIN g |-> g[q].items]
           tag == [q \in DOMAIN g |-> GraphTag(g[q])]
           leaf == [q \in D |-> GraphLeaf(g, q)]
           Body(f) == [q \in DOMAIN g \cup {NULL} |->
                          IF q = NULL THEN <<"null">>
                          ELSE IF g[q].kind \in Containers
                          THEN <<IF g[q].kind = "code" THEN "code" ELSE "tuple",
                                 [i \in DOMAIN g[q].items |-> f[g[q].items[i]]]>>
                          ELSE <<g[q].kind, g[q].val>>]
           v == CHOOSE f : f = Body(f)
<1>1. \A q : GraphValue(g, q) = v[q]
  BY DEF GraphValue
<1>2. NULL \notin B /\ B \subseteq DOMAIN g
  BY NodeIs DEF GraphBranch
<1>3. \A q \in D \cap B : \A i \in DOMAIN items[q] : items[q][i] \in D
  BY <1>2, NodeIs
<1>4. Grounded(D, B, items)
  BY DEF GraphOK
<1> DEFINE fold(f) == Fold(f, D, B, tag, items, leaf)
<1>5. ASSUME NEW f PROVE fold(f) = Body(f)
  <2>1. ASSUME NEW q \in D PROVE fold(f)[q] = Body(f)[q]
    <3>1. CASE q \in B
      BY <1>2, <3>1 DEF Fold, GraphBranch, GraphTag
    <3>2. CASE q \notin B
      BY <3>2 DEF Fold, GraphBranch, GraphLeaf
    <3> QED
      BY <3>1, <3>2
  <2> QED
    BY <2>1 DEF Fold
<1> HIDE DEF B, items, tag, leaf, D
<1>6. \E f : f = fold(f)
  BY <1>3, <1>4, FoldExists
<1> HIDE DEF Body
<1>7. v = Body(v)
  BY <1>5, <1>6
<1> HIDE DEF v
<1>8. v = fold(v)
  BY <1>5, <1>7
<1>9. v[n] = IF n \in B THEN <<tag[n], [i \in DOMAIN items[n] |-> v[items[n][i]]]>>
             ELSE leaf[n]
  BY <1>8 DEF Fold, D
<1>10. CASE n \in B
  <2>1. n \in DOMAIN g /\ items[n] = g[n].items /\ tag[n] = GraphTag(g[n])
    BY <1>10 DEF B, GraphBranch, items, tag
  <2>2. [i \in DOMAIN g[n].items |-> v[g[n].items[i]]]
        = [i \in DOMAIN g[n].items |-> GraphValue(g, g[n].items[i])]
    BY <1>1
  <2> QED
    BY <1>1, <1>9, <1>10, <2>1, <2>2 DEF B
<1>11. CASE n \notin B
  BY <1>1, <1>9, <1>11 DEF B, leaf, D
<1> QED
  BY <1>10, <1>11

LEMMA GraphValueFolds ==
    ASSUME NEW g, GraphOK(g)
    PROVE  LET D == DOMAIN g \cup {NULL} IN
           Folded([n \in D |-> GraphValue(g, n)], D, GraphBranch(g),
                  [n \in DOMAIN g |-> GraphTag(g[n])], [n \in DOMAIN g |-> g[n].items],
                  [n \in D |-> GraphLeaf(g, n)])
<1> DEFINE D == DOMAIN g \cup {NULL}
           f == [n \in D |-> GraphValue(g, n)]
           B == GraphBranch(g)
           tag == [n \in DOMAIN g |-> GraphTag(g[n])]
           items == [n \in DOMAIN g |-> g[n].items]
           leaf == [n \in D |-> GraphLeaf(g, n)]
<1> SUFFICES ASSUME NEW n \in D
             PROVE  f[n] = IF n \in B
                           THEN <<tag[n], [i \in DOMAIN items[n] |-> f[items[n][i]]]>>
                           ELSE leaf[n]
  BY DEF Folded
<1>1. f[n] = IF n \in B
             THEN <<GraphTag(g[n]), [i \in DOMAIN g[n].items |-> GraphValue(g, g[n].items[i])]>>
             ELSE GraphLeaf(g, n)
  BY GraphValueIs
<1>2. CASE n \in B
  <2>1. n \in DOMAIN g
    BY <1>2 DEF GraphBranch
  <2>2. items[n] = g[n].items /\ tag[n] = GraphTag(g[n])
    BY <2>1
  <2>3. \A i \in DOMAIN g[n].items : g[n].items[i] \in D
    BY <2>1, NodeIs
  <2>4. [i \in DOMAIN g[n].items |-> GraphValue(g, g[n].items[i])]
        = [i \in DOMAIN g[n].items |-> f[g[n].items[i]]]
    BY <2>3
  <2> HIDE DEF f, items, tag, B, D
  <2> QED
    BY <1>1, <1>2, <2>2, <2>4
<1>3. CASE n \notin B
  BY <1>1, <1>3
<1> QED
  BY <1>2, <1>3

\* The same node, or a string that is equal.
EqualNodes(g, n, m) ==
    \/ n = m
    \/ /\ n \in DOMAIN g /\ m \in DOMAIN g
       /\ g[n].kind = "str" /\ g[m].kind = "str" /\ g[n].val = g[m].val

\* Items of h are those of g, or equal strings.
ItemsReplaced(g, h) ==
    /\ DOMAIN h = DOMAIN g
    /\ \A n \in DOMAIN g :
          /\ h[n].kind = g[n].kind /\ h[n].val = g[n].val /\ Len(h[n].items) = Len(g[n].items)
          /\ \A i \in 1..Len(g[n].items) : EqualNodes(g, g[n].items[i], h[n].items[i])

LEMMA StringIsLeaf ==
    ASSUME NEW g, NEW n \in DOMAIN g, g[n].kind = "str"
    PROVE  n \notin GraphBranch(g)
BY DEF GraphBranch, Containers

LEMMA ReplacedGrounded ==
    ASSUME NEW g, GraphOK(g), NEW h \in Seq(Objects), ItemsReplaced(g, h)
    PROVE  GraphOK(h)
<1> DEFINE D == DOMAIN g \cup {NULL}
           items == [n \in DOMAIN g |-> g[n].items]
           items2 == [n \in DOMAIN h |-> h[n].items]
<1>1. DOMAIN h = DOMAIN g /\ GraphBranch(h) = GraphBranch(g)
  BY DEF ItemsReplaced, GraphBranch
<1>2. ASSUME NEW n \in DOMAIN g, NEW i \in 1..Len(h[n].items)
      PROVE  /\ h[n].items[i] \in D
             /\ g[n].items[i] = h[n].items[i] \/ h[n].items[i] \notin GraphBranch(g)
  <2>1. g[n].items[i] \in D /\ EqualNodes(g, g[n].items[i], h[n].items[i])
    BY <1>2, NodeIs DEF ItemsReplaced
  <2> QED
    BY <2>1, StringIsLeaf DEF EqualNodes
<1>3. ASSUME NEW T \in SUBSET D, T # {}
      PROVE  \E p \in T : p \in GraphBranch(g) => \A i \in DOMAIN items2[p] : items2[p][i] \notin T
  <2>1. CASE \E p \in T : p \notin GraphBranch(g)
    BY <2>1
  <2>2. CASE \A p \in T : p \in GraphBranch(g)
    <3>1. PICK p \in T : p \in GraphBranch(g) => \A i \in DOMAIN items[p] : items[p][i] \notin T
      BY <1>3 DEF GraphOK, Grounded
    <3>2. p \in DOMAIN g /\ p \in GraphBranch(g)
      BY <2>2 DEF GraphBranch
    <3>3. /\ items[p] = g[p].items /\ items2[p] = h[p].items
          /\ DOMAIN items2[p] = DOMAIN items[p] /\ DOMAIN items2[p] = 1..Len(h[p].items)
      <4>1. h[p].items \in Seq(Nat)
        <5>1. p \in 1..Len(h)
          BY <1>1, <3>2
        <5>2. h[p] \in Objects
          BY <5>1
        <5> QED
          BY <5>2 DEF Objects
      <4>2. g[p].items \in Seq(Nat) /\ Len(h[p].items) = Len(g[p].items)
        BY <3>2, NodeIs DEF ItemsReplaced
      <4> QED
        BY <1>1, <3>2, <4>1, <4>2, LenProperties
    <3>4. ASSUME NEW i \in DOMAIN items2[p] PROVE items2[p][i] \notin T
      <4>1. g[p].items[i] \notin T
        BY <3>1, <3>2, <3>3
      <4> QED
        BY <1>2, <2>2, <3>2, <3>3, <4>1
    <3> QED
      BY <3>4
  <2> QED
    BY <2>1, <2>2
<1>4. Grounded(D, GraphBranch(g), items2)
  BY <1>3 DEF Grounded
<1> QED
  BY <1>1, <1>2, <1>4 DEF GraphOK

LEMMA ReplacedKeepsValues ==
    ASSUME NEW g, GraphOK(g), NEW h \in Seq(Objects), ItemsReplaced(g, h)
    PROVE  \A n \in DOMAIN g \cup {NULL} : \A m :
               EqualNodes(g, n, m) => GraphValue(h, m) = GraphValue(g, n)
<1> DEFINE D == DOMAIN g \cup {NULL}
           f == [n \in D |-> GraphValue(g, n)]
           B == GraphBranch(g)
           tag == [n \in DOMAIN g |-> GraphTag(g[n])]
           items == [n \in DOMAIN g |-> g[n].items]
           leaf == [n \in D |-> GraphLeaf(g, n)]
           E == DOMAIN h \cup {NULL}
           f2 == [n \in E |-> GraphValue(h, n)]
           C == GraphBranch(h)
           tag2 == [n \in DOMAIN h |-> GraphTag(h[n])]
           items2 == [n \in DOMAIN h |-> h[n].items]
           leaf2 == [n \in E |-> GraphLeaf(h, n)]
           R == {r \in D \X E : EqualNodes(g, r[1], r[2])}
<1>1. GraphOK(h) /\ DOMAIN h = DOMAIN g /\ C = B
  BY ReplacedGrounded DEF ItemsReplaced, GraphBranch
<1>2. Folded(f, D, B, tag, items, leaf) /\ Folded(f2, E, C, tag2, items2, leaf2)
  BY <1>1, GraphValueFolds
<1>3. Grounded(D, B, items)
  BY DEF GraphOK
<1>4. NULL \notin DOMAIN g
  BY NodeIs
<1>5. ASSUME NEW r \in R
      PROVE  /\ r[1] \in D /\ r[2] \in E /\ (r[1] \in B <=> r[2] \in C)
             /\ r[1] \in B => /\ tag[r[1]] = tag2[r[2]]
                              /\ DOMAIN items[r[1]] = DOMAIN items2[r[2]]
                              /\ \A i \in DOMAIN items[r[1]] :
                                     <<items[r[1]][i], items2[r[2]][i]>> \in R
             /\ r[1] \notin B => leaf[r[1]] = leaf2[r[2]]
  <2> DEFINE n == r[1]
             m == r[2]
  <2>1. n \in D /\ m \in E /\ EqualNodes(g, n, m)
    OBVIOUS
  <2>2. CASE n \in B
    <3>1. n \in DOMAIN g /\ m = n
      BY <2>1, <2>2, StringIsLeaf DEF EqualNodes, GraphBranch
    <3>2. tag[n] = tag2[m]
      BY <1>1, <3>1 DEF ItemsReplaced, GraphTag
    <3>3. items[n] = g[n].items /\ items2[m] = h[n].items
      BY <1>1, <3>1
    <3>4. DOMAIN items[n] = 1..Len(g[n].items) /\ DOMAIN items2[m] = 1..Len(g[n].items)
      BY <1>1, <3>1, <3>3, NodeIs DEF ItemsReplaced
    <3>5. ASSUME NEW i \in DOMAIN items[n] PROVE <<items[n][i], items2[m][i]>> \in R
      <4>1. items[n][i] \in D /\ items2[m][i] \in E
        BY <1>1, <3>1, <3>3, <3>4, NodeIs
      <4>2. EqualNodes(g, items[n][i], items2[m][i])
        BY <3>1, <3>3, <3>4 DEF ItemsReplaced
      <4> QED
        BY <4>1, <4>2
    <3> QED
      BY <1>1, <2>1, <2>2, <3>1, <3>2, <3>4, <3>5
  <2>3. CASE n \notin B
    <3>1. m \notin B
      BY <2>1, <2>3, StringIsLeaf DEF EqualNodes
    <3>2. leaf[n] = leaf2[m]
      BY <1>1, <1>4, <2>1 DEF EqualNodes, GraphLeaf, ItemsReplaced
    <3> QED
      BY <1>1, <2>1, <2>3, <3>1, <3>2
  <2> QED
    BY <2>2, <2>3
<1> HIDE DEF B, tag, items, leaf, C, tag2, items2, leaf2, f, f2, R, D, E
<1>6. Corresponds(R, D, B, tag, items, leaf, E, C, tag2, items2, leaf2)
  BY <1>5 DEF Corresponds
<1>7. \A r \in R : f[r[1]] = f2[r[2]]
  BY <1>2, <1>3, <1>6, FoldsAgree
<1>8. ASSUME NEW n \in D, NEW m, EqualNodes(g, n, m) PROVE GraphValue(h, m) = GraphValue(g, n)
  <2>1. m \in E
    BY <1>1, <1>8 DEF EqualNodes, D, E
  <2>2. <<n, m>> \in R
    BY <1>8, <2>1 DEF R
  <2>3. f[n] = f2[m]
    BY <1>7, <2>2
  <2> QED
    BY <1>8, <2>1, <2>3 DEF f, f2, E, D
<1> QED
  BY <1>8 DEF D

-----------------------------------------------------------------------------
(* The invariant of the copies that are being filled: the open frames are   *)
(* nested, a copy refers to copies made after it, and nothing refers to a   *)
(* copy that is not finished, so that no store of a step changes the value  *)
(* of anything that is.                                                     *)

Containing == Branch(archive, DumpBase)

\* A container's copy refers to copies of containers that were made after it.
HeapOrdered ==
    \A s \in Slots(archive) :
        s # Root /\ GetSlot(archive, s) \in Containing => GetSlot(archive, s) > s[1]

\* A copy that is being filled has the type of its container, is empty from the
\* next item on, and nothing refers to it.
Laid(f) ==
    Open(f) =>
        /\ archive.heap[f.res].type = TypeAddr(DumpBase, GraphTag(src[f.op]))
        /\ \A i \in f.i..Len(archive.heap[f.res].slots) : GetSlot(archive, <<f.res, i>>) = NULL
        /\ \A s \in Slots(archive) : GetSlot(archive, s) # f.res

\* f is a call for the last item that g has come to.
Nested(f, g) ==
    /\ EqualNodes(src, f.op, src[g.op].items[g.i - 1])
    /\ Open(f) => f.res > g.res

Layout ==
    /\ GraphOK(src) /\ HeapOrdered
    /\ \A f \in Frames : \A k \in 1..Len(stack) : stack[k] = f => Laid(f)
    /\ \A f, g \in Frames : \A k \in 1..(Len(stack) - 1) :
           stack[k] = f /\ stack[k + 1] = g => Nested(f, g)
    /\ stack # <<>> => stack[Len(stack)].op = root

-----------------------------------------------------------------------------
(* The effects of a step on values. *)

\* What is stored is the copy of an object without items: a new one, unless it
\* is a string.
StandsFor(p) ==
    /\ IsPointer(archive', p) /\ p \notin Branch(archive', DumpBase)
    /\ p \in Addresses(archive) => p \in HeapStrings'
    /\ LeafValue(archive', DumpBase, p) = GraphLeaf(src, top.op)
    /\ top.op \notin GraphBranch(src)

\* The innermost call returns, after a store of p.
Returned(p) ==
    /\ stack # <<>> /\ stack' = Tail(stack) /\ p \in Int /\ Writes(top.target, p)
    /\ \/ traverse_error' = TRUE /\ p = NULL
       \/ traverse_error /\ traverse_error' = TRUE /\ p = GetSlot(archive, top.target)
       \/ StandsFor(p) /\ traverse_error' = traverse_error
       \/ /\ Open(top) /\ p = top.res /\ top.i > Len(obj.items)
          /\ ~ traverse_error /\ traverse_error' = traverse_error

\* A string is stored, and its call goes on.
Continued(p, f) ==
    /\ stack # <<>> /\ IsString(top) /\ stack' = Replace(f) /\ f \in Frames /\ f.op = top.op
    /\ f.res # NULL
    /\ p \in Int /\ Writes(top.target, p) /\ StandsFor(p) /\ traverse_error' = traverse_error

\* The copy of a container is made.
Begun(f) ==
    /\ stack # <<>> /\ stack' = Replace(f) /\ f \in Frames /\ f.op = top.op /\ f.i = 1
    /\ ~ Open(top) /\ obj.kind \in Containers
    /\ f.res \in Addresses(archive') \ Addresses(archive)
    /\ archive'.heap[f.res].type = TypeAddr(DumpBase, GraphTag(obj))
    /\ Writes(top.target, NULL) /\ traverse_error' = traverse_error

\* The next item is NULL.
Skipped(f) ==
    /\ Filling /\ top.i <= Len(obj.items) /\ obj.items[top.i] = NULL
    /\ stack' = Replace(f) /\ f \in Frames
    /\ f.op = top.op /\ f.res = top.res /\ f.i = top.i + 1
    /\ Writes(top.target, GetSlot(archive, top.target)) /\ traverse_error' = traverse_error

\* The next item is moved in.
Descended(f, g) ==
    /\ Filling /\ top.i <= Len(obj.items)
    /\ stack' = <<g>> \o Replace(f) /\ f \in Frames /\ g \in Frames
    /\ f.op = top.op /\ f.res = top.res /\ f.i = top.i + 1
    /\ g.op = obj.items[top.i] /\ g.res = NULL
    /\ Writes(top.target, GetSlot(archive, top.target)) /\ traverse_error' = traverse_error

\* The dump ends.
Halted == archive' = archive /\ stack' = stack /\ traverse_error' = traverse_error

ValueMove == \/ \E p : Returned(p) \/ \E f : Continued(p, f)
             \/ \E f : Begun(f) \/ Skipped(f) \/ \E g : Descended(f, g)
             \/ Halted

LEMMA StepGrows ==
    ASSUME MoveOK, env' = env, NextDump
    PROVE  MoveOK' /\ SourceGrows /\ ArchiveGrows
BY MoveStep DEF Quiet, StringMoved, StringListed, SlotRecorded

LEMMA AddressesOfTypes ==
    ASSUME NEW base \in Int, NEW ty \in {"atom", "str", "tuple", "code"}
    PROVE  TypeOf(base, TypeAddr(base, ty)) = ty /\ TypeAddr(base, ty) \in Int
BY DEF TypeOf, TypeAddr

LEMMA InterpreterValues ==
    ASSUME NEW base \in Nat, NEW v \in 0..(Span - 1)
    PROVE  /\ OutOfHeapValue(base, BasicAddr(base, v)) = <<"basic", v>>
           /\ OutOfHeapValue(base, StaticStr(base, v)) = <<"str", v>>
           /\ OutOfHeapValue(base, StaticAtom(base, v)) = <<"atom", v>>
           /\ OutOfHeapValue(base, ProcessStr(base, v)) = <<"str", v>>
           /\ OutOfHeapValue(base, NULL) = <<"null">>
           /\ BasicAddr(base, v) \in Int /\ BasicAddr(base, v) >= base
           /\ StaticStr(base, v) \in Int /\ StaticStr(base, v) >= base
           /\ StaticAtom(base, v) \in Int /\ StaticAtom(base, v) >= base
           /\ ProcessStr(base, v) \in Int /\ ProcessStr(base, v) >= base
<1> Span \in Nat
  BY SpanAssumption
<1>1. OutOfHeapValue(base, BasicAddr(base, v)) = <<"basic", v>>
  BY DEF OutOfHeapValue, BasicAddr, NULL
<1>2. OutOfHeapValue(base, StaticStr(base, v)) = <<"str", v>>
  BY DEF OutOfHeapValue, StaticStr, NULL
<1>3. OutOfHeapValue(base, StaticAtom(base, v)) = <<"atom", v>>
  BY DEF OutOfHeapValue, StaticAtom, NULL
<1>4. OutOfHeapValue(base, ProcessStr(base, v)) = <<"str", v>>
  BY DEF OutOfHeapValue, ProcessStr, NULL
<1>5. OutOfHeapValue(base, NULL) = <<"null">>
  BY DEF OutOfHeapValue, NULL
<1> QED
  BY <1>1, <1>2, <1>3, <1>4, <1>5 DEF BasicAddr, StaticStr, StaticAtom, ProcessStr

LEMMA StoreWrites ==
    ASSUME archive \in Archives, NEW m \in Archives, SameObjects(archive, m),
           SameSlots(archive, m), NEW t \in Slots(archive), NEW p \in Int,
           archive' = SetSlot(m, t, p)
    PROVE  Writes(t, p)
<1>1. Slots(m) = Slots(archive)
  BY SlotsKept
<1>2. /\ SameObjects(m, archive')
      /\ \A r \in Slots(m) : GetSlot(archive', r) = IF r = t THEN p ELSE GetSlot(m, r)
  BY <1>1, SetSlotIs
<1>3. Slots(archive') = Slots(m)
  BY <1>2, SlotsKept
<1> QED
  BY <1>1, <1>2, <1>3 DEF Writes, SameSlots

LEMMA KeepWrites ==
    ASSUME SameObjects(archive, archive'), SameSlots(archive, archive'),
           NEW t \in Slots(archive)
    PROVE  Writes(t, GetSlot(archive, t))
<1>1. Slots(archive') = Slots(archive)
  BY SlotsKept
<1> QED
  BY <1>1 DEF Writes, SameSlots

LEMMA ItemsSame ==
    ASSUME NEW g, NEW h, h = g
    PROVE  ItemsReplaced(g, h)
BY DEF ItemsReplaced, EqualNodes

\* The frames of a call and of the call that it is about an item of.
LEMMA CallerIs ==
    ASSUME MoveOK, stack # <<>>, Len(stack) >= 2
    PROVE  /\ stack[2] \in Frames /\ FrameOK(stack[2]) /\ Open(stack[2])
           /\ Called(top, stack[2]) /\ stack[2].op \in Nodes
           /\ stack[2].i \in Nat /\ stack[2].i >= 2 /\ stack[2].res \in Nat
           /\ 2 \in 1..Len(stack) /\ 1 \in 1..(Len(stack) - 1)
           /\ Layout => Nested(top, stack[2])
<1> DEFINE n == Len(stack)
<1>1. n \in Nat /\ n >= 2 /\ top = stack[1]
  BY TopIs DEF MoveOK
<1>2. 2 \in 1..n /\ 1 \in 1..(n - 1) /\ 1 \in 1..n
  <2> HIDE DEF n
  <2> QED
    BY <1>1
<1>3. stack[2] \in Frames /\ FrameOK(stack[2]) /\ stack[1] \in Frames
  BY <1>2, TopIs DEF MoveOK
<1>4. 1 + 1 = 2
  OBVIOUS
<1>5. Called(stack[1], stack[1 + 1])
  BY <1>2 DEF MoveOK, StackOK
<1>6. Called(top, stack[2])
  BY <1>1, <1>4, <1>5
<1>7. /\ Open(stack[2]) /\ stack[2].op \in Nodes
      /\ stack[2].i \in Nat /\ stack[2].i >= 2 /\ stack[2].res \in Nat
  BY <1>3, <1>6 DEF Called, FrameOK, Frames
<1>8. Layout => Nested(top, stack[2])
  BY <1>1, <1>2, <1>3, <1>4 DEF Layout
<1> QED
  BY <1>1, <1>2, <1>3, <1>6, <1>7, <1>8

\* All that happens to the source is that items give way to equal strings.
LEMMA SourceReplaced ==
    ASSUME MoveOK, Layout, NextDump
    PROVE  src' \in Seq(Objects) /\ root' = root /\ ItemsReplaced(src, src')
<1>1. CASE UNCHANGED <<src, root>>
  BY <1>1, ItemsSame DEF Layout, GraphOK
<1>2. CASE MoveString
  <2>1. /\ Entering /\ obj.kind = "str" /\ root' = root /\ src' = SourceInterned
        /\ interned' = [interned EXCEPT ![obj.val] = Canonical]
    BY <1>2 DEF MoveString
  <2>2. stack # <<>>
    BY <2>1 DEF Entering, Running
  <2>3. SourceGrows /\ \A n \in Nodes : \A j \in 1..Len(src[n].items) : ItemInterned(n, j)
    BY <2>1, InternGrows
  <2>4. /\ Canonical \in Nodes /\ src[Canonical].kind = "str"
        /\ src[Canonical].val = obj.val
    BY <2>1, <2>2, CanonicalIs
  <2>5. top.op \in Nodes /\ obj = src[top.op]
    BY <2>2, ObjIs
  <2>6. ASSUME NEW n \in Nodes, NEW j \in 1..Len(src[n].items)
        PROVE  EqualNodes(src, src[n].items[j], src'[n].items[j])
    <3>1. CASE src'[n].items[j] = src[n].items[j]
      BY <3>1 DEF EqualNodes
    <3>2. CASE /\ Len(stack) >= 2 /\ n = stack[2].op /\ j = stack[2].i - 1
               /\ src'[n].items[j] = Canonical
      <4>1. EqualNodes(src, top.op, src[n].items[j])
        BY <2>2, <3>2, CallerIs DEF Nested
      <4> QED
        BY <2>1, <2>4, <2>5, <3>2, <4>1 DEF EqualNodes, Nodes
    <3> QED
      BY <2>3, <3>1, <3>2 DEF ItemInterned
  <2> QED
    BY <2>1, <2>3, <2>6 DEF SourceGrows, SourceOK, ItemsReplaced, Nodes
<1> QED
  BY <1>1, <1>2 DEF NextDump, Move, Kill, MoveReference, MoveAtom, MoveUnsupported, Unwind,
        ListString, RecordString, MoveContainer, MoveItem, PublishContainer, Return, Crash

-----------------------------------------------------------------------------
(* Each step has one of the effects. *)

LEMMA NewArchive ==
    ASSUME ArchiveOK, ArchiveGrows
    PROVE  /\ archive' \in Archives /\ Len(archive'.heap) \in Nat /\ Len(archive.heap) \in Nat
           /\ DumpBase \in Nat /\ Len(archive'.heap) < DumpBase
           /\ Addresses(archive) \subseteq Addresses(archive')
           /\ \A p \in Int : p >= DumpBase => p \notin Addresses(archive')
<1>1. archive' \in Archives /\ archive \in Archives
  BY DEF ArchiveOK, ArchiveGrows
<1>2. Len(archive'.heap) \in Nat /\ archive'.used \in Nat /\ Len(archive.heap) \in Nat
  BY <1>1, ArchiveIs
<1>3. HeapCells \in Nat /\ DumpBase \in Nat /\ HeapCells < DumpBase
  BY DumpBaseAssumption, EnvironmentsAssumption DEF ArchiveOK, HeapCells
<1>4. HeapCells' = HeapCells
  BY DEF ArchiveGrows, HeapCells
<1>5. Len(archive'.heap) <= archive'.used /\ archive'.used <= HeapCells
  BY <1>4 DEF ArchiveGrows, ArchiveOK
<1>6. Len(archive'.heap) < DumpBase
  BY <1>2, <1>3, <1>5
<1>7. Len(archive.heap) <= Len(archive'.heap)
  BY DEF ArchiveGrows
<1> QED
  BY <1>1, <1>2, <1>3, <1>6, <1>7 DEF Addresses

LEMMA LeafIs ==
    ASSUME MoveOK, Layout, stack # <<>>, obj.kind \notin Containers
    PROVE  top.op \notin GraphBranch(src) /\ GraphLeaf(src, top.op) = <<obj.kind, obj.val>>
<1>1. top.op \in Nodes /\ obj = src[top.op]
  BY ObjIs
<1>2. GraphOK(src)
  BY DEF Layout
<1>3. top.op # NULL
  BY <1>1, <1>2, NodeIs DEF Nodes
<1> QED
  BY <1>1, <1>3 DEF GraphBranch, GraphLeaf

\* An object of the interpreter is stored.
LEMMA OutsideStands ==
    ASSUME MoveOK, Layout, ArchiveGrows, stack # <<>>, obj.kind \notin Containers,
           NEW p \in Int, p >= DumpBase,
           OutOfHeapValue(DumpBase, p) = <<obj.kind, obj.val>>
    PROVE  StandsFor(p)
<1>1. p \notin Addresses(archive') /\ p \notin Addresses(archive)
  BY NewArchive DEF MoveOK
<1>2. p \notin Branch(archive', DumpBase) /\ LeafValue(archive', DumpBase, p) = <<obj.kind, obj.val>>
  BY <1>1 DEF Branch, LeafValue
<1> QED
  BY <1>1, <1>2, LeafIs DEF StandsFor, IsPointer

\* An object without items that is in the archive.
LEMMA InsideStands ==
    ASSUME MoveOK, Layout, ArchiveGrows, stack # <<>>, NEW ty \in {"str", "atom"}, obj.kind = ty,
           NEW a \in Addresses(archive'), archive'.heap[a].type = TypeAddr(DumpBase, ty),
           archive'.heap[a].val = obj.val, ty = "str" \/ a \notin Addresses(archive)
    PROVE  StandsFor(a) /\ a \in Int
<1>1. TypeOf(DumpBase, archive'.heap[a].type) = ty
  <2>1. DumpBase \in Int
    BY NewArchive DEF MoveOK
  <2>2. ty \in {"atom", "str", "tuple", "code"}
    OBVIOUS
  <2>3. TypeOf(DumpBase, TypeAddr(DumpBase, ty)) = ty
    BY <2>1, <2>2, AddressesOfTypes
  <2> QED
    BY <2>3
<1>2. a \notin Branch(archive', DumpBase) /\ LeafValue(archive', DumpBase, a) = <<obj.kind, obj.val>>
  <2>1. TypeOf(DumpBase, archive'.heap[a].type) \notin {"tuple", "code"}
    BY <1>1
  <2>2. a \notin Branch(archive', DumpBase)
    BY <2>1 DEF Branch
  <2>3. LeafValue(archive', DumpBase, a) = <<ty, obj.val>>
    BY <1>1 DEF LeafValue
  <2> QED
    BY <2>2, <2>3
<1>3. obj.kind \notin Containers
  BY DEF Containers
<1>4. a \in Int
  BY NewArchive DEF MoveOK, Addresses
<1>5. a \in Addresses(archive) => a \in HeapStrings'
  BY DEF HeapStrings, Addresses
<1> QED
  BY <1>2, <1>3, <1>4, <1>5, LeafIs DEF StandsFor, IsPointer

LEMMA HaltedIs ==
    ASSUME UNCHANGED <<archive, stack, traverse_error>>
    PROVE  ValueMove
BY DEF ValueMove, Halted

LEMMA ReferenceValue ==
    ASSUME MoveOK, Layout, ArchiveGrows, MoveReference
    PROVE  ValueMove
<1>1. stack # <<>> /\ Pop /\ traverse_error' = traverse_error
  BY DEF MoveReference, Entering, Running
<1>2. archive \in Archives /\ top.target \in Slots(archive) /\ obj.val \in 0..(Span - 1)
  BY <1>1, ObjIs DEF Objects
<1>3. DumpBase \in Nat
  BY InterpreterAddr DEF MoveOK
<1>4. PICK p : /\ p \in Int /\ p >= DumpBase
               /\ OutOfHeapValue(DumpBase, p) = <<obj.kind, obj.val>>
               /\ obj.kind \notin Containers /\ archive' = SetSlot(archive, top.target, p)
  BY <1>2, <1>3, InterpreterValues DEF MoveReference, Containers
<1>5. Writes(top.target, p)
  BY <1>2, <1>4, StoreWrites DEF SameObjects, SameKind, SameSlots
<1>6. StandsFor(p)
  BY <1>1, <1>4, OutsideStands
<1> QED
  BY <1>1, <1>4, <1>5, <1>6 DEF ValueMove, Returned, Pop

LEMMA UnsupportedValue ==
    ASSUME MoveOK, Layout, ArchiveGrows, MoveUnsupported
    PROVE  ValueMove
<1>1. /\ stack # <<>> /\ Pop /\ traverse_error' = TRUE
      /\ archive' = SetSlot(archive, top.target, NULL)
  BY DEF MoveUnsupported, Entering, Running
<1>2. archive \in Archives /\ top.target \in Slots(archive) /\ NULL \in Int
  BY <1>1, ObjIs DEF NULL
<1>3. Writes(top.target, NULL)
  BY <1>1, <1>2, StoreWrites DEF SameObjects, SameKind, SameSlots
<1> QED
  BY <1>1, <1>2, <1>3 DEF ValueMove, Returned, Pop

LEMMA UnwindValue ==
    ASSUME MoveOK, Layout, ArchiveGrows, Unwind
    PROVE  ValueMove
<1>1. stack # <<>> /\ Pop /\ traverse_error /\ UNCHANGED <<archive, traverse_error>>
  BY DEF Unwind, Running
<1>2. archive \in Archives /\ top.target \in Slots(archive)
  BY <1>1, ObjIs
<1>3. GetSlot(archive, top.target) \in Int
  BY <1>2, SlotIs
<1>4. Writes(top.target, GetSlot(archive, top.target))
  BY <1>1, <1>2, KeepWrites DEF SameObjects, SameKind, SameSlots
<1>5. traverse_error' = TRUE
  BY <1>1 DEF MoveOK, StackOK
<1> QED
  BY <1>1, <1>3, <1>4, <1>5 DEF ValueMove, Returned, Pop

LEMMA AtomValue ==
    ASSUME MoveOK, Layout, ArchiveGrows, env' = env, MoveAtom
    PROVE  ValueMove
<1>1. CASE HeapFull
  BY <1>1, HaltedIs DEF MoveAtom, Crash
<1>2. CASE ~ HeapFull
  <2> DEFINE t == TypeAddr(DumpBase, "atom")
             v == obj.val
             o == HeapObject(t, v, 0)
             a == Len(archive.heap) + 1
  <2>1. /\ stack # <<>> /\ Pop /\ traverse_error' = traverse_error /\ obj.kind = "atom"
        /\ archive' = SetSlot(NewObject(archive, o), top.target, Len(NewObject(archive, o).heap))
    BY <1>2 DEF MoveAtom, Entering, Running
  <2>2. archive \in Archives /\ top.target \in Slots(archive) /\ v \in Nat
    BY <2>1, ObjIs
  <2>3. t \in Int
    BY TypesDiffer, InterpreterAddr DEF MoveOK
  <2> HIDE DEF t, v
  <2>4. /\ o \in HeapObjects /\ o.type = t /\ o.val = v /\ Len(o.slots) = 0
        /\ \A i \in 1..0 : o.slots[i] = NULL
    BY <2>2, <2>3, HeapObjectIs
  <2> HIDE DEF o
  <2>5. Len(NewObject(archive, o).heap) = a
    BY <2>2, <2>4, NewObjectIs
  <2>6. a \in Int
    BY <2>2, ArchiveIs
  <2>7. /\ Writes(top.target, a) /\ Len(archive'.heap) = a /\ a \in Nat /\ a # NULL
        /\ SameKind(archive'.heap[a], o) /\ a \notin Addresses(archive)
    BY <1>2, <2>1, <2>2, <2>4, <2>5, <2>6, AllocGrows DEF MoveOK
  <2> HIDE DEF a
  <2>8. /\ a \in Addresses(archive') /\ archive'.heap[a].type = t /\ archive'.heap[a].val = v
        /\ a \notin Addresses(archive)
    BY <2>4, <2>7 DEF Addresses, SameKind, NULL
  <2>9. StandsFor(a)
    BY <2>1, <2>8, InsideStands DEF t, v
  <2> QED
    BY <2>1, <2>6, <2>7, <2>9 DEF ValueMove, Returned, Pop
<1> QED
  BY <1>1, <1>2

LEMMA StringValue ==
    ASSUME MoveOK, Layout, ArchiveGrows, env' = env, MoveString
    PROVE  ValueMove
<1>1. stack # <<>> /\ obj.kind = "str" /\ traverse_error' = traverse_error
  BY DEF MoveString, Entering, Running
<1>2. /\ archive \in Archives /\ top.target \in Slots(archive) /\ obj.val \in 0..(Span - 1)
      /\ top \in Frames /\ obj = src[top.op] /\ IsString(top)
  BY <1>1, ObjIs DEF Objects, IsString
<1>3. DumpBase \in Nat
  BY InterpreterAddr DEF MoveOK
<1>4. CASE Refers
  <2> DEFINE p == StaticStr(DumpBase, obj.val)
  <2>1. archive' = SetSlot(archive, top.target, p) /\ Pop
    BY <1>4, ReferMoves DEF ReferToStatic
  <2>2. p \in Int /\ p >= DumpBase /\ OutOfHeapValue(DumpBase, p) = <<"str", obj.val>>
    BY <1>2, <1>3, InterpreterValues
  <2> HIDE DEF p
  <2>3. Writes(top.target, p)
    BY <1>2, <2>1, <2>2, StoreWrites DEF SameObjects, SameKind, SameSlots
  <2>4. StandsFor(p)
    BY <1>1, <2>2, OutsideStands DEF Containers
  <2> QED
    BY <1>1, <2>1, <2>2, <2>3, <2>4 DEF ValueMove, Returned, Pop
<1>5. CASE ~ Refers /\ orig_map[InternedKey] = NULL /\ HeapFull
  <2>1. UNCHANGED <<archive, stack>>
    BY <1>5 DEF MoveString, Refers
  <2> QED
    BY <1>1, <2>1, HaltedIs
<1>6. ASSUME NEW a, StringMoved(a), a \in Nat, stack' = Replace([top EXCEPT !.res = a])
      PROVE  ValueMove
  <2>1. /\ Writes(top.target, a) /\ a \in HeapStrings' /\ archive'.heap[a].val = obj.val
        /\ a # NULL
    BY <1>6 DEF StringMoved
  <2>2. a \in Addresses(archive') /\ archive'.heap[a].type = TypeAddr(DumpBase, "str")
    BY <2>1 DEF HeapStrings, Addresses
  <2>3. StandsFor(a) /\ a \in Int
    BY <1>1, <2>1, <2>2, InsideStands
  <2> DEFINE f == [top EXCEPT !.res = a]
  <2>4. f \in Frames /\ f.op = top.op /\ f.res = a
    BY <1>2, <1>6, FrameWithRes
  <2> HIDE DEF f
  <2>5. Continued(a, f)
    BY <1>1, <1>2, <1>6, <2>1, <2>3, <2>4 DEF Continued, f
  <2> QED
    BY <2>5 DEF ValueMove
<1>7. CASE ~ Refers /\ orig_map[InternedKey] # NULL
  <2> DEFINE a == orig_map[InternedKey]
  <2>1. stack' = Replace([top EXCEPT !.res = a])
    BY <1>7 DEF MoveString, Refers
  <2>2. StringMoved(a)
    BY <1>7, KnownString
  <2>3. a \in Nat
    BY <1>1, CanonicalIs DEF InternedKey, MoveOK, TablesOK
  <2> QED
    BY <1>6, <2>1, <2>2, <2>3
<1>8. CASE ~ Refers /\ orig_map[InternedKey] = NULL /\ ~ HeapFull
  <2> DEFINE t == TypeAddr(DumpBase, "str")
             v == obj.val
             h == HeapObject(t, v, 0)
             o == [h EXCEPT !.interned = TRUE]
             a == Len(archive.heap) + 1
  <2>1. stack' = Replace([top EXCEPT !.res = Len(NewObject(archive, o).heap)])
    BY <1>8 DEF MoveString, Refers
  <2>2. StringMoved(a)
    BY <1>8, NewString
  <2>3. a \in Nat
    BY <1>2, ArchiveIs
  <2>4. t \in Int /\ v \in Nat
    BY <1>2, <1>3, TypesDiffer, SpanAssumption
  <2> HIDE DEF t, v
  <2>5. h \in HeapObjects /\ Len(h.slots) = 0
    BY <2>4, HeapObjectIs
  <2> HIDE DEF h
  <2>6. o \in HeapObjects /\ \A i \in 1..Len(o.slots) : o.slots[i] = NULL
    BY <2>5, InternedObjectIs
  <2> HIDE DEF o
  <2>7. Len(NewObject(archive, o).heap) = a
    BY <1>2, <2>6, NewObjectIs
  <2> QED
    BY <1>6, <2>1, <2>2, <2>3, <2>7
<1> QED
  BY <1>4, <1>5, <1>7, <1>8

\* The string that is being moved in is what its slot refers to.
LEMMA StringStands ==
    ASSUME MoveOK, Layout, ArchiveGrows, Running, obj.kind = "str", top.res # NULL,
           SameObjects(archive, archive'), SameSlots(archive, archive')
    PROVE  /\ StandsFor(top.res) /\ top.res \in Int /\ Writes(top.target, top.res)
           /\ stack # <<>> /\ IsString(top)
<1>1. /\ stack # <<>> /\ IsString(top) /\ FrameOK(top) /\ top.target \in Slots(archive)
      /\ obj = src[top.op]
  BY StringTop, ObjIs
<1>2. /\ top.res \in HeapStrings /\ archive.heap[top.res].val = obj.val
      /\ GetSlot(archive, top.target) = top.res
  BY <1>1 DEF FrameOK
<1>3. top.res \in Addresses(archive) /\ archive.heap[top.res].type = TypeAddr(DumpBase, "str")
  BY <1>2 DEF HeapStrings, Addresses
<1>4. /\ top.res \in Addresses(archive')
      /\ archive'.heap[top.res].type = TypeAddr(DumpBase, "str")
      /\ archive'.heap[top.res].val = obj.val
  BY <1>2, <1>3, SlotsKept DEF SameObjects, SameKind
<1>5. StandsFor(top.res) /\ top.res \in Int
  BY <1>1, <1>4, InsideStands
<1>6. Writes(top.target, top.res)
  BY <1>1, <1>2, KeepWrites
<1> QED
  BY <1>1, <1>5, <1>6

LEMMA ListValue ==
    ASSUME MoveOK, Layout, ArchiveGrows, env' = env, ListString
    PROVE  ValueMove
<1>1. /\ Running /\ obj.kind = "str" /\ top.res # NULL /\ traverse_error' = traverse_error
  BY DEF ListString
<1>2. CASE str_map[top.res] = 0 /\ HeapFull
  BY <1>1, <1>2, HaltedIs DEF ListString
<1>3. ASSUME NEW n \in Nat, StringListed(n), SameObjects(archive, archive'),
             stack' = Replace([top EXCEPT !.list = n])
      PROVE  ValueMove
  <2>1. /\ StandsFor(top.res) /\ top.res \in Int /\ Writes(top.target, top.res)
        /\ stack # <<>> /\ IsString(top)
    BY <1>1, <1>3, StringStands DEF StringListed
  <2>2. top \in Frames
    BY <2>1, ObjIs
  <2> DEFINE f == [top EXCEPT !.list = n]
  <2>3. f \in Frames /\ f.op = top.op /\ f.res = top.res
    BY <2>2, FrameWithList
  <2> HIDE DEF f
  <2>4. Continued(top.res, f)
    BY <1>1, <1>3, <2>1, <2>3 DEF Continued, f
  <2> QED
    BY <2>4 DEF ValueMove
<1>4. CASE str_map[top.res] # 0
  <2> DEFINE n == str_map[top.res]
  <2>1. StringListed(n)
    BY <1>4, ListFound
  <2>2. archive' = archive /\ stack' = Replace([top EXCEPT !.list = n])
    BY <1>4 DEF ListString
  <2>3. SameObjects(archive, archive')
    BY <2>2 DEF SameObjects, SameKind
  <2>4. n \in Nat
    <3>1. top.res \in HeapStrings
      BY <2>1 DEF StringListed
    <3>2. Len(archive.heap) \in Nat /\ archive.used \in Nat /\ HeapCells \in Nat
      BY ArchiveIs, InterpreterAddr DEF MoveOK, ArchiveOK
    <3>3. Len(archive.heap) <= archive.used /\ archive.used <= HeapCells
      BY DEF MoveOK, ArchiveOK
    <3>4. top.res \in 1..HeapCells
      BY <3>1, <3>2, <3>3 DEF HeapStrings
    <3> QED
      BY <3>4 DEF MoveOK, TablesOK
  <2> QED
    BY <1>3, <2>1, <2>2, <2>3, <2>4
<1>5. CASE str_map[top.res] = 0 /\ ~ HeapFull
  <2> DEFINE n == Len(Lists) + 1
             a == top.res
             m == Pinned(archive, a)
             ls == Append(Lists, [str |-> a, refs |-> <<>>])
  <2>1. StringListed(n)
    BY <1>5, ListNew
  <2>2. /\ archive' = [m EXCEPT !.all_string_ref = Append(@, [str |-> a, refs |-> <<>>]),
                                !.used = @ + 1]
        /\ stack' = Replace([top EXCEPT !.list = n])
    BY <1>5 DEF ListString, Lists
  <2>3. archive \in Archives /\ a \in Nat /\ Len(Lists) \in Nat
    BY <1>1, StringTop, ObjIs, ArchiveIs DEF Lists
  <2>4. SameObjects(archive, m)
    BY <2>3, CountedIs DEF Pinned
  <2>5. archive'.heap = m.heap /\ archive'.none_base = m.none_base
    <3>1. archive' \in Archives
      BY DEF ArchiveGrows, ArchiveOK
    <3> HIDE DEF m
    <3> QED
      BY <2>2, <3>1 DEF Archives
  <2>6. SameObjects(archive, archive')
    BY <2>4, <2>5 DEF SameObjects
  <2>7. n \in Nat
    BY <2>3
  <2> QED
    BY <1>3, <2>1, <2>2, <2>6, <2>7
<1> QED
  BY <1>2, <1>4, <1>5

LEMMA RecordValue ==
    ASSUME MoveOK, Layout, ArchiveGrows, env' = env, RecordString
    PROVE  ValueMove
<1>1. Running /\ obj.kind = "str" /\ top.list # 0
  BY DEF RecordString
<1>2. CASE HeapFull
  BY <1>2, HaltedIs DEF RecordString, Crash
<1>3. CASE ~ HeapFull
  <2>1. /\ Pop /\ traverse_error' = traverse_error
        /\ archive' = [archive EXCEPT !.all_string_ref[top.list].refs = Linked(top.target, @),
                                      !.used = @ + 1]
    BY <1>3 DEF RecordString
  <2>2. archive'.heap = archive.heap /\ archive'.obj = archive.obj
        /\ archive'.none_base = archive.none_base
    <3>1. archive \in Archives
      BY DEF MoveOK, ArchiveOK
    <3> QED
      BY <2>1, <3>1 DEF Archives
  <2>3. SameObjects(archive, archive') /\ SameSlots(archive, archive')
    BY <2>2 DEF SameObjects, SameKind, SameSlots, GetSlot
  <2>4. top.res # NULL
    BY <1>1, StringTop DEF FrameOK
  <2>5. /\ StandsFor(top.res) /\ top.res \in Int /\ Writes(top.target, top.res)
        /\ stack # <<>> /\ IsString(top)
    BY <1>1, <2>3, <2>4, StringStands
  <2>6. Returned(top.res)
    BY <2>1, <2>5 DEF Returned, Pop
  <2> QED
    BY <2>6 DEF ValueMove
<1> QED
  BY <1>2, <1>3

LEMMA ContainerValue ==
    ASSUME MoveOK, Layout, ArchiveGrows, env' = env, MoveContainer
    PROVE  ValueMove
<1>1. CASE HeapFull
  BY <1>1, HaltedIs DEF MoveContainer, Crash
<1>2. CASE ~ HeapFull
  <2> DEFINE ty == IF obj.kind = "code" THEN "code" ELSE "tuple"
             t  == TypeAddr(DumpBase, ty)
             n  == Len(obj.items)
             o  == HeapObject(t, 0, n)
             m  == NewObject(archive, o)
             a  == Len(archive.heap) + 1
             f  == [top EXCEPT !.res = a]
  <2>1. /\ top.res = NULL /\ stack # <<>> /\ obj.kind \in Containers
    BY DEF MoveContainer, Entering, Running
  <2>2. /\ archive \in Archives /\ top.target \in Slots(archive) /\ n \in Nat
        /\ top \in Frames /\ FrameOK(top)
    BY <2>1, ObjIs
  <2>3. t \in Int /\ t = TypeAddr(DumpBase, GraphTag(obj))
    BY InterpreterAddr, TypesDiffer DEF MoveOK, GraphTag
  <2>4. /\ archive' = TargetAtEntry(m) /\ stack' = Replace([top EXCEPT !.res = Len(m.heap)])
        /\ traverse_error' = traverse_error
    BY <1>2 DEF MoveContainer
  <2> HIDE DEF n, ty, t
  <2>5. /\ o \in HeapObjects /\ o.type = t /\ Len(o.slots) = n
        /\ \A i \in 1..n : o.slots[i] = NULL
    BY <2>2, <2>3, HeapObjectIs
  <2> HIDE DEF o
  <2>6. Len(m.heap) = a
    BY <2>2, <2>5, NewObjectIs
  <2>7. archive' = SetSlot(m, top.target, NULL) /\ stack' = Replace(f)
    BY <2>4, <2>6 DEF TargetAtEntry
  <2>8. NULL \in Int
    BY DEF NULL
  <2>9. /\ Len(archive'.heap) = a /\ a \in Nat /\ a # NULL /\ a \notin Addresses(archive)
        /\ SameKind(archive'.heap[a], o) /\ Writes(top.target, NULL)
    BY <1>2, <2>2, <2>5, <2>7, <2>8, AllocGrows DEF MoveOK
  <2> HIDE DEF m, a
  <2>10. f \in Frames /\ f.op = top.op /\ f.res = a /\ f.i = top.i
    BY <2>2, <2>9, FrameWithRes
  <2> HIDE DEF f
  <2>11. f.i = 1
    BY <2>1, <2>2, <2>10 DEF FrameOK
  <2>12. a \in Addresses(archive') \ Addresses(archive)
    BY <2>9 DEF Addresses, NULL
  <2>13. archive'.heap[a].type = t
    BY <2>5, <2>9 DEF SameKind
  <2>14. ~ Open(top)
    BY <2>1 DEF Open
  <2>15. Begun(f)
    BY <2>1, <2>3, <2>4, <2>7, <2>9, <2>10, <2>11, <2>12, <2>13, <2>14 DEF Begun
  <2> QED
    BY <2>15 DEF ValueMove
<1> QED
  BY <1>1, <1>2

LEMMA ItemValue ==
    ASSUME MoveOK, Layout, ArchiveGrows, MoveItem
    PROVE  ValueMove
<1> DEFINE item == obj.items[top.i]
           f == NextItem
           h == Frame(item, <<top.res, top.i>>, <<top.op, top.i>>)
<1>1. /\ Filling /\ top.i <= Len(obj.items) /\ archive' = ItemCounted
      /\ stack' = IF item = NULL THEN Replace(f) ELSE <<h>> \o Replace(f)
      /\ traverse_error' = traverse_error
  BY DEF MoveItem
<1>2. stack # <<>>
  BY <1>1, FillingTop
<1>3. /\ SameObjects(archive, archive') /\ SameSlots(archive, archive')
  BY <1>1, ItemCountedIs
<1>4. /\ top \in Frames /\ top.i \in Nat /\ top.i >= 1 /\ top.res \in Nat /\ top.op \in Nodes
      /\ obj.items \in Seq(Nat) /\ Len(obj.items) \in Nat /\ top.target \in Slots(archive)
  BY <1>2, ObjIs
<1>5. f \in Frames /\ f.op = top.op /\ f.res = top.res /\ f.i = top.i + 1
  BY <1>4, FrameNext DEF NextItem
<1>6. Writes(top.target, GetSlot(archive, top.target))
  BY <1>3, <1>4, KeepWrites
<1> HIDE DEF f
<1>7. CASE item = NULL
  <2>1. Skipped(f)
    BY <1>1, <1>5, <1>6, <1>7 DEF Skipped
  <2> QED
    BY <2>1 DEF ValueMove
<1>8. CASE item # NULL
  <2>1. item \in Nat
    <3>1. top.i \in 1..Len(obj.items)
      BY <1>1, <1>4
    <3> QED
      BY <1>4, <3>1, ElementOfSeq
  <2>2. top.op \in Nat
    BY <1>4 DEF Frames
  <2> HIDE DEF item
  <2>3. h \in Frames /\ h.op = item /\ h.res = NULL
    BY <1>4, <2>1, <2>2, FrameIs
  <2> HIDE DEF h
  <2>4. Descended(f, h)
    BY <1>1, <1>5, <1>6, <1>8, <2>3 DEF Descended, item
  <2> QED
    BY <2>4 DEF ValueMove
<1> QED
  BY <1>7, <1>8

LEMMA PublishValue ==
    ASSUME MoveOK, Layout, ArchiveGrows, PublishContainer
    PROVE  ValueMove
<1> DEFINE m == ItemCounted
<1>1. /\ Filling /\ archive' = SetSlot(m, top.target, top.res) /\ Pop
      /\ traverse_error' = traverse_error /\ top.i > Len(obj.items)
  BY DEF PublishContainer
<1>2. /\ stack # <<>> /\ Open(top) /\ traverse_error = FALSE
  BY <1>1, FillingTop
<1>3. m \in Archives /\ SameObjects(archive, m) /\ SameSlots(archive, m)
  BY <1>1, ItemCountedIs
<1> HIDE DEF m
<1>4. top.res \in Int /\ top.target \in Slots(archive) /\ archive \in Archives
  BY <1>2, ObjIs
<1>5. Writes(top.target, top.res)
  BY <1>1, <1>3, <1>4, StoreWrites
<1>6. Returned(top.res)
  BY <1>1, <1>2, <1>4, <1>5 DEF Returned, Pop
<1> QED
  BY <1>6 DEF ValueMove

\* Every step has one of the effects.
LEMMA ValueStep ==
    ASSUME MoveOK, Layout, env' = env, NextDump
    PROVE  ValueMove
<1>1. ArchiveGrows
  BY StepGrows
<1>2. CASE Return \/ Kill
  BY <1>2, HaltedIs DEF Return, Kill
<1> QED
  BY <1>1, <1>2, ReferenceValue, AtomValue, UnsupportedValue, UnwindValue, StringValue, ListValue,
     RecordValue, ContainerValue, ItemValue, PublishValue DEF NextDump, Move

-----------------------------------------------------------------------------
(* Layout is kept. *)

Stepped ==
    /\ MoveOK /\ Pointers /\ Layout /\ MoveOK' /\ SourceGrows /\ ArchiveGrows
    /\ src' \in Seq(Objects) /\ root' = root /\ ItemsReplaced(src, src')

LEMMA EqualChain ==
    ASSUME NEW g, NEW h, ItemsReplaced(g, h), NEW a, NEW b, NEW c,
           EqualNodes(g, a, b), EqualNodes(g, b, c)
    PROVE  EqualNodes(h, a, c)
BY DEF ItemsReplaced, EqualNodes

\* What the source says of a node stays.
LEMMA NodeStays ==
    ASSUME Stepped, NEW n \in Nodes
    PROVE  /\ n \in Nodes' /\ src'[n].kind = src[n].kind /\ src'[n].val = src[n].val
           /\ Len(src'[n].items) = Len(src[n].items)
           /\ GraphTag(src'[n]) = GraphTag(src[n])
           /\ \A i \in 1..Len(src[n].items) :
                 EqualNodes(src, src[n].items[i], src'[n].items[i])
BY DEF Stepped, ItemsReplaced, GraphTag, Nodes

LEMMA FramesAre ==
    ASSUME Stepped, stack # <<>>
    PROVE  /\ Len(stack) \in Nat /\ Len(stack) >= 1 /\ top = stack[1]
           /\ 1 \in 1..Len(stack) /\ Len(stack) \in 1..Len(stack)
           /\ \A k \in 1..Len(stack) :
                 /\ stack[k] \in Frames /\ FrameOK(stack[k]) /\ Laid(stack[k])
                 /\ stack[k].op \in Nodes /\ stack[k].res \in Nat /\ stack[k].i \in Nat
           /\ \A k \in 1..(Len(stack) - 1) :
                 /\ k + 1 \in 1..Len(stack) /\ k \in 1..Len(stack)
                 /\ Nested(stack[k], stack[k + 1]) /\ Open(stack[k + 1])
                 /\ stack[k + 1].i - 1 \in 1..Len(src[stack[k + 1].op].items)
<1>1. /\ Len(stack) \in Nat /\ Len(stack) >= 1 /\ top = stack[1]
      /\ \A k \in 1..Len(stack) : stack[k] \in Frames /\ FrameOK(stack[k])
  BY TopIs DEF Stepped, MoveOK
<1>2. 1 \in 1..Len(stack) /\ Len(stack) \in 1..Len(stack)
  BY <1>1
<1>3. ASSUME NEW k \in 1..Len(stack)
      PROVE  /\ stack[k].op \in Nodes /\ stack[k].res \in Nat /\ stack[k].i \in Nat
             /\ Laid(stack[k])
  BY <1>1 DEF FrameOK, Frames, Stepped, Layout
<1>4. ASSUME NEW k \in 1..(Len(stack) - 1)
      PROVE  /\ k + 1 \in 1..Len(stack) /\ k \in 1..Len(stack)
             /\ Nested(stack[k], stack[k + 1]) /\ Open(stack[k + 1])
             /\ stack[k + 1].i - 1 \in 1..Len(src[stack[k + 1].op].items)
  <2>1. k + 1 \in 1..Len(stack) /\ k \in 1..Len(stack)
    BY <1>1
  <2>2. Called(stack[k], stack[k + 1])
    BY DEF Stepped, MoveOK, StackOK
  <2>3. Nested(stack[k], stack[k + 1])
    BY <1>1, <2>1 DEF Stepped, Layout
  <2> DEFINE g == stack[k + 1]
             n == Len(src[g.op].items)
  <2>4. FrameOK(g) /\ g.op \in Nodes /\ g.i \in Nat
    BY <1>1, <1>3, <2>1
  <2>5. Open(g) /\ g.i >= 2
    BY <2>2 DEF Called
  <2> HIDE DEF g
  <2>6. n \in Nat
    <3>1. GraphOK(src)
      BY DEF Stepped, Layout
    <3> QED
      BY <2>4, <3>1, NodeIs DEF Nodes
  <2>7. g.i <= n + 1
    BY <2>4, <2>5 DEF FrameOK
  <2> HIDE DEF n
  <2>8. g.i - 1 \in 1..n
    BY <2>4, <2>5, <2>6, <2>7
  <2> QED
    BY <2>1, <2>3, <2>5, <2>8 DEF g, n
<1> QED
  BY <1>1, <1>2, <1>3, <1>4

\* Only the call that the innermost one is about an item of has its slot.
LEMMA TargetOf ==
    ASSUME Stepped, stack # <<>>, NEW k \in 1..Len(stack), Open(stack[k]),
           top.target[1] = stack[k].res
    PROVE  k = 2 /\ top.target[2] = stack[k].i - 1 /\ top.target # Root
<1>1. Len(stack) \in Nat /\ Len(stack) >= 1 /\ top = stack[1]
  BY FramesAre
<1>2. CASE Len(stack) = 1
  <2>1. top.target = Root
    BY <1>1, <1>2 DEF Stepped, MoveOK, StackOK
  <2>2. stack[k].res # 0
    BY DEF Open, NULL
  <2> QED
    BY <2>1, <2>2 DEF Root
<1>3. CASE Len(stack) >= 2
  <2>1. 2 \in 1..Len(stack) /\ Open(stack[2]) /\ Called(top, stack[2])
    BY <1>1, <1>3, CallerIs DEF Stepped
  <2>2. top.target = <<stack[2].res, stack[2].i - 1>>
    BY <2>1 DEF Called
  <2>3. k = 2
    BY <2>1, <2>2 DEF Stepped, MoveOK, StackOK
  <2>4. stack[2].res # 0
    BY <2>1 DEF Open, NULL
  <2> QED
    BY <2>2, <2>3, <2>4 DEF Root
<1>4. Len(stack) = 1 \/ Len(stack) >= 2
  <2> DEFINE n == Len(stack)
  <2>1. n \in Nat /\ n >= 1
    BY <1>1
  <2> HIDE DEF n
  <2>2. n = 1 \/ n >= 2
    BY <2>1
  <2> QED
    BY <2>2 DEF n
<1> QED
  BY <1>2, <1>3, <1>4

LEMMA OpenIsBranch ==
    ASSUME Stepped, NEW f \in Frames, FrameOK(f), Open(f)
    PROVE  /\ f.res \in Branch(archive, DumpBase) /\ f.res \in Branch(archive', DumpBase)
           /\ f.res \in Addresses(archive) /\ f.res \in Addresses(archive')
           /\ archive'.heap[f.res].type = archive.heap[f.res].type
           /\ Len(archive'.heap[f.res].slots) = Len(archive.heap[f.res].slots)
<1>1. f.res \in Addresses(archive) /\ archive.heap[f.res].type \in ContainerTypes
  BY DEF FrameOK
<1>2. /\ f.res \in Addresses(archive')
      /\ archive'.heap[f.res].type = archive.heap[f.res].type
      /\ Len(archive'.heap[f.res].slots) = Len(archive.heap[f.res].slots)
  BY <1>1, Grown DEF Stepped, MoveOK, ArchiveGrows, SameKind
<1>3. TypeOf(DumpBase, archive.heap[f.res].type) \in {"tuple", "code"}
  <2>1. DumpBase \in Int
    BY InterpreterAddr DEF Stepped, MoveOK
  <2>2. /\ TypeOf(DumpBase, TypeAddr(DumpBase, "tuple")) = "tuple"
        /\ TypeOf(DumpBase, TypeAddr(DumpBase, "code")) = "code"
    BY <2>1, AddressesOfTypes
  <2> QED
    BY <1>1, <2>2 DEF ContainerTypes
<1> QED
  BY <1>1, <1>2, <1>3 DEF Branch

\* A container that was in the archive before the step.
LEMMA OldBranch ==
    ASSUME Stepped, NEW v \in Int, IsPointer(archive, v)
    PROVE  /\ v \in Branch(archive', DumpBase) <=> v \in Branch(archive, DumpBase)
           /\ v \in Addresses(archive') <=> v \in Addresses(archive)
<1>1. CASE v \in Addresses(archive)
  <2>1. v \in Addresses(archive') /\ archive'.heap[v].type = archive.heap[v].type
    BY <1>1, Grown DEF Stepped, MoveOK, ArchiveGrows, SameKind
  <2> QED
    BY <1>1, <2>1 DEF Branch
<1>2. CASE v \notin Addresses(archive)
  <2>1. v = NULL \/ v >= DumpBase
    BY <1>2 DEF IsPointer
  <2>2. v \notin Addresses(archive')
    <3>1. Len(archive'.heap) \in Nat /\ \A p \in Int : p >= DumpBase => p \notin Addresses(archive')
      BY NewArchive DEF Stepped, MoveOK
    <3> QED
      BY <2>1, <3>1 DEF Addresses, NULL
  <2> QED
    BY <1>2, <2>2 DEF Branch
<1> QED
  BY <1>1, <1>2

LEMMA OrderStays ==
    ASSUME Stepped, NEW t \in Slots(archive), NEW p \in Int, Writes(t, p),
           t # Root /\ p \in Branch(archive', DumpBase) => p > t[1]
    PROVE  HeapOrdered'
<1> SUFFICES ASSUME NEW s \in Slots(archive'), s # Root,
                    GetSlot(archive', s) \in Branch(archive', DumpBase)
             PROVE  GetSlot(archive', s) > s[1]
  BY DEF HeapOrdered, Containing
<1>1. GetSlot(archive', s) = IF s = t THEN p
                             ELSE IF s \in Slots(archive) THEN GetSlot(archive, s)
                             ELSE NULL
  BY DEF Writes
<1>2. CASE s = t
  BY <1>1, <1>2
<1>3. CASE s # t /\ s \in Slots(archive)
  <2> DEFINE v == GetSlot(archive, s)
  <2>1. v = GetSlot(archive', s) /\ IsPointer(archive, v)
    BY <1>1, <1>3 DEF Stepped, Pointers
  <2>2. v \in Int
    BY <1>3, SlotIs DEF Stepped, MoveOK, ArchiveOK
  <2> HIDE DEF v
  <2>3. v \in Branch(archive, DumpBase)
    BY <2>1, <2>2, OldBranch
  <2> QED
    BY <1>3, <2>1, <2>3 DEF v, Stepped, Layout, HeapOrdered, Containing
<1>4. CASE s # t /\ s \notin Slots(archive)
  <2>1. GetSlot(archive', s) = NULL
    BY <1>1, <1>4
  <2> QED
    BY <2>1 DEF Branch, Addresses, NULL
<1> QED
  BY <1>2, <1>3, <1>4

\* The copy of a call goes on being filled.
LEMMA LaidStays ==
    ASSUME Stepped, stack # <<>>, NEW p \in Int, Writes(top.target, p),
           NEW k \in 1..Len(stack), NEW f \in Frames, f = stack[k],
           Open(f) => p # f.res,
           NEW h \in Frames, h.op = f.op, h.res = f.res, h.i >= f.i
    PROVE  Laid(h)'
<1>1. FrameOK(f) /\ Laid(f) /\ f.op \in Nodes /\ f.i \in Nat
  BY FramesAre
<1>2. Open(h)' <=> Open(f)
  BY <1>1, NodeStays DEF Open
<1> SUFFICES ASSUME Open(f)
             PROVE  /\ archive'.heap[h.res].type = TypeAddr(DumpBase, GraphTag(src'[h.op]))
                    /\ \A i \in h.i..Len(archive'.heap[h.res].slots) :
                          GetSlot(archive', <<h.res, i>>) = NULL
                    /\ \A s \in Slots(archive') : GetSlot(archive', s) # h.res
  BY <1>2 DEF Laid
<1> DEFINE a == f.res
           n == Len(archive.heap[a].slots)
<1>3. /\ a \in Addresses(archive) /\ a \in Addresses(archive')
      /\ archive'.heap[a].type = archive.heap[a].type
      /\ Len(archive'.heap[a].slots) = n
  BY <1>1, OpenIsBranch
<1>4. /\ archive.heap[a].type = TypeAddr(DumpBase, GraphTag(src[f.op]))
      /\ \A i \in f.i..n : GetSlot(archive, <<a, i>>) = NULL
      /\ \A s \in Slots(archive) : GetSlot(archive, s) # a
  BY <1>1 DEF Laid
<1>5. archive'.heap[h.res].type = TypeAddr(DumpBase, GraphTag(src'[h.op]))
  BY <1>1, <1>3, <1>4, NodeStays
<1>6. a # NULL /\ n \in Nat
  <2>1. archive \in Archives
    BY DEF Stepped, MoveOK, ArchiveOK
  <2> QED
    BY <1>3, <2>1, ArchiveIs DEF Open
<1> HIDE DEF a, n
<1>7. ASSUME NEW s \in Slots(archive')
      PROVE  GetSlot(archive', s) # h.res
  BY <1>4, <1>6 DEF Writes, a
<1>8. ASSUME NEW i \in h.i..n
      PROVE  GetSlot(archive', <<a, i>>) = NULL
  <2>1. i \in f.i..n /\ i \in 1..n
    <3>1. f.i \in Nat /\ f.i # 0 /\ h.i \in Nat
      BY <1>1 DEF FrameOK, Frames
    <3> QED
      BY <1>6, <3>1
  <2>2. <<a, i>> \in Slots(archive)
    BY <1>3, <2>1, SlotIn DEF n
  <2>3. <<a, i>> \in Slots(archive')
    BY <1>3, <2>1, SlotIn DEF n
  <2>4. <<a, i>> # top.target
    <3> SUFFICES ASSUME <<a, i>> = top.target PROVE FALSE
      OBVIOUS
    <3>1. top.target[1] = stack[k].res /\ top.target[2] = i
      BY DEF a
    <3>2. i = f.i - 1
      BY <3>1, TargetOf
    <3> QED
      BY <1>1, <1>6, <2>1, <3>2
  <2> QED
    BY <1>4, <2>1, <2>2, <2>3, <2>4 DEF Writes
<1> QED
  BY <1>3, <1>5, <1>7, <1>8 DEF a, n

LEMMA NestedStays ==
    ASSUME Stepped, NEW f \in Frames, NEW g \in Frames, Nested(f, g),
           f.op \in Nodes, g.op \in Nodes, g.i - 1 \in 1..Len(src[g.op].items),
           NEW h \in Frames, h.op = f.op, Open(h)' => h.res > g.res
    PROVE  Nested(h, g)'
<1>1. EqualNodes(src, f.op, src[g.op].items[g.i - 1])
  BY DEF Nested
<1>2. EqualNodes(src, src[g.op].items[g.i - 1], src'[g.op].items[g.i - 1])
  BY NodeStays
<1>3. EqualNodes(src', f.op, src'[g.op].items[g.i - 1])
  BY <1>1, <1>2, EqualChain DEF Stepped
<1> QED
  BY <1>3 DEF Nested

\* What a call may store before its copy is complete.
Stored(p) == p = NULL \/ p = GetSlot(archive, top.target) \/ StandsFor(p)

\* What is stored refers to no copy that is being filled, and is in order.
Apart(p, k) == Open(stack[k]) => p # stack[k].res

InOrder(p) == top.target # Root /\ p \in Branch(archive', DumpBase) => p > top.target[1]

LEMMA NullIsNoBranch ==
    ASSUME Stepped
    PROVE  NULL \notin Branch(archive', DumpBase) /\ NULL \in Int
BY DEF Branch, Addresses, NULL

LEMMA StoredApart ==
    ASSUME Stepped, stack # <<>>, NEW p \in Int, Stored(p)
    PROVE  InOrder(p) /\ \A k \in 1..Len(stack) : Apart(p, k)
<1>1. top.target \in Slots(archive)
  BY ObjIs DEF Stepped
<1>2. ASSUME NEW k \in 1..Len(stack), Open(stack[k])
      PROVE  /\ stack[k].res # NULL /\ stack[k].res \in Branch(archive', DumpBase)
             /\ \A s \in Slots(archive) : GetSlot(archive, s) # stack[k].res
  <2>1. stack[k] \in Frames /\ FrameOK(stack[k]) /\ Laid(stack[k])
    BY FramesAre
  <2> QED
    BY <1>2, <2>1, OpenIsBranch DEF Open, Laid
<1>3. CASE p = NULL
  BY <1>2, <1>3, NullIsNoBranch DEF InOrder, Apart
<1>4. CASE StandsFor(p)
  BY <1>2, <1>4 DEF InOrder, Apart, StandsFor
<1>5. CASE p = GetSlot(archive, top.target)
  <2>1. IsPointer(archive, p)
    BY <1>1, <1>5 DEF Stepped, Pointers
  <2>2. InOrder(p)
    BY <1>1, <1>5, <2>1, OldBranch DEF Stepped, Layout, HeapOrdered, Containing, InOrder
  <2> QED
    BY <1>1, <1>2, <1>5, <2>2 DEF Apart
<1> QED
  BY <1>3, <1>4, <1>5 DEF Stored

LEMMA PublishedApart ==
    ASSUME Stepped, stack # <<>>, Open(top)
    PROVE  InOrder(top.res) /\ \A k \in 2..Len(stack) : Apart(top.res, k)
<1> DEFINE n == Len(stack)
<1>1. n \in Nat /\ n >= 1 /\ top = stack[1]
  BY FramesAre
<1>2. ASSUME NEW k \in 2..n
      PROVE  Apart(top.res, k)
  <2>1. k \in 1..n /\ 1 \in 1..n /\ k # 1
    <3> HIDE DEF n
    <3> QED
      BY <1>1
  <2> QED
    BY <1>1, <2>1 DEF Apart, Stepped, MoveOK, StackOK
<1>3. CASE n = 1
  <2>1. top.target = Root
    BY <1>1, <1>3 DEF Stepped, MoveOK, StackOK
  <2> QED
    BY <1>2, <2>1 DEF InOrder
<1>4. CASE n >= 2
  <2>1. Called(top, stack[2]) /\ Nested(top, stack[2])
    BY <1>4, CallerIs DEF Stepped
  <2>2. top.target[1] = stack[2].res /\ top.res > stack[2].res
    BY <2>1 DEF Called, Nested
  <2> QED
    BY <1>2, <2>2 DEF InOrder
<1>5. n = 1 \/ n >= 2
  <2> HIDE DEF n
  <2> QED
    BY <1>1
<1> QED
  BY <1>3, <1>4, <1>5

\* What does not depend on the stack.
LEMMA StoreLayout ==
    ASSUME Stepped, stack # <<>>, NEW p \in Int, Writes(top.target, p), InOrder(p)
    PROVE  GraphOK(src') /\ HeapOrdered'
<1>1. top.target \in Slots(archive)
  BY ObjIs DEF Stepped
<1>2. HeapOrdered'
  BY <1>1, OrderStays DEF InOrder
<1> QED
  BY <1>2, ReplacedGrounded DEF Stepped, Layout

LEMMA PoppedLayout ==
    ASSUME Stepped, stack # <<>>, NEW p \in Int, Writes(top.target, p), InOrder(p),
           \A k \in 2..Len(stack) : Apart(p, k), stack' = Tail(stack)
    PROVE  Layout'
<1> DEFINE n == Len(stack)
           l == Len(stack')
<1>1. /\ n \in Nat /\ n >= 1 /\ l = n - 1
      /\ \A k \in 1..(n - 1) : stack'[k] = stack[k + 1]
  BY TopIs DEF Stepped, MoveOK
<1>2. /\ \A k \in 1..n : /\ stack[k] \in Frames /\ FrameOK(stack[k]) /\ stack[k].op \in Nodes
                         /\ stack[k].i \in Nat
      /\ \A k \in 1..(n - 1) : /\ Nested(stack[k], stack[k + 1]) /\ Open(stack[k + 1])
                               /\ stack[k + 1].i - 1 \in 1..Len(src[stack[k + 1].op].items)
  BY FramesAre
<1> HIDE DEF n, l
<1>3. ASSUME NEW f \in Frames, NEW k \in 1..l, stack'[k] = f
      PROVE  Laid(f)'
  <2>1. k + 1 \in 2..n /\ k + 1 \in 1..n /\ k \in 1..(n - 1)
    BY <1>1
  <2>2. f = stack[k + 1] /\ f.i \in Nat /\ f.i >= f.i
    <3>1. stack'[k] = stack[k + 1]
      BY <1>1, <2>1
    <3>2. stack[k + 1].i \in Nat
      BY <1>2, <2>1
    <3> QED
      BY <1>3, <3>1, <3>2
  <2>3. Open(f) => p # f.res
    BY <2>1, <2>2 DEF Apart, n
  <2> QED
    BY <2>1, <2>2, <2>3, LaidStays DEF n
<1>4. ASSUME NEW f \in Frames, NEW g \in Frames, NEW k \in 1..(l - 1),
             stack'[k] = f, stack'[k + 1] = g
      PROVE  Nested(f, g)'
  <2>1. /\ k \in 1..(n - 1) /\ k + 1 \in 1..(n - 1) /\ k + 1 \in 1..n
        /\ (k + 1) + 1 \in 1..n
    BY <1>1
  <2>2. f = stack[k + 1] /\ g = stack[(k + 1) + 1]
    BY <1>1, <1>4, <2>1
  <2>3. /\ Nested(f, g) /\ f.op \in Nodes /\ g.op \in Nodes
        /\ g.i - 1 \in 1..Len(src[g.op].items)
    BY <1>2, <2>1, <2>2
  <2>4. Open(f)' => f.res > g.res
    BY <2>3, NodeStays DEF Open, Nested
  <2> QED
    BY <2>3, <2>4, NestedStays
<1>5. stack' # <<>> => stack'[l].op = root'
  <2> SUFFICES ASSUME stack' # <<>> PROVE stack'[l].op = root
    BY DEF Stepped
  <2>1. stack' \in Seq(Frames)
    BY DEF Stepped, MoveOK, StackOK
  <2>2. l \in Nat /\ l >= 1
    BY <2>1, EmptySeq DEF l
  <2>3. stack'[l] = stack[l + 1] /\ l + 1 = n
    <3>1. l \in 1..(n - 1) /\ l + 1 = n
      BY <1>1, <2>2
    <3> QED
      BY <1>1, <3>1
  <2> QED
    BY <2>3 DEF Stepped, Layout, n
<1>6. GraphOK(src') /\ HeapOrdered'
  BY StoreLayout
<1> QED
  BY <1>3, <1>4, <1>5, <1>6 DEF Layout, l

\* The innermost call goes on, as f.
LEMMA ReplacedLayout ==
    ASSUME Stepped, stack # <<>>, NEW p \in Int, Writes(top.target, p), InOrder(p),
           \A k \in 2..Len(stack) : Apart(p, k),
           NEW f \in Frames, stack' = Replace(f), f.op = top.op, Laid(f)',
           Open(f)' /\ Len(stack) >= 2 => f.res > stack[2].res
    PROVE  Layout'
<1> DEFINE n == Len(stack)
<1>1. /\ n \in Nat /\ n >= 1 /\ Len(stack') = n /\ stack'[1] = f
      /\ \A k \in 2..n : stack'[k] = stack[k]
  BY TopIs, ReplacedIs DEF Stepped, MoveOK
<1>2. /\ top = stack[1] /\ 1 \in 1..n
      /\ \A k \in 1..n : /\ stack[k] \in Frames /\ FrameOK(stack[k]) /\ stack[k].op \in Nodes
                         /\ stack[k].i \in Nat
      /\ \A k \in 1..(n - 1) : /\ Nested(stack[k], stack[k + 1]) /\ Open(stack[k + 1])
                               /\ stack[k + 1].i - 1 \in 1..Len(src[stack[k + 1].op].items)
  BY FramesAre
<1> HIDE DEF n
<1>3. ASSUME NEW h \in Frames, NEW k \in 1..n, stack'[k] = h
      PROVE  Laid(h)'
  <2>1. CASE k = 1
    BY <1>1, <1>3, <2>1
  <2>2. CASE k # 1
    <3>1. k \in 2..n
      BY <1>1, <2>2
    <3>2. h = stack[k] /\ h.i \in Nat /\ h.i >= h.i
      BY <1>1, <1>2, <1>3, <3>1
    <3>3. Open(h) => p # h.res
      BY <3>1, <3>2 DEF Apart, n
    <3> QED
      BY <3>1, <3>2, <3>3, LaidStays DEF n
  <2> QED
    BY <2>1, <2>2
<1>4. ASSUME NEW h \in Frames, NEW g \in Frames, NEW k \in 1..(n - 1),
             stack'[k] = h, stack'[k + 1] = g
      PROVE  Nested(h, g)'
  <2>1. k + 1 \in 2..n /\ k \in 1..n /\ k + 1 \in 1..n
    BY <1>1
  <2>2. g = stack[k + 1]
    BY <1>1, <1>4, <2>1
  <2>3. stack[k] \in Frames /\ g.op \in Nodes /\ stack[k].op \in Nodes
        /\ Nested(stack[k], g) /\ g.i - 1 \in 1..Len(src[g.op].items)
    BY <1>2, <2>1, <2>2
  <2>4. PICK o \in Frames : o = stack[k]
    BY <2>3
  <2>5. CASE k = 1
    <3>1. h = f /\ o = top /\ g = stack[2] /\ n >= 2
      BY <1>1, <1>2, <1>4, <2>1, <2>2, <2>4, <2>5
    <3>2. Open(h)' => h.res > g.res
      BY <3>1 DEF n
    <3> QED
      BY <2>3, <2>4, <3>1, <3>2, NestedStays
  <2>6. CASE k # 1
    <3>1. h = o
      BY <1>1, <1>4, <2>1, <2>4, <2>6
    <3>2. Open(h)' => h.res > g.res
      BY <2>3, <2>4, <3>1, NodeStays DEF Open, Nested
    <3> QED
      BY <2>3, <2>4, <3>1, <3>2, NestedStays
  <2> QED
    BY <2>5, <2>6
<1>5. stack'[n].op = root'
  <2>1. stack[n].op = root
    BY DEF Stepped, Layout, n
  <2>2. CASE n = 1
    BY <1>1, <1>2, <2>1, <2>2 DEF Stepped
  <2>3. CASE n # 1
    <3>1. n \in 2..n
      BY <1>1, <2>3
    <3> QED
      BY <1>1, <2>1, <3>1 DEF Stepped
  <2> QED
    BY <2>2, <2>3
<1>6. GraphOK(src') /\ HeapOrdered'
  BY StoreLayout
<1> QED
  BY <1>1, <1>3, <1>4, <1>5, <1>6 DEF Layout

\* The innermost call goes on as f, and makes a call g.
LEMMA PushedLayout ==
    ASSUME Stepped, stack # <<>>, NEW p \in Int, Writes(top.target, p), InOrder(p),
           \A k \in 2..Len(stack) : Apart(p, k),
           NEW f \in Frames, NEW g \in Frames, stack' = <<g>> \o Replace(f), f.op = top.op,
           Laid(f)', Open(f)' /\ Len(stack) >= 2 => f.res > stack[2].res,
           ~ Open(g)', EqualNodes(src', g.op, src'[f.op].items[f.i - 1])
    PROVE  Layout'
<1> DEFINE n == Len(stack)
<1>1. /\ n \in Nat /\ n >= 1 /\ Len(stack') = n + 1 /\ stack'[1] = g /\ stack'[2] = f
      /\ \A k \in 2..n : stack'[k + 1] = stack[k]
  <2> DEFINE s == <<g>> \o Replace(f)
  <2>1. StackOK /\ Len(stack) \in Nat /\ Len(stack) >= 1
    BY TopIs DEF Stepped, MoveOK
  <2>2. /\ Len(s) = Len(stack) + 1 /\ s[1] = g /\ s[2] = f
        /\ \A k \in 2..Len(stack) : s[k + 1] = stack[k]
    BY <2>1, PushedIs
  <2>3. stack' = s
    OBVIOUS
  <2> HIDE DEF s
  <2> QED
    BY <2>1, <2>2, <2>3
<1>2. /\ top = stack[1] /\ 1 \in 1..n
      /\ \A k \in 1..n : /\ stack[k] \in Frames /\ FrameOK(stack[k]) /\ stack[k].op \in Nodes
                         /\ stack[k].i \in Nat
      /\ \A k \in 1..(n - 1) : /\ Nested(stack[k], stack[k + 1]) /\ Open(stack[k + 1])
                               /\ stack[k + 1].i - 1 \in 1..Len(src[stack[k + 1].op].items)
  BY FramesAre
<1> HIDE DEF n
<1>3. ASSUME NEW h \in Frames, NEW k \in 1..(n + 1), stack'[k] = h
      PROVE  Laid(h)'
  <2>1. CASE k = 1
    BY <1>1, <1>3, <2>1 DEF Laid
  <2>2. CASE k = 2
    BY <1>1, <1>3, <2>2
  <2>3. CASE k # 1 /\ k # 2
    <3> DEFINE j == k - 1
    <3>1. j \in 2..n /\ j \in 1..n /\ j + 1 = k
      BY <1>1, <2>3
    <3> HIDE DEF j
    <3>2. h = stack[j] /\ h.i \in Nat /\ h.i >= h.i
      <4>1. stack'[j + 1] = stack[j]
        BY <1>1, <3>1
      <4>2. stack[j].i \in Nat
        BY <1>2, <3>1
      <4>3. h = stack[j]
        BY <1>3, <3>1, <4>1
      <4>4. h.i \in Nat
        BY <4>2, <4>3
      <4> QED
        BY <4>3, <4>4
    <3>3. Open(h) => p # h.res
      BY <3>1, <3>2 DEF Apart, n
    <3> QED
      BY <3>1, <3>2, <3>3, LaidStays DEF n
  <2> QED
    BY <2>1, <2>2, <2>3
<1>4. ASSUME NEW h \in Frames, NEW e \in Frames, NEW k \in 1..n,
             stack'[k] = h, stack'[k + 1] = e
      PROVE  Nested(h, e)'
  <2>1. CASE k = 1
    <3>1. h = g /\ e = f
      BY <1>1, <1>4, <2>1
    <3> QED
      BY <3>1 DEF Nested
  <2>2. CASE k # 1
    <3> DEFINE j == k - 1
    <3>1. /\ j \in 1..(n - 1) /\ k = j + 1 /\ k \in 2..n /\ k \in 1..n /\ j \in 1..n
          /\ j # 1 => j \in 2..n
      BY <1>1, <2>2
    <3> HIDE DEF j
    <3>2. e = stack[k]
      BY <1>1, <1>4, <3>1
    <3>3. /\ Nested(stack[j], stack[k]) /\ stack[j] \in Frames /\ stack[j].op \in Nodes
          /\ stack[k].op \in Nodes /\ stack[k].i - 1 \in 1..Len(src[stack[k].op].items)
      BY <1>2, <3>1
    <3>4. PICK o \in Frames : o = stack[j]
      BY <3>3
    <3>5. CASE j = 1
      <4>1. k = 2 /\ h = f /\ o = top /\ n >= 2
        BY <1>1, <1>2, <1>4, <3>1, <3>4, <3>5
      <4>2. Open(h)' => h.res > e.res
        BY <3>2, <4>1 DEF n
      <4> QED
        BY <3>2, <3>3, <3>4, <4>1, <4>2, NestedStays
    <3>6. CASE j # 1
      <4>1. h = o
        BY <1>1, <1>4, <3>1, <3>4, <3>6
      <4>2. Open(h)' => h.res > e.res
        BY <3>2, <3>3, <3>4, <4>1, NodeStays DEF Open, Nested
      <4> QED
        BY <3>2, <3>3, <3>4, <4>1, <4>2, NestedStays
    <3> QED
      BY <3>5, <3>6
  <2> QED
    BY <2>1, <2>2
<1>5. stack'[n + 1].op = root'
  <2>1. stack[n].op = root
    BY DEF Stepped, Layout, n
  <2>2. CASE n = 1
    BY <1>1, <1>2, <2>1, <2>2 DEF Stepped
  <2>3. CASE n # 1
    <3>1. n \in 2..n
      BY <1>1, <2>3
    <3> QED
      BY <1>1, <2>1, <3>1 DEF Stepped
  <2> QED
    BY <2>2, <2>3
<1>6. GraphOK(src') /\ HeapOrdered'
  BY StoreLayout
<1>7. (n + 1) - 1 = n
  BY <1>1
<1> QED
  BY <1>1, <1>3, <1>4, <1>5, <1>6, <1>7 DEF Layout

\* The next item of the innermost call's container.
LEMMA NextItemLaid ==
    ASSUME Stepped, Filling, Writes(top.target, GetSlot(archive, top.target)),
           NEW f \in Frames, f.op = top.op, f.res = top.res, f.i = top.i + 1
    PROVE  /\ stack # <<>> /\ Laid(f)'
           /\ Open(f)' /\ Len(stack) >= 2 => f.res > stack[2].res
<1>1. stack # <<>> /\ Open(top)
  BY FillingTop DEF Stepped
<1>2. /\ top \in Frames /\ 1 \in 1..Len(stack) /\ top = stack[1] /\ top.i \in Nat
      /\ top.op \in Nodes
  BY <1>1, FramesAre
<1>3. GetSlot(archive, top.target) \in Int
  BY <1>1, ObjIs, SlotIs DEF Stepped
<1>4. \A k \in 1..Len(stack) : Apart(GetSlot(archive, top.target), k)
  BY <1>1, <1>3, StoredApart DEF Stored
<1>5. Laid(f)'
  <2>1. PICK o \in Frames : o = top
    BY <1>2
  <2>2. f.i >= o.i
    BY <1>2, <2>1
  <2>3. Open(o) => GetSlot(archive, top.target) # o.res
    BY <1>2, <1>4, <2>1 DEF Apart
  <2> QED
    BY <1>1, <1>2, <1>3, <2>1, <2>2, <2>3, LaidStays
<1>6. Len(stack) >= 2 => Nested(top, stack[2])
  BY <1>1, CallerIs DEF Stepped
<1> QED
  BY <1>1, <1>5, <1>6 DEF Nested

\* A new copy.
LEMMA BegunLaid ==
    ASSUME Stepped, NEW f \in Frames, Begun(f)
    PROVE  Laid(f)' /\ (Open(f)' /\ Len(stack) >= 2 => f.res > stack[2].res)
<1> DEFINE a == f.res
<1>1. /\ stack # <<>> /\ f.op = top.op /\ a \in Addresses(archive') /\ a \notin Addresses(archive)
      /\ archive'.heap[a].type = TypeAddr(DumpBase, GraphTag(obj))
      /\ Writes(top.target, NULL)
  BY DEF Begun
<1>2. top.op \in Nodes /\ obj = src[top.op] /\ archive \in Archives
  BY <1>1, ObjIs DEF Stepped
<1>3. /\ Len(archive'.heap) \in Nat /\ Len(archive.heap) \in Nat /\ Len(archive'.heap) < DumpBase
      /\ DumpBase \in Nat
  BY NewArchive DEF Stepped, MoveOK
<1>4. a \in Nat /\ a # NULL /\ a < DumpBase /\ a > Len(archive.heap)
  BY <1>1, <1>3 DEF Addresses, NULL
<1>5. archive'.heap[a].type = TypeAddr(DumpBase, GraphTag(src'[f.op]))
  BY <1>1, <1>2, NodeStays
<1> HIDE DEF a
<1>6. ASSUME NEW s \in Slots(archive')
      PROVE  GetSlot(archive', s) # a
  <2>1. CASE s \in Slots(archive)
    <3>1. IsPointer(archive, GetSlot(archive, s))
      BY <2>1 DEF Stepped, Pointers
    <3>2. GetSlot(archive, s) # a
      BY <1>1, <1>3, <1>4, <3>1 DEF IsPointer
    <3> QED
      BY <1>1, <1>4, <2>1, <3>2 DEF Writes
  <2>2. CASE s \notin Slots(archive)
    BY <1>1, <1>4, <2>2 DEF Writes
  <2> QED
    BY <2>1, <2>2
<1>7. ASSUME NEW i \in f.i..Len(archive'.heap[a].slots)
      PROVE  GetSlot(archive', <<a, i>>) = NULL
  <2>1. archive' \in Archives
    BY DEF Stepped, ArchiveGrows, ArchiveOK
  <2>2. Len(archive'.heap[a].slots) \in Nat
    BY <1>1, <2>1, ArchiveIs DEF a
  <2>3. f.i \in Nat /\ f.i = 1
    BY DEF Begun, Frames
  <2>4. i \in 1..Len(archive'.heap[a].slots)
    BY <2>2, <2>3
  <2>5. <<a, i>> \in Slots(archive')
    BY <1>1, <2>4, SlotIn DEF a
  <2>6. <<a, i>> \notin Slots(archive)
    <3> SUFFICES ASSUME <<a, i>> \in Slots(archive) PROVE FALSE
      OBVIOUS
    <3>1. <<a, i>> # Root
      BY <1>4 DEF Root, NULL
    <3>2. <<a, i>>[1] \in Addresses(archive)
      BY <1>2, <3>1, SlotIs
    <3> QED
      BY <1>1, <3>2 DEF a
  <2>7. top.target \in Slots(archive)
    BY <1>1, ObjIs DEF Stepped
  <2> QED
    BY <1>1, <2>5, <2>6, <2>7 DEF Writes
<1>8. Laid(f)'
  BY <1>5, <1>6, <1>7 DEF Laid, a
<1>9. Len(stack) >= 2 => f.res > stack[2].res
  <2> SUFFICES ASSUME Len(stack) >= 2 PROVE f.res > stack[2].res
    OBVIOUS
  <2>1. FrameOK(stack[2]) /\ Open(stack[2]) /\ stack[2].res \in Nat
    BY <1>1, CallerIs DEF Stepped
  <2>2. stack[2].res \in Addresses(archive)
    BY <2>1 DEF FrameOK
  <2> QED
    BY <1>3, <1>4, <2>2 DEF Addresses, a
<1> QED
  BY <1>8, <1>9

LEMMA LayoutStays ==
    ASSUME Stepped, ValueMove
    PROVE  Layout'
<1>1. ASSUME NEW p, Returned(p)
      PROVE  Layout'
  <2>1. stack # <<>> /\ stack' = Tail(stack) /\ p \in Int /\ Writes(top.target, p)
    BY <1>1 DEF Returned
  <2>2. InOrder(p) /\ \A k \in 2..Len(stack) : Apart(p, k)
    <3>1. CASE Stored(p)
      <4>1. InOrder(p) /\ \A k \in 1..Len(stack) : Apart(p, k)
        BY <2>1, <3>1, StoredApart
      <4>2. \A k \in 2..Len(stack) : k \in 1..Len(stack)
        OBVIOUS
      <4> QED
        BY <4>1, <4>2
    <3>2. CASE Open(top) /\ p = top.res
      BY <2>1, <3>2, PublishedApart
    <3> QED
      BY <1>1, <3>1, <3>2 DEF Returned, Stored
  <2> QED
    BY <2>1, <2>2, PoppedLayout
<1>2. ASSUME NEW p, NEW f, Continued(p, f)
      PROVE  Layout'
  <2>1. /\ stack # <<>> /\ IsString(top) /\ stack' = Replace(f) /\ f \in Frames /\ f.op = top.op
        /\ p \in Int /\ Writes(top.target, p) /\ StandsFor(p)
    BY <1>2 DEF Continued
  <2>2. InOrder(p) /\ \A k \in 1..Len(stack) : Apart(p, k)
    BY <2>1, StoredApart DEF Stored
  <2>3. top.op \in Nodes
    BY <2>1, FramesAre
  <2>4. ~ Open(f)'
    BY <2>1, <2>3, NodeStays DEF Open, IsString, Containers
  <2>5. Laid(f)'
    BY <2>4 DEF Laid
  <2> QED
    BY <2>1, <2>2, <2>4, <2>5, ReplacedLayout
<1>3. ASSUME NEW f, Begun(f)
      PROVE  Layout'
  <2>1. /\ stack # <<>> /\ stack' = Replace(f) /\ f \in Frames /\ f.op = top.op
        /\ Writes(top.target, NULL)
    BY <1>3 DEF Begun
  <2>2. NULL \in Int
    BY DEF NULL
  <2>3. InOrder(NULL) /\ \A k \in 1..Len(stack) : Apart(NULL, k)
    BY <2>1, <2>2, StoredApart DEF Stored
  <2>4. Laid(f)' /\ (Open(f)' /\ Len(stack) >= 2 => f.res > stack[2].res)
    BY <1>3, <2>1, BegunLaid
  <2> QED
    BY <2>1, <2>2, <2>3, <2>4, ReplacedLayout
<1>4. ASSUME Filling, NEW f \in Frames, f.op = top.op, f.res = top.res, f.i = top.i + 1,
             Writes(top.target, GetSlot(archive, top.target))
      PROVE  /\ stack # <<>> /\ Laid(f)' /\ GetSlot(archive, top.target) \in Int
             /\ (Open(f)' /\ Len(stack) >= 2 => f.res > stack[2].res)
             /\ InOrder(GetSlot(archive, top.target))
             /\ \A k \in 1..Len(stack) : Apart(GetSlot(archive, top.target), k)
  <2>1. stack # <<>> /\ Laid(f)' /\ (Open(f)' /\ Len(stack) >= 2 => f.res > stack[2].res)
    BY <1>4, NextItemLaid
  <2>2. GetSlot(archive, top.target) \in Int
    BY <2>1, ObjIs, SlotIs DEF Stepped
  <2> QED
    BY <2>1, <2>2, StoredApart DEF Stored
<1>5. ASSUME NEW f, Skipped(f)
      PROVE  Layout'
  <2>1. /\ Filling /\ f \in Frames /\ f.op = top.op /\ f.res = top.res /\ f.i = top.i + 1
        /\ Writes(top.target, GetSlot(archive, top.target)) /\ stack' = Replace(f)
    BY <1>5 DEF Skipped
  <2> QED
    BY <1>4, <2>1, ReplacedLayout
<1>6. ASSUME NEW f, NEW g, Descended(f, g)
      PROVE  Layout'
  <2>1. /\ Filling /\ f \in Frames /\ f.op = top.op /\ f.res = top.res /\ f.i = top.i + 1
        /\ Writes(top.target, GetSlot(archive, top.target)) /\ stack' = <<g>> \o Replace(f)
        /\ g \in Frames /\ top.i <= Len(obj.items) /\ g.op = obj.items[top.i] /\ g.res = NULL
    BY <1>6 DEF Descended
  <2>2. ~ Open(g)'
    BY <2>1 DEF Open
  <2>3. stack # <<>> /\ top.i \in Nat /\ top.i >= 1 /\ Len(obj.items) \in Nat
        /\ top.op \in Nodes /\ obj = src[top.op]
    BY <1>4, <2>1, ObjIs DEF Stepped
  <2>4. top.i \in 1..Len(obj.items) /\ f.i - 1 = top.i
    BY <2>1, <2>3
  <2>5. EqualNodes(src, g.op, src[top.op].items[top.i])
    BY <2>1, <2>3 DEF EqualNodes
  <2>6. EqualNodes(src, src[top.op].items[top.i], src'[top.op].items[top.i])
    BY <2>3, <2>4, NodeStays
  <2>7. EqualNodes(src', g.op, src'[f.op].items[f.i - 1])
    BY <2>1, <2>4, <2>5, <2>6, EqualChain DEF Stepped
  <2> DEFINE p == GetSlot(archive, top.target)
  <2>8. /\ Laid(f)' /\ p \in Int /\ (Open(f)' /\ Len(stack) >= 2 => f.res > stack[2].res)
        /\ InOrder(p) /\ \A k \in 1..Len(stack) : Apart(p, k)
    BY <1>4, <2>1
  <2>9. \A k \in 2..Len(stack) : Apart(p, k)
    BY <2>8
  <2>10. Writes(top.target, p)
    BY <2>1
  <2> HIDE DEF p
  <2> QED
    BY <2>1, <2>2, <2>3, <2>7, <2>8, <2>9, <2>10, PushedLayout
<1>7. CASE Halted
  <2>1. archive' = archive /\ stack' = stack
    BY <1>7 DEF Halted
  <2>2. GraphOK(src')
    BY ReplacedGrounded DEF Stepped, Layout
  <2>3. HeapOrdered'
    BY <2>1 DEF Stepped, Layout, HeapOrdered, Containing, Branch, Addresses
  <2>4. CASE stack = <<>>
    BY <2>1, <2>2, <2>3, <2>4 DEF Layout
  <2>5. CASE stack # <<>>
    <3>1. /\ \A k \in 1..Len(stack) : stack[k] \in Frames /\ stack[k].op \in Nodes
          /\ \A k \in 1..(Len(stack) - 1) :
                 /\ k + 1 \in 1..Len(stack) /\ k \in 1..Len(stack)
                 /\ stack[k + 1].i - 1 \in 1..Len(src[stack[k + 1].op].items)
      BY <2>5, FramesAre
    <3>2. ASSUME NEW f \in Frames, NEW k \in 1..Len(stack), stack[k] = f
          PROVE  Laid(f)'
      <4>1. Laid(f) /\ f.op \in Nodes
        BY <3>1, <3>2 DEF Stepped, Layout
      <4>2. Open(f)' <=> Open(f)
        BY <4>1, NodeStays DEF Open
      <4> QED
        BY <2>1, <4>1, <4>2, NodeStays DEF Laid
    <3>3. ASSUME NEW f \in Frames, NEW g \in Frames, NEW k \in 1..(Len(stack) - 1),
                 stack[k] = f, stack[k + 1] = g
          PROVE  Nested(f, g)'
      <4>1. Nested(f, g)
        BY <3>3 DEF Stepped, Layout
      <4>2. f.op \in Nodes /\ g.op \in Nodes /\ g.i - 1 \in 1..Len(src[g.op].items)
        BY <3>1, <3>3
      <4>3. Open(f)' => f.res > g.res
        BY <4>1, <4>2, NodeStays DEF Open, Nested
      <4> QED
        BY <4>1, <4>2, <4>3, NestedStays
    <3> QED
      BY <2>1, <2>2, <2>3, <3>2, <3>3 DEF Layout, Stepped
  <2> QED
    BY <2>4, <2>5
<1> QED
  BY <1>1, <1>2, <1>3, <1>5, <1>6, <1>7 DEF ValueMove

-----------------------------------------------------------------------------
(* The copies stand for what they are copies of. *)

\* The first n items of the copy are there.
Filled(f, n) ==
    \A i \in 1..n :
        Value(archive, DumpBase, GetSlot(archive, <<f.res, i>>))
            = GraphValue(src, src[f.op].items[i])

Contents ==
    ~ traverse_error =>
        \A f \in Frames : \A k \in 1..Len(stack) :
            stack[k] = f /\ Open(f) => Filled(f, IF k = 1 THEN f.i - 1 ELSE f.i - 2)

Published == archive.obj # NULL => Value(archive, DumpBase, archive.obj) = SourceValue

LEMMA OrderedSlots ==
    ASSUME NEW m \in Archives, NEW b,
           \A s \in Slots(m) : s # Root /\ GetSlot(m, s) \in Branch(m, b) => GetSlot(m, s) > s[1]
    PROVE  HeapGrounded(m, b)
<1>1. ASSUME NEW p \in Branch(m, b), NEW i \in 1..Len(m.heap[p].slots),
             m.heap[p].slots[i] \in Branch(m, b)
      PROVE  m.heap[p].slots[i] > p
  <2>1. p \in Addresses(m)
    BY DEF Branch
  <2>2. <<p, i>> \in Slots(m) /\ <<p, i>> # Root /\ GetSlot(m, <<p, i>>) = m.heap[p].slots[i]
    BY <2>1, SlotIn
  <2>3. GetSlot(m, <<p, i>>) > <<p, i>>[1]
    BY <1>1, <2>2
  <2> QED
    BY <2>2, <2>3
<1> QED
  BY <1>1, OrderedIsGrounded

LEMMA Groundeds ==
    ASSUME Stepped, Layout'
    PROVE  /\ archive \in Archives /\ HeapGrounded(archive, DumpBase)
           /\ archive' \in Archives /\ HeapGrounded(archive', DumpBase)
<1>1. archive \in Archives /\ archive' \in Archives
  BY DEF Stepped, MoveOK, ArchiveOK, ArchiveGrows
<1>2. HeapGrounded(archive, DumpBase)
  BY <1>1, OrderedSlots DEF Stepped, Layout, HeapOrdered, Containing
<1>3. HeapGrounded(archive', DumpBase)
  BY <1>1, OrderedSlots DEF Layout, HeapOrdered, Containing
<1> QED
  BY <1>1, <1>2, <1>3

\* What refers to no copy that is being filled stands for what it stood for.
Complete(v) ==
    /\ v \in Int /\ IsPointer(archive, v)
    /\ \A k \in 1..Len(stack) : Apart(v, k)

LEMMA SlotsComplete ==
    ASSUME Stepped, stack # <<>>, NEW s \in Slots(archive)
    PROVE  Complete(GetSlot(archive, s))
<1>1. GetSlot(archive, s) \in Int /\ IsPointer(archive, GetSlot(archive, s))
  BY SlotIs DEF Stepped, MoveOK, ArchiveOK, Pointers
<1>2. \A k \in 1..Len(stack) : Apart(GetSlot(archive, s), k)
  BY FramesAre DEF Apart, Laid
<1> QED
  BY <1>1, <1>2 DEF Complete

LEMMA ValueStays ==
    ASSUME Stepped, Layout', stack # <<>>, NEW p \in Int, Writes(top.target, p),
           NEW v, Complete(v)
    PROVE  Value(archive', DumpBase, v) = Value(archive, DumpBase, v)
<1> DEFINE R == {<<q, q>> : q \in {u \in Int : Complete(u)}}
<1>1. /\ archive \in Archives /\ HeapGrounded(archive, DumpBase)
      /\ archive' \in Archives /\ HeapGrounded(archive', DumpBase)
  BY Groundeds
<1>2. ASSUME NEW q \in Int, Complete(q), q \in Branch(archive, DumpBase)
      PROVE  /\ archive'.heap[q].type = archive.heap[q].type
             /\ Len(archive'.heap[q].slots) = Len(archive.heap[q].slots)
             /\ \A i \in 1..Len(archive.heap[q].slots) :
                   /\ Complete(archive.heap[q].slots[i])
                   /\ archive'.heap[q].slots[i] = archive.heap[q].slots[i]
  <2>1. q \in Addresses(archive) /\ q # NULL
    BY <1>2 DEF Branch, Addresses, NULL
  <2>2. SameKind(archive'.heap[q], archive.heap[q]) /\ q \in Addresses(archive')
    BY <2>1, Grown DEF Stepped, MoveOK, ArchiveGrows
  <2>3. ASSUME NEW i \in 1..Len(archive.heap[q].slots)
        PROVE  /\ Complete(archive.heap[q].slots[i])
               /\ archive'.heap[q].slots[i] = archive.heap[q].slots[i]
    <3> DEFINE s == <<q, i>>
    <3>1. s \in Slots(archive) /\ s # Root /\ GetSlot(archive, s) = archive.heap[q].slots[i]
      BY <2>1, SlotIn
    <3>2. s \in Slots(archive') /\ GetSlot(archive', s) = archive'.heap[q].slots[i]
      BY <2>2, SlotIn DEF SameKind
    <3>3. s # top.target
      <4> SUFFICES ASSUME s = top.target PROVE FALSE
        OBVIOUS
      <4>1. Len(stack) = 1 \/ Len(stack) >= 2
        <5> DEFINE n == Len(stack)
        <5>1. n \in Nat /\ n >= 1
          BY FramesAre
        <5> HIDE DEF n
        <5>2. n = 1 \/ n >= 2
          BY <5>1
        <5> QED
          BY <5>2 DEF n
      <4>2. CASE Len(stack) = 1
        BY <3>1, <4>2, FramesAre DEF Stepped, MoveOK, StackOK
      <4>3. CASE Len(stack) >= 2
        <5>1. 2 \in 1..Len(stack) /\ Open(stack[2]) /\ Called(top, stack[2])
          BY <4>3, CallerIs DEF Stepped
        <5>2. q = stack[2].res
          BY <5>1 DEF Called
        <5> QED
          BY <1>2, <5>1, <5>2 DEF Complete, Apart
      <4> QED
        BY <4>1, <4>2, <4>3
    <3>4. GetSlot(archive', s) = GetSlot(archive, s)
      BY <3>1, <3>2, <3>3 DEF Writes
    <3>5. Complete(GetSlot(archive, s))
      BY <3>1, SlotsComplete
    <3> HIDE DEF s
    <3> QED
      BY <3>1, <3>2, <3>4, <3>5
  <2> QED
    BY <2>2, <2>3 DEF SameKind
<1>3. ASSUME NEW q \in Int, Complete(q)
      PROVE  q \in Branch(archive', DumpBase) <=> q \in Branch(archive, DumpBase)
  BY <1>3, OldBranch DEF Complete
<1>4. ASSUME NEW q \in Int, Complete(q)
      PROVE  LeafValue(archive, DumpBase, q) = LeafValue(archive', DumpBase, q)
  <2>1. q \in Addresses(archive') <=> q \in Addresses(archive)
    BY <1>4, OldBranch DEF Complete
  <2>2. CASE q \in Addresses(archive)
    <3>1. SameKind(archive'.heap[q], archive.heap[q])
      BY <2>2 DEF Stepped, ArchiveGrows
    <3> QED
      BY <2>1, <2>2, <3>1 DEF LeafValue, SameKind
  <2>3. CASE q \notin Addresses(archive)
    BY <2>1, <2>3 DEF LeafValue
  <2> QED
    BY <2>2, <2>3
<1>5. ASSUME NEW r \in R
      PROVE  /\ r[1] \in Int /\ r[2] \in Int
             /\ r[1] \in Branch(archive, DumpBase) <=> r[2] \in Branch(archive', DumpBase)
             /\ r[1] \in Branch(archive, DumpBase) =>
                    /\ TypeOf(DumpBase, archive.heap[r[1]].type)
                           = TypeOf(DumpBase, archive'.heap[r[2]].type)
                    /\ Len(archive.heap[r[1]].slots) = Len(archive'.heap[r[2]].slots)
                    /\ \A i \in 1..Len(archive.heap[r[1]].slots) :
                          <<archive.heap[r[1]].slots[i], archive'.heap[r[2]].slots[i]>> \in R
             /\ r[1] \notin Branch(archive, DumpBase) =>
                    LeafValue(archive, DumpBase, r[1]) = LeafValue(archive', DumpBase, r[2])
  <2>1. PICK q \in Int : Complete(q) /\ r = <<q, q>>
    OBVIOUS
  <2>2. r[1] = q /\ r[2] = q
    BY <2>1
  <2>3. q \in Branch(archive, DumpBase) =>
            \A i \in 1..Len(archive.heap[q].slots) :
                <<archive.heap[q].slots[i], archive'.heap[q].slots[i]>> \in R
    <3> SUFFICES ASSUME q \in Branch(archive, DumpBase), NEW i \in 1..Len(archive.heap[q].slots)
                 PROVE  <<archive.heap[q].slots[i], archive'.heap[q].slots[i]>> \in R
      OBVIOUS
    <3>1. PICK u : u = archive.heap[q].slots[i]
      OBVIOUS
    <3>2. archive'.heap[q].slots[i] = u /\ Complete(u)
      BY <1>2, <2>1, <3>1
    <3>3. u \in Int
      BY <3>2 DEF Complete
    <3> QED
      BY <3>1, <3>2, <3>3
  <2> HIDE DEF R
  <2> QED
    BY <1>2, <1>3, <1>4, <2>1, <2>2, <2>3
<1>6. <<v, v>> \in R
  BY DEF Complete
<1> HIDE DEF R
<1>7. \A r \in R : Value(archive, DumpBase, r[1]) = Value(archive', DumpBase, r[2])
  BY <1>1, <1>5, ValuesAgree
<1>8. Value(archive, DumpBase, <<v, v>>[1]) = Value(archive', DumpBase, <<v, v>>[2])
  BY <1>6, <1>7
<1> QED
  BY <1>8

\* An item of the source stands for what it stood for.
LEMMA SourceStays ==
    ASSUME Stepped, NEW n \in Nodes \cup {NULL}, NEW m, EqualNodes(src, n, m)
    PROVE  GraphValue(src', m) = GraphValue(src, n)
BY ReplacedKeepsValues DEF Stepped, Layout, Nodes

LEMMA ItemStays ==
    ASSUME Stepped, NEW n \in Nodes, NEW i \in 1..Len(src[n].items)
    PROVE  /\ src[n].items[i] \in Nodes \cup {NULL}
           /\ GraphValue(src', src'[n].items[i]) = GraphValue(src, src[n].items[i])
<1>1. src[n].items[i] \in Nodes \cup {NULL}
  BY NodeIs DEF Stepped, Layout, Nodes
<1>2. EqualNodes(src, src[n].items[i], src'[n].items[i])
  BY NodeStays
<1> QED
  BY <1>1, <1>2, SourceStays

LEMMA FilledStays ==
    ASSUME Stepped, Layout', stack # <<>>, NEW p \in Int, Writes(top.target, p),
           NEW k \in 1..Len(stack), NEW f \in Frames, f = stack[k], Open(f),
           NEW n \in Int, n <= Len(src[f.op].items), Filled(f, n),
           k = 2 => n <= f.i - 2,
           NEW h \in Frames, h.op = f.op, h.res = f.res
    PROVE  Filled(h, n)'
<1>1. FrameOK(f) /\ f.op \in Nodes /\ f.i \in Nat
  BY FramesAre
<1>2. /\ f.res \in Addresses(archive) /\ f.res \in Addresses(archive')
      /\ Len(archive'.heap[f.res].slots) = Len(archive.heap[f.res].slots)
      /\ Len(archive.heap[f.res].slots) = Len(src[f.op].items)
  BY <1>1, OpenIsBranch DEF FrameOK
<1>3. Len(src[f.op].items) \in Nat
  BY <1>1, NodeIs DEF Stepped, Layout, Nodes
<1> SUFFICES ASSUME NEW i \in 1..n
             PROVE  Value(archive', DumpBase, GetSlot(archive', <<h.res, i>>))
                        = GraphValue(src', src'[h.op].items[i])
  BY DEF Filled
<1> DEFINE s == <<f.res, i>>
           v == GetSlot(archive, s)
<1>4. i \in 1..Len(src[f.op].items)
  BY <1>3
<1>5. s \in Slots(archive) /\ s \in Slots(archive')
  BY <1>2, <1>4, SlotIn
<1>6. s # top.target
  <2> SUFFICES ASSUME s = top.target PROVE FALSE
    OBVIOUS
  <2>1. top.target[1] = stack[k].res /\ top.target[2] = i
    OBVIOUS
  <2>2. k = 2 /\ i = f.i - 1
    BY <2>1, TargetOf
  <2> QED
    BY <1>1, <2>2
<1>7. GetSlot(archive', s) = v
  BY <1>5, <1>6 DEF Writes
<1>8. Complete(v)
  BY <1>5, SlotsComplete
<1>9. Value(archive, DumpBase, v) = GraphValue(src, src[f.op].items[i])
  BY DEF Filled
<1> HIDE DEF v
<1>10. Value(archive', DumpBase, v) = Value(archive, DumpBase, v)
  BY <1>8, ValueStays
<1>11. GraphValue(src', src'[f.op].items[i]) = GraphValue(src, src[f.op].items[i])
  BY <1>1, <1>4, ItemStays
<1> QED
  BY <1>7, <1>9, <1>10, <1>11

LEMMA NullValue ==
    ASSUME Stepped, Layout'
    PROVE  /\ Value(archive', DumpBase, NULL) = <<"null">>
           /\ GraphValue(src, NULL) = <<"null">>
<1>1. archive' \in Archives /\ HeapGrounded(archive', DumpBase)
  BY Groundeds
<1>2. NULL \in Int /\ NULL \notin Branch(archive', DumpBase) /\ NULL \notin Addresses(archive')
  BY DEF Branch, Addresses, NULL
<1>3. OutOfHeapValue(DumpBase, NULL) = <<"null">>
  <2>1. DumpBase \in Nat /\ Span \in Nat
    BY InterpreterAddr, SpanAssumption DEF Stepped, MoveOK
  <2> QED
    BY <2>1 DEF OutOfHeapValue, NULL
<1>4. Value(archive', DumpBase, NULL) = <<"null">>
  BY <1>1, <1>2, <1>3, ValueIs DEF LeafValue
<1>5. GraphOK(src)
  BY DEF Stepped, Layout
<1>6. NULL \notin GraphBranch(src)
  BY <1>5, NodeIs DEF GraphBranch
<1>7. GraphValue(src, NULL) = <<"null">>
  BY <1>5, <1>6, GraphValueIs DEF GraphLeaf
<1> QED
  BY <1>4, <1>7

\* What is stored for an object without items.
LEMMA StandsValue ==
    ASSUME Stepped, Layout', stack # <<>>, NEW p \in Int, StandsFor(p)
    PROVE  Value(archive', DumpBase, p) = GraphValue(src, top.op)
<1>1. archive' \in Archives /\ HeapGrounded(archive', DumpBase)
  BY Groundeds
<1>2. Value(archive', DumpBase, p) = LeafValue(archive', DumpBase, p)
  BY <1>1, ValueIs DEF StandsFor
<1>3. top.op \in Nodes
  BY FramesAre
<1>4. GraphValue(src, top.op) = GraphLeaf(src, top.op)
  BY <1>3, GraphValueIs DEF Stepped, Layout, StandsFor, Nodes
<1> QED
  BY <1>2, <1>4 DEF StandsFor

\* A copy that is complete stands for its container.
LEMMA CopyValue ==
    ASSUME Stepped, Layout', stack # <<>>, NEW p \in Int, Writes(top.target, p), Open(top),
           Filled(top, Len(obj.items))
    PROVE  Value(archive', DumpBase, top.res) = GraphValue(src, top.op)
<1>1. /\ top.op \in Nodes /\ obj = src[top.op] /\ top \in Frames /\ FrameOK(top)
      /\ top.i \in Nat /\ 1 \in 1..Len(stack) /\ top = stack[1] /\ Laid(top)
  BY FramesAre, ObjIs DEF Stepped
<1>2. PICK f \in Frames : f = top
  BY <1>1
<1> DEFINE a == f.res
<1>3. Len(src[f.op].items) \in Nat /\ DOMAIN src[f.op].items = 1..Len(src[f.op].items)
  BY <1>1, <1>2, NodeIs DEF Stepped, Layout, Nodes
<1>4. PICK n \in Nat : n = Len(src[f.op].items)
  BY <1>3
<1>5. DOMAIN src[f.op].items = 1..n
  BY <1>3, <1>4
<1>6. Filled(f, n)'
  <2>1. Filled(f, n) /\ Open(f) /\ n <= Len(src[f.op].items)
    BY <1>1, <1>2, <1>4
  <2>2. 1 # 2 /\ n \in Int
    OBVIOUS
  <2> QED
    BY <1>1, <1>2, <2>1, <2>2, FilledStays
<1>7. /\ a \in Branch(archive', DumpBase) /\ a \in Addresses(archive')
      /\ archive'.heap[a].type = archive.heap[a].type
      /\ Len(archive'.heap[a].slots) = n
  BY <1>1, <1>2, <1>4, OpenIsBranch DEF FrameOK
<1>8. archive.heap[a].type = TypeAddr(DumpBase, GraphTag(src[f.op]))
  BY <1>1, <1>2 DEF Laid
<1>9. TypeOf(DumpBase, archive'.heap[a].type) = GraphTag(src[f.op])
  <2>1. DumpBase \in Int
    BY InterpreterAddr DEF Stepped, MoveOK
  <2>2. GraphTag(src[f.op]) \in {"atom", "str", "tuple", "code"}
    BY DEF GraphTag
  <2>3. TypeOf(DumpBase, TypeAddr(DumpBase, GraphTag(src[f.op]))) = GraphTag(src[f.op])
    BY <2>1, <2>2, AddressesOfTypes
  <2> QED
    BY <1>7, <1>8, <2>3
<1>10. archive' \in Archives /\ HeapGrounded(archive', DumpBase)
  BY Groundeds
<1>11. DOMAIN archive'.heap[a].slots = 1..n
  BY <1>7, <1>10, ArchiveIs, LenProperties
<1>12. f.op \in GraphBranch(src) /\ f.op \in Nodes
  BY <1>1, <1>2 DEF GraphBranch, Open, Nodes
<1> HIDE DEF a
<1>13. ASSUME NEW i \in 1..n
       PROVE  Value(archive', DumpBase, archive'.heap[a].slots[i])
                  = GraphValue(src, src[f.op].items[i])
  <2>1. GetSlot(archive', <<a, i>>) = archive'.heap[a].slots[i]
    BY <1>7, SlotIn
  <2>2. Value(archive', DumpBase, GetSlot(archive', <<a, i>>))
            = GraphValue(src', src'[f.op].items[i])
    BY <1>6 DEF Filled, a
  <2>3. GraphValue(src', src'[f.op].items[i]) = GraphValue(src, src[f.op].items[i])
    BY <1>12, <1>4, ItemStays
  <2> QED
    BY <2>1, <2>2, <2>3
<1>14. a \in Int
  BY <1>2 DEF Frames, a
<1>15. Value(archive', DumpBase, a) =
           <<TypeOf(DumpBase, archive'.heap[a].type),
             [i \in DOMAIN archive'.heap[a].slots |->
                  Value(archive', DumpBase, archive'.heap[a].slots[i])]>>
  BY <1>7, <1>10, <1>14, ValueIs
<1>16. GraphValue(src, f.op) =
           <<GraphTag(src[f.op]),
             [i \in DOMAIN src[f.op].items |-> GraphValue(src, src[f.op].items[i])]>>
  BY <1>12, GraphValueIs DEF Stepped, Layout, Nodes
<1>17. [i \in DOMAIN archive'.heap[a].slots |->
            Value(archive', DumpBase, archive'.heap[a].slots[i])]
       = [i \in DOMAIN src[f.op].items |-> GraphValue(src, src[f.op].items[i])]
  BY <1>5, <1>11, <1>13
<1>18. Value(archive', DumpBase, a) = GraphValue(src, f.op)
  BY <1>9, <1>15, <1>16, <1>17
<1> QED
  BY <1>2, <1>18 DEF a

\* A call that returns without an error has stored what it was called for.
LEMMA ReturnedValue ==
    ASSUME Stepped, Contents, Layout', NEW p, Returned(p), ~ traverse_error'
    PROVE  Value(archive', DumpBase, p) = GraphValue(src, top.op)
<1>1. stack # <<>> /\ p \in Int /\ Writes(top.target, p)
  BY DEF Returned
<1>2. CASE StandsFor(p)
  BY <1>1, <1>2, StandsValue
<1>3. CASE Open(top) /\ p = top.res /\ top.i > Len(obj.items) /\ ~ traverse_error
  <2>1. /\ top \in Frames /\ FrameOK(top) /\ obj = src[top.op] /\ top.i \in Nat
        /\ Len(obj.items) \in Nat
    BY <1>1, ObjIs DEF Stepped
  <2>2. 1 \in 1..Len(stack) /\ top = stack[1]
    BY <1>1, FramesAre
  <2>3. Filled(top, top.i - 1)
    <3>1. PICK f \in Frames : f = top
      BY <2>1
    <3>2. Filled(f, IF 1 = 1 THEN f.i - 1 ELSE f.i - 2)
      BY <1>3, <2>2, <3>1 DEF Contents
    <3>3. Filled(f, f.i - 1)
      BY <3>2
    <3> QED
      BY <3>1, <3>3 DEF Filled
  <2>4. top.i - 1 = Len(obj.items)
    <3> DEFINE n == Len(obj.items)
    <3>1. top.i <= n + 1
      BY <1>3, <2>1 DEF FrameOK
    <3>2. n \in Nat /\ top.i > n
      BY <1>3, <2>1
    <3> HIDE DEF n
    <3>3. top.i - 1 = n
      BY <2>1, <3>1, <3>2
    <3> QED
      BY <3>3 DEF n
  <2>5. Filled(top, Len(obj.items))
    BY <2>3, <2>4
  <2> QED
    BY <1>1, <1>3, <2>5, CopyValue
<1> QED
  BY <1>2, <1>3 DEF Returned

\* The item that a call was about, in the copy that is being filled.
LEMMA ItemReturned ==
    ASSUME Stepped, Layout', stack # <<>>, Len(stack) >= 2, NEW p \in Int,
           Writes(top.target, p), NEW f \in Frames, f = stack[2],
           Value(archive', DumpBase, p) = GraphValue(src, top.op)
    PROVE  Value(archive', DumpBase, GetSlot(archive', <<f.res, f.i - 1>>))
               = GraphValue(src', src'[f.op].items[f.i - 1])
<1>1. /\ FrameOK(f) /\ Open(f) /\ Called(top, f) /\ Nested(top, f) /\ f.op \in Nodes
      /\ 1 \in 1..(Len(stack) - 1)
  BY CallerIs DEF Stepped
<1>2. top.target = <<f.res, f.i - 1>> /\ top.target \in Slots(archive)
  BY <1>1, ObjIs DEF Called, Stepped
<1>3. f.i - 1 \in 1..Len(src[f.op].items)
  <2>1. stack[1 + 1].i - 1 \in 1..Len(src[stack[1 + 1].op].items)
    BY <1>1, FramesAre
  <2> QED
    BY <2>1
<1>4. top.target \in Slots(archive')
  BY <1>2, Grown DEF Stepped, MoveOK
<1>5. GetSlot(archive', <<f.res, f.i - 1>>) = p
  BY <1>2, <1>4 DEF Writes
<1>6. top.op \in Nodes
  BY FramesAre
<1>7. EqualNodes(src, top.op, src'[f.op].items[f.i - 1])
  <2>1. EqualNodes(src, top.op, src[f.op].items[f.i - 1])
    BY <1>1 DEF Nested
  <2>2. EqualNodes(src, src[f.op].items[f.i - 1], src'[f.op].items[f.i - 1])
    BY <1>1, <1>3, NodeStays
  <2> QED
    BY <2>1, <2>2 DEF EqualNodes
<1>8. GraphValue(src', src'[f.op].items[f.i - 1]) = GraphValue(src, top.op)
  BY <1>6, <1>7, SourceStays
<1> QED
  BY <1>5, <1>8

\* The items of a copy that is being filled, but for the one that is moved in.
LEMMA OpenFilled ==
    ASSUME Stepped, Contents, Layout', ~ traverse_error, stack # <<>>,
           NEW p \in Int, Writes(top.target, p),
           NEW k \in 1..Len(stack), NEW f \in Frames, f = stack[k], Open(f),
           NEW h \in Frames, h.op = f.op, h.res = f.res
    PROVE  /\ Filled(h, IF k = 1 THEN f.i - 1 ELSE f.i - 2)'
           /\ f.i \in Nat
<1>1. FrameOK(f) /\ f.i \in Nat /\ f.op \in Nodes
  BY FramesAre
<1>2. f.i <= Len(src[f.op].items) + 1
  BY <1>1 DEF FrameOK
<1>3. Len(src[f.op].items) \in Nat
  BY <1>1, NodeIs DEF Stepped, Layout, Nodes
<1>4. PICK n \in Int : n = IF k = 1 THEN f.i - 1 ELSE f.i - 2
  BY <1>1
<1>5. Filled(f, n)
  BY <1>4 DEF Contents
<1>6. n <= Len(src[f.op].items) /\ (k = 2 => n <= f.i - 2)
  <2> DEFINE l == Len(src[f.op].items)
  <2>1. l \in Nat /\ f.i <= l + 1
    BY <1>2, <1>3
  <2> HIDE DEF l
  <2>2. n <= l /\ (k = 2 => n <= f.i - 2)
    BY <1>1, <1>4, <2>1
  <2> QED
    BY <2>2 DEF l
<1>7. Filled(h, n)'
  BY <1>5, <1>6, FilledStays
<1> QED
  BY <1>1, <1>4, <1>7

LEMMA OneMoreFilled ==
    ASSUME NEW f, NEW n \in Int, NEW m \in Int, m = n + 1, Filled(f, n)',
           Value(archive', DumpBase, GetSlot(archive', <<f.res, m>>))
               = GraphValue(src', src'[f.op].items[m])
    PROVE  Filled(f, m)'
<1>1. ASSUME NEW i \in 1..m
      PROVE  i \in 1..n \/ i = m
  OBVIOUS
<1> QED
  BY <1>1 DEF Filled

LEMMA PoppedContents ==
    ASSUME Stepped, Contents, Layout', NEW p, Returned(p)
    PROVE  Contents'
<1> SUFFICES ASSUME ~ traverse_error', NEW f \in Frames, NEW k \in 1..Len(stack'),
                    stack'[k] = f, Open(f)'
             PROVE  Filled(f, IF k = 1 THEN f.i - 1 ELSE f.i - 2)'
  BY DEF Contents
<1> DEFINE n == Len(stack)
<1>1. stack # <<>> /\ stack' = Tail(stack) /\ p \in Int /\ Writes(top.target, p)
      /\ ~ traverse_error
  BY DEF Returned
<1>2. /\ n \in Nat /\ n >= 1 /\ Len(stack') = n - 1
      /\ \A j \in 1..(n - 1) : stack'[j] = stack[j + 1]
  BY <1>1, TopIs DEF Stepped, MoveOK
<1> HIDE DEF n
<1>3. k \in 1..(n - 1) /\ k + 1 \in 1..n /\ k + 1 # 1
  BY <1>2
<1>4. f = stack[k + 1]
  BY <1>2, <1>3
<1>5. Open(f) /\ k + 1 \in 1..Len(stack)
  BY <1>1, <1>3, <1>4, FramesAre DEF n
<1>6. Filled(f, f.i - 2)' /\ f.i \in Nat
  <2>1. /\ Filled(f, IF k + 1 = 1 THEN f.i - 1 ELSE f.i - 2)'
        /\ f.i \in Nat
    BY <1>1, <1>4, <1>5, OpenFilled
  <2> QED
    BY <1>3, <2>1
<1>7. CASE k = 1
  <2>1. f = stack[2] /\ Len(stack) >= 2
    BY <1>2, <1>3, <1>4, <1>7 DEF n
  <2>2. Value(archive', DumpBase, p) = GraphValue(src, top.op)
    BY ReturnedValue
  <2>3. Value(archive', DumpBase, GetSlot(archive', <<f.res, f.i - 1>>))
            = GraphValue(src', src'[f.op].items[f.i - 1])
    BY <1>1, <2>1, <2>2, ItemReturned
  <2>4. f.i - 1 = (f.i - 2) + 1 /\ f.i - 1 \in Int /\ f.i - 2 \in Int
    BY <1>6
  <2>5. Filled(f, f.i - 1)'
    BY <1>6, <2>3, <2>4, OneMoreFilled
  <2> QED
    BY <1>7, <2>5
<1>8. CASE k # 1
  BY <1>6, <1>8
<1> QED
  BY <1>7, <1>8

\* The innermost call goes on as f.
LEMMA ReplacedContents ==
    ASSUME Stepped, Contents, Layout', stack # <<>>, NEW p \in Int, Writes(top.target, p),
           traverse_error' = traverse_error, NEW f \in Frames, stack' = Replace(f),
           ~ traverse_error /\ Open(f)' => Filled(f, f.i - 1)'
    PROVE  Contents'
<1> SUFFICES ASSUME ~ traverse_error, NEW h \in Frames, NEW k \in 1..Len(stack'),
                    stack'[k] = h, Open(h)'
             PROVE  Filled(h, IF k = 1 THEN h.i - 1 ELSE h.i - 2)'
  BY DEF Contents
<1> DEFINE n == Len(stack)
<1>1. /\ n \in Nat /\ n >= 1 /\ Len(stack') = n /\ stack'[1] = f
      /\ \A j \in 2..n : stack'[j] = stack[j] /\ Open(stack[j])
  BY TopIs, ReplacedIs DEF Stepped, MoveOK
<1> HIDE DEF n
<1>2. CASE k = 1
  BY <1>1, <1>2
<1>3. CASE k # 1
  <2>1. k \in 2..n /\ k \in 1..n
    BY <1>1, <1>3
  <2>2. h = stack[k] /\ Open(h)
    BY <1>1, <2>1
  <2>3. Filled(h, IF k = 1 THEN h.i - 1 ELSE h.i - 2)'
    BY <2>1, <2>2, OpenFilled DEF n
  <2> QED
    BY <2>3
<1> QED
  BY <1>2, <1>3

LEMMA PushedContents ==
    ASSUME Stepped, Contents, Layout', NEW f, NEW g, Descended(f, g)
    PROVE  Contents'
<1> SUFFICES ASSUME ~ traverse_error, NEW h \in Frames, NEW k \in 1..Len(stack'),
                    stack'[k] = h, Open(h)'
             PROVE  Filled(h, IF k = 1 THEN h.i - 1 ELSE h.i - 2)'
  BY DEF Contents, Descended
<1> DEFINE n == Len(stack)
           p == GetSlot(archive, top.target)
           s == <<g>> \o Replace(f)
<1>1. /\ Filling /\ f \in Frames /\ g \in Frames /\ g.res = NULL /\ stack' = s
      /\ f.op = top.op /\ f.res = top.res /\ f.i = top.i + 1 /\ Writes(top.target, p)
  BY DEF Descended
<1>2. stack # <<>> /\ Open(top)
  BY <1>1, FillingTop DEF Stepped
<1>3. /\ n \in Nat /\ n >= 1 /\ Len(s) = n + 1 /\ s[1] = g /\ s[2] = f
      /\ \A j \in 2..n : s[j + 1] = stack[j] /\ Open(stack[j])
  BY <1>1, <1>2, TopIs, PushedIs DEF Stepped, MoveOK
<1>4. p \in Int /\ top \in Frames /\ top.i \in Nat
  BY <1>2, ObjIs, SlotIs DEF Stepped
<1>5. 1 \in 1..n /\ top = stack[1]
  BY <1>2, FramesAre
<1> HIDE DEF n, p, s
<1>6. CASE k = 1
  BY <1>1, <1>3, <1>6 DEF Open
<1>7. CASE k = 2
  <2>1. h = f
    BY <1>1, <1>3, <1>7
  <2>2. PICK o \in Frames : o = top
    BY <1>4
  <2>3. Filled(f, IF 1 = 1 THEN o.i - 1 ELSE o.i - 2)'
    BY <1>1, <1>2, <1>4, <1>5, <2>2, OpenFilled DEF n
  <2>4. (IF 1 = 1 THEN o.i - 1 ELSE o.i - 2) = f.i - 2
    BY <1>1, <1>4, <2>2
  <2> QED
    BY <1>7, <2>1, <2>3, <2>4
<1>8. CASE k # 1 /\ k # 2
  <2> DEFINE j == k - 1
  <2>1. j \in 2..n /\ j \in 1..n /\ j + 1 = k /\ j # 1
    BY <1>1, <1>3, <1>8
  <2> HIDE DEF j
  <2>2. h = stack[j] /\ Open(stack[j])
    BY <1>1, <1>3, <2>1
  <2>3. Filled(h, IF j = 1 THEN h.i - 1 ELSE h.i - 2)'
    BY <1>1, <1>2, <1>4, <2>1, <2>2, OpenFilled DEF n
  <2> QED
    BY <1>8, <2>1, <2>3
<1> QED
  BY <1>6, <1>7, <1>8

\* The next item of the copy is NULL, and so is its slot.
LEMMA SkippedContents ==
    ASSUME Stepped, Contents, Layout', NEW f, Skipped(f)
    PROVE  Contents'
<1> DEFINE p == GetSlot(archive, top.target)
<1>1. /\ Filling /\ f \in Frames /\ stack' = Replace(f) /\ f.op = top.op /\ f.res = top.res
      /\ f.i = top.i + 1 /\ Writes(top.target, p) /\ traverse_error' = traverse_error
      /\ top.i <= Len(obj.items) /\ obj.items[top.i] = NULL
  BY DEF Skipped
<1>2. stack # <<>> /\ Open(top)
  BY <1>1, FillingTop DEF Stepped
<1>3. /\ p \in Int /\ top \in Frames /\ top.i \in Nat /\ top.i >= 1 /\ obj = src[top.op]
      /\ Len(obj.items) \in Nat
  BY <1>2, ObjIs, SlotIs DEF Stepped
<1>4. 1 \in 1..Len(stack) /\ top = stack[1] /\ FrameOK(top) /\ Laid(top) /\ top.op \in Nodes
  BY <1>2, FramesAre
<1> HIDE DEF p
<1>5. ASSUME ~ traverse_error
      PROVE  Filled(f, f.i - 1)'
  <2>1. PICK o \in Frames : o = top
    BY <1>3
  <2>2. Filled(f, o.i - 1)'
    <3>1. Filled(f, IF 1 = 1 THEN o.i - 1 ELSE o.i - 2)'
      BY <1>1, <1>2, <1>3, <1>4, <1>5, <2>1, OpenFilled
    <3> QED
      BY <3>1
  <2> DEFINE s == <<f.res, o.i>>
  <2>3. o.i \in 1..Len(src[f.op].items) /\ src[f.op].items[o.i] = NULL
    <3> DEFINE n == Len(obj.items)
    <3>1. top.i <= n /\ n \in Nat
      BY <1>1, <1>3
    <3> HIDE DEF n
    <3>2. top.i \in 1..n
      BY <1>3, <3>1
    <3> QED
      BY <1>1, <1>3, <2>1, <3>2 DEF n
  <2>4. /\ f.res \in Addresses(archive) /\ f.res \in Addresses(archive')
        /\ Len(archive'.heap[f.res].slots) = Len(src[f.op].items)
        /\ Len(archive.heap[f.res].slots) = Len(src[f.op].items)
    BY <1>1, <1>2, <1>3, <1>4, OpenIsBranch DEF FrameOK
  <2>5. s \in Slots(archive) /\ s \in Slots(archive')
    BY <2>3, <2>4, SlotIn
  <2>6. GetSlot(archive, s) = NULL
    <3>1. o.i \in o.i..Len(archive.heap[o.res].slots)
      BY <1>1, <1>3, <2>1, <2>3, <2>4
    <3> QED
      BY <1>1, <1>2, <1>4, <2>1, <3>1 DEF Laid
  <2>7. GetSlot(archive', s) = NULL
    BY <1>1, <2>5, <2>6 DEF Writes, p
  <2>8. src'[f.op].items[o.i] = NULL
    <3>1. EqualNodes(src, NULL, src'[f.op].items[o.i])
      BY <1>1, <1>4, <2>3, NodeStays
    <3>2. NULL \notin DOMAIN src
      BY NodeIs DEF Stepped, Layout
    <3> QED
      BY <3>1, <3>2 DEF EqualNodes
  <2>9. GraphValue(src', NULL) = GraphValue(src, NULL)
    BY SourceStays DEF EqualNodes
  <2>10. Value(archive', DumpBase, GetSlot(archive', s)) = GraphValue(src', src'[f.op].items[o.i])
    BY <2>7, <2>8, <2>9, NullValue
  <2>11. o.i = (o.i - 1) + 1 /\ o.i \in Int /\ o.i - 1 \in Int /\ f.i - 1 = o.i
    BY <1>1, <1>3, <2>1
  <2>12. Filled(f, o.i)'
    BY <2>2, <2>10, <2>11, OneMoreFilled
  <2> QED
    BY <2>11, <2>12
<1> QED
  BY <1>1, <1>2, <1>3, <1>5, ReplacedContents

LEMMA ContentsStay ==
    ASSUME Stepped, Contents, Layout', ValueMove
    PROVE  Contents'
<1>1. ASSUME NEW p, NEW f, Continued(p, f)
      PROVE  Contents'
  <2>1. /\ stack # <<>> /\ p \in Int /\ Writes(top.target, p) /\ f \in Frames
        /\ stack' = Replace(f) /\ traverse_error' = traverse_error
        /\ IsString(top) /\ f.op = top.op
    BY <1>1 DEF Continued
  <2>2. top.op \in Nodes
    BY <2>1, FramesAre
  <2>3. ~ Open(f)'
    BY <2>1, <2>2, NodeStays DEF Open, IsString, Containers
  <2> QED
    BY <2>1, <2>3, ReplacedContents
<1>2. ASSUME NEW f, Begun(f)
      PROVE  Contents'
  <2>1. /\ stack # <<>> /\ Writes(top.target, NULL) /\ f \in Frames /\ f.i = 1
        /\ stack' = Replace(f) /\ traverse_error' = traverse_error
    BY <1>2 DEF Begun
  <2>2. NULL \in Int
    BY DEF NULL
  <2>3. Filled(f, f.i - 1)'
    BY <2>1 DEF Filled
  <2> QED
    BY <2>1, <2>2, <2>3, ReplacedContents
<1>3. CASE Halted
  <2> SUFFICES ASSUME ~ traverse_error, NEW f \in Frames, NEW k \in 1..Len(stack),
                      stack[k] = f, Open(f)'
               PROVE  Filled(f, IF k = 1 THEN f.i - 1 ELSE f.i - 2)'
    BY <1>3 DEF Contents, Halted
  <2>1. stack # <<>>
    <3>1. stack \in Seq(Frames)
      BY DEF Stepped, MoveOK, StackOK
    <3> QED
      BY <3>1, EmptySeq
  <2>2. f.op \in Nodes /\ FrameOK(f) /\ f.i \in Nat
    BY <2>1, FramesAre
  <2>3. Open(f)
    BY <2>2, NodeStays DEF Open
  <2>4. PICK n \in Int : n = IF k = 1 THEN f.i - 1 ELSE f.i - 2
    BY <2>2
  <2>5. Filled(f, n)
    BY <2>3, <2>4 DEF Contents
  <2>6. Len(src[f.op].items) \in Nat /\ f.i <= Len(src[f.op].items) + 1
    BY <2>2, <2>3, NodeIs DEF Stepped, Layout, Nodes, FrameOK
  <2>7. ASSUME NEW i \in 1..n
        PROVE  Value(archive', DumpBase, GetSlot(archive', <<f.res, i>>))
                   = GraphValue(src', src'[f.op].items[i])
    <3> DEFINE l == Len(src[f.op].items)
    <3>1. l \in Nat /\ f.i <= l + 1
      BY <2>6
    <3> HIDE DEF l
    <3>2. n <= l
      BY <2>2, <2>4, <3>1
    <3>3. i \in 1..l
      BY <3>1, <3>2
    <3>4. GraphValue(src', src'[f.op].items[i]) = GraphValue(src, src[f.op].items[i])
      BY <2>2, <3>3, ItemStays DEF l
    <3> QED
      BY <1>3, <2>5, <3>4 DEF Filled, Halted
  <2>8. Filled(f, n)'
    BY <2>7 DEF Filled
  <2> QED
    BY <2>4, <2>8
<1> QED
  BY <1>1, <1>2, <1>3, PoppedContents, PushedContents, SkippedContents DEF ValueMove

LEMMA SourceValueStays ==
    ASSUME Stepped
    PROVE  SourceValue' = SourceValue /\ root \in Nodes
<1>1. root \in Nodes
  BY DEF Stepped, MoveOK, SourceOK
<1>2. GraphValue(src', root) = GraphValue(src, root)
  BY <1>1, SourceStays DEF EqualNodes
<1> QED
  BY <1>1, <1>2 DEF SourceValue, Stepped

\* A store to a slot, of what stands for the object that is moved in, or of what
\* it held, or of NULL.
LEMMA StorePublishes ==
    ASSUME Stepped, Published, Layout', stack # <<>>, NEW p \in Int, Writes(top.target, p),
           \/ p = NULL \/ p = GetSlot(archive, top.target)
           \/ Value(archive', DumpBase, p) = GraphValue(src, top.op)
    PROVE  Published'
<1>1. SourceValue' = SourceValue /\ root \in Nodes
  BY SourceValueStays
<1>2. Root \in Slots(archive) /\ GetSlot(archive, Root) = archive.obj
  BY RootIn
<1>3. Root \in Slots(archive') /\ GetSlot(archive', Root) = archive'.obj
  BY RootIn
<1>4. CASE archive'.obj = archive.obj
  <2>1. Complete(archive.obj)
    BY <1>2, SlotsComplete
  <2>2. Value(archive', DumpBase, archive.obj) = Value(archive, DumpBase, archive.obj)
    BY <2>1, ValueStays
  <2> QED
    BY <1>1, <1>4, <2>2 DEF Published
<1>5. CASE Root # top.target \/ p = GetSlot(archive, top.target)
  BY <1>2, <1>3, <1>4, <1>5 DEF Writes
<1>6. CASE Root = top.target /\ p = NULL
  BY <1>3, <1>6 DEF Writes, Published
<1>7. CASE Root = top.target /\ Value(archive', DumpBase, p) = GraphValue(src, top.op)
  <2>1. top.op = root
    <3> DEFINE n == Len(stack)
    <3>1. n \in Nat /\ n >= 1 /\ top = stack[1]
      BY FramesAre
    <3>2. CASE n >= 2
      <4>1. Open(stack[2]) /\ Called(top, stack[2])
        BY <3>2, CallerIs DEF Stepped
      <4>2. top.target[1] = stack[2].res /\ stack[2].res # NULL
        BY <4>1 DEF Called, Open
      <4> QED
        BY <1>7, <4>2 DEF Root, NULL
    <3>3. CASE n = 1
      BY <3>1, <3>3 DEF Stepped, Layout
    <3> HIDE DEF n
    <3>4. n = 1 \/ n >= 2
      BY <3>1
    <3> QED
      BY <3>2, <3>3, <3>4
  <2>2. archive'.obj = p
    BY <1>3, <1>7 DEF Writes
  <2> QED
    BY <1>1, <1>7, <2>1, <2>2 DEF Published, SourceValue
<1> QED
  BY <1>5, <1>6, <1>7

LEMMA PublishedStays ==
    ASSUME Stepped, Contents, Published, Layout', ValueMove
    PROVE  Published'
<1>1. ASSUME NEW p, Returned(p)
      PROVE  Published'
  <2>1. stack # <<>> /\ p \in Int /\ Writes(top.target, p)
    BY <1>1 DEF Returned
  <2>2. CASE ~ traverse_error'
    BY <1>1, <2>1, <2>2, ReturnedValue, StorePublishes
  <2>3. CASE p \in {NULL, GetSlot(archive, top.target)}
    BY <2>1, <2>3, StorePublishes
  <2>4. CASE StandsFor(p)
    BY <2>1, <2>4, StandsValue, StorePublishes
  <2> QED
    BY <1>1, <2>2, <2>3, <2>4 DEF Returned
<1>2. ASSUME NEW p, NEW f, Continued(p, f)
      PROVE  Published'
  <2>1. stack # <<>> /\ p \in Int /\ Writes(top.target, p) /\ StandsFor(p)
    BY <1>2 DEF Continued
  <2> QED
    BY <2>1, StandsValue, StorePublishes
<1>3. ASSUME NEW f, Begun(f)
      PROVE  Published'
  <2>1. stack # <<>> /\ Writes(top.target, NULL) /\ NULL \in Int
    BY <1>3 DEF Begun, NULL
  <2> QED
    BY <2>1, StorePublishes
<1>4. ASSUME Filling, Writes(top.target, GetSlot(archive, top.target))
      PROVE  Published'
  <2>1. stack # <<>>
    BY <1>4, FillingTop DEF Stepped
  <2>2. GetSlot(archive, top.target) \in Int
    BY <2>1, ObjIs, SlotIs DEF Stepped
  <2> QED
    BY <1>4, <2>1, <2>2, StorePublishes
<1>5. CASE Halted
  BY <1>5, SourceValueStays DEF Published, Halted
<1> QED
  BY <1>1, <1>2, <1>3, <1>4, <1>5 DEF ValueMove, Skipped, Descended

-----------------------------------------------------------------------------
(* What a loader relies on: the kinds of objects, that no object but a      *)
(* string is reached through two slots, which strings of the interpreter    *)
(* are referred to, and that each slot is counted.                          *)

HeapTypes == {TypeAddr(DumpBase, ty) : ty \in {"atom", "str", "tuple", "code"}}

\* Only containers have fields, and strings are marked as interned.
Typed == \A a \in Addresses(archive) :
             /\ archive.heap[a].type \in HeapTypes
             /\ archive.heap[a].type \in ContainerTypes \/ Len(archive.heap[a].slots) = 0
             /\ archive.heap[a].type = TypeAddr(DumpBase, "str") => archive.heap[a].interned

\* A string that is static in the interpreter is not copied.
Copied == \A a \in HeapStrings : NotStatic(archive.heap[a].val)

Unshared ==
    \A s, t \in Slots(archive) :
        /\ GetSlot(archive, s) = GetSlot(archive, t)
        /\ GetSlot(archive, s) \in Addresses(archive) \ HeapStrings
        => s = t

LEMMA SameTyped ==
    ASSUME Typed, SameObjects(archive, archive')
    PROVE  Typed'
BY DEF Typed, SameObjects, SameKind, HeapTypes, ContainerTypes, Addresses

LEMMA OneMoreTyped ==
    ASSUME MoveOK, Typed, ArchiveGrows, NEW a, Addresses(archive') = Addresses(archive) \cup {a},
           archive'.heap[a].type \in HeapTypes,
           archive'.heap[a].type \in ContainerTypes \/ Len(archive'.heap[a].slots) = 0,
           archive'.heap[a].type = TypeAddr(DumpBase, "str") => archive'.heap[a].interned
    PROVE  Typed'
BY DEF Typed, ArchiveGrows, SameKind, HeapTypes, ContainerTypes

LEMMA TypedStays ==
    ASSUME MoveOK, Typed, env' = env, NextDump
    PROVE  Typed'
<1>1. MoveOK' /\ ArchiveGrows /\ archive \in Archives
  BY StepGrows DEF MoveOK, ArchiveOK
<1>2. ASSUME archive'.heap = archive.heap PROVE Typed'
  BY <1>2 DEF Typed, HeapTypes, ContainerTypes, Addresses
<1>3. CASE Return \/ Kill \/ Unwind
  BY <1>2, <1>3 DEF Return, Kill, Unwind
<1>4. CASE HeapFull /\ (MoveAtom \/ MoveContainer \/ RecordString)
  BY <1>2, <1>4 DEF MoveAtom, MoveContainer, RecordString, Crash
<1>5. CASE MoveReference \/ MoveUnsupported
  <2>1. stack # <<>> /\ top.target \in Slots(archive)
    BY <1>5, ObjIs DEF MoveReference, MoveUnsupported, Entering, Running
  <2>2. PICK p \in Int : archive' = SetSlot(archive, top.target, p)
    <3>1. DumpBase \in Nat /\ NULL \in Int
      BY InterpreterAddr DEF MoveOK, NULL
    <3>2. obj.val \in 0..(Span - 1)
      BY <2>1, ObjIs DEF Objects
    <3>3. /\ BasicAddr(DumpBase, obj.val) \in Int /\ StaticAtom(DumpBase, obj.val) \in Int
          /\ StaticStr(DumpBase, obj.val) \in Int
      BY <3>1, <3>2, InterpreterValues
    <3> QED
      BY <1>5, <3>1, <3>3 DEF MoveReference, MoveUnsupported
  <2>3. SameObjects(archive, archive')
    BY <1>1, <2>1, <2>2, SetSlotIs
  <2> QED
    BY <2>3, SameTyped
<1>6. CASE ~ HeapFull /\ MoveAtom
  <2> DEFINE t == TypeAddr(DumpBase, "atom")
             o == HeapObject(t, obj.val, 0)
             a == Len(archive.heap) + 1
  <2>1. stack # <<>> /\ top.target \in Slots(archive) /\ obj.val \in Nat
    BY <1>6, ObjIs DEF MoveAtom, Entering, Running
  <2>2. archive' = SetSlot(NewObject(archive, o), top.target, Len(NewObject(archive, o).heap))
    BY <1>6 DEF MoveAtom
  <2>3. t \in Int /\ t \in HeapTypes /\ t # TypeAddr(DumpBase, "str")
    BY TypesDiffer, InterpreterAddr DEF MoveOK, HeapTypes
  <2> HIDE DEF t
  <2>4. /\ o \in HeapObjects /\ o.type = t /\ Len(o.slots) = 0
        /\ \A i \in 1..Len(o.slots) : o.slots[i] = NULL
    BY <2>1, <2>3, HeapObjectIs
  <2> HIDE DEF o
  <2>5. Len(NewObject(archive, o).heap) = a /\ a \in Int
    BY <1>1, <2>4, NewObjectIs, ArchiveIs
  <2>6. Len(archive'.heap) = a /\ a \in Nat /\ SameKind(archive'.heap[a], o)
    BY <1>6, <2>1, <2>2, <2>4, <2>5, AllocGrows DEF MoveOK
  <2>7. Addresses(archive') = Addresses(archive) \cup {a}
    BY <1>1, <2>6, ArchiveIs DEF Addresses
  <2> QED
    BY <1>1, <2>3, <2>4, <2>6, <2>7, OneMoreTyped DEF SameKind
<1>7. CASE ~ HeapFull /\ MoveContainer
  <2> DEFINE t == TypeAddr(DumpBase, IF obj.kind = "code" THEN "code" ELSE "tuple")
             n == Len(obj.items)
             o == HeapObject(t, 0, n)
             m == NewObject(archive, o)
             a == Len(archive.heap) + 1
  <2>1. stack # <<>> /\ top.target \in Slots(archive) /\ n \in Nat
    BY <1>7, ObjIs DEF MoveContainer, Entering, Running
  <2>2. archive' = SetSlot(m, top.target, NULL) /\ NULL \in Int
    BY <1>7 DEF MoveContainer, TargetAtEntry, NULL
  <2>3. /\ t \in Int /\ t \in HeapTypes /\ t \in ContainerTypes
        /\ t # TypeAddr(DumpBase, "str")
    BY TypesDiffer, InterpreterAddr DEF MoveOK, HeapTypes, ContainerTypes
  <2> HIDE DEF t, n
  <2>4. /\ o \in HeapObjects /\ o.type = t /\ Len(o.slots) = n
        /\ \A i \in 1..n : o.slots[i] = NULL
    <3>1. t \in Int /\ n \in Nat /\ 0 \in Nat
      BY <2>1, <2>3
    <3> QED
      BY ONLY <3>1, HeapObjectIs
  <2> HIDE DEF o
  <2>5. Len(archive'.heap) = a /\ a \in Nat /\ SameKind(archive'.heap[a], o)
    BY <1>7, <2>1, <2>2, <2>4, AllocGrows DEF MoveOK
  <2>6. Addresses(archive') = Addresses(archive) \cup {a}
    BY <1>1, <2>5, ArchiveIs DEF Addresses
  <2> QED
    BY <1>1, <2>3, <2>4, <2>5, <2>6, OneMoreTyped DEF SameKind
<1>8. CASE MoveString \/ ListString \/ (~ HeapFull /\ RecordString)
  <2>1. CASE archive' = archive
    BY <1>2, <2>1
  <2>2. CASE \E a : StringMoved(a)
    <3>1. PICK a : StringMoved(a)
      BY <2>2
    <3>2. CASE a \in HeapStrings
      BY <1>1, <3>1, <3>2 DEF StringMoved, Typed, ArchiveGrows, SameKind, HeapTypes,
                              ContainerTypes
    <3>3. CASE a \notin HeapStrings
      <4>1. archive'.heap[a].type \in HeapTypes
        BY <3>1 DEF StringMoved, HeapStrings, HeapTypes
      <4> QED
        BY <1>1, <3>1, <3>3, <4>1, OneMoreTyped DEF StringMoved
    <3> QED
      BY <3>2, <3>3
  <2>3. CASE \E n : StringListed(n)
    BY <1>1, <2>3 DEF StringListed, Typed, ArchiveGrows, SameKind, HeapTypes, ContainerTypes
  <2>4. CASE SlotRecorded
    BY <1>2, <2>4 DEF SlotRecorded
  <2>5. CASE Refers /\ MoveString
    <3>1. stack # <<>> /\ top.target \in Slots(archive)
      BY <2>5, ObjIs DEF MoveString, Entering, Running
    <3>2. obj.val \in 0..(Span - 1) /\ DumpBase \in Nat
      BY <3>1, ObjIs, InterpreterAddr DEF Objects, MoveOK
    <3>3. StaticStr(DumpBase, obj.val) \in Int
      BY <3>2, InterpreterValues
    <3>4. SameObjects(archive, archive')
      BY <1>1, <2>5, <3>1, <3>3, SetSlotIs, ReferMoves DEF ReferToStatic
    <3> QED
      BY <3>4, SameTyped
  <2>6. CASE ~ Refers /\ MoveString
    <3>1. CASE orig_map[InternedKey] # NULL
      BY <2>2, <2>6, <3>1, KnownString
    <3>2. CASE orig_map[InternedKey] = NULL /\ HeapFull
      BY <2>1, <2>6, <3>2 DEF MoveString, Refers
    <3>3. CASE orig_map[InternedKey] = NULL /\ ~ HeapFull
      BY <2>2, <2>6, <3>3, NewString
    <3> QED
      BY <3>1, <3>2, <3>3
  <2>7. CASE ListString
    <3>1. CASE str_map[top.res] # 0
      BY <2>3, <2>7, <3>1, ListFound
    <3>2. CASE str_map[top.res] = 0 /\ HeapFull
      BY <2>1, <2>7, <3>2 DEF ListString
    <3>3. CASE str_map[top.res] = 0 /\ ~ HeapFull
      BY <2>3, <2>7, <3>3, ListNew
    <3> QED
      BY <3>1, <3>2, <3>3
  <2>8. CASE ~ HeapFull /\ RecordString
    <3>1. archive'.heap = archive.heap
      BY <1>1, <2>8 DEF RecordString, Archives
    <3> QED
      BY <1>2, <3>1
  <2> QED
    BY <1>8, <2>5, <2>6, <2>7, <2>8
<1>9. CASE MoveItem
  <2>1. SameObjects(archive, archive')
    BY <1>9, ItemCountedIs DEF MoveItem
  <2> QED
    BY <2>1, SameTyped
<1>10. CASE PublishContainer
  <2> DEFINE m == ItemCounted
  <2>1. /\ Filling /\ archive' = SetSlot(m, top.target, top.res)
    BY <1>10 DEF PublishContainer
  <2>2. stack # <<>> /\ top.res \in Int /\ top.target \in Slots(archive)
    BY <2>1, FillingTop, ObjIs
  <2>3. m \in Archives /\ SameObjects(archive, m)
    BY <2>1, ItemCountedIs
  <2> HIDE DEF m
  <2>4. top.target \in Slots(m)
    BY <1>1, <2>2, <2>3, SlotsKept
  <2>5. SameObjects(m, archive')
    BY <2>1, <2>2, <2>3, <2>4, SetSlotIs
  <2>6. SameObjects(archive, archive')
    BY <2>3, <2>5 DEF SameObjects, SameKind, Addresses
  <2> QED
    BY <2>6, SameTyped
<1> QED
  BY <1>3, <1>4, <1>5, <1>6, <1>7, <1>8, <1>9, <1>10 DEF NextDump, Move

LEMMA CopiedStays ==
    ASSUME MoveOK, Copied, env' = env, NextDump
    PROVE  Copied'
<1>1. MoveOK' /\ ArchiveGrows /\ Py312' = Py312
  BY StepGrows DEF Py312, PyMinor
<1>2. ASSUME NEW a \in HeapStrings PROVE NotStatic(archive'.heap[a].val)
  <2>1. a \in Addresses(archive)
    BY DEF HeapStrings, Addresses
  <2> QED
    BY <1>1, <2>1 DEF Copied, ArchiveGrows, SameKind
<1>3. CASE HeapStrings' = HeapStrings
  BY <1>1, <1>2, <1>3 DEF Copied, NotStatic
<1>4. CASE \E a : StringMoved(a)
  <2>1. PICK a : StringMoved(a)
    BY <1>4
  <2>2. HeapStrings' = HeapStrings \cup {a} /\ (a \notin HeapStrings => NotStatic(archive'.heap[a].val))
    BY <2>1 DEF StringMoved
  <2> QED
    BY <1>1, <1>2, <2>2 DEF Copied, NotStatic
<1> QED
  BY <1>3, <1>4, MoveStep DEF Quiet, StringListed, SlotRecorded

\* What may be referred to in the dumping interpreter; of its strings, only the
\* static ones.
Pointed(p) ==
    p >= DumpBase =>
        /\ p < DumpBase + Page
        /\ \A v \in 0..(Span - 1) :
               OutOfHeapValue(DumpBase, p) = <<"str", v>> =>
                   /\ Py312 /\ v \in StaticStrs /\ v \in DOMAIN interned
                   /\ p = StaticStr(DumpBase, v)

Statics == \A s \in Slots(archive) : Pointed(GetSlot(archive, s))

LEMMA StoreStatics ==
    ASSUME Stepped, Statics, stack # <<>>, NEW p, Writes(top.target, p), Pointed(p)
    PROVE  Statics'
<1>1. Py312' = Py312 /\ DOMAIN interned' = DOMAIN interned
  BY DEF Stepped, ArchiveGrows, SourceGrows, Py312, PyMinor
<1>2. Pointed(NULL)
  <2>1. ~ (NULL >= DumpBase)
    BY NewArchive DEF Stepped, MoveOK, NULL
  <2> QED
    BY <2>1 DEF Pointed
<1> SUFFICES ASSUME NEW s \in Slots(archive')
             PROVE  Pointed(GetSlot(archive', s))
  BY <1>1 DEF Statics, Pointed
<1> QED
  BY <1>2 DEF Writes, Statics

\* A slot that keeps its pointer.
LEMMA SameStatics ==
    ASSUME Stepped, Statics, stack # <<>>, Writes(top.target, GetSlot(archive, top.target))
    PROVE  Statics'
<1>1. top.target \in Slots(archive)
  BY ObjIs DEF Stepped, MoveOK
<1> QED
  BY <1>1, StoreStatics DEF Statics

\* An address that has a value is near the base.
LEMMA ValuedIsNear ==
    ASSUME NEW base \in Nat, NEW p \in Int, NEW k, NEW v,
           OutOfHeapValue(base, p) = <<k, v>>
    PROVE  p < base + Page
<1>1. Span \in Nat
  BY SpanAssumption
<1> SUFFICES ASSUME ~ (p < base + Page) PROVE FALSE
  OBVIOUS
<1> DEFINE off == p - base - 8
<1>2. off \in Int /\ off >= 4 * Span /\ p # NULL
  BY <1>1 DEF Page, NULL
<1>3. OutOfHeapValue(base, p) = <<"dangling">>
  BY <1>1, <1>2 DEF OutOfHeapValue
<1>4. Len(<<"dangling">>) = 1 /\ Len(<<k, v>>) = 2
  OBVIOUS
<1> QED
  BY <1>3, <1>4

LEMMA StaticsStay ==
    ASSUME Stepped, Statics, ValueMove, env' = env, NextDump
    PROVE  Statics'
<1>1. /\ archive \in Archives /\ archive' \in Archives /\ ArchiveGrows
      /\ DumpBase \in Nat /\ Span \in Nat
  BY NewArchive, InterpreterAddr, SpanAssumption DEF Stepped, MoveOK, ArchiveOK
<1>2. Py312' = Py312 /\ DOMAIN interned' = DOMAIN interned
  BY DEF Stepped, ArchiveGrows, SourceGrows, Py312, PyMinor
<1>3. ASSUME SameSlots(archive, archive'), Slots(archive') = Slots(archive)
      PROVE  Statics'
  BY <1>2, <1>3 DEF Statics, Pointed, SameSlots
<1>4. ASSUME NEW p, p \in Addresses(archive') \/ p = NULL
      PROVE  Pointed(p)
  <2>1. /\ DumpBase \in Nat /\ Len(archive'.heap) \in Nat /\ Len(archive'.heap) < DumpBase
    BY NewArchive DEF Stepped, MoveOK
  <2> QED
    BY <1>4, <2>1 DEF NULL, Addresses, Pointed
<1>5. CASE stack # <<>> /\ obj.kind = "str"
  <2>2. \/ MoveString \/ ListString \/ RecordString \/ Unwind \/ Return \/ Kill
        \/ MoveReference
    BY <1>5 DEF NextDump, Move, MoveAtom, MoveUnsupported, MoveContainer,
                MoveItem, PublishContainer, Filling, Containers
  <2>3. CASE archive' = archive
    BY <1>3, <2>3 DEF SameSlots
  <2>4. CASE \E a : StringMoved(a)
    <3>1. PICK a : StringMoved(a)
      BY <2>4
    <3>2. a \in HeapStrings' /\ a \in Addresses(archive')
      BY <3>1 DEF StringMoved, HeapStrings, Addresses
    <3>3. Pointed(a)
      BY <1>4, <3>2
    <3> QED
      BY <1>5, <3>1, <3>3, StoreStatics DEF StringMoved
  <2>5. CASE (\E n : StringListed(n)) \/ SlotRecorded
    BY <1>3, <2>5 DEF StringListed, SlotRecorded
  <2>6. CASE (MoveString /\ Refers) \/ MoveReference
    <3>1. top.target \in Slots(archive) /\ obj.val \in 0..(Span - 1)
      BY <1>5, ObjIs DEF Objects, Stepped
    <3> DEFINE p == StaticStr(DumpBase, obj.val)
    <3>2. p \in Int /\ OutOfHeapValue(DumpBase, p) = <<"str", obj.val>>
      BY <1>1, <3>1, InterpreterValues
    <3>3. archive' = SetSlot(archive, top.target, p)
      BY <1>5, <2>6, ReferMoves DEF ReferToStatic, MoveReference
    <3>4. Py312 /\ obj.val \in StaticStrs /\ obj.val \in DOMAIN interned
      <4>1. Py312 /\ obj.val \in StaticStrs
        <5>1. CASE MoveString /\ Refers
          BY <1>5, <5>1, RefersIs DEF Stepped
        <5>2. CASE MoveReference
          <6>1. Py312 /\ obj.static
            BY <1>5, <5>2 DEF MoveReference, IsStatic
          <6>2. top.op \in Nodes
            BY <1>5, ObjIs DEF Stepped
          <6> QED
            BY <6>1, <6>2 DEF obj, Stepped, MoveOK, SourceOK
        <5> QED
          BY <2>6, <5>1, <5>2
      <4>2. top.op \in Nodes
        BY <1>5, ObjIs DEF Stepped
      <4> QED
        BY <1>5, <4>1, <4>2 DEF obj, Stepped, MoveOK, SourceOK
    <3> HIDE DEF p
    <3>5. Writes(top.target, p)
      <4>1. SameObjects(archive, archive) /\ SameSlots(archive, archive)
        BY DEF SameObjects, SameSlots, SameKind
      <4> QED
        BY <1>1, <3>1, <3>2, <3>3, <4>1, StoreWrites
    <3>6. ASSUME NEW v \in 0..(Span - 1), OutOfHeapValue(DumpBase, p) = <<"str", v>>
          PROVE  v = obj.val
      BY <3>2, <3>6
    <3>7. p < DumpBase + Page
      BY <1>1, <3>2, ValuedIsNear
    <3>8. Pointed(p)
      BY <3>4, <3>6, <3>7 DEF Pointed, p
    <3> QED
      BY <1>5, <3>5, <3>8, StoreStatics
  <2>7. CASE MoveString /\ ~ Refers
    <3>1. CASE orig_map[InternedKey] # NULL
      BY <2>4, <2>7, <3>1, KnownString DEF Stepped
    <3>2. CASE orig_map[InternedKey] = NULL /\ HeapFull
      BY <2>3, <2>7, <3>2 DEF MoveString, Refers
    <3>3. CASE orig_map[InternedKey] = NULL /\ ~ HeapFull
      BY <2>4, <2>7, <3>3, NewString DEF Stepped
    <3> QED
      BY <3>1, <3>2, <3>3
  <2>8. CASE ListString
    <3>1. CASE str_map[top.res] # 0
      BY <2>5, <2>8, <3>1, ListFound DEF Stepped
    <3>2. CASE str_map[top.res] = 0 /\ HeapFull
      BY <2>3, <2>8, <3>2 DEF ListString
    <3>3. CASE str_map[top.res] = 0 /\ ~ HeapFull
      BY <2>5, <2>8, <3>3, ListNew DEF Stepped
    <3> QED
      BY <3>1, <3>2, <3>3
  <2>9. CASE RecordString
    <3>1. CASE HeapFull
      BY <2>3, <2>9, <3>1 DEF RecordString, Crash
    <3>2. CASE ~ HeapFull
      <4>1. archive'.heap = archive.heap /\ archive'.obj = archive.obj
        BY <1>1, <2>9, <3>2 DEF RecordString, Archives
      <4> QED
        BY <1>3, <4>1 DEF Slots, SameSlots, GetSlot
    <3> QED
      BY <3>1, <3>2
  <2>10. CASE Unwind \/ Return \/ Kill
    BY <2>3, <2>10 DEF Unwind, Return, Kill
  <2> QED
    BY <2>2, <2>6, <2>7, <2>8, <2>9, <2>10
<1>6. CASE stack # <<>> /\ obj.kind # "str"
  <2>1. ASSUME NEW p \in Int, StandsFor(p), Writes(top.target, p)
        PROVE  Statics'
    <3>1. GraphLeaf(src, top.op) = <<obj.kind, obj.val>>
      <4>1. top.op \in Nodes
        BY <1>6, ObjIs DEF Stepped, MoveOK
      <4> QED
        BY <4>1, NodeIs DEF Stepped, Layout, Nodes, GraphLeaf, obj
    <3>2. ASSUME p >= DumpBase
          PROVE  OutOfHeapValue(DumpBase, p) = <<obj.kind, obj.val>>
      <4>1. p \notin Addresses(archive')
        BY <3>2, NewArchive DEF Stepped, MoveOK
      <4> QED
        BY <2>1, <3>1, <4>1 DEF StandsFor, LeafValue
    <3>3. p >= DumpBase => p < DumpBase + Page
      BY <1>1, <3>2, ValuedIsNear
    <3>4. ASSUME p >= DumpBase, NEW v, OutOfHeapValue(DumpBase, p) = <<"str", v>>
          PROVE  FALSE
      BY <1>6, <3>2, <3>4
    <3>5. Pointed(p)
      BY <3>3, <3>4 DEF Pointed
    <3> QED
      BY <1>6, <2>1, <3>5, StoreStatics
  <2>2. ASSUME NEW p, p \in Addresses(archive') \/ p = NULL, Writes(top.target, p)
        PROVE  Statics'
    BY <1>4, <1>6, <2>2, StoreStatics
  <2>3. ASSUME NEW p, Returned(p)
        PROVE  Statics'
    <3>1. CASE p = NULL \/ StandsFor(p)
      BY <2>1, <2>2, <2>3, <3>1 DEF Returned
    <3>2. CASE p = GetSlot(archive, top.target)
      BY <2>3, <3>2, SameStatics DEF Returned
    <3>3. CASE Open(top) /\ p = top.res
      <4>1. p \in Addresses(archive)
        BY <1>6, <3>3, FramesAre DEF FrameOK
      <4>2. p \in Addresses(archive')
        BY <1>1, <4>1, Grown DEF Stepped, MoveOK
      <4> QED
        BY <2>2, <2>3, <4>2 DEF Returned
    <3> QED
      BY <2>3, <3>1, <3>2, <3>3 DEF Returned
  <2>4. ASSUME NEW p, NEW f, Continued(p, f)
        PROVE  Statics'
    BY <2>1, <2>4 DEF Continued
  <2>5. ASSUME NEW f, Begun(f)
        PROVE  Statics'
    BY <2>2, <2>5 DEF Begun
  <2>6. ASSUME Writes(top.target, GetSlot(archive, top.target))
        PROVE  Statics'
    BY <1>6, <2>6, SameStatics
  <2>7. CASE Halted
    BY <1>3, <2>7 DEF Halted, SameSlots
  <2> QED
    BY <2>3, <2>4, <2>5, <2>6, <2>7 DEF ValueMove, Skipped, Descended
<1>7. CASE stack = <<>>
  <2>1. Halted
    BY <1>7 DEF ValueMove, Returned, Continued, Begun, Skipped, Descended, Filling, Running
  <2> QED
    BY <1>3, <2>1 DEF Halted, SameSlots
<1> QED
  BY <1>5, <1>6, <1>7

\* Each slot that refers to a string has added to its count.
SlotsCounted ==
    ~ Py312 => \A a \in HeapStrings :
                   archive.heap[a].rc >= Cardinality(Holding(archive, a))

LEMMA SlotsCountedStay ==
    ASSUME Stepped, SlotsCounted, env' = env, NextDump
    PROVE  SlotsCounted'
<1>1. /\ archive \in Archives /\ archive' \in Archives /\ ArchiveGrows
      /\ Addresses(archive) \subseteq Addresses(archive')
  BY NewArchive DEF Stepped, MoveOK, ArchiveOK
<1>2. HeapStrings \subseteq Addresses(archive) /\ HeapStrings' \subseteq Addresses(archive')
  BY DEF HeapStrings, Addresses
<1> SUFFICES ASSUME ~ Py312, NEW a \in HeapStrings'
             PROVE  archive'.heap[a].rc >= Cardinality(Holding(archive', a))
  BY <1>1 DEF SlotsCounted, ArchiveGrows, Py312, PyMinor
<1>3. IsFiniteSet(Holding(archive', a)) /\ Cardinality(Holding(archive', a)) \in Nat
  BY <1>1, HoldingFinite
<1>4. archive'.heap[a].rc \in Int
  BY <1>1, <1>2, ArchiveIs
<1>5. ASSUME a \in HeapStrings, archive'.heap[a].rc >= archive.heap[a].rc,
             Holding(archive', a) \subseteq Holding(archive, a)
      PROVE  archive'.heap[a].rc >= Cardinality(Holding(archive', a))
  <2>1. IsFiniteSet(Holding(archive, a)) /\ Cardinality(Holding(archive, a)) \in Nat
    BY <1>1, HoldingFinite
  <2>2. Cardinality(Holding(archive', a)) <= Cardinality(Holding(archive, a))
    BY <1>5, <2>1, FS_Subset
  <2>3. archive.heap[a].rc >= Cardinality(Holding(archive, a)) /\ archive.heap[a].rc \in Int
    BY <1>1, <1>2, <1>5, ArchiveIs DEF SlotsCounted
  <2> DEFINE c == Cardinality(Holding(archive, a))
             d == Cardinality(Holding(archive', a))
             r == archive.heap[a].rc
             q == archive'.heap[a].rc
  <2>4. c \in Nat /\ d \in Nat /\ d <= c /\ r >= c /\ q >= r /\ r \in Int /\ q \in Int
    BY <1>3, <1>4, <1>5, <2>1, <2>2, <2>3
  <2> HIDE DEF c, d, r, q
  <2>5. q >= d
    BY <2>4
  <2> QED
    BY <2>5 DEF q, d
<1>6. CASE Quiet
  <2>1. a \in HeapStrings /\ archive'.heap[a].rc >= archive.heap[a].rc
    BY <1>2, <1>6 DEF Quiet
  <2>2. Holding(archive', a) \subseteq Holding(archive, a)
    BY <1>6, <2>1 DEF Quiet, Holding
  <2> QED
    BY <1>5, <2>1, <2>2
<1>7. CASE \E b : StringMoved(b)
  <2>1. PICK b : StringMoved(b)
    BY <1>7
  <2>2. CASE a # b
    <3>1. a \in HeapStrings
      BY <2>1, <2>2 DEF StringMoved
    <3>2. archive'.heap[a].rc >= archive.heap[a].rc
      BY <1>2, <2>1, <3>1 DEF StringMoved
    <3>3. a # NULL
      BY <1>2 DEF Addresses, NULL
    <3>4. Holding(archive', a) \subseteq Holding(archive, a)
      BY <2>1, <2>2, <3>3 DEF StringMoved, Writes, Holding
    <3> QED
      BY <1>5, <3>1, <3>2, <3>4
  <2>3. CASE a = b /\ a \in HeapStrings
    <3>1. archive'.heap[a].rc = archive.heap[a].rc + 1
      BY <2>1, <2>3 DEF StringMoved
    <3>2. a # NULL
      BY <1>2 DEF Addresses, NULL
    <3> DEFINE H == Holding(archive, a)
               t == top.target
    <3>3. Holding(archive', a) \subseteq H \cup {t}
      BY <2>1, <2>3, <3>2 DEF StringMoved, Writes, Holding
    <3>4. IsFiniteSet(H) /\ Cardinality(H) \in Nat
      BY <1>1, HoldingFinite
    <3>5. archive.heap[a].rc >= Cardinality(H) /\ archive.heap[a].rc \in Int
      BY <1>1, <1>2, <2>3, ArchiveIs DEF SlotsCounted
    <3> HIDE DEF H, t
    <3>6. /\ IsFiniteSet(H \cup {t})
          /\ Cardinality(H \cup {t}) \in {Cardinality(H), Cardinality(H) + 1}
      BY <3>4, FS_AddElement
    <3>7. Cardinality(Holding(archive', a)) <= Cardinality(H \cup {t})
      BY <3>3, <3>6, FS_Subset
    <3> DEFINE c == Cardinality(H)
               d == Cardinality(H \cup {t})
               e == Cardinality(Holding(archive', a))
               r == archive.heap[a].rc
    <3>8. c \in Nat /\ d \in {c, c + 1} /\ e \in Nat /\ e <= d /\ r \in Int /\ r >= c
      BY <1>3, <3>4, <3>5, <3>6, <3>7
    <3> HIDE DEF c, d, e, r
    <3>9. r + 1 >= e
      BY <3>8
    <3> QED
      BY <3>1, <3>9 DEF r, e
  <2>4. CASE a = b /\ a \notin HeapStrings
    <3>1. archive'.heap[a].rc = 1 /\ a \notin Addresses(archive)
      BY <2>1, <2>4 DEF StringMoved
    <3>2. a # NULL /\ a \in Int /\ ~ (a >= DumpBase)
      BY <1>2, NewArchive DEF Addresses, NULL, Stepped, MoveOK
    <3>3. \A s \in Slots(archive) : GetSlot(archive, s) # a
      BY <3>1, <3>2 DEF Stepped, Pointers, IsPointer
    <3>4. Holding(archive', a) \subseteq {top.target}
      BY <2>1, <2>4, <3>2, <3>3 DEF StringMoved, Writes, Holding
    <3>5. IsFiniteSet({top.target}) /\ Cardinality({top.target}) = 1
      BY FS_Singleton
    <3>6. Cardinality(Holding(archive', a)) <= 1
      BY <3>4, <3>5, FS_Subset
    <3> QED
      BY <1>3, <3>1, <3>6
  <2> QED
    BY <2>2, <2>3, <2>4
<1>8. CASE \E n : StringListed(n)
  <2>1. PICK n : StringListed(n)
    BY <1>8
  <2>2. a \in HeapStrings /\ archive'.heap[a].rc >= archive.heap[a].rc
    BY <1>2, <2>1 DEF StringListed
  <2>3. Holding(archive', a) \subseteq Holding(archive, a)
    BY <2>1 DEF StringListed, SameSlots, Holding
  <2> QED
    BY <1>5, <2>2, <2>3
<1>9. CASE SlotRecorded
  <2>1. a \in HeapStrings /\ archive'.heap[a].rc = archive.heap[a].rc
    BY <1>9 DEF SlotRecorded
  <2>2. archive.heap[a].rc \in Int
    BY <1>1, <1>2, <2>1, ArchiveIs
  <2>3. Holding(archive', a) \subseteq Holding(archive, a)
    BY <1>9 DEF SlotRecorded, SameSlots, Holding
  <2> QED
    BY <1>5, <2>1, <2>2, <2>3
<1> QED
  BY <1>6, <1>7, <1>8, <1>9, MoveStep DEF Stepped

LEMMA StoreUnshared ==
    ASSUME Stepped, Unshared, stack # <<>>, NEW p \in Int, Writes(top.target, p),
           \/ p \notin Addresses(archive') \/ p \in HeapStrings'
           \/ p = GetSlot(archive, top.target)
           \/ \A s \in Slots(archive) : GetSlot(archive, s) # p
    PROVE  Unshared'
<1>1. /\ ArchiveOK /\ ArchiveGrows /\ top.target \in Slots(archive) /\ archive \in Archives
      /\ archive' \in Archives
  BY ObjIs, NewArchive DEF Stepped, MoveOK, ArchiveOK
<1> SUFFICES ASSUME NEW s \in Slots(archive'), NEW t \in Slots(archive'), NEW v,
                    GetSlot(archive', s) = v, GetSlot(archive', t) = v,
                    v \in Addresses(archive'), v \notin HeapStrings'
             PROVE  s = t
  BY DEF Unshared
<1>2. v # NULL /\ v \in Int
  BY <1>1, ArchiveIs DEF NULL, Addresses
<1>3. ASSUME NEW r \in Slots(archive'), GetSlot(archive', r) = v, r # top.target
      PROVE  r \in Slots(archive) /\ GetSlot(archive, r) = v
  BY <1>2, <1>3 DEF Writes
<1>4. ASSUME NEW r \in Slots(archive), GetSlot(archive, r) = v
      PROVE  v \in Addresses(archive) \ HeapStrings
  <2>1. IsPointer(archive, v)
    BY <1>4 DEF Stepped, Pointers
  <2>2. ~ (v >= DumpBase)
    BY <1>1, <1>2, NewArchive
  <2> QED
    BY <1>1, <1>2, <2>1, <2>2, Grown DEF IsPointer
<1>5. ASSUME NEW q \in Slots(archive), NEW r \in Slots(archive),
             GetSlot(archive, q) = v, GetSlot(archive, r) = v
      PROVE  q = r
  BY <1>4, <1>5 DEF Unshared
<1>6. ASSUME NEW r \in Slots(archive'), GetSlot(archive', r) = v, r # top.target,
             GetSlot(archive', top.target) = v
      PROVE  FALSE
  <2>1. r \in Slots(archive) /\ GetSlot(archive, r) = v
    BY <1>3, <1>6
  <2>2. top.target \in Slots(archive')
    BY <1>1, Grown
  <2>3. p = v
    BY <1>6, <2>2 DEF Writes
  <2> QED
    BY <1>1, <1>5, <1>6, <2>1, <2>3
<1> QED
  BY <1>3, <1>5, <1>6

LEMMA UnsharedStays ==
    ASSUME Stepped, Unshared, ValueMove
    PROVE  Unshared'
<1>1. ArchiveOK /\ ArchiveGrows /\ archive' \in Archives
  BY NewArchive DEF Stepped, MoveOK
<1>2. NULL \notin Addresses(archive') /\ NULL \in Int
  BY DEF Addresses, NULL
<1>3. ASSUME NEW p \in Int, StandsFor(p), Writes(top.target, p), stack # <<>>
      PROVE  Unshared'
  <2>1. CASE p \notin Addresses(archive') \/ p \in Addresses(archive)
    BY <1>3, <2>1, StoreUnshared DEF StandsFor
  <2>2. CASE p \in Addresses(archive') /\ p \notin Addresses(archive)
    <3>1. ~ (p >= DumpBase) /\ p # NULL
      BY <1>1, <1>2, <2>2, NewArchive
    <3>2. ASSUME NEW s \in Slots(archive) PROVE GetSlot(archive, s) # p
      BY <2>2, <3>1 DEF Stepped, Pointers, IsPointer
    <3> QED
      BY <1>3, <3>2, StoreUnshared
  <2> QED
    BY <2>1, <2>2
<1>4. ASSUME NEW p, Returned(p)
      PROVE  Unshared'
  <2>1. stack # <<>> /\ p \in Int /\ Writes(top.target, p)
    BY <1>4 DEF Returned
  <2>2. CASE p \in {NULL, GetSlot(archive, top.target)}
    BY <1>2, <2>1, <2>2, StoreUnshared
  <2>3. CASE StandsFor(p)
    BY <1>3, <2>1, <2>3
  <2>4. CASE Open(top) /\ p = top.res
    <3>1. Laid(top)
      BY <2>1, FramesAre
    <3> QED
      BY <2>1, <2>4, <3>1, StoreUnshared DEF Laid
  <2> QED
    BY <1>4, <2>2, <2>3, <2>4 DEF Returned
<1>5. ASSUME NEW p, NEW f, Continued(p, f)
      PROVE  Unshared'
  BY <1>3, <1>5 DEF Continued
<1>6. ASSUME NEW f, Begun(f)
      PROVE  Unshared'
  BY <1>2, <1>6, StoreUnshared DEF Begun
<1>7. ASSUME Filling, Writes(top.target, GetSlot(archive, top.target))
      PROVE  Unshared'
  <2>1. stack # <<>>
    BY <1>7, FillingTop DEF Stepped
  <2>2. GetSlot(archive, top.target) \in Int
    BY <2>1, ObjIs, SlotIs DEF Stepped
  <2> QED
    BY <1>7, <2>1, <2>2, StoreUnshared
<1>8. CASE Halted
  BY <1>8 DEF Halted, Unshared, HeapStrings, Addresses
<1> QED
  BY <1>4, <1>5, <1>6, <1>7, <1>8 DEF ValueMove, Skipped, Descended

\* The root is stored last: when it is there, all that is left to do is to list
\* it, if it is a string; and it is there at the end, unless an error occurred.
Rooted ==
    /\ archive.obj # NULL =>
           /\ ~ traverse_error
           /\ stack # <<>> => Len(stack) = 1 /\ IsString(top) /\ top.res # NULL
    /\ stack = <<>> /\ archive.obj = NULL => traverse_error

\* Only the outermost call writes the root.
LEMMA RootWritten ==
    ASSUME Stepped, stack # <<>>, NEW p \in Int, Writes(top.target, p)
    PROVE  IF Len(stack) = 1 THEN archive'.obj = p ELSE archive'.obj = archive.obj
<1>1. Root \in Slots(archive) /\ GetSlot(archive, Root) = archive.obj
  BY RootIn
<1>2. Root \in Slots(archive') /\ GetSlot(archive', Root) = archive'.obj
  BY RootIn
<1>3. Len(stack) \in Nat /\ Len(stack) >= 1 /\ top = stack[1]
  BY FramesAre
<1>4. CASE Len(stack) = 1
  <2>1. stack[Len(stack)].target = Root
    BY DEF Stepped, MoveOK, StackOK
  <2>2. top.target = Root
    BY <1>3, <1>4, <2>1
  <2>3. GetSlot(archive', Root) = p
    BY <1>2, <2>2 DEF Writes
  <2> QED
    BY <1>2, <1>4, <2>3
<1>5. CASE Len(stack) # 1
  <2>1. Len(stack) >= 2
    <3> DEFINE n == Len(stack)
    <3>1. n \in Nat /\ n >= 1 /\ n # 1
      BY <1>3, <1>5
    <3> HIDE DEF n
    <3>2. n >= 2
      BY <3>1
    <3> QED
      BY <3>2 DEF n
  <2>2. Open(stack[2]) /\ Called(top, stack[2])
    BY <2>1, CallerIs DEF Stepped
  <2>3. top.target # Root
    BY <2>2 DEF Called, Open, Root, NULL
  <2> QED
    BY <1>1, <1>2, <1>5, <2>3 DEF Writes
<1> QED
  BY <1>4, <1>5

\* What stands for an object is not NULL.
LEMMA StandsNotNull ==
    ASSUME Stepped, stack # <<>>, NEW p, StandsFor(p)
    PROVE  p # NULL
<1> SUFFICES ASSUME p = NULL PROVE FALSE
  OBVIOUS
<1>1. top.op \in Nodes
  BY ObjIs DEF Stepped
<1>2. top.op # NULL /\ GraphLeaf(src, top.op) = <<obj.kind, obj.val>>
  BY <1>1, NodeIs DEF Stepped, Layout, Nodes, GraphLeaf, obj
<1>3. LeafValue(archive', DumpBase, p) = <<"null">>
  <2>1. NULL \notin Addresses(archive')
    BY DEF Addresses, NULL
  <2>2. OutOfHeapValue(DumpBase, NULL) = <<"null">>
    <3>1. DumpBase \in Nat /\ Span \in Nat
      BY InterpreterAddr, SpanAssumption DEF Stepped, MoveOK
    <3> QED
      BY <3>1 DEF OutOfHeapValue, NULL
  <2> QED
    BY <2>1, <2>2 DEF LeafValue
<1>4. <<"null">> # <<obj.kind, obj.val>>
  <2>1. Len(<<"null">>) = 1 /\ Len(<<obj.kind, obj.val>>) = 2
    OBVIOUS
  <2> QED
    BY <2>1
<1> QED
  BY <1>2, <1>3, <1>4 DEF StandsFor

LEMMA RootedStays ==
    ASSUME Stepped, Rooted, ValueMove
    PROVE  Rooted'
<1>1. NULL \in Int /\ stack \in Seq(Frames)
  BY DEF NULL, Stepped, MoveOK, StackOK
<1>2. ASSUME NEW f \in Frames, stack' = Replace(f), stack # <<>>
      PROVE  stack' # <<>> /\ top' = f /\ Len(stack') = Len(stack)
  <2>1. /\ Tail(stack) \in Seq(Frames) /\ Len(Tail(stack)) = Len(stack) - 1
        /\ Len(stack) \in Nat /\ <<f>> \in Seq(Frames) /\ Len(<<f>>) = 1
    BY <1>1, <1>2, HeadTailProperties
  <2> DEFINE t == Tail(stack)
             q == <<f>> \o t
  <2>2. q \in Seq(Frames) /\ Len(q) = 1 + Len(t) /\ q[1] = f
    BY <2>1, ConcatProperties
  <2>3. stack' = q
    BY <1>2 DEF Replace
  <2> HIDE DEF q, t
  <2>4. stack' # <<>> /\ Head(stack') = f
    BY <2>2, <2>3, <2>1, HeadTailProperties DEF t
  <2> QED
    BY <2>1, <2>2, <2>3, <2>4 DEF top, t
<1>3. ASSUME NEW p, Returned(p)
      PROVE  Rooted'
  <2>1. stack # <<>> /\ p \in Int /\ Writes(top.target, p) /\ stack' = Tail(stack)
    BY <1>3 DEF Returned
  <2>2. Len(stack) \in Nat /\ Len(Tail(stack)) = Len(stack) - 1 /\ (stack' = <<>> <=> Len(stack) = 1)
    <3>1. Tail(stack) \in Seq(Frames) /\ Len(Tail(stack)) = Len(stack) - 1 /\ Len(stack) \in Nat
      BY <1>1, <2>1, HeadTailProperties
    <3>2. Tail(stack) = <<>> <=> Len(Tail(stack)) = 0
      BY <3>1, EmptySeq
    <3> QED
      BY <2>1, <3>1, <3>2
  <2>3. IF Len(stack) = 1 THEN archive'.obj = p ELSE archive'.obj = archive.obj
    BY <2>1, RootWritten
  <2>4. CASE traverse_error'
    <3>1. archive'.obj = NULL
      <4>1. CASE p = NULL
        <5>1. Len(stack) # 1 => archive.obj = NULL
          BY <2>1 DEF Rooted
        <5> QED
          BY <2>3, <4>1, <5>1
      <4>2. CASE traverse_error /\ p = GetSlot(archive, top.target)
        <5>1. archive.obj = NULL
          BY <4>2 DEF Rooted
        <5>2. Len(stack) = 1 => top.target = Root
          BY <2>1, FramesAre DEF Stepped, MoveOK, StackOK
        <5> QED
          BY <2>3, <4>2, <5>1, <5>2, RootIn
      <4>3. CASE traverse_error /\ p # GetSlot(archive, top.target) /\ p # NULL
        <5>1. archive.obj = NULL
          BY <4>3 DEF Rooted
        <5>2. StandsFor(p)
          BY <1>3, <4>3 DEF Returned
        <5>3. ~ Open(top)
          <6>1. top.op \notin GraphBranch(src) /\ top.op \in Nodes
            BY <2>1, <5>2, FramesAre DEF StandsFor
          <6> QED
            BY <6>1 DEF Open, GraphBranch, Nodes
        <5> QED
          BY <2>1, <4>3, <5>3, FramesAre DEF Stepped, MoveOK, StackOK
      <4>4. traverse_error \in BOOLEAN
        BY DEF Stepped, MoveOK, StackOK
      <4> QED
        BY <1>3, <2>4, <4>1, <4>2, <4>3, <4>4 DEF Returned
    <3> QED
      BY <2>4, <3>1 DEF Rooted
  <2>5. CASE ~ traverse_error'
    <3>1. p # NULL
      <4>1. CASE StandsFor(p)
        BY <2>1, <4>1, StandsNotNull
      <4>2. CASE ~ StandsFor(p)
        BY <1>3, <2>5, <4>2 DEF Returned, Open
      <4> QED
        BY <4>1, <4>2
    <3>2. CASE Len(stack) = 1
      BY <2>2, <2>3, <2>5, <3>1, <3>2 DEF Rooted
    <3>3. CASE Len(stack) # 1
      <4>1. archive.obj = NULL
        BY <2>1, <3>3 DEF Rooted
      <4> QED
        BY <2>2, <2>3, <3>3, <4>1 DEF Rooted
    <3> QED
      BY <3>2, <3>3
  <2> QED
    BY <2>4, <2>5
<1>4. ASSUME NEW p, NEW f, Continued(p, f)
      PROVE  Rooted'
  <2>1. /\ stack # <<>> /\ IsString(top) /\ f \in Frames /\ f.op = top.op /\ f.res # NULL
        /\ p \in Int /\ Writes(top.target, p) /\ traverse_error' = traverse_error
        /\ stack' = Replace(f)
    BY <1>4 DEF Continued
  <2>2. stack' # <<>> /\ top' = f /\ Len(stack') = Len(stack)
    BY <1>2, <2>1
  <2>3. ~ traverse_error
    <3>1. ~ Open(top)
      BY <2>1 DEF Open, IsString, Containers
    <3>2. traverse_error => \A k \in 1..Len(stack) : Open(stack[k])
      BY DEF Stepped, MoveOK, StackOK
    <3>3. 1 \in 1..Len(stack) /\ top = stack[1]
      BY <2>1, FramesAre
    <3> QED
      BY <3>1, <3>2, <3>3
  <2>4. IsString(f)'
    <3>1. top.op \in Nodes
      BY <2>1, FramesAre
    <3> QED
      BY <2>1, <3>1, NodeStays DEF IsString
  <2>5. IsString(top)'
    BY <2>2, <2>4 DEF IsString
  <2>6. IF Len(stack) = 1 THEN archive'.obj = p ELSE archive'.obj = archive.obj
    BY <2>1, RootWritten
  <2>7. archive'.obj # NULL => Len(stack') = 1
    BY <2>1, <2>2, <2>6 DEF Rooted
  <2> QED
    BY <2>1, <2>2, <2>3, <2>5, <2>7 DEF Rooted
<1>5. ASSUME stack # <<>>, obj.kind \in Containers, stack' # <<>>, NEW p \in Int,
             Writes(top.target, p), p = NULL \/ p = GetSlot(archive, top.target)
      PROVE  Rooted'
  <2>1. archive.obj = NULL
    BY <1>5 DEF Rooted, IsString, Containers, obj
  <2>2. Len(stack) = 1 => top.target = Root
    BY <1>5, FramesAre DEF Stepped, MoveOK, StackOK
  <2>3. IF Len(stack) = 1 THEN archive'.obj = p ELSE archive'.obj = archive.obj
    BY <1>5, RootWritten
  <2>4. archive'.obj = NULL
    BY <1>5, <2>1, <2>2, <2>3, RootIn
  <2> QED
    BY <1>5, <2>4 DEF Rooted
<1>6. ASSUME NEW f, Begun(f)
      PROVE  Rooted'
  <2>1. stack # <<>> /\ f \in Frames /\ stack' = Replace(f)
    BY <1>6 DEF Begun
  <2>2. stack' # <<>>
    BY <1>2, <2>1
  <2> QED
    BY <1>1, <1>5, <1>6, <2>1, <2>2 DEF Begun
<1>7. ASSUME Filling, Writes(top.target, GetSlot(archive, top.target)), stack' # <<>>
      PROVE  Rooted'
  <2>1. stack # <<>> /\ obj.kind \in Containers
    BY <1>7, FillingTop DEF Stepped, Filling
  <2>2. GetSlot(archive, top.target) \in Int
    BY <2>1, ObjIs, SlotIs DEF Stepped
  <2> QED
    BY <1>5, <1>7, <2>1, <2>2
<1>8. ASSUME NEW f, Skipped(f)
      PROVE  Rooted'
  <2>1. stack # <<>> /\ f \in Frames /\ stack' = Replace(f)
    BY <1>8, FillingTop DEF Skipped, Stepped
  <2> QED
    BY <1>2, <1>7, <1>8, <2>1 DEF Skipped
<1>9. ASSUME NEW f, NEW g, Descended(f, g)
      PROVE  Rooted'
  <2>1. /\ stack # <<>> /\ f \in Frames /\ g \in Frames /\ stack' = <<g>> \o Replace(f)
    BY <1>9, FillingTop DEF Descended, Stepped
  <2>2. Replace(f) \in Seq(Frames)
    <3>1. Tail(stack) \in Seq(Frames) /\ <<f>> \in Seq(Frames)
      BY <1>1, <2>1, HeadTailProperties
    <3> QED
      BY <3>1, ConcatProperties DEF Replace
  <2> DEFINE r == Replace(f)
             q == <<g>> \o r
  <2>3. Len(q) = 1 + Len(r) /\ q \in Seq(Frames) /\ Len(r) \in Nat
    <3>1. <<g>> \in Seq(Frames) /\ Len(<<g>>) = 1
      BY <2>1
    <3> HIDE DEF r
    <3> QED
      BY <2>2, <3>1, ConcatProperties, LenProperties DEF r
  <2>4. q # <<>>
    <3> HIDE DEF q, r
    <3> QED
      BY <2>3, EmptySeq
  <2> QED
    BY <1>7, <1>9, <2>1, <2>4 DEF Descended
<1>10. CASE Halted
  <2>1. ASSUME stack # <<>>, IsString(top) PROVE IsString(top)'
    <3>1. top.op \in Nodes
      BY <2>1, FramesAre
    <3>2. top' = top
      BY <1>10 DEF Halted, top
    <3> QED
      BY <2>1, <3>1, <3>2, NodeStays DEF IsString
  <2>2. top' = top
    BY <1>10 DEF Halted, top
  <2> QED
    BY <1>10, <2>1, <2>2 DEF Halted, Rooted
<1> QED
  BY <1>3, <1>4, <1>6, <1>8, <1>9, <1>10 DEF ValueMove

-----------------------------------------------------------------------------
(* The whole invariant of the values. *)

ValuesOK == /\ Layout /\ Contents /\ Published /\ Rooted
            /\ Typed /\ Copied /\ Unshared /\ Statics /\ SlotsCounted

LEMMA ValuesStep ==
    ASSUME MoveOK, Pointers, ValuesOK, env' = env, NextDump
    PROVE  ValuesOK' /\ SourceValue' = SourceValue
<1>1. MoveOK' /\ SourceGrows /\ ArchiveGrows
  BY StepGrows
<1>2. src' \in Seq(Objects) /\ root' = root /\ ItemsReplaced(src, src')
  BY SourceReplaced DEF ValuesOK
<1>3. Stepped
  BY <1>1, <1>2 DEF Stepped, ValuesOK
<1>4. ValueMove
  BY ValueStep DEF ValuesOK
<1>5. Layout'
  BY <1>3, <1>4, LayoutStays
<1>6. Contents' /\ Published' /\ SourceValue' = SourceValue
  BY <1>3, <1>4, <1>5, ContentsStay, PublishedStays, SourceValueStays DEF ValuesOK
<1>7. Typed' /\ Copied'
  BY TypedStays, CopiedStays DEF ValuesOK
<1>8. Unshared' /\ Rooted'
  BY <1>3, <1>4, UnsharedStays, RootedStays DEF ValuesOK
<1>9. Statics' /\ SlotsCounted'
  BY <1>3, <1>4, StaticsStay, SlotsCountedStay DEF ValuesOK
<1> QED
  BY <1>5, <1>6, <1>7, <1>8, <1>9 DEF ValuesOK

LEMMA InputGraphOK ==
    ASSUME NEW g \in Graphs
    PROVE  GraphOK(g.src)
<1> DEFINE nodes == DOMAIN g.src
           items == [n \in nodes |-> g.src[n].items]
           D == nodes \cup {NULL}
           B == GraphBranch(g.src)
<1>1. /\ g.src \in Seq(Objects) /\ NULL \notin nodes
      /\ \A n \in nodes : \A i \in 1..Len(g.src[n].items) : g.src[n].items[i] \in D
  BY GraphIs
<1>2. \A group \in SUBSET nodes : group # {} =>
          \E n \in group : \A i \in DOMAIN g.src[n].items : g.src[n].items[i] \notin group
  BY GraphsAssumption
<1>3. ASSUME NEW T \in SUBSET D, T # {}
      PROVE  \E p \in T : p \in B => \A i \in DOMAIN items[p] : items[p][i] \notin T
  <2>1. CASE NULL \in T
    <3>1. NULL \notin B
      BY <1>1 DEF GraphBranch
    <3> QED
      BY <2>1, <3>1
  <2>2. CASE NULL \notin T
    <3>1. T \in SUBSET nodes
      BY <2>2
    <3>2. PICK n \in T : \A i \in DOMAIN g.src[n].items : g.src[n].items[i] \notin T
      BY <1>2, <1>3, <3>1
    <3>3. items[n] = g.src[n].items
      BY <3>1
    <3> QED
      BY <3>2, <3>3
  <2> QED
    BY <2>1, <2>2
<1>4. Grounded(D, B, items)
  BY <1>3 DEF Grounded
<1> QED
  BY <1>1, <1>4 DEF GraphOK

LEMMA ValuesInit ==
    ASSUME env \in Environments, InitDump
    PROVE  ValuesOK
<1>1. PICK g \in Graphs : src = g.src /\ root = g.root
  BY DEF InitDump
<1>2. GraphOK(src) /\ root \in Nat
  <2>1. g.root \in DOMAIN g.src /\ DOMAIN g.src \subseteq Nat
    BY GraphIs
  <2> QED
    BY <1>1, <2>1, InputGraphOK
<1>3. archive = [none_base |-> DumpBase, obj |-> NULL, all_string_ref |-> <<>>,
                 used |-> 0, heap |-> <<>>]
  BY DEF InitDump, EmptyArchive
<1>4. /\ Len(archive.heap) = 0 /\ archive.obj = NULL
  BY <1>3
<1>5. Addresses(archive) = {}
  BY <1>4 DEF Addresses
<1>6. Slots(archive) = {Root}
  BY <1>4, <1>5 DEF Slots, Addresses
<1>7. HeapOrdered
  BY <1>6 DEF HeapOrdered
<1> DEFINE f == Frame(root, Root, Root)
<1>8. f.op = root /\ f.res = NULL /\ f \in Frames
  <2>1. Root \in Nat \X Nat
    BY DEF Root
  <2> QED
    BY <1>2, <2>1 DEF Frame, Frames, NULL
<1>9. stack = <<f>> /\ traverse_error = FALSE
  BY DEF InitDump
<1> HIDE DEF f
<1>10. Len(stack) = 1 /\ stack[1] = f
  BY <1>8, <1>9
<1>11. ~ Open(f)
  BY <1>8 DEF Open
<1>12. Layout
  <2>1. \A k \in 1..Len(stack) : stack[k] = f
    BY <1>10
  <2>2. 1..(Len(stack) - 1) = {}
    BY <1>10
  <2>3. \A h \in Frames : \A k \in 1..Len(stack) : stack[k] = h => Laid(h)
    BY <1>11, <2>1 DEF Laid
  <2>4. stack # <<>> => stack[Len(stack)].op = root
    BY <1>8, <1>10
  <2> QED
    BY <1>2, <1>7, <2>2, <2>3, <2>4 DEF Layout
<1>13. Contents
  <2>1. \A k \in 1..Len(stack) : stack[k] = f
    BY <1>10
  <2> QED
    BY <1>11, <2>1 DEF Contents
<1>14. Published
  BY <1>4 DEF Published
<1>15. Typed /\ Copied /\ Unshared
  <2>1. Unshared
    BY <1>5 DEF Unshared
  <2>2. Copied
    BY <1>5 DEF Copied, HeapStrings, Addresses
  <2> QED
    BY <1>5, <2>1, <2>2 DEF Typed
<1>16. Rooted
  <2>1. stack # <<>>
    BY <1>9
  <2> QED
    BY <1>4, <2>1 DEF Rooted
<1>17. Statics /\ SlotsCounted
  <2>1. DumpBase \in Nat /\ DumpBase > 0
    BY DumpBaseAssumption, EnvironmentsAssumption
  <2>2. \A s \in Slots(archive) : ~ (GetSlot(archive, s) >= DumpBase)
    BY <1>4, <1>6, <2>1 DEF GetSlot, NULL
  <2>3. HeapStrings = {}
    BY <1>5 DEF HeapStrings, Addresses
  <2> QED
    BY <2>2, <2>3 DEF Statics, Pointed, SlotsCounted
<1> QED
  BY <1>12, <1>13, <1>14, <1>15, <1>16, <1>17 DEF ValuesOK

LEMMA ValuesStay ==
    ASSUME MoveOK, ValuesOK, UNCHANGED <<env, dumpVars>>
    PROVE  ValuesOK' /\ SourceValue' = SourceValue
<1>1. UNCHANGED <<env, src, root, interned, archive, orig_map, str_map, stack,
                  traverse_error, dumper>>
  BY DEF dumpVars
<1>2. SourceValue' = SourceValue
  BY <1>1 DEF SourceValue
<1>3. Layout'
  BY <1>1 DEF ValuesOK, Layout, HeapOrdered, Containing, Laid, Nested, Open
<1>4. Contents'
  BY <1>1 DEF ValuesOK, Contents, Filled, Open
<1>5. Published'
  BY <1>1, <1>2 DEF ValuesOK, Published
<1>6. Typed' /\ Copied' /\ Unshared'
  BY <1>1 DEF ValuesOK, Typed, Copied, NotStatic, Unshared, HeapTypes, ContainerTypes,
              HeapStrings, Py312, PyMinor
<1>7. Rooted'
  BY <1>1 DEF ValuesOK, Rooted, IsString, top
<1>8. Statics' /\ SlotsCounted'
  BY <1>1 DEF ValuesOK, Statics, Pointed, SlotsCounted, HeapStrings, Py312, PyMinor, Holding
<1> QED
  BY <1>2, <1>3, <1>4, <1>5, <1>6, <1>7, <1>8 DEF ValuesOK
=============================================================================
