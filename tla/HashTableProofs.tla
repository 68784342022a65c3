---------------------------- MODULE HashTableProofs ----------------------------
(***************************************************************************)
(* Proofs about HashTable, for every set of keys, width of a word and      *)
(* smallest size: entries are found where they are looked for, the memory  *)
(* of the table is what its chains reach, and the table is a LookupTable.  *)
(***************************************************************************)
EXTENDS HashTable, SequenceTheorems, FiniteSetTheorems, WellFoundedInduction, TLAPS

-----------------------------------------------------------------------------
(* Counting *)

\* What holds of 0 and is kept by each number up to n holds up to n.
LEMMA UpTo ==
    ASSUME NEW n \in Nat, NEW Good, 0 \in Good, \A k \in 1..n : k - 1 \in Good => k \in Good
    PROVE  \A k \in 0..n : k \in Good
<1> DEFINE R == OpToRel(<, Nat)
           Bad == {k \in 0..n : k \notin Good}
<1> SUFFICES ASSUME Bad # {} PROVE FALSE
  OBVIOUS
<1>1. Bad \subseteq Nat
  OBVIOUS
<1>2. PICK k \in Bad : \A j \in Bad : <<j, k>> \notin R
  BY <1>1, NatLessThanWellFounded, WFMin
<1>3. \A j \in Bad : ~ (j < k)
  BY <1>1, <1>2, Zenon DEF OpToRel
<1>4. k # 0
  OBVIOUS
<1>5. k \in 1..n /\ k - 1 \in 0..n /\ k - 1 < k
  BY <1>4
<1>6. k - 1 \in Good
  BY <1>3, <1>5
<1> QED
  BY <1>5, <1>6

\* The greatest number of a group, and the last one of an interval.
LEMMA MaxIs ==
    ASSUME NEW n \in Nat, NEW s, s \subseteq 1..n, n \in s
    PROVE  Max(s) = n
<1>1. \A y \in s : n >= y
  OBVIOUS
<1>2. Max(s) \in s /\ \A y \in s : Max(s) >= y
  BY <1>1 DEF Max
<1> DEFINE m == Max(s)
<1> HIDE DEF m
<1>3. m \in s /\ m >= n
  BY <1>2 DEF m
<1>4. m \in Nat /\ n >= m
  BY <1>1, <1>3
<1>5. m = n
  BY <1>3, <1>4
<1> QED
  BY <1>5 DEF m

LEMMA MaxIn ==
    ASSUME NEW n \in Nat, NEW s, s \subseteq 1..n, s # {}
    PROVE  Max(s) \in s /\ s \subseteq 1..Max(s)
<1> DEFINE Good == {k \in 0..n : \A t \in SUBSET (1..k) : t # {} =>
                                      \E x \in t : \A y \in t : x >= y}
<1>1. 0 \in Good
  <2>1. 1..0 = {} /\ 0 \in 0..n
    OBVIOUS
  <2> QED
    BY <2>1
<1>2. ASSUME NEW k \in 1..n, k - 1 \in Good PROVE k \in Good
  <2>1. k \in 0..n
    OBVIOUS
  <2>2. ASSUME NEW t \in SUBSET (1..k), t # {}
        PROVE  \E x \in t : \A y \in t : x >= y
    <3>1. CASE k \in t
      BY <3>1
    <3>2. CASE k \notin t
      <4>1. t \in SUBSET (1..(k - 1))
        BY <3>2
      <4> QED
        BY <1>2, <2>2, <4>1
    <3> QED
      BY <3>1, <3>2
  <2> QED
    BY <2>1, <2>2
<1> HIDE DEF Good
<1>3. n \in Good
  BY <1>1, <1>2, UpTo
<1>4. \E x \in s : \A y \in s : x >= y
  BY <1>3 DEF Good
<1>5. Max(s) \in s /\ \A y \in s : Max(s) >= y
  BY <1>4 DEF Max
<1> QED
  BY <1>5

-----------------------------------------------------------------------------
(* The number of buckets *)

\* Powers of two count the parts of a set, and so they double.
LEMMA Powers ==
    /\ 2^0 = 1
    /\ \A e \in Nat : 2^e \in Nat /\ 2^e >= 1 /\ 2^(e + 1) = 2 * 2^e
<1>1. ASSUME NEW e \in Nat
      PROVE  /\ IsFiniteSet(1..e) /\ Cardinality(1..e) = e
             /\ IsFiniteSet(SUBSET (1..e)) /\ Cardinality(SUBSET (1..e)) = 2^e
  <2>1. 1 \in Int /\ e \in Int
    OBVIOUS
  <2>2. IsFiniteSet(1..e) /\ Cardinality(1..e) = IF 1 > e THEN 0 ELSE e - 1 + 1
    BY <2>1, FS_Interval
  <2>3. Cardinality(1..e) = e
    BY <2>2
  <2> QED
    BY <2>2, <2>3, FS_SUBSET
<1>2. ASSUME NEW e \in Nat
      PROVE  2^e \in Nat /\ 2^e >= 1
  <2>1. 2^e \in Nat
    BY <1>1, FS_CardinalityType
  <2>2. {} \in SUBSET (1..e)
    OBVIOUS
  <2>3. Cardinality(SUBSET (1..e)) # 0
    BY <1>1, <2>2, FS_EmptySet
  <2> DEFINE p == 2^e
  <2>4. p \in Nat /\ p # 0
    BY <1>1, <2>1, <2>3
  <2> HIDE DEF p
  <2>5. p >= 1
    BY <2>4
  <2> QED
    BY <2>4, <2>5 DEF p
<1>3. ASSUME NEW e \in Nat
      PROVE  2^(e + 1) = 2 * 2^e
  <2> DEFINE S == SUBSET (1..e)
             T == {s \cup {e + 1} : s \in S}
             f == [s \in S |-> s \cup {e + 1}]
  <2>1. e + 1 \in Nat /\ e + 1 \notin 1..e /\ 1..(e + 1) = (1..e) \cup {e + 1}
    OBVIOUS
  <2>2. f \in Bijection(S, T)
    <3>1. f \in Surjection(S, T)
      BY DEF Surjection
    <3>2. ASSUME NEW s \in S, NEW t \in S, f[s] = f[t] PROVE s = t
      <4>1. e + 1 \notin s /\ e + 1 \notin t
        BY <2>1
      <4>2. s \cup {e + 1} = t \cup {e + 1}
        BY <3>2
      <4>3. s = (s \cup {e + 1}) \ {e + 1} /\ t = (t \cup {e + 1}) \ {e + 1}
        BY <4>1
      <4> QED
        BY <4>2, <4>3
    <3> QED
      BY <3>1, <3>2 DEF Bijection, Injection, Surjection, IsInjective
  <2>3. IsFiniteSet(S) /\ Cardinality(S) = 2^e
    BY <1>1
  <2>4. IsFiniteSet(T) /\ Cardinality(T) = Cardinality(S)
    BY <2>2, <2>3, FS_Bijection DEF ExistsBijection
  <2>5. S \cup T = SUBSET (1..(e + 1))
    <3>1. ASSUME NEW u \in SUBSET (1..(e + 1)) PROVE u \in S \cup T
      <4>1. CASE e + 1 \in u
        <5>1. u \ {e + 1} \in S /\ u = (u \ {e + 1}) \cup {e + 1}
          BY <2>1, <4>1
        <5> QED
          BY <5>1
      <4>2. CASE e + 1 \notin u
        BY <2>1, <4>2
      <4> QED
        BY <4>1, <4>2
    <3>2. ASSUME NEW u \in S \cup T PROVE u \in SUBSET (1..(e + 1))
      BY <2>1
    <3> QED
      BY <3>1, <3>2
  <2>6. S \cap T = {}
    BY <2>1
  <2> HIDE DEF S, T, f
  <2>7. Cardinality(S \cup T) = 2^e + 2^e - Cardinality(S \cap T)
    BY <2>3, <2>4, FS_Union
  <2>8. Cardinality(S \cap T) = 0
    BY <2>6, FS_EmptySet
  <2>9. Cardinality(S \cup T) = 2^(e + 1)
    BY <1>1, <2>1, <2>5
  <2> QED
    BY <1>2, <2>7, <2>8, <2>9
<1>4. 2^0 = 1
  <2>1. 1..0 = {}
    OBVIOUS
  <2>2. SUBSET (1..0) = {{}}
    BY <2>1
  <2>3. Cardinality({{}}) = 1
    BY FS_Singleton
  <2> QED
    BY <1>1, <2>2, <2>3
<1> QED
  BY <1>2, <1>3, <1>4

LEMMA SizeIs ==
    /\ HASHTABLE_MIN_SIZE \in Nat /\ HASHTABLE_MIN_SIZE >= 1
    /\ \A n \in Sizes : n \in Nat /\ n >= 1
    /\ 2^WordBits \in Nat /\ WordBits \in Nat
<1>1. WordBits \in Nat
  BY KeysAssumption
<1>2. \A n \in Sizes : n \in Nat /\ n >= 1
  BY <1>1, Powers DEF Sizes
<1> QED
  BY <1>1, <1>2, Powers, SizesAssumption

\* The loop of round_size stops at a power of two.
LEMMA Rounded ==
    ASSUME NEW s \in Nat, s <= 2^WordBits
    PROVE  round_size(s) \in Sizes /\ s <= round_size(s)
<1>1. CASE s < HASHTABLE_MIN_SIZE
  BY <1>1, SizeIs, SizesAssumption DEF round_size
<1>2. CASE ~ (s < HASHTABLE_MIN_SIZE)
  <2> DEFINE w == WordBits
             Good == {e \in 0..w : s <= 2^e => \E n \in Sizes : s <= n /\ n < 2 * s}
  <2>1. s >= 1 /\ w \in Nat
    BY <1>2, SizeIs
  <2>2. \A e \in 0..w : 2^e \in Sizes /\ 2^e \in Nat /\ e \in Nat
    BY <2>1, Powers DEF Sizes
  <2>3. 0 \in Good
    <3>1. 0 \in 0..w /\ 2^0 = 1
      BY <2>1, Powers
    <3>2. 2^0 \in Sizes
      BY <2>2, <3>1
    <3>3. s <= 2^0 => s <= 2^0 /\ 2^0 < 2 * s
      BY <2>1, <3>1
    <3> QED
      BY <3>1, <3>2, <3>3
  <2>4. ASSUME NEW e \in 1..w, e - 1 \in Good PROVE e \in Good
    <3>1. e \in 0..w /\ e - 1 \in 0..w /\ e - 1 \in Nat /\ (e - 1) + 1 = e
      BY <2>1
    <3>2. 2^((e - 1) + 1) = 2 * 2^(e - 1)
      BY <3>1, Powers
    <3>3. 2^e = 2 * 2^(e - 1) /\ 2^(e - 1) \in Nat /\ 2^e \in Sizes /\ 2^e \in Nat
      BY <2>2, <3>1, <3>2
    <3>4. CASE s <= 2^(e - 1)
      BY <2>4, <3>1, <3>4
    <3>5. CASE ~ (s <= 2^(e - 1))
      <4>1. 2^e < 2 * s
        BY <3>3, <3>5
      <4> QED
        BY <3>1, <3>3, <4>1
    <3> QED
      BY <3>4, <3>5
  <2>5. w \in 0..w
    BY <2>1
  <2> HIDE DEF Good
  <2>6. w \in Good
    BY <2>1, <2>3, <2>4, <2>5, UpTo
  <2>7. \E n \in Sizes : s <= n /\ n < 2 * s
    BY <2>6 DEF Good
  <2>8. round_size(s) = CHOOSE n \in Sizes : s <= n /\ n < 2 * s
    BY <1>2 DEF round_size
  <2> QED
    BY <2>7, <2>8
<1> QED
  BY <1>1, <1>2

\* A table that grows for its n-th key is big enough for it.
LEMMA GrownIs ==
    ASSUME NEW n \in Nat, n >= 1, n <= Cardinality(Keys)
    PROVE  Grown(n) \in Sizes /\ ~ Overloaded(n, Grown(n))
<1> DEFINE s == (10 * n) \div 3
           c == Cardinality(Keys)
<1>1. c \in Nat /\ (10 * c) \div 3 <= 2^WordBits /\ 2^WordBits \in Nat
  BY SizesAssumption, SizeIs, FS_CardinalityType
<1> HIDE DEF c
<1>2. n <= c
  BY DEF c
<1>3. s \in Nat /\ 2 * n <= s
  OBVIOUS
<1>4. s <= (10 * c) \div 3
  <2>1. 10 * n <= 10 * c /\ 10 * n \in Nat /\ 10 * c \in Nat
    BY <1>1, <1>2
  <2>2. ASSUME NEW x \in Nat, NEW y \in Nat, x <= y PROVE x \div 3 <= y \div 3
    BY <2>2
  <2> QED
    BY <2>1, <2>2
<1>5. (10 * c) \div 3 \in Nat
  BY <1>1
<1>6. s <= 2^WordBits
  BY <1>1, <1>3, <1>4, <1>5
<1> HIDE DEF s
<1>7. round_size(s) \in Sizes /\ s <= round_size(s)
  BY <1>3, <1>6, Rounded
<1>8. Grown(n) = round_size(s)
  BY DEF Grown, s
<1>9. round_size(s) \in Nat
  BY <1>7, SizeIs
<1> QED
  BY <1>3, <1>7, <1>8, <1>9 DEF Overloaded

-----------------------------------------------------------------------------
(* Entries and chains *)

TableEntries == {e \in [key_hash : Int, key : Keys, value : Values] : e.key_hash = Hash(e.key)}

\* No two entries of a chain hold a key.
Distinct(chain) == \A j, k \in 1..Len(chain) : chain[j].key = chain[k].key => j = k

\* The buckets b, n of them, hold the entries E, each where it is looked for.
Holds(b, n, E) ==
    /\ b \in [0..(n - 1) -> Seq(TableEntries)] /\ E \subseteq TableEntries
    /\ \A i \in 0..(n - 1) : Distinct(b[i])
    /\ \A i \in 0..(n - 1) : \A e \in TableEntries :
           e \in ToSet(b[i]) <=> e \in E /\ i = Index(e.key_hash, n)

LEMMA HashIs ==
    ASSUME NEW k \in Keys
    PROVE  Hash(k) \in Int
<1>1. k \in Nat /\ WordBits - 4 \in Nat
  BY KeysAssumption
<1>2. 2^(WordBits - 4) \in Nat
  BY <1>1, Powers
<1> DEFINE p == 2^(WordBits - 4)
<1> HIDE DEF p
<1>3. p \in Nat
  BY <1>2 DEF p
<1>4. (k \div 16) + (k % 16) * p \in Int
  <2>1. k \div 16 \in Int /\ k % 16 \in Int
    BY <1>1
  <2>2. (k % 16) * p \in Int
    BY <1>3, <2>1
  <2> QED
    BY <2>1, <2>2
<1> QED
  BY <1>4 DEF Hash, p

LEMMA IndexIs ==
    ASSUME NEW h \in Int, NEW n \in Nat, n >= 1
    PROVE  Index(h, n) \in 0..(n - 1)
BY DEF Index

LEMMA EntryIs ==
    ASSUME NEW e \in TableEntries
    PROVE  /\ e.key \in Keys /\ e.value \in Values /\ e.key_hash = Hash(e.key)
           /\ e.key_hash \in Int /\ e.value # NULL
BY NullAssumption DEF TableEntries

\* A key has one entry.
LEMMA OneEntry ==
    ASSUME NEW n \in Nat, n >= 1, NEW b, NEW E, Holds(b, n, E),
           NEW e \in E, NEW f \in E, e.key = f.key
    PROVE  e = f
<1> DEFINE i == Index(e.key_hash, n)
<1>1. e \in TableEntries /\ f \in TableEntries
  BY DEF Holds
<1>2. e.key_hash = f.key_hash /\ e.key_hash \in Int
  BY <1>1, EntryIs
<1>3. i \in 0..(n - 1) /\ i = Index(f.key_hash, n)
  BY <1>2, IndexIs
<1> HIDE DEF i
<1>4. e \in ToSet(b[i]) /\ f \in ToSet(b[i]) /\ b[i] \in Seq(TableEntries) /\ Distinct(b[i])
  BY <1>1, <1>3 DEF Holds, i
<1>5. DOMAIN b[i] = 1..Len(b[i])
  BY <1>4, LenProperties
<1>6. PICK j \in 1..Len(b[i]) : e = b[i][j]
  BY <1>4, <1>5 DEF ToSet
<1>7. PICK k \in 1..Len(b[i]) : f = b[i][k]
  BY <1>4, <1>5 DEF ToSet
<1> QED
  BY <1>4, <1>6, <1>7 DEF Distinct

LEMMA SetOf ==
    ASSUME NEW q \in Seq(TableEntries)
    PROVE  ToSet(q) \subseteq TableEntries /\ ToSet(q) = {q[i] : i \in 1..Len(q)}
<1>1. DOMAIN q = 1..Len(q)
  BY LenProperties
<1>2. \A i \in 1..Len(q) : q[i] \in TableEntries
  BY ElementOfSeq
<1> QED
  BY <1>1, <1>2 DEF ToSet

LEMMA PairIs ==
    ASSUME NEW q \in Seq(TableEntries), NEW r \in Seq(TableEntries), Distinct(q), Distinct(r),
           \A e \in ToSet(q) : \A f \in ToSet(r) : e.key # f.key
    PROVE  /\ q \o r \in Seq(TableEntries) /\ Distinct(q \o r)
           /\ ToSet(q \o r) = ToSet(q) \cup ToSet(r)
<1> DEFINE w == q \o r
           m == Len(q)
           n == Len(r)
<1>1. /\ m \in Nat /\ n \in Nat /\ w \in Seq(TableEntries) /\ Len(w) = m + n
      /\ \A i \in 1..(m + n) : w[i] = IF i <= m THEN q[i] ELSE r[i - m]
  BY LenProperties, ConcatProperties
<1>2. DOMAIN q = 1..m /\ DOMAIN r = 1..n
  BY LenProperties
<1>3. DOMAIN w = 1..(m + n)
  BY <1>1, LenProperties
<1> HIDE DEF w, m, n
<1>4. \A i \in 1..m : w[i] = q[i] /\ q[i] \in ToSet(q) /\ i \in 1..(m + n)
  <2> TAKE i \in 1..m
  <2>1. i \in 1..(m + n) /\ i <= m
    BY <1>1
  <2>2. w[i] = q[i]
    BY <1>1, <2>1
  <2> QED
    BY <1>2, <2>1, <2>2 DEF ToSet
<1>5. \A i \in 1..n : w[i + m] = r[i] /\ r[i] \in ToSet(r) /\ i + m \in 1..(m + n)
  <2> TAKE i \in 1..n
  <2>1. i + m \in 1..(m + n) /\ ~ (i + m <= m) /\ (i + m) - m = i
    BY <1>1
  <2> QED
    BY <1>1, <1>2, <2>1 DEF ToSet
<1>6. \A i \in 1..(m + n) : i \in 1..m \/ (i - m \in 1..n /\ w[i] = r[i - m])
  BY <1>1
<1>7. ToSet(w) = ToSet(q) \cup ToSet(r)
  <2>1. ASSUME NEW e \in ToSet(w) PROVE e \in ToSet(q) \cup ToSet(r)
    <3>1. PICK i \in 1..(m + n) : e = w[i]
      BY <1>3 DEF ToSet
    <3> QED
      BY <1>2, <1>4, <1>6, <3>1 DEF ToSet
  <2>2. ASSUME NEW e \in ToSet(q) PROVE e \in ToSet(w)
    <3>1. PICK i \in 1..m : e = q[i]
      BY <1>2 DEF ToSet
    <3> QED
      BY <1>3, <1>4, <3>1 DEF ToSet
  <2>3. ASSUME NEW e \in ToSet(r) PROVE e \in ToSet(w)
    <3>1. PICK i \in 1..n : e = r[i]
      BY <1>2 DEF ToSet
    <3> QED
      BY <1>3, <1>5, <3>1 DEF ToSet
  <2> QED
    BY <2>1, <2>2, <2>3
<1>8. ASSUME NEW j \in 1..(m + n), NEW k \in 1..(m + n), w[j].key = w[k].key
      PROVE  j = k
  <2>1. CASE j \in 1..m /\ k \in 1..m
    BY <1>4, <1>8, <2>1 DEF Distinct, m
  <2>2. CASE j \in 1..m /\ k \notin 1..m
    <3>1. k - m \in 1..n /\ w[k] = r[k - m]
      BY <1>6, <2>2
    <3> QED
      BY <1>4, <1>5, <1>8, <2>2, <3>1
  <2>3. CASE j \notin 1..m /\ k \in 1..m
    <3>1. j - m \in 1..n /\ w[j] = r[j - m]
      BY <1>6, <2>3
    <3> QED
      BY <1>4, <1>5, <1>8, <2>3, <3>1
  <2>4. CASE j \notin 1..m /\ k \notin 1..m
    <3>1. j - m \in 1..n /\ w[j] = r[j - m] /\ k - m \in 1..n /\ w[k] = r[k - m]
      BY <1>6, <2>4
    <3>2. j - m = k - m
      BY <1>8, <3>1 DEF Distinct, n
    <3> QED
      BY <1>1, <3>2
  <2> QED
    BY <2>1, <2>2, <2>3, <2>4
<1>9. Distinct(w)
  BY <1>1, <1>8 DEF Distinct
<1> QED
  BY <1>1, <1>7, <1>9 DEF w

LEMMA SingleIs ==
    ASSUME NEW e \in TableEntries
    PROVE  <<e>> \in Seq(TableEntries) /\ ToSet(<<e>>) = {e} /\ Distinct(<<e>>)
<1> DEFINE q == <<e>>
<1>1. q \in Seq(TableEntries) /\ Len(q) = 1 /\ q[1] = e
  OBVIOUS
<1> HIDE DEF q
<1>2. DOMAIN q = 1..1
  BY <1>1, LenProperties
<1> QED
  BY <1>1, <1>2 DEF ToSet, Distinct, q

\* An entry is pushed on the chain of its bucket.
LEMMA PushedHolds ==
    ASSUME NEW n \in Nat, n >= 1, NEW b, NEW E, Holds(b, n, E),
           NEW e \in TableEntries, \A f \in E : f.key # e.key
    PROVE  Holds([b EXCEPT ![Index(e.key_hash, n)] = <<e>> \o @], n, E \cup {e})
<1> DEFINE x == Index(e.key_hash, n)
           q == <<e>>
           r == q \o b[x]
           w == [b EXCEPT ![x] = r]
<1>1. x \in 0..(n - 1) /\ b \in [0..(n - 1) -> Seq(TableEntries)] /\ b[x] \in Seq(TableEntries)
  BY IndexIs, EntryIs DEF Holds
<1>2. q \in Seq(TableEntries) /\ ToSet(q) = {e} /\ Distinct(q)
  BY SingleIs
<1>3. \A f \in ToSet(b[x]) : f \in E
  <2> TAKE f \in ToSet(b[x])
  <2>1. f \in TableEntries
    <3>1. DOMAIN b[x] = 1..Len(b[x])
      BY <1>1, LenProperties
    <3>2. PICK j \in 1..Len(b[x]) : f = b[x][j]
      BY <3>1 DEF ToSet
    <3> QED
      BY <1>1, <3>2, ElementOfSeq
  <2> QED
    BY <1>1, <2>1 DEF Holds
<1> HIDE DEF q
<1>4. /\ r \in Seq(TableEntries) /\ Distinct(r) /\ ToSet(r) = {e} \cup ToSet(b[x])
  <2>1. Distinct(b[x])
    BY <1>1 DEF Holds
  <2>2. \A f \in ToSet(q) : \A g \in ToSet(b[x]) : f.key # g.key
    BY <1>2, <1>3
  <2> QED
    BY <1>1, <1>2, <2>1, <2>2, PairIs
<1> HIDE DEF r
<1>5. /\ w \in [0..(n - 1) -> Seq(TableEntries)]
      /\ \A i \in 0..(n - 1) : w[i] = IF i = x THEN r ELSE b[i]
  BY <1>1, <1>4
<1> HIDE DEF w
<1>6. \A i \in 0..(n - 1) : Distinct(w[i])
  BY <1>4, <1>5 DEF Holds
<1>7. ASSUME NEW i \in 0..(n - 1), NEW f \in TableEntries
      PROVE  f \in ToSet(w[i]) <=> f \in E \cup {e} /\ i = Index(f.key_hash, n)
  <2>1. f \in ToSet(b[i]) <=> f \in E /\ i = Index(f.key_hash, n)
    BY DEF Holds
  <2>2. CASE i = x
    <3>1. ToSet(w[i]) = {e} \cup ToSet(b[i])
      BY <1>4, <1>5, <2>2
    <3> QED
      BY <2>1, <2>2, <3>1
  <2>3. CASE i # x
    <3>1. w[i] = b[i]
      BY <1>5, <2>3
    <3> QED
      BY <2>1, <2>3, <3>1
  <2> QED
    BY <2>2, <2>3
<1>8. E \cup {e} \subseteq TableEntries
  BY DEF Holds
<1>9. Holds(w, n, E \cup {e})
  BY <1>5, <1>6, <1>7, <1>8 DEF Holds
<1> QED
  BY <1>9 DEF w, r, q

LEMMA EmptyHolds ==
    ASSUME NEW n \in Nat
    PROVE  Holds(Empty(n), n, {})
<1>1. <<>> \in Seq(TableEntries) /\ Len(<<>>) = 0
  BY EmptySeq
<1>2. ToSet(<<>>) = {} /\ Distinct(<<>>)
  BY <1>1 DEF ToSet, Distinct
<1>3. /\ Empty(n) \in [0..(n - 1) -> Seq(TableEntries)]
      /\ \A i \in 0..(n - 1) : Empty(n)[i] = <<>>
  BY <1>1 DEF Empty
<1> QED
  BY <1>2, <1>3 DEF Holds

\* The sequences that FlattenSeq joins one after the other.
LEMMA FlattenIs ==
    ASSUME NEW seqs, NEW m \in Nat, m >= 1, DOMAIN seqs = 1..m, Len(seqs) = m
    PROVE  \E f : /\ f[1] = seqs[1]
                  /\ \A i \in 1..m : i # 1 => f[i] = f[i - 1] \o seqs[i]
                  /\ FlattenSeq(seqs) = f[m]
<1> DEFINE Body(f, k) == [i \in 1..k |-> IF i = 1 THEN seqs[i] ELSE f[i - 1] \o seqs[i]]
           Good == {k \in 0..m : k = 0 \/ \E f : f = Body(f, k)}
           flatten == CHOOSE f : f = Body(f, m)
<1>1. 0 \in Good
  OBVIOUS
<1>2. ASSUME NEW k \in 1..m, k - 1 \in Good PROVE k \in Good
  <2>1. \E f : k # 1 => f = Body(f, k - 1)
    <3>1. k # 1 => k - 1 # 0
      OBVIOUS
    <3> HIDE DEF Body
    <3> QED
      BY <1>2, <3>1
  <2>1b. PICK f : k # 1 => f = Body(f, k - 1)
    BY <2>1
  <2> DEFINE g == [i \in 1..k |-> IF i = k THEN IF k = 1 THEN seqs[k] ELSE f[k - 1] \o seqs[k]
                                  ELSE f[i]]
  <2>2. ASSUME NEW i \in 1..k
        PROVE  g[i] = IF i = 1 THEN seqs[i] ELSE g[i - 1] \o seqs[i]
    <3>1. CASE i = k
      BY <3>1
    <3>2. CASE i # k
      <4>1. i \in 1..(k - 1) /\ k # 1 /\ (i # 1 => i - 1 \in 1..k /\ i - 1 # k)
        BY <3>2
      <4>2. f[i] = IF i = 1 THEN seqs[i] ELSE f[i - 1] \o seqs[i]
        BY <2>1b, <4>1
      <4> QED
        BY <3>2, <4>1, <4>2
    <3> QED
      BY <3>1, <3>2
  <2>3. g = [i \in 1..k |-> g[i]]
    OBVIOUS
  <2> HIDE DEF g
  <2> DEFINE h == Body(g, k)
  <2>4. g = h
    <3>1. h = [i \in 1..k |-> h[i]]
      OBVIOUS
    <3>2. \A i \in 1..k : g[i] = h[i]
      BY <2>2
    <3> HIDE DEF h
    <3> QED
      BY <2>3, <3>1, <3>2
  <2>5. g = Body(g, k)
    BY <2>4
  <2>6. k \in 0..m
    OBVIOUS
  <2> HIDE DEF Body
  <2> QED
    BY <2>5, <2>6
<1>3. m \in Good
  <2> HIDE DEF Good
  <2> QED
    BY <1>1, <1>2, UpTo
<1>4. \E f : f = Body(f, m)
  BY <1>3
<1>5. flatten = Body(flatten, m)
  <2> HIDE DEF Body
  <2> QED
    BY <1>4
<1>6. FlattenSeq(seqs) = flatten[m]
  BY DEF FlattenSeq
<1> HIDE DEF flatten
<1>7. \A i \in 1..m : flatten[i] = IF i = 1 THEN seqs[i] ELSE flatten[i - 1] \o seqs[i]
  BY <1>5
<1>8. 1 \in 1..m
  OBVIOUS
<1> QED
  BY <1>6, <1>7, <1>8

\* A walk through all chains meets each entry once.
LEMMA WalkIs ==
    ASSUME NEW E, nbuckets \in Nat, nbuckets >= 1, Holds(buckets, nbuckets, E)
    PROVE  Entries \in Seq(TableEntries) /\ Distinct(Entries) /\ ToSet(Entries) = E
<1> DEFINE n == nbuckets
           b == buckets
           seqs == [i \in 1..n |-> b[i - 1]]
           Upto(k) == {e \in E : Index(e.key_hash, n) < k}
<1>1. /\ n \in Nat /\ n >= 1 /\ b \in [0..(n - 1) -> Seq(TableEntries)]
      /\ E \subseteq TableEntries
      /\ \A i \in 0..(n - 1) : Distinct(b[i])
      /\ \A i \in 0..(n - 1) : \A e \in TableEntries :
             e \in ToSet(b[i]) <=> e \in E /\ i = Index(e.key_hash, n)
  BY DEF Holds
<1>2. Entries = FlattenSeq(seqs)
  BY DEF Entries
<1>3. \A e \in E : e \in TableEntries /\ Index(e.key_hash, n) \in 0..(n - 1)
  BY <1>1, EntryIs, IndexIs
<1> HIDE DEF n, b
<1>4. seqs \in Seq(Seq(TableEntries)) /\ DOMAIN seqs = 1..n /\ Len(seqs) = n
  <2>1. \A i \in 1..n : seqs[i] \in Seq(TableEntries)
    BY <1>1
  <2>2. seqs \in Seq(Seq(TableEntries))
    BY <1>1, <2>1, IsASeq
  <2>3. DOMAIN seqs = 1..n
    OBVIOUS
  <2> HIDE DEF seqs
  <2>4. Len(seqs) \in Nat /\ 1..Len(seqs) = 1..n
    BY <2>2, <2>3, LenProperties
  <2>5. Len(seqs) = n
    BY <1>1, <2>4
  <2> QED
    BY <2>2, <2>3, <2>5
<1>5. \A i \in 1..n : seqs[i] = b[i - 1] /\ i - 1 \in 0..(n - 1)
  BY <1>1
<1> HIDE DEF seqs
<1>6. PICK f : /\ f[1] = seqs[1]
               /\ \A i \in 1..n : i # 1 => f[i] = f[i - 1] \o seqs[i]
               /\ FlattenSeq(seqs) = f[n]
  BY <1>1, <1>4, FlattenIs
<1> DEFINE OK(k) == f[k] \in Seq(TableEntries) /\ Distinct(f[k]) /\ ToSet(f[k]) = Upto(k)
           Good == {k \in 0..n : k = 0 \/ OK(k)}
<1>7. ASSUME NEW k \in 1..n
      PROVE  /\ seqs[k] \in Seq(TableEntries) /\ Distinct(seqs[k])
             /\ ToSet(seqs[k]) = {e \in E : Index(e.key_hash, n) = k - 1}
  <2>1. seqs[k] = b[k - 1] /\ k - 1 \in 0..(n - 1)
    BY <1>5
  <2>2. b[k - 1] \in Seq(TableEntries) /\ Distinct(b[k - 1])
    BY <1>1, <2>1
  <2>3. ToSet(b[k - 1]) \subseteq TableEntries
    BY <2>2, SetOf
  <2>4. \A e \in TableEntries :
             e \in ToSet(b[k - 1]) <=> e \in E /\ k - 1 = Index(e.key_hash, n)
    BY <1>1, <2>1
  <2>5. ToSet(b[k - 1]) = {e \in E : Index(e.key_hash, n) = k - 1}
    BY <1>1, <2>3, <2>4
  <2> QED
    BY <2>1, <2>2, <2>5
<1>8. 0 \in Good
  BY <1>1
<1>9. ASSUME NEW k \in 1..n, k - 1 \in Good PROVE k \in Good
  <2>1. CASE k = 1
    <3>1. Upto(1) = {e \in E : Index(e.key_hash, n) = 1 - 1}
      BY <1>3
    <3>2. f[1] = seqs[1]
      BY <1>6
    <3> QED
      BY <1>7, <2>1, <3>1, <3>2
  <2>2. CASE k # 1
    <3>1. k - 1 # 0
      BY <2>2
    <3>2. OK(k - 1) /\ f[k] = f[k - 1] \o seqs[k]
      BY <1>6, <1>9, <2>2, <3>1
    <3>3. \A e \in ToSet(f[k - 1]) : \A g \in ToSet(seqs[k]) : e.key # g.key
      <4> TAKE e \in ToSet(f[k - 1])
      <4> TAKE g \in ToSet(seqs[k])
      <4>1. /\ e \in E /\ g \in E
            /\ Index(e.key_hash, n) < k - 1 /\ Index(g.key_hash, n) = k - 1
        BY <1>7, <3>2
      <4>2. Index(e.key_hash, n) # Index(g.key_hash, n)
        BY <1>3, <4>1
      <4>3. e.key_hash = Hash(e.key) /\ g.key_hash = Hash(g.key)
        BY <1>3, <4>1, EntryIs
      <4> QED
        BY <4>2, <4>3
    <3>4. /\ f[k] \in Seq(TableEntries) /\ Distinct(f[k])
          /\ ToSet(f[k]) = ToSet(f[k - 1]) \cup ToSet(seqs[k])
      BY <1>7, <3>2, <3>3, PairIs
    <3>5. Upto(k) = Upto(k - 1) \cup {e \in E : Index(e.key_hash, n) = k - 1}
      BY <1>3
    <3>6. OK(k)
      BY <1>7, <3>2, <3>4, <3>5
    <3> QED
      BY <3>6
  <2> QED
    BY <2>1, <2>2
<1>10. n \in Good
  <2>1. n \in 0..n
    BY <1>1
  <2> HIDE DEF Good
  <2> QED
    BY <1>1, <1>8, <1>9, <2>1, UpTo
<1>11. OK(n)
  <2>1. n # 0
    BY <1>1
  <2>2. n = 0 \/ OK(n)
    BY <1>10
  <2> HIDE DEF OK
  <2> QED
    BY <2>1, <2>2
<1>12. Upto(n) = E
  <2>1. ASSUME NEW e \in E PROVE Index(e.key_hash, n) < n
    BY <1>1, <1>3
  <2> QED
    BY <2>1
<1> QED
  BY <1>2, <1>6, <1>11, <1>12

\* A rehash pushes every entry of the walk, and so it holds what the table held.
LEMMA RehashedHolds ==
    ASSUME NEW E, nbuckets \in Nat, nbuckets >= 1, Holds(buckets, nbuckets, E),
           NEW n \in Nat, n >= 1
    PROVE  Holds(Rehashed(n), n, E)
<1> DEFINE q == Entries
           m == Len(q)
           D == 1..m
           Push(c, e) == [c EXCEPT ![Index(e.key_hash, n)] = <<e>> \o @]
           Body(f, k) == [s \in SUBSET (1..k) |->
                             IF s = {} THEN Empty(n) ELSE Push(f[s \ {Max(s)}], q[Max(s)])]
           sum == CHOOSE f : f = Body(f, m)
           Good == {k \in 0..m : \E f : f = Body(f, k)}
<1>1. q \in Seq(TableEntries) /\ Distinct(q) /\ ToSet(q) = E
  BY WalkIs
<1> HIDE DEF q
<1>2. m \in Nat /\ DOMAIN q = D
  BY <1>1, LenProperties
<1>3. Rehashed(n) = sum[D]
  <2>1. Rehashed(n) = FoldLeft(LAMBDA chains, e : Push(chains, e), Empty(n), q)
    BY DEF Rehashed, q
  <2> QED
    BY <1>2, <2>1 DEF FoldLeft, MapThenFoldSet
<1> HIDE DEF m, Push
<1>4. 0 \in Good
  <2> DEFINE f == [s \in SUBSET (1..0) |-> Empty(n)]
             h == Body(f, 0)
  <2>1. \A s \in SUBSET (1..0) : s = {}
    OBVIOUS
  <2>2. \A s \in SUBSET (1..0) : f[s] = h[s]
    BY <2>1
  <2>3. f = [s \in SUBSET (1..0) |-> f[s]] /\ h = [s \in SUBSET (1..0) |-> h[s]]
    OBVIOUS
  <2>4. f = h
    <3> HIDE DEF f, h
    <3> QED
      BY <2>2, <2>3
  <2>5. f = Body(f, 0)
    BY <2>4
  <2> HIDE DEF f, Body
  <2> QED
    BY <1>2, <2>5
<1>5. ASSUME NEW k \in 1..m, k - 1 \in Good PROVE k \in Good
  <2>1. PICK f : f = Body(f, k - 1)
    BY <1>5
  <2>2. k - 1 \in Nat /\ k \in Nat /\ k \in 0..m
    BY <1>2
  <2> DEFINE g == [s \in SUBSET (1..k) |-> IF k \in s THEN Push(f[s \ {k}], q[k]) ELSE f[s]]
             h == Body(g, k)
  <2>3. ASSUME NEW s \in SUBSET (1..k) PROVE g[s] = h[s]
    <3>1. CASE k \in s
      <4>1. Max(s) = k
        BY <2>2, <3>1, MaxIs
      <4>2. s \ {k} \in SUBSET (1..k) /\ k \notin s \ {k} /\ s # {}
        BY <3>1
      <4>3. g[s] = Push(f[s \ {k}], q[k]) /\ g[s \ {k}] = f[s \ {k}]
        BY <3>1, <4>2
      <4>4. h[s] = Push(g[s \ {Max(s)}], q[Max(s)])
        BY <4>2
      <4> HIDE DEF g, h
      <4> QED
        BY <4>1, <4>3, <4>4
    <3>2. CASE k \notin s
      <4>1. s \in SUBSET (1..(k - 1))
        BY <2>2, <3>2
      <4>2. f[s] = IF s = {} THEN Empty(n) ELSE Push(f[s \ {Max(s)}], q[Max(s)])
        BY <2>1, <4>1
      <4>3. s \ {Max(s)} \in SUBSET (1..k) /\ k \notin s \ {Max(s)}
        BY <3>2
      <4>4. g[s] = f[s] /\ g[s \ {Max(s)}] = f[s \ {Max(s)}]
        BY <3>2, <4>3
      <4>5. h[s] = IF s = {} THEN Empty(n) ELSE Push(g[s \ {Max(s)}], q[Max(s)])
        OBVIOUS
      <4> HIDE DEF g, h
      <4> QED
        BY <4>2, <4>4, <4>5
    <3> QED
      BY <3>1, <3>2
  <2>4. g = [s \in SUBSET (1..k) |-> g[s]] /\ h = [s \in SUBSET (1..k) |-> h[s]]
    OBVIOUS
  <2>5. g = h
    <3> HIDE DEF g, h
    <3> QED
      BY <2>3, <2>4
  <2>6. g = Body(g, k)
    BY <2>5
  <2> HIDE DEF g, Body
  <2> QED
    BY <2>2, <2>6
<1>6. m \in Good
  <2>1. m \in 0..m
    BY <1>2
  <2> HIDE DEF Good
  <2> QED
    BY <1>2, <1>4, <1>5, <2>1, UpTo
<1>7. sum = Body(sum, m)
  <2>1. \E f : f = Body(f, m)
    BY <1>6
  <2> HIDE DEF Body
  <2> QED
    BY <2>1
<1> HIDE DEF sum, Good
<1>8. \A s \in SUBSET (1..m) :
          sum[s] = IF s = {} THEN Empty(n) ELSE Push(sum[s \ {Max(s)}], q[Max(s)])
  BY <1>7
<1> HIDE DEF Body
<1> DEFINE Pushed(k) == {q[i] : i \in 1..k}
           Fine == {k \in 0..m : Holds(sum[1..k], n, Pushed(k))}
<1>9. 0 \in Fine
  <2>1. 1..0 = {} /\ 0 \in 0..m /\ 1..0 \in SUBSET (1..m)
    BY <1>2
  <2>2. sum[1..0] = Empty(n)
    BY <1>8, <2>1
  <2>3. Pushed(0) = {}
    BY <2>1
  <2>4. Holds(Empty(n), n, {})
    BY EmptyHolds
  <2> QED
    BY <2>1, <2>2, <2>3, <2>4
<1>10. ASSUME NEW k \in 1..m, k - 1 \in Fine PROVE k \in Fine
  <2>1. k \in Nat /\ k \in 0..m /\ k \in 1..k /\ 1..k \subseteq 1..m /\ (1..k) \ {k} = 1..(k - 1)
    BY <1>2
  <2>2. Max(1..k) = k
    BY <2>1, MaxIs
  <2>3. sum[1..k] = Push(sum[1..(k - 1)], q[k])
    BY <1>8, <2>1, <2>2
  <2>4. Holds(sum[1..(k - 1)], n, Pushed(k - 1))
    BY <1>10
  <2>5. q[k] \in TableEntries
    BY <1>1, <1>2, ElementOfSeq DEF m
  <2>6. \A f \in Pushed(k - 1) : f.key # q[k].key
    <3> TAKE f \in Pushed(k - 1)
    <3>1. PICK i \in 1..(k - 1) : f = q[i]
      OBVIOUS
    <3>2. i \in 1..m /\ i # k
      BY <1>2, <3>1
    <3> QED
      BY <1>1, <3>1, <3>2 DEF Distinct, m
  <2>7. Pushed(k) = Pushed(k - 1) \cup {q[k]}
    BY <2>1
  <2> DEFINE c == sum[1..(k - 1)]
  <2> HIDE DEF Pushed, c
  <2>8. Holds([c EXCEPT ![Index(q[k].key_hash, n)] = <<q[k]>> \o @], n, Pushed(k - 1) \cup {q[k]})
    BY <2>4, <2>5, <2>6, PushedHolds DEF c
  <2>9. Holds(Push(c, q[k]), n, Pushed(k))
    BY <2>7, <2>8 DEF Push
  <2> QED
    BY <2>1, <2>3, <2>9 DEF c
<1>11. m \in Fine
  <2>1. m \in 0..m
    BY <1>2
  <2> HIDE DEF Fine
  <2> QED
    BY <1>2, <1>9, <1>10, <2>1, UpTo
<1>12. Pushed(m) = E
  BY <1>1, SetOf DEF m
<1> QED
  BY <1>3, <1>11, <1>12

-----------------------------------------------------------------------------
(* Lookups *)

\* A lookup answers with the entry of the key ...
LEMMA LookupFinds ==
    ASSUME NEW n \in Nat, n >= 1, NEW b, NEW E, Holds(b, n, E), NEW e \in E
    PROVE  Found(b[Index(Hash(e.key), n)], e.key) = e.value
<1> DEFINE k == e.key
           c == b[Index(Hash(k), n)]
           m == Len(c)
           hits == {j \in 1..m : c[j].key_hash = Hash(k) /\ c[j].key = k}
<1>1. e \in TableEntries /\ k \in Keys /\ e.key_hash = Hash(k) /\ Hash(k) \in Int
  BY EntryIs DEF Holds
<1>2. Index(Hash(k), n) \in 0..(n - 1)
  BY <1>1, IndexIs
<1>3. c \in Seq(TableEntries) /\ Distinct(c) /\ e \in ToSet(c)
  BY <1>1, <1>2 DEF Holds
<1>4. m \in Nat
  BY <1>3, LenProperties
<1>5. PICK i \in 1..m : e = c[i]
  BY <1>3, SetOf
<1>6. i \in hits
  BY <1>1, <1>5
<1>7. \A j \in hits : j = i
  BY <1>3, <1>5 DEF Distinct
<1>8. Found(c, k) = c[Min(hits)]. value
  BY <1>6 DEF Found
<1>9. hits = {i}
  BY <1>6, <1>7
<1>10. i <= i
  BY <1>4
<1> HIDE DEF hits
<1>11. Min(hits) = i
  <2>1. i \in hits /\ \A y \in hits : i =< y
    BY <1>9, <1>10
  <2>2. Min(hits) \in hits
    BY <2>1 DEF Min
  <2> QED
    BY <1>9, <2>2
<1> HIDE DEF c
<1>12. Found(c, k) = e.value
  BY <1>5, <1>8, <1>11
<1> QED
  BY <1>12 DEF c

\* ... and with NULL when the key has none.
LEMMA LookupMisses ==
    ASSUME NEW n \in Nat, n >= 1, NEW b, NEW E, Holds(b, n, E),
           NEW k \in Keys, \A e \in E : e.key # k
    PROVE  Found(b[Index(Hash(k), n)], k) = NULL
<1> DEFINE c == b[Index(Hash(k), n)]
<1>1. Index(Hash(k), n) \in 0..(n - 1)
  BY HashIs, IndexIs
<1>2. c \in Seq(TableEntries)
  BY <1>1 DEF Holds
<1>3. \A e \in ToSet(c) : e.key # k
  <2>1. ToSet(c) \subseteq TableEntries
    BY <1>2, SetOf
  <2> QED
    BY <1>1, <2>1 DEF Holds
<1> HIDE DEF c
<1>4. \A j \in 1..Len(c) : c[j].key # k
  BY <1>2, <1>3, SetOf
<1>5. Found(c, k) = NULL
  BY <1>4 DEF Found
<1> QED
  BY <1>5 DEF c

-----------------------------------------------------------------------------
(* The number of entries *)

\* There are no more entries than keys.
LEMMA EntriesFinite ==
    ASSUME NEW n \in Nat, n >= 1, NEW b, NEW E, Holds(b, n, E)
    PROVE  IsFiniteSet(E) /\ Cardinality(E) \in Nat /\ Cardinality(E) <= Cardinality(Keys)
<1> DEFINE f == [e \in E |-> e.key]
<1>1. \A e \in E : e.key \in Keys
  BY EntryIs DEF Holds
<1>2. \A d, e \in E : f[d] = f[e] => d = e
  BY OneEntry
<1>3. f \in Injection(E, Keys)
  BY <1>1, <1>2 DEF Injection, IsInjective
<1>4. IsFiniteSet(E) /\ Cardinality(E) <= Cardinality(Keys)
  BY <1>3, SizesAssumption, FS_Injection
<1> QED
  BY <1>4, FS_CardinalityType

\* A table that does not hold all keys has room for one more.
LEMMA EntriesRoom ==
    ASSUME NEW n \in Nat, n >= 1, NEW b, NEW E, Holds(b, n, E),
           NEW k \in Keys, \A e \in E : e.key # k
    PROVE  Cardinality(E) + 1 <= Cardinality(Keys)
<1> DEFINE f == [e \in E |-> e.key]
           Others == Keys \ {k}
<1>1. \A e \in E : e.key \in Others
  BY EntryIs DEF Holds
<1>2. \A d, e \in E : f[d] = f[e] => d = e
  BY OneEntry
<1>3. f \in Injection(E, Others)
  BY <1>1, <1>2 DEF Injection, IsInjective
<1>4. IsFiniteSet(Others) /\ Cardinality(Others) = Cardinality(Keys) - 1
  BY SizesAssumption, FS_RemoveElement
<1>5. IsFiniteSet(E) /\ Cardinality(E) <= Cardinality(Others)
  BY <1>3, <1>4, FS_Injection
<1>6. Cardinality(E) \in Nat /\ Cardinality(Keys) \in Nat
  BY <1>5, SizesAssumption, FS_CardinalityType
<1> QED
  BY <1>4, <1>5, <1>6

\* A chain is as long as it has entries.
LEMMA ChainIs ==
    ASSUME NEW q \in Seq(TableEntries), Distinct(q)
    PROVE  Len(q) \in Nat /\ IsFiniteSet(ToSet(q)) /\ Cardinality(ToSet(q)) = Len(q)
<1> DEFINE n == Len(q)
           f == [i \in 1..n |-> q[i]]
<1>1. n \in Nat /\ ToSet(q) = {q[i] : i \in 1..n}
  BY SetOf, LenProperties
<1>2. f \in Surjection(1..n, ToSet(q))
  BY <1>1 DEF Surjection
<1>3. \A i, j \in 1..n : f[i] = f[j] => i = j
  BY DEF Distinct
<1>4. f \in Bijection(1..n, ToSet(q))
  BY <1>2, <1>3 DEF Bijection, Injection, Surjection, IsInjective
<1> HIDE DEF n
<1>5. IsFiniteSet(1..n) /\ Cardinality(1..n) = n
  <2>1. 1 \in Int /\ n \in Int
    BY <1>1
  <2>2. IsFiniteSet(1..n) /\ Cardinality(1..n) = IF 1 > n THEN 0 ELSE n - 1 + 1
    BY <2>1, FS_Interval
  <2> QED
    BY <1>1, <2>2
<1>6. IsFiniteSet(ToSet(q)) /\ Cardinality(ToSet(q)) = Cardinality(1..n)
  BY <1>4, <1>5, FS_Bijection DEF ExistsBijection
<1> QED
  BY <1>1, <1>5, <1>6 DEF n

\* A walk through the chains counts the entries.
LEMMA ChainedIs ==
    ASSUME NEW E, nbuckets \in Nat, nbuckets >= 1 \/ E = {}, Holds(buckets, nbuckets, E)
    PROVE  Chained = Cardinality(E)
<1> DEFINE n == nbuckets
           S == 0..(n - 1)
           of(s) == {e \in E : Index(e.key_hash, n) \in s}
           card(s) == Cardinality(of(s))
           One(s) == CHOOSE x \in s : TRUE
           Body(f) == [s \in SUBSET S |->
                          IF s = {} THEN 0 ELSE Len(buckets[One(s)]) + f[s \ {One(s)}]]
           sum == CHOOSE f : f = Body(f)
           g == [s \in SUBSET S |-> card(s)]
<1>1. Chained = sum[S]
  BY DEF Chained, FoldFunctionOnSet, MapThenFoldSet
<1>2. IsFiniteSet(E)
  BY EntriesFinite, FS_EmptySet
<1>3. ASSUME NEW s \in SUBSET S, s # {}
      PROVE  /\ One(s) \in s /\ s \ {One(s)} \in SUBSET S
             /\ card(s) = Len(buckets[One(s)]) + card(s \ {One(s)})
  <2>1. One(s) \in s
    BY <1>3
  <2> DEFINE x == One(s)
             A == of(s \ {x})
             B == ToSet(buckets[x])
  <2>2. x \in S /\ x \in s
    BY <2>1
  <2> HIDE DEF x
  <2>3. buckets[x] \in Seq(TableEntries) /\ Distinct(buckets[x])
    BY <2>2 DEF Holds
  <2>4. B = of({x})
    <3>1. B \subseteq TableEntries /\ E \subseteq TableEntries
      BY <2>3, SetOf DEF Holds
    <3>2. \A e \in TableEntries : e \in B <=> e \in E /\ x = Index(e.key_hash, n)
      BY <2>2 DEF Holds
    <3> QED
      BY <3>1, <3>2
  <2>5. of(s) = A \cup B /\ A \cap B = {}
    BY <2>2, <2>4
  <2>6. IsFiniteSet(A) /\ A \subseteq E
    BY <1>2, FS_Subset
  <2>7. Len(buckets[x]) \in Nat /\ IsFiniteSet(B) /\ Cardinality(B) = Len(buckets[x])
    BY <2>3, ChainIs
  <2>8. Cardinality(A) \in Nat
    BY <2>6, FS_CardinalityType
  <2>9. card(s) = Cardinality(A) + Cardinality(B) - Cardinality({})
    BY <2>5, <2>6, <2>7, FS_Union
  <2>10. card(s) = Len(buckets[x]) + card(s \ {x})
    BY <2>7, <2>8, <2>9, FS_EmptySet
  <2> QED
    BY <2>1, <2>10 DEF x
<1>4. card({}) = 0 /\ of(S) = E
  <2>1. \A e \in E : Index(e.key_hash, n) \in S
    BY EntryIs, IndexIs DEF Holds
  <2> QED
    BY <2>1, FS_EmptySet
<1>5. IsFiniteSet(S)
  <2>1. 0 \in Int /\ n - 1 \in Int
    OBVIOUS
  <2> QED
    BY <2>1, FS_Interval
<1>6. card(S) = Cardinality(E)
  BY <1>4
<1> HIDE DEF n, S, One, card
<1>7. \A s \in SUBSET S : g[s] = card(s)
  OBVIOUS
<1>8. g = Body(g)
  <2>1. ASSUME NEW s \in SUBSET S
        PROVE  g[s] = IF s = {} THEN 0 ELSE Len(buckets[One(s)]) + g[s \ {One(s)}]
    <3>1. CASE s = {}
      BY <1>4, <1>7, <3>1
    <3>2. CASE s # {}
      BY <1>3, <1>7, <3>2
    <3> QED
      BY <3>1, <3>2
  <2> QED
    BY <2>1
<1> HIDE DEF g
<1>9. sum = Body(sum)
  <2> HIDE DEF Body
  <2> QED
    BY <1>8
<1> HIDE DEF sum
<1>10. \A s \in SUBSET S :
           sum[s] = IF s = {} THEN 0 ELSE Len(buckets[One(s)]) + sum[s \ {One(s)}]
  BY <1>9
<1> HIDE DEF Body
<1>11. \A s \in SUBSET S : sum[s] = card(s)
  <2> DEFINE R == OpToRel(<, Nat)
             Bad == {s \in SUBSET S : sum[s] # card(s)}
             sizes == {Cardinality(s) : s \in Bad}
  <2>1. ASSUME NEW s \in SUBSET S
        PROVE  IsFiniteSet(s) /\ Cardinality(s) \in Nat
    BY <1>5, FS_Subset, FS_CardinalityType
  <2> SUFFICES ASSUME Bad # {} PROVE FALSE
    OBVIOUS
  <2>2. sizes \subseteq Nat /\ sizes # {}
    BY <2>1
  <2>3. PICK k \in sizes : \A j \in sizes : <<j, k>> \notin R
    BY <2>2, NatLessThanWellFounded, WFMin
  <2>4. \A j \in sizes : ~ (j < k)
    BY <2>2, <2>3, Zenon DEF OpToRel
  <2>5. PICK s \in Bad : k = Cardinality(s)
    OBVIOUS
  <2>6. s # {}
    BY <1>4, <1>10
  <2> DEFINE t == s \ {One(s)}
  <2>7. t \in SUBSET S /\ One(s) \in s /\ card(s) = Len(buckets[One(s)]) + card(t)
    BY <1>3, <2>6
  <2>8. Cardinality(t) < Cardinality(s)
    <3>1. IsFiniteSet(s) /\ Cardinality(s) \in Nat
      BY <2>1
    <3>2. Cardinality(t) = Cardinality(s) - 1
      BY <2>7, <3>1, FS_RemoveElement
    <3> QED
      BY <3>1, <3>2
  <2>9. t \notin Bad
    BY <2>4, <2>5, <2>8
  <2>10. sum[s] = card(s)
    BY <1>10, <2>6, <2>7, <2>9
  <2> QED
    BY <2>10
<1> QED
  BY <1>1, <1>6, <1>11 DEF n

-----------------------------------------------------------------------------
(* The table *)

\* A table that holds the entries E ...
Holding(E) ==
    /\ nbuckets \in Sizes /\ Holds(buckets, nbuckets, E)
    /\ nentries = Cardinality(E) /\ ~ Overloaded(nentries, nbuckets)
    /\ live = [NewTable EXCEPT !.entries = nentries]

\* ... and the state between two tables.
Gone ==
    /\ nbuckets = 0 /\ nentries = 0 /\ buckets = Empty(0)
    /\ live = [table |-> 0, buckets |-> 0, entries |-> 0]

TableInvariant ==
    /\ Gone \/ \E E : Holding(E)
    /\ ret \in Values \cup {NULL}

LEMMA HoldingIs ==
    ASSUME NEW E, Holding(E)
    PROVE  /\ nbuckets \in Nat /\ nbuckets >= 1 /\ ~ Destroyed
           /\ Holds(buckets, nbuckets, E) /\ E \subseteq TableEntries
           /\ nentries \in Nat /\ nentries = Cardinality(E)
<1>1. nbuckets \in Nat /\ nbuckets >= 1 /\ Holds(buckets, nbuckets, E)
  BY SizeIs DEF Holding
<1>2. nentries \in Nat /\ nentries = Cardinality(E)
  BY <1>1, EntriesFinite DEF Holding
<1>3. E \subseteq TableEntries
  BY <1>1 DEF Holds
<1> QED
  BY <1>1, <1>2, <1>3 DEF Destroyed

\* What a lookup in the buckets b answers.
LEMMA AnswerIs ==
    ASSUME NEW n \in Nat, n >= 1, NEW b, NEW E, Holds(b, n, E), NEW k \in Keys, NEW answer,
           answer = Found(b[Index(Hash(k), n)], k)
    PROVE  /\ \A e \in E : e.key = k => answer = e.value
           /\ (\A e \in E : e.key # k) => answer = NULL
           /\ answer = NULL => \A e \in E : e.key # k
           /\ answer \in Values \cup {NULL}
<1>1. ASSUME NEW e \in E, e.key = k
      PROVE  answer = e.value /\ e.value \in Values /\ e.value # NULL
  <2>1. Found(b[Index(Hash(e.key), n)], e.key) = e.value
    BY LookupFinds
  <2>2. e \in TableEntries
    BY DEF Holds
  <2> QED
    BY <1>1, <2>1, <2>2, EntryIs
<1>2. ASSUME \A e \in E : e.key # k
      PROVE  answer = NULL
  BY <1>2, LookupMisses
<1> QED
  BY <1>1, <1>2

LEMMA LookupIs ==
    ASSUME NEW E, Holding(E), NEW k \in Keys
    PROVE  /\ \A e \in E : e.key = k => Lookup(k) = e.value
           /\ (\A e \in E : e.key # k) => Lookup(k) = NULL
           /\ Lookup(k) = NULL => \A e \in E : e.key # k
           /\ Lookup(k) \in Values \cup {NULL}
<1>1. Lookup(k) = Found(buckets[Index(Hash(k), nbuckets)], k)
  BY HoldingIs DEF Lookup
<1> QED
  BY <1>1, AnswerIs, HoldingIs

\* The same of the state that a step reaches.
LEMMA LookupNext ==
    ASSUME NEW E, Holding(E)', NEW k \in Keys
    PROVE  /\ \A e \in E : e.key = k => Lookup(k)' = e.value
           /\ (\A e \in E : e.key # k) => Lookup(k)' = NULL
<1>1. nbuckets' \in Nat /\ nbuckets' >= 1 /\ Holds(buckets', nbuckets', E)
  BY SizeIs DEF Holding
<1>2. Lookup(k)' = Found(buckets'[Index(Hash(k), nbuckets')], k)
  BY <1>1 DEF Lookup, Destroyed
<1> QED
  BY <1>1, <1>2, AnswerIs

NewEntry(k, v) == [key_hash |-> Hash(k), key |-> k, value |-> v]

LEMMA StartHolds ==
    ASSUME nbuckets = HASHTABLE_MIN_SIZE, nentries = 0, buckets = Empty(HASHTABLE_MIN_SIZE),
           live = NewTable
    PROVE  Holding({})
<1>1. HASHTABLE_MIN_SIZE \in Sizes /\ HASHTABLE_MIN_SIZE \in Nat
  BY SizesAssumption, SizeIs
<1>2. Holds(buckets, nbuckets, {})
  BY <1>1, EmptyHolds
<1>3. nentries = Cardinality({})
  BY FS_EmptySet
<1>4. ~ Overloaded(nentries, nbuckets)
  BY <1>1 DEF Overloaded
<1>5. live = [NewTable EXCEPT !.entries = nentries]
  BY DEF NewTable
<1> QED
  BY <1>1, <1>2, <1>3, <1>4, <1>5 DEF Holding

\* hashtable_set adds its entry and keeps the others, also when it grows.
LEMMA SetHolds ==
    ASSUME NEW E, Holding(E), NEW k \in Keys, NEW v \in Values, Set(k, v)
    PROVE  Holding(E \cup {NewEntry(k, v)})' /\ \A e \in E : e.key # k
<1> DEFINE entry == NewEntry(k, v)
           F == E \cup {entry}
           size == nentries + 1
           n == IF Overloaded(size, nbuckets) THEN Grown(size) ELSE nbuckets
           base == IF n = nbuckets THEN buckets ELSE Rehashed(n)
<1>1. \A e \in E : e.key # k
  BY LookupIs DEF Set
<1>2. /\ nbuckets' = n /\ nentries' = size
      /\ buckets' = [base EXCEPT ![Index(Hash(k), n)] = <<entry>> \o @]
      /\ live' = [live EXCEPT !.entries = @ + 1,
                              !.buckets = IF n = nbuckets THEN @ ELSE BucketsAfterGrowth]
  BY DEF Set, NewEntry, SlotOf
<1>3. entry \in TableEntries /\ entry.key = k /\ entry.key_hash = Hash(k)
  BY HashIs DEF NewEntry, TableEntries
<1>4. nbuckets \in Nat /\ nbuckets >= 1 /\ Holds(buckets, nbuckets, E) /\ nentries \in Nat
  BY HoldingIs
<1>5. IsFiniteSet(E) /\ nentries = Cardinality(E)
  BY <1>4, EntriesFinite, HoldingIs
<1>6. size \in Nat /\ size >= 1 /\ size <= Cardinality(Keys)
  BY <1>1, <1>4, <1>5, EntriesRoom
<1>7. n \in Sizes /\ ~ Overloaded(size, n)
  <2>1. Grown(size) \in Sizes /\ ~ Overloaded(size, Grown(size))
    BY <1>6, GrownIs
  <2> QED
    BY <2>1 DEF Holding
<1> HIDE DEF entry, size, n
<1>8. n \in Nat /\ n >= 1
  BY <1>7, SizeIs
<1>9. Holds(base, n, E)
  BY <1>4, <1>8, RehashedHolds
<1> HIDE DEF base
<1>10. Holds([base EXCEPT ![Index(entry.key_hash, n)] = <<entry>> \o @], n, F)
  BY <1>1, <1>3, <1>8, <1>9, PushedHolds
<1>11. Holds(buckets', nbuckets', F)
  BY <1>2, <1>3, <1>10
<1>12. nentries' = Cardinality(F)
  <2>1. entry \notin E
    BY <1>1, <1>3
  <2> QED
    BY <1>2, <1>5, <2>1, FS_AddElement DEF size
<1>13. live' = [NewTable EXCEPT !.entries = nentries']
  <2>1. live = [NewTable EXCEPT !.entries = nentries]
    BY DEF Holding
  <2>2. nentries' = nentries + 1
    BY <1>2 DEF size
  <2>3. live = [table |-> 1, buckets |-> 1, entries |-> nentries]
    BY <2>1 DEF NewTable
  <2>4. BucketsAfterGrowth = 1
    BY <2>3 DEF BucketsAfterGrowth
  <2>5. live' = [live EXCEPT !.entries = nentries + 1, !.buckets = 1]
    BY <1>2, <2>3, <2>4
  <2>6. live' = [table |-> 1, buckets |-> 1, entries |-> nentries']
    BY <2>2, <2>3, <2>5
  <2> QED
    BY <2>6 DEF NewTable
<1>14. nbuckets' \in Sizes /\ ~ Overloaded(nentries', nbuckets')
  BY <1>2, <1>7
<1>15. Holding(F)'
  BY <1>11, <1>12, <1>13, <1>14 DEF Holding
<1> QED
  BY <1>1, <1>15 DEF entry

\* hashtable_destroy finds every entry, and with the buckets and the table
\* itself nothing is left.
LEMMA DestroyIs ==
    ASSUME NEW E, Holding(E), Destroy
    PROVE  Gone'
<1>1. Chained = nentries /\ nentries \in Nat
  BY HoldingIs, ChainedIs
<1>2. live = [table |-> 1, buckets |-> 1, entries |-> nentries]
  BY DEF Holding, NewTable
<1>3. live' = [table |-> 0, buckets |-> 0, entries |-> 0]
  BY <1>1, <1>2 DEF Destroy
<1> QED
  BY <1>3 DEF Destroy, Gone

\* The table of the next move-in is a new one.
LEMMA NewHolds ==
    ASSUME Gone, New
    PROVE  Holding({})'
<1>1. /\ nbuckets' = HASHTABLE_MIN_SIZE /\ nentries' = 0
      /\ buckets' = Empty(HASHTABLE_MIN_SIZE) /\ live' = NewTable
  BY DEF Gone, New, NewTable
<1>2. HASHTABLE_MIN_SIZE \in Sizes /\ HASHTABLE_MIN_SIZE \in Nat
  BY SizesAssumption, SizeIs
<1>3. Holds(buckets', nbuckets', {})
  BY <1>1, <1>2, EmptyHolds
<1>4. nentries' = Cardinality({})
  BY <1>1, FS_EmptySet
<1>5. ~ Overloaded(nentries', nbuckets')
  BY <1>1, <1>2 DEF Overloaded
<1>6. live' = [NewTable EXCEPT !.entries = nentries']
  BY <1>1 DEF NewTable
<1> QED
  BY <1>1, <1>2, <1>3, <1>4, <1>5, <1>6 DEF Holding

\* Looking up changes nothing but the answer.
LEMMA SameHolds ==
    ASSUME UNCHANGED <<nbuckets, nentries, buckets, live>>
    PROVE  /\ Gone => Gone'
           /\ \A E : Holding(E) => Holding(E)'
<1>1. nbuckets' = nbuckets /\ nentries' = nentries /\ buckets' = buckets /\ live' = live
  OBVIOUS
<1> QED
  BY <1>1 DEF Gone, Holding

LEMMA GoneIs == Gone => Destroyed
BY DEF Gone, Destroyed

LEMMA InitTable == Init => TableInvariant
<1> SUFFICES ASSUME Init PROVE TableInvariant
  OBVIOUS
<1>1. Holding({})
  BY StartHolds DEF Init
<1> QED
  BY <1>1 DEF Init, TableInvariant

LEMMA TableStep == TableInvariant /\ [Next]_vars => TableInvariant'
<1> SUFFICES ASSUME TableInvariant, [Next]_vars PROVE TableInvariant'
  OBVIOUS
<1>1. ASSUME UNCHANGED <<nbuckets, nentries, buckets, live>>, ret' \in Values \cup {NULL}
      PROVE  TableInvariant'
  BY <1>1, SameHolds DEF TableInvariant
<1>2. ASSUME NEW k \in Keys, NEW v \in Values, Set(k, v) PROVE TableInvariant'
  <2>1. PICK E : Holding(E)
    BY <1>2, GoneIs DEF TableInvariant, Set
  <2>2. Holding(E \cup {NewEntry(k, v)})'
    BY <1>2, <2>1, SetHolds
  <2>3. ret' = NULL
    BY <1>2 DEF Set
  <2> QED
    BY <2>2, <2>3 DEF TableInvariant
<1>3. ASSUME NEW k \in Keys, SetNoEntry(k) \/ SetNoBuckets(k) PROVE TableInvariant'
  BY <1>1, <1>3 DEF SetNoEntry, SetNoBuckets
<1>4. ASSUME NEW k \in Keys, Get(k) PROVE TableInvariant'
  <2>1. PICK E : Holding(E)
    BY <1>4, GoneIs DEF TableInvariant, Get
  <2>2. Lookup(k) \in Values \cup {NULL}
    BY <2>1, LookupIs
  <2> QED
    BY <1>1, <1>4, <2>2 DEF Get
<1>5. ASSUME Destroy PROVE TableInvariant'
  <2>1. PICK E : Holding(E)
    BY <1>5, GoneIs DEF TableInvariant, Destroy
  <2>2. Gone' /\ ret' = NULL
    BY <1>5, <2>1, DestroyIs DEF Destroy
  <2> QED
    BY <2>2 DEF TableInvariant
<1>6. ASSUME New PROVE TableInvariant'
  <2>1. Gone
    BY <1>6, HoldingIs DEF TableInvariant, New
  <2>2. Holding({})' /\ ret' = ret
    BY <1>6, <2>1, NewHolds DEF New
  <2> QED
    BY <2>2 DEF TableInvariant
<1>7. CASE UNCHANGED vars
  BY <1>1, <1>7 DEF vars, TableInvariant
<1> QED
  BY <1>2, <1>3, <1>4, <1>5, <1>6, <1>7 DEF Next

LEMMA TableIsKept == Spec => []TableInvariant
BY InitTable, TableStep, PTL DEF Spec

\* Every entry is in the bucket where hashtable_get looks for it, whatever the
\* table went through, and at most one entry holds a key.
THEOREM TableIsWellPlaced == Spec => []WellPlaced
<1>1. TableInvariant => WellPlaced
  <2> SUFFICES ASSUME TableInvariant PROVE WellPlaced
    OBVIOUS
  <2>1. CASE Gone
    <3>1. nbuckets = 0 /\ DOMAIN buckets = {}
      BY <2>1 DEF Gone, Empty
    <3> QED
      BY <3>1 DEF WellPlaced
  <2>2. ASSUME NEW E, Holding(E) PROVE WellPlaced
    <3>1. nbuckets \in Sizes /\ DOMAIN buckets = 0..(nbuckets - 1)
      BY <2>2 DEF Holding, Holds
    <3>2. ASSUME NEW i \in 0..(nbuckets - 1), NEW e \in ToSet(buckets[i])
          PROVE  e.key_hash = Hash(e.key) /\ i = Index(e.key_hash, nbuckets)
      <4>1. buckets[i] \in Seq(TableEntries)
        BY <2>2 DEF Holding, Holds
      <4>2. e \in TableEntries
        BY <4>1, SetOf
      <4> QED
        BY <2>2, <4>2, EntryIs DEF Holding, Holds
    <3>3. \A i \in 0..(nbuckets - 1) : Distinct(buckets[i])
      BY <2>2 DEF Holding, Holds
    <3> QED
      BY <3>1, <3>2, <3>3 DEF WellPlaced, Distinct
  <2> QED
    BY <2>1, <2>2 DEF TableInvariant
<1> QED
  BY <1>1, TableIsKept, PTL

\* The memory of the table is what its chains reach, through growth, failed
\* insertions and the end of the table, and chains stay short.
THEOREM TableBlocksAreExact == Spec => []BlocksExact
<1>1. TableInvariant => BlocksExact
  <2> SUFFICES ASSUME TableInvariant PROVE BlocksExact
    OBVIOUS
  <2>1. CASE Gone
    <3>1. Holds(buckets, nbuckets, {}) /\ nbuckets = 0 /\ nentries = 0
      BY <2>1, EmptyHolds DEF Gone
    <3>2. Chained = 0
      BY <3>1, ChainedIs, FS_EmptySet
    <3>3. ~ Overloaded(nentries, nbuckets)
      BY <3>1 DEF Overloaded
    <3> QED
      BY <2>1, <3>1, <3>2, <3>3 DEF BlocksExact, Gone, Destroyed
  <2>2. ASSUME NEW E, Holding(E) PROVE BlocksExact
    <3>1. Chained = nentries /\ ~ Destroyed
      BY <2>2, HoldingIs, ChainedIs
    <3> QED
      BY <2>2, <3>1 DEF BlocksExact, Holding
  <2> QED
    BY <2>1, <2>2 DEF TableInvariant
<1> QED
  BY <1>1, TableIsKept, PTL

-----------------------------------------------------------------------------
(* The table is a map *)

Answers == [k \in Keys |-> Lookup(k)]

\* There is nothing in a table that is gone.
LEMMA NoAnswers ==
    ASSUME Gone \/ Holding({})
    PROVE  Answers = [k \in Keys |-> NULL]
<1>1. ASSUME NEW k \in Keys PROVE Lookup(k) = NULL
  BY LookupIs, GoneIs DEF Lookup
<1> QED
  BY <1>1 DEF Answers

LEMMA NoAnswersNext ==
    ASSUME Gone' \/ Holding({})'
    PROVE  Answers' = [k \in Keys |-> NULL]
<1>1. ASSUME NEW k \in Keys PROVE Lookup(k)' = NULL
  BY LookupNext DEF Lookup, Gone, Destroyed
<1> QED
  BY <1>1 DEF Answers

\* An insertion changes the answer for its key alone, a growth no answer.
LEMMA SetAnswers ==
    ASSUME NEW E, Holding(E), NEW k \in Keys, NEW v \in Values, Set(k, v)
    PROVE  Answers' = [Answers EXCEPT ![k] = v]
<1> DEFINE F == E \cup {NewEntry(k, v)}
<1>1. Holding(F)' /\ \A e \in E : e.key # k
  BY SetHolds
<1>2. NewEntry(k, v).key = k /\ NewEntry(k, v).value = v
  BY DEF NewEntry
<1>3. ASSUME NEW j \in Keys
      PROVE  Lookup(j)' = IF j = k THEN v ELSE Lookup(j)
  <2>1. /\ \A e \in F : e.key = j => Lookup(j)' = e.value
        /\ (\A e \in F : e.key # j) => Lookup(j)' = NULL
    BY <1>1, LookupNext
  <2>2. CASE j = k
    BY <1>2, <2>1, <2>2
  <2>3. CASE j # k
    <3>1. CASE \E e \in E : e.key = j
      BY <2>1, <2>3, <3>1, LookupIs
    <3>2. CASE \A e \in E : e.key # j
      BY <1>2, <2>1, <2>3, <3>2, LookupIs
    <3> QED
      BY <3>1, <3>2
  <2> QED
    BY <2>2, <2>3
<1>4. Answers' = [j \in Keys |-> Lookup(j)']
  BY DEF Answers
<1>5. Answers = [j \in Keys |-> Lookup(j)]
  BY DEF Answers
<1> HIDE DEF F
<1> QED
  BY <1>3, <1>4, <1>5

LEMMA SameAnswers ==
    ASSUME UNCHANGED <<nbuckets, buckets>>
    PROVE  Answers' = Answers
BY DEF Answers, Lookup, Destroyed

\* The table implements LookupTable: what fails adds nothing, growing it loses,
\* changes and invents nothing, and the next move-in finds it empty.
THEOREM TableIsAMap == Spec => ImplementsTable
<1>1. Init => Table!Init
  <2> SUFFICES ASSUME Init PROVE Table!Init
    OBVIOUS
  <2>1. Holding({}) /\ ret = NULL
    BY StartHolds DEF Init
  <2>2. Answers = [k \in Keys |-> NULL]
    BY <2>1, NoAnswers
  <2> QED
    BY <2>1, <2>2 DEF Table!Init, Answers
<1>2. TableInvariant /\ [Next]_vars => [Table!Next]_Table!vars
  <2> SUFFICES ASSUME TableInvariant, [Next]_vars PROVE [Table!Next]_Table!vars
    OBVIOUS
  <2>1. ASSUME NEW k \in Keys, NEW v \in Values, Set(k, v)
        PROVE  Table!Insert(k, v)
    <3>1. PICK E : Holding(E)
      BY <2>1, GoneIs DEF TableInvariant, Set
    <3>2. Answers' = [Answers EXCEPT ![k] = v] /\ ret' = NULL /\ Lookup(k) = NULL
      BY <2>1, <3>1, SetAnswers DEF Set
    <3> QED
      BY <3>2 DEF Table!Insert, Answers
  <2>2. ASSUME NEW k \in Keys, SetNoEntry(k) \/ SetNoBuckets(k)
        PROVE  [Table!Next]_Table!vars
    <3>1. Lookup(k) = NULL /\ ret' = NULL /\ Answers' = Answers
      BY <2>2, SameAnswers DEF SetNoEntry, SetNoBuckets
    <3>2. CASE Values = {}
      BY <3>1, <3>2 DEF TableInvariant, Table!vars, Answers
    <3>3. CASE Values # {}
      <4>1. PICK v \in Values : TRUE
        BY <3>3
      <4>2. Table!Insert(k, v)
        BY <3>1 DEF Table!Insert, Answers
      <4> QED
        BY <4>2 DEF Table!Next
    <3> QED
      BY <3>2, <3>3
  <2>3. ASSUME NEW k \in Keys, Get(k)
        PROVE  Table!Get(k)
    <3>1. ret' = Lookup(k) /\ Answers' = Answers
      BY <2>3, SameAnswers DEF Get
    <3> QED
      BY <3>1 DEF Table!Get, Answers
  <2>4. ASSUME Destroy
        PROVE  Table!Clear
    <3>1. PICK E : Holding(E)
      BY <2>4, GoneIs DEF TableInvariant, Destroy
    <3>2. Gone' /\ ret' = NULL
      BY <2>4, <3>1, DestroyIs DEF Destroy
    <3>3. Answers' = [k \in Keys |-> NULL]
      BY <3>2, NoAnswersNext
    <3> QED
      BY <3>2, <3>3 DEF Table!Clear, Answers
  <2>5. ASSUME New
        PROVE  UNCHANGED Table!vars
    <3>1. Gone
      BY <2>5, HoldingIs DEF TableInvariant, New
    <3>2. Holding({})' /\ ret' = ret
      BY <2>5, <3>1, NewHolds DEF New
    <3>3. Answers' = [k \in Keys |-> NULL] /\ Answers = [k \in Keys |-> NULL]
      BY <3>1, <3>2, NoAnswers, NoAnswersNext
    <3> QED
      BY <3>2, <3>3 DEF Table!vars, Answers
  <2>6. CASE UNCHANGED vars
    <3>1. Answers' = Answers /\ ret' = ret
      BY <2>6, SameAnswers DEF vars
    <3> QED
      BY <3>1 DEF Table!vars, Answers
  <2> QED
    BY <2>1, <2>2, <2>3, <2>4, <2>5, <2>6 DEF Next, Table!Next
<1> QED
  BY <1>1, <1>2, TableIsKept, PTL DEF Spec, ImplementsTable, Table!Spec
=============================================================================
