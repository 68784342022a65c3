------------------------------- MODULE HashTable -------------------------------
(***************************************************************************)
(* hashtable.c, the lookup table of builds for Python 3.8: chained buckets *)
(* whose number is a power of two and grows with the load.  Pointers are   *)
(* WordBits wide.  The client is PyCDS_MoveInRec, which inserts a key only *)
(* after it did not find it; a move-in makes its tables and destroys them. *)
(***************************************************************************)
EXTENDS Integers, Sequences, FiniteSets, SequencesExt

CONSTANTS
    Keys,               \* pointers used as keys
    Values,             \* pointers used as values
    NULL,
    WordBits,           \* 8 * sizeof(void *)
    HASHTABLE_MIN_SIZE

ASSUME KeysAssumption ==
    WordBits \in Nat /\ WordBits >= 4 /\ Keys \subseteq 0..(2^WordBits - 1)
ASSUME NullAssumption == NULL \notin Values

\* A number of buckets is a power of two.
Sizes == {2^e : e \in 0..WordBits}

\* Keys are addresses of objects, of which a word tells far fewer apart than it
\* has values: a table with all of them does not outgrow size_t.
ASSUME SizesAssumption ==
    /\ HASHTABLE_MIN_SIZE \in Sizes
    /\ IsFiniteSet(Keys) /\ (10 * Cardinality(Keys)) \div 3 <= 2^WordBits

VARIABLES
    nbuckets,
    nentries,
    buckets,            \* chains of entries, first entry first
    live,               \* blocks of memory that the table has not freed
    ret                 \* what hashtable_get returned last

vars == <<nbuckets, nentries, buckets, live, ret>>

NewTable == [table |-> 1, buckets |-> 1, entries |-> 0]

\* There is no table.
Destroyed == nbuckets = 0

-----------------------------------------------------------------------------

\* _hash_func_impl: rotates a pointer right by 4 bits.
Hash(p) == (p \div 16) + (p % 16) * 2^(WordBits - 4)

\* hash & (n - 1), for a power of two.
Index(hash, n) == hash % n

\* The smallest power of two that is not below s.
round_size(s) ==
    IF s < HASHTABLE_MIN_SIZE THEN HASHTABLE_MIN_SIZE
    ELSE CHOOSE n \in Sizes : s <= n /\ n < 2 * s

\* nentries / nbuckets > 0.50
Overloaded(n, size) == 2 * n > size

\* nentries * 2.0 / (0.10 + 0.50)
Grown(n) == round_size((10 * n) \div 3)

Empty(n) == [i \in 0..(n - 1) |-> <<>>]

\* The entries in the order of a walk through all chains.
Entries == FlattenSeq([i \in 1..nbuckets |-> buckets[i - 1]])

\* Fault: an entry takes the place of the chain it is pushed on.
Rehashed_Alone(n) ==
    FoldLeft(LAMBDA chains, e : [chains EXCEPT ![Index(e.key_hash, n)] = <<e>>],
             Empty(n), Entries)

\* _hashtable_rehash walks the old chains and pushes every entry on the front
\* of its new chain.
Rehashed(n) ==
    FoldLeft(LAMBDA chains, e : [chains EXCEPT ![Index(e.key_hash, n)] = <<e>> \o @],
             Empty(n), Entries)

\* hashtable_get: the first entry of the key's chain that holds the key.
Found(chain, k) ==
    LET hits == {j \in 1..Len(chain) : chain[j].key_hash = Hash(k) /\ chain[j].key = k}
    IN  IF hits = {} THEN NULL ELSE chain[Min(hits)].value

Lookup(k) == IF Destroyed THEN NULL ELSE Found(buckets[Index(Hash(k), nbuckets)], k)

\* The entries that a walk through all chains meets.
Chained == FoldFunctionOnSet(LAMBDA chain, n : Len(chain) + n, 0, buckets,
                             0..(nbuckets - 1))

-----------------------------------------------------------------------------

\* hashtable_new
Init == /\ nbuckets = HASHTABLE_MIN_SIZE
        /\ nentries = 0
        /\ buckets = Empty(HASHTABLE_MIN_SIZE)
        /\ live = NewTable
        /\ ret = NULL

\* Fault: the index is computed before the table grows.
SlotOf_Before(k, n) == Index(Hash(k), nbuckets)

\* The bucket of a new entry, once the table has n buckets.
SlotOf(k, n) == Index(Hash(k), n)

\* Fault: the old buckets are not freed.
BucketsAfterGrowth_Kept == live.buckets + 1

\* calloc of the new buckets, free of the old ones.
BucketsAfterGrowth == live.buckets + 1 - 1

\* hashtable_set, when calloc serves the entry and, if asked, the buckets.
Set(k, v) ==
    /\ ~ Destroyed /\ Lookup(k) = NULL
    /\ LET entry == [key_hash |-> Hash(k), key |-> k, value |-> v]
           grows == Overloaded(nentries + 1, nbuckets)
           n     == IF grows THEN Grown(nentries + 1) ELSE nbuckets
           base  == IF n = nbuckets THEN buckets ELSE Rehashed(n)
       IN  /\ nbuckets' = n
           /\ buckets' = [base EXCEPT ![SlotOf(k, n)] = <<entry>> \o @]
           /\ live' = [live EXCEPT !.entries = @ + 1,
                                   !.buckets = IF n = nbuckets THEN @
                                               ELSE BucketsAfterGrowth]
    /\ nentries' = nentries + 1
    /\ ret' = NULL

\* No memory for the entry: -1, which PyCDS_Table_Insert does not look at.
SetNoEntry(k) ==
    /\ ~ Destroyed /\ Lookup(k) = NULL
    /\ ret' = NULL
    /\ UNCHANGED <<nbuckets, nentries, buckets, live>>

\* No memory for the new buckets: the entry is counted back and freed.
SetNoBuckets(k) ==
    /\ ~ Destroyed /\ Lookup(k) = NULL
    /\ Overloaded(nentries + 1, nbuckets)
    /\ Grown(nentries + 1) # nbuckets
    /\ ret' = NULL
    /\ UNCHANGED <<nbuckets, nentries, buckets, live>>

Get(k) == /\ ~ Destroyed
          /\ ret' = Lookup(k)
          /\ UNCHANGED <<nbuckets, nentries, buckets, live>>

\* hashtable_destroy frees what it finds in the chains.
Destroy == /\ ~ Destroyed
           /\ nbuckets' = 0 /\ nentries' = 0 /\ buckets' = Empty(0)
           /\ live' = [table   |-> live.table - 1,
                       buckets |-> live.buckets - 1,
                       entries |-> live.entries - Chained]
           /\ ret' = NULL

\* The table of the next move-in.
New == /\ Destroyed
       /\ nbuckets' = HASHTABLE_MIN_SIZE
       /\ buckets' = Empty(HASHTABLE_MIN_SIZE)
       /\ live' = [table   |-> live.table + 1,
                   buckets |-> live.buckets + 1,
                   entries |-> live.entries]
       /\ UNCHANGED <<nentries, ret>>

Next == \/ \E k \in Keys : \/ \E v \in Values : Set(k, v)
                           \/ SetNoEntry(k) \/ SetNoBuckets(k)
                           \/ Get(k)
        \/ Destroy \/ New

Spec == Init /\ [][Next]_vars

-----------------------------------------------------------------------------
(* Properties *)

\* Every entry is in the bucket where hashtable_get looks for it, also after
\* the table grew, and at most one entry holds a key.  Masking a hash depends
\* on a number of buckets that is a power of two.
WellPlaced ==
    /\ nbuckets \in {0} \cup Sizes
    /\ \A i \in DOMAIN buckets : \A e \in ToSet(buckets[i]) :
           e.key_hash = Hash(e.key) /\ i = Index(e.key_hash, nbuckets)
    /\ \A i \in DOMAIN buckets : \A j, k \in 1..Len(buckets[i]) :
           buckets[i][j].key = buckets[i][k].key => j = k

\* The table's memory is exactly what its chains reach, through growth and
\* failed insertions: nothing is lost, nothing is freed twice, and nothing
\* stays behind a table that was destroyed.  nentries agrees with it, and the
\* load factor is kept: chains stay short.
BlocksExact ==
    /\ live = IF Destroyed THEN [table |-> 0, buckets |-> 0, entries |-> 0]
                 ELSE [NewTable EXCEPT !.entries = nentries]
    /\ nentries = Chained
    /\ ~ Overloaded(nentries, nbuckets)

\* The table is a map: growing it loses, changes and invents nothing, and an
\* insertion that fails changes nothing.
Table == INSTANCE LookupTable WITH map <- [k \in Keys |-> Lookup(k)]

ImplementsTable == Table!Spec
=============================================================================
