----------------------------- MODULE MCRoundTrip -----------------------------
(***************************************************************************)
(* Instance of RoundTrip for TLC.  Nodes 1 to 10 are the leaves: two equal *)
(* strings that are different objects, a string of static_strings' value,  *)
(* two atoms, None, an object of an unsupported type, the static string    *)
(* that 3 is equal to, a string with an identifier's value and the static  *)
(* string of that identifier.  Node 11 is a container of leaves and node   *)
(* 12 a container of both; the root is 12, 11 or a leaf.                   *)
(***************************************************************************)
EXTENDS RoundTrip

Leaf(kind, val) == [kind |-> kind, val |-> val, items |-> <<>>, static |-> FALSE]
Static(val) == [Leaf("str", val) EXCEPT !.static = TRUE]
Node(kind, items) == [Leaf(kind, 0) EXCEPT !.items = items]

Leaves == <<Leaf("str", 1), Leaf("str", 1), Leaf("str", 2), Leaf("atom", 1),
            Leaf("atom", 2), Leaf("basic", 0), Leaf("other", 0),
            Static(2), Leaf("str", 3), Static(3)>>

Inner == {Node("tuple", s)     : s \in {<<>>, <<1, 2>>, <<3, 2>>, <<4, 6>>, <<1, 7>>,
                                           <<8, 9>>}}
         \cup {Node("frozenset", s) : s \in {<<2, 3>>, <<1, 5>>}}
         \cup {Node("code", s)      : s \in {<<2, 0, 3>>, <<2, 1>>, <<0, 4>>}}

Outer == {Node("tuple", s) : s \in {<<11, 1>>, <<11, 11>>, <<3, 11, 2>>}}
         \cup {Node("code", s) : s \in {<<1, 11>>, <<11, 0, 2>>}}

\* What is interned before the dump: nothing but the identifier, or one of the
\* equal strings, or the static string that need not be.
Interned == {<<0, 0, 10>>, <<1, 8, 10>>, <<2, 3, 10>>}

MCGraphs ==
    {[src |-> Leaves \o <<i, o>>, root |-> 12, interned |-> t] :
         i \in Inner, o \in Outer, t \in Interned}
    \cup {[src |-> Leaves \o <<i, Node("tuple", <<>>)>>, root |-> 11, interned |-> t] :
         i \in Inner, t \in Interned}
    \cup {[src |-> Leaves \o <<Node("tuple", <<>>), Node("tuple", <<>>)>>,
           root |-> r, interned |-> t] : r \in 1..10, t \in Interned}

\* Python 3.10, whose loader corrects counts, 3.11, which does not, and 3.12,
\* which has static strings; a heap that runs full, and tables that may fail.
MCEnvironments == {[minor |-> 10, cells |-> 20, table_may_fail |-> FALSE],
                   [minor |-> 12, cells |-> 20, table_may_fail |-> FALSE],
                   [minor |-> 10, cells |-> 9,  table_may_fail |-> TRUE],
                   [minor |-> 11, cells |-> 9,  table_may_fail |-> TRUE]}

SmallHeap == {[minor |-> 10, cells |-> 6, table_may_fail |-> FALSE]}

MCLoadBases == {1024, 1088}
MCInternTables == {own \in [1..3 -> BOOLEAN] : own[3] = own[2]}
=============================================================================
