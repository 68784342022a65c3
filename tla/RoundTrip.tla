------------------------------- MODULE RoundTrip -------------------------------
(***************************************************************************)
(* A dump and the loads that follow it, over one archive file: the dumping *)
(* process may be killed, run out of heap or meet an object it does not    *)
(* support; then processes load what it left, one after another, each at a *)
(* base of its own and with an intern table of its own.                    *)
(***************************************************************************)
EXTENDS MoveIn

CONSTANTS LoadBases, InternTables

\* The interpreter is not where archives are mapped, and it moves by whole pages.
ASSUME LoadBasesAssumption ==
    \A b \in LoadBases :
        /\ b \in Nat /\ \A e \in Environments : e.cells < b
        /\ b = DumpBase \/ b - DumpBase >= Page \/ DumpBase - b >= Page

\* An intern table knows, of each string a graph may hold, whether it is interned.
ASSUME InternTablesAssumption ==
    \A own \in InternTables :
        /\ own \in [DOMAIN own -> BOOLEAN] /\ DOMAIN own \subseteq 0..(Span - 1)
        /\ \A g \in Graphs : DOMAIN g.interned \subseteq DOMAIN own

VARIABLES mem, base, canon, held, todo, cursor, load_error, loader

L == INSTANCE LoadImage

loadVars == <<mem, base, canon, held, todo, cursor, load_error, loader>>
vars == <<env, dumpVars, loadVars>>

Init == env \in Environments /\ InitDump /\ L!InitLoad

Dump == NextDump /\ UNCHANGED loadVars

\* README: the archive is dumped first and loaded afterwards.
Load == /\ dumper # "running"
        /\ L!NextLoad
        /\ UNCHANGED dumpVars

Next == (Dump \/ Load) /\ UNCHANGED env

Spec == /\ Init /\ [][Next]_vars
        /\ WF_vars(Move /\ UNCHANGED <<env, loadVars>>)
        /\ WF_vars(L!Load /\ UNCHANGED <<env, dumpVars>>)

-----------------------------------------------------------------------------
(* Properties of the dump *)

\* Type invariant of the archive file and of the dumper.
TypeOK ==
    /\ archive.obj \in Int /\ archive.used \in 0..HeapCells
    /\ archive.used = Len(archive.heap) + Len(Lists) +
                      FoldLeft(LAMBDA n, l : n + Len(l.refs), 0, Lists)
    /\ dumper \in {"running", "returned", "crashed", "killed"}
    /\ loader \in {"absent", "patching", "interning", "ready"}
    /\ \A f \in ToSet(stack) : f.op \in Nodes /\ f.target \in Slots(archive)

\* Whenever the process dies, the file's root is NULL or stands for the whole
\* object that was moved in: a tuple or code object is published by the last
\* store of the copy, and never refers to a child that is not there.
PublishedIsComplete ==
    archive.obj # NULL => Value(archive, DumpBase, archive.obj) = SourceValue

\* Strings are stored once: equal strings of the source, interned or not,
\* share a copy, so that identity comparison keeps working on loaded objects.
\* For the same reason a string that is static in the interpreter is not stored
\* at all, also when the source holds another string of its value.
OneCopyPerString ==
    /\ ~ TableMayFail =>
           \A a, b \in HeapStrings :
               archive.heap[a].val = archive.heap[b].val => a = b
    /\ Py312 => \A a \in HeapStrings : archive.heap[a].val \notin StaticStrs

\* The lists of all_string_ref are exact when the archive is published: every
\* copied string has one, with the address of each slot that refers to it,
\* once.  A slot missing here would keep a duplicate of an interned string.
StringRefsExact ==
    dumper = "returned" /\ ~ traverse_error /\ ~ TableMayFail =>
        /\ {l.str : l \in ToSet(Lists)} = HeapStrings
        /\ \A j \in 1..Len(Lists) :
               /\ \A k \in 1..Len(Lists) : Lists[j].str = Lists[k].str => j = k
               /\ ToSet(Lists[j].refs) = StringSlots(Lists[j].str)
               /\ Cardinality(ToSet(Lists[j].refs)) = Len(Lists[j].refs)

\* At any moment, also in the file of a killed dump, a recorded slot holds the
\* string it is recorded for: redirecting it can never overwrite anything else.
StringRefsSound ==
    \A l \in ToSet(Lists) : \A s \in ToSet(l.refs) : GetSlot(archive, s) = l.str

\* _move_in replaces items of the caller's containers by interned strings, and
\* that is all it does to them: the source stands for the same value.
SourceKeepsValue == [][SourceValue' = SourceValue]_vars

(* Properties of a load *)

\* A loaded archive stands for the object that was moved in, whatever the
\* loader's base and intern table are, also when another process loaded the
\* archive before; an archive that was not completed gives no object.
LoadedEqualsDumped ==
    loader = "ready" => /\ mem.obj = NULL <=> archive.obj = NULL
                        /\ mem.obj # NULL => L!LoadedValue = SourceValue

\* Every string the loaded object refers to is the interned one, so that `is'
\* and dictionary lookups take the short path.  Since 3.12 it may also be one of
\* static_strings: archives refer to those, and record no slot that refers to
\* them, whether or not the loading program interned another string of the value.
LoadedStringsInterned ==
    loader = "ready" /\ dumper = "returned" /\ ~ TableMayFail =>
        \A s \in L!ReachableFrom(mem) :
            LET p == GetSlot(mem, s)
                v == Value(mem, base, p)
            IN  v[1] = "str" => \/ canon[v[2]] = p
                                \/ /\ Py312 /\ v[2] \in ListedStrs
                                   /\ p = StaticStr(base, v[2])

(* Reference counts, before 3.12 *)

\* Nothing drives the count of an archived object to 0, which would have the
\* interpreter free memory of the mapping: not the decref inside
\* PyUnicode_InternInPlace, nor the corrections that follow it.
NeverFreed == \A m \in {archive, mem} : \A a \in 1..Len(m.heap) : m.heap[a].rc >= 1

SlotsHolding(p) == Cardinality({s \in Slots(mem) : GetSlot(mem, s) = p})

\* After a load every slot of the archive owns a reference to what it holds:
\* the archive's objects have at least as many as there are slots, and a
\* string of the program that took the place of one got one for each slot.
\* From 3.11 on the loader does not count the slots.
SlotsOwnReferences ==
    loader = "ready" /\ PyMinor < 11 /\ ~ TableMayFail =>
        /\ \A a \in 1..Len(mem.heap) : mem.heap[a].rc >= SlotsHolding(a)
        /\ \A v \in DOMAIN held : held[v] = SlotsHolding(ProcessStr(base, v))

(* The abstract specification *)

\* What the archive file, and a loading process, stand for.
StoredValue == IF archive.obj = NULL THEN <<"null">>
               ELSE Value(archive, DumpBase, archive.obj)

Outcome == CASE dumper = "running" -> "pending"
             [] dumper = "returned" /\ ~ traverse_error -> "ok"
             [] dumper = "returned" /\ traverse_error -> "error"
             [] OTHER -> "dead"

Store == INSTANCE ArchiveStore
           WITH Values  <- {GraphValue(g.src, g.root) : g \in Graphs},
                Nothing <- <<"null">>,
                input   <- SourceValue,
                store   <- StoredValue,
                outcome <- Outcome,
                loaded  <- IF loader = "ready" THEN L!LoadedValue ELSE <<"null">>

\* Store by store, dumping and loading do what ArchiveStore promises: the
\* object is published in one step and only once, _move_in returns without an
\* exception exactly when it is there, and a load hands out that object.
ImplementsStore == Store!Spec

\* What the comment above PyCDS_MoveInRec says, "Set Python exception and return
\* NULL if error occured", for the error of a full heap.
HeapFullIsReported == dumper # "crashed"

(* Liveness *)

\* The recursion over a graph without cycles ends, unless its process does, and
\* so does a load that is not cut short.
CallsEnd ==
    /\ <>(dumper # "running")
    /\ loader \in {"patching", "interning"} ~> loader \in {"ready", "absent"}
=============================================================================
