-------------------------------- MODULE MoveIn --------------------------------
(***************************************************************************)
(* `_move_in': PyCDS_MoveInRec copies an object graph of the dumping       *)
(* process into the archive.  The C recursion is an explicit stack of      *)
(* frames, so that the process can be killed between any two stores.       *)
(*                                                                         *)
(* A graph is a function from nodes to objects [kind, val, items]; items   *)
(* are nodes, or NULL for a code field that is not set.  The nodes stand   *)
(* for the identities of the dumper's objects: two nodes may be equal      *)
(* strings.  A string that is `static' is, since 3.12, an object of the    *)
(* interpreter; before 3.12 the flag means nothing.                        *)
(***************************************************************************)
EXTENDS ArchiveMemory, FiniteSets, SequencesExt

CONSTANTS
    Graphs,         \* inputs: records [src, root, interned]
    DumpBase,       \* the base of the dumping interpreter
    IdStrs,         \* static strings interned from the start, as _Py_ID is
    ListedStrs,     \* static_strings: static, but interned only by chance
    StaticAtoms     \* values of other static objects (all three for >= 3.12)

StaticStrs == IdStrs \cup ListedStrs

Containers == {"tuple", "frozenset", "code"}

\* An interned string is a string of the graph, and code and its constants have
\* no cycles.
ASSUME GraphsAssumption ==
    \A g \in Graphs :
        LET nodes == DOMAIN g.src IN
        /\ g.src \in Seq([kind : {"str", "atom", "basic", "other"} \cup Containers,
                          val : 0..(Span - 1), items : Seq(nodes \cup {NULL}),
                          static : BOOLEAN])
        /\ NULL \notin nodes /\ g.root \in nodes
        /\ g.interned \in [DOMAIN g.interned -> nodes \cup {NULL}]
        /\ \A n \in nodes : g.src[n].kind = "str" => g.src[n].val \in DOMAIN g.interned
        /\ \A v \in DOMAIN g.interned : LET n == g.interned[v] IN
               n # NULL => g.src[n].kind = "str" /\ g.src[n].val = v
        /\ \A n \in nodes : g.src[n].static => g.src[n].val \in StaticStrs
        /\ \A v \in DOMAIN g.interned \cap IdStrs :
               g.interned[v] # NULL /\ g.src[g.interned[v]].static
        /\ \A group \in SUBSET nodes : group # {} =>
               \E n \in group : \A i \in DOMAIN g.src[n].items : g.src[n].items[i] \notin group

\* The interpreter is not where archives are mapped.
ASSUME DumpBaseAssumption ==
    DumpBase \in Nat /\ \A e \in Environments : e.cells < DumpBase

VARIABLES
    src,            \* the graph; interning replaces items of its containers
    root,           \* the node passed to _move_in
    interned,       \* the interpreter's intern table: value -> node or NULL
    archive,        \* the archive file, mapped shared
    orig_map,       \* orig_pyobject_to_in_heap_pyobject_map: node -> address
    str_map,        \* in_heap_str_to_string_ref_list_map: address -> list
    stack,          \* frames of PyCDS_MoveInRec, innermost first
    traverse_error,
    dumper          \* "running", "returned", "crashed" or "killed"

dumpVars == <<src, root, interned, archive, orig_map, str_map, stack,
              traverse_error, dumper>>

Nodes == DOMAIN src

\* The parameters of a call; res is the copy once it is allocated, list the
\* string's list once it is known, i the next child to visit.
Frame(op, target, source_ref) ==
    [op |-> op, target |-> target, source_ref |-> source_ref,
     res |-> NULL, list |-> 0, i |-> 1]

InitDump ==
    /\ \E g \in Graphs : /\ src = g.src /\ root = g.root
                         /\ interned = g.interned
    /\ archive = EmptyArchive(DumpBase)
    /\ orig_map = [n \in Nodes |-> NULL]
    /\ str_map = [a \in 1..HeapCells |-> 0]
    /\ stack = <<Frame(root, Root, Root)>>
    /\ traverse_error = FALSE
    /\ dumper = "running"

-----------------------------------------------------------------------------
(* Helpers *)

Running == dumper = "running" /\ stack # <<>>

top == Head(stack)
obj == src[top.op]

\* The innermost call is about to begin, with no error behind it.
Entering == Running /\ ~ traverse_error /\ top.res = NULL

Replace(frame) == <<frame>> \o Tail(stack)
Pop == stack' = Tail(stack)

HeapFull == archive.used >= HeapCells

\* PyCDS_Malloc for an object, and for the records of all_string_ref.
NewObject(m, o) == [m EXCEPT !.heap = Append(@, o), !.used = @ + 1]

\* No caller of PyCDS_Malloc looks at the result: the NULL it returns when
\* the heap is full is written through at once.
Crash == /\ dumper' = "crashed"
         /\ UNCHANGED <<src, root, interned, archive, orig_map, str_map, stack,
                        traverse_error>>

\* PyCDS_Table_Insert says nothing when it cannot allocate an entry.
Inserted(table, key, value) ==
    {[table EXCEPT ![key] = value]} \cup (IF TableMayFail THEN {table} ELSE {})

IsStatic(o) == Py312 /\ \/ o.kind = "atom" /\ o.val \in StaticAtoms
                        \/ o.kind = "str" /\ o.static

-----------------------------------------------------------------------------
(* Objects without references *)

\* None, True, False and Ellipsis, and since 3.12 every static singleton, are
\* referred to by the dumper's address.
MoveReference ==
    /\ Entering
    /\ \/ /\ obj.kind = "basic"
          /\ archive' = SetSlot(archive, top.target, BasicAddr(DumpBase, obj.val))
       \/ /\ obj.kind = "atom" /\ IsStatic(obj)
          /\ archive' = SetSlot(archive, top.target, StaticAtom(DumpBase, obj.val))
       \/ /\ obj.kind = "str" /\ IsStatic(obj)
          /\ archive' = SetSlot(archive, top.target, StaticStr(DumpBase, obj.val))
    /\ Pop
    /\ UNCHANGED <<src, root, interned, orig_map, str_map, traverse_error, dumper>>

\* bytes, complex, float and int.
MoveAtom ==
    /\ Entering
    /\ obj.kind = "atom" /\ ~ IsStatic(obj)
    /\ IF HeapFull THEN Crash
       ELSE LET m == NewObject(archive, HeapObject(TypeAddr(DumpBase, "atom"),
                                                   obj.val, 0))
            IN  /\ archive' = SetSlot(m, top.target, Len(m.heap))
                /\ Pop
                /\ UNCHANGED <<src, root, interned, orig_map, str_map,
                               traverse_error, dumper>>

\* A type the archive does not support: every frame returns at once.
MoveUnsupported ==
    /\ Entering
    /\ obj.kind = "other"
    /\ archive' = SetSlot(archive, top.target, NULL)
    /\ traverse_error' = TRUE
    /\ Pop
    /\ UNCHANGED <<src, root, interned, orig_map, str_map, dumper>>

Unwind ==
    /\ Running
    /\ traverse_error
    /\ Pop
    /\ UNCHANGED <<src, root, interned, archive, orig_map, str_map,
                   traverse_error, dumper>>

-----------------------------------------------------------------------------
(* Strings: one copy for each interned string, and a list of the slots that *)
(* refer to it.                                                             *)

\* PyUnicode_InternInPlace(source_ref): the first string of its value becomes
\* the interned one, every other reference is replaced by it.  source_ref is
\* an item of the source, unless the source is the temporary tuple made of a
\* frozenset, or the argument of _move_in itself.
Canonical == IF interned[obj.val] = NULL THEN top.op ELSE interned[obj.val]

\* Fault: the interned string always replaces the first item.
SourceInterned_First ==
    LET c == top.source_ref[1] IN
    IF top.source_ref = Root \/ src[c].kind = "frozenset" THEN src
    ELSE [src EXCEPT ![c].items[1] = Canonical]

SourceInterned ==
    LET c == top.source_ref[1] IN
    IF top.source_ref = Root \/ src[c].kind = "frozenset" THEN src
    ELSE [src EXCEPT ![c].items[top.source_ref[2]] = Canonical]

\* Fault: strings are looked up by the object found, not by the interned one.
InternedKey_Original == top.op

InternedKey == Canonical

\* The static string of the value, whatever string was found: nothing is copied
\* and nothing is recorded.
ReferToStatic ==
    /\ archive' = SetSlot(archive, top.target, StaticStr(DumpBase, obj.val))
    /\ Pop
    /\ UNCHANGED <<orig_map, dumper>>

\* A string whose interned string is static takes the way of the singletons.
\* One whose interned string is not may still have a static string of its value,
\* which is not interned; static_strings is how it is found.
MoveString ==
    /\ Entering
    /\ obj.kind = "str" /\ ~ IsStatic(obj)
    /\ interned' = [interned EXCEPT ![obj.val] = Canonical]
    /\ src' = SourceInterned
    /\ IF IsStatic(src[Canonical])
       THEN ReferToStatic
       ELSE IF orig_map[InternedKey] # NULL
       THEN /\ archive' = Counted(SetSlot(archive, top.target, orig_map[InternedKey]),
                                 orig_map[InternedKey], 1)
            /\ stack' = Replace([top EXCEPT !.res = orig_map[InternedKey]])
            /\ UNCHANGED <<orig_map, dumper>>
       ELSE IF Py312 /\ obj.val \in ListedStrs
       THEN ReferToStatic
       ELSE IF HeapFull
       THEN /\ dumper' = "crashed"
            /\ UNCHANGED <<archive, orig_map, stack>>
       ELSE LET m == NewObject(archive, [HeapObject(TypeAddr(DumpBase, "str"),
                                                    obj.val, 0)
                                         EXCEPT !.interned = TRUE])
                copy == Len(m.heap)
            IN  /\ archive' = SetSlot(m, top.target, copy)
                /\ stack' = Replace([top EXCEPT !.res = copy])
                /\ orig_map' \in Inserted(orig_map, InternedKey, copy)
                /\ UNCHANGED dumper
    /\ UNCHANGED <<root, str_map, traverse_error>>

\* Fault: no reference is added.
Pinned_Not(m, a) == m

\* "extra rc to prevent being freed when interning"
Pinned(m, a) == Counted(m, a, 1)

\* The StringRefList of the string, made when the table knows none.
ListString ==
    /\ Running
    /\ obj.kind = "str" /\ top.res # NULL /\ top.list = 0
    /\ IF str_map[top.res] # 0
       THEN /\ stack' = Replace([top EXCEPT !.list = str_map[top.res]])
            /\ UNCHANGED <<archive, str_map, dumper>>
       ELSE IF HeapFull
       THEN /\ dumper' = "crashed"
            /\ UNCHANGED <<archive, str_map, stack>>
       ELSE LET n == Len(archive.all_string_ref) + 1
            IN  /\ archive' = [Pinned(archive, top.res) EXCEPT
                                  !.all_string_ref =
                                      Append(@, [str |-> top.res, refs |-> <<>>]),
                                  !.used = @ + 1]
                /\ str_map' \in Inserted(str_map, top.res, n)
                /\ stack' = Replace([top EXCEPT !.list = n])
                /\ UNCHANGED dumper
    /\ UNCHANGED <<src, root, interned, orig_map, traverse_error>>

\* Fault: a list keeps only its newest item.
Linked_Newest(item, refs) == <<item>>

\* Fault: the slot is taken to be the first field of its object.
Linked_First(item, refs) == <<IF item = Root THEN Root ELSE <<item[1], 1>>>> \o refs

\* n->next = str_refs->refs; str_refs->refs = n
Linked(item, refs) == <<item>> \o refs

RecordString ==
    /\ Running
    /\ obj.kind = "str" /\ top.list # 0
    /\ IF HeapFull THEN Crash
       ELSE /\ archive' = [archive EXCEPT
                              !.all_string_ref[top.list].refs =
                                  Linked(top.target, @),
                              !.used = @ + 1]
            /\ Pop
            /\ UNCHANGED <<src, root, interned, orig_map, str_map,
                           traverse_error, dumper>>

-----------------------------------------------------------------------------
(* tuple, frozenset and code: the copy is filled before *target refers to it *)

\* Fault: the copy is published before its items are.
TargetAtEntry_Early(m) == SetSlot(m, top.target, Len(m.heap))

TargetAtEntry(m) == SetSlot(m, top.target, NULL)

\* A frozenset is stored as a tuple.
MoveContainer ==
    /\ Entering
    /\ obj.kind \in Containers
    /\ IF HeapFull THEN Crash
       ELSE LET ty == IF obj.kind = "code" THEN "code" ELSE "tuple"
                m == NewObject(archive, HeapObject(TypeAddr(DumpBase, ty), 0,
                                                   Len(obj.items)))
            IN  /\ archive' = TargetAtEntry(m)
                /\ stack' = Replace([top EXCEPT !.res = Len(m.heap)])
                /\ UNCHANGED <<src, root, interned, orig_map, str_map,
                               traverse_error, dumper>>

Filling == /\ Running /\ ~ traverse_error
           /\ obj.kind \in Containers /\ top.res # NULL

NextItem == [top EXCEPT !.i = @ + 1]

\* A tuple counts each item once the call that moved it in returned; a code
\* object does not.
ItemCounted ==
    IF obj.kind = "code" \/ top.i = 1 THEN archive
    ELSE Counted(archive, archive.heap[top.res].slots[top.i - 1], 1)

\* A call for the next item; a field that is NULL returns at once.
MoveItem ==
    /\ Filling
    /\ top.i <= Len(obj.items)
    /\ LET item == obj.items[top.i]
           rest == Replace(NextItem)
       IN  stack' = IF item = NULL THEN rest
                    ELSE <<Frame(item, <<top.res, top.i>>, <<top.op, top.i>>)>> \o rest
    /\ archive' = ItemCounted
    /\ UNCHANGED <<src, root, interned, orig_map, str_map, traverse_error, dumper>>

PublishContainer ==
    /\ Filling
    /\ top.i > Len(obj.items)
    /\ archive' = SetSlot(ItemCounted, top.target, top.res)
    /\ Pop
    /\ UNCHANGED <<src, root, interned, orig_map, str_map, traverse_error, dumper>>

-----------------------------------------------------------------------------

\* PyCDS_FinalizeMoveIn and finalize_map.
Return ==
    /\ dumper = "running"
    /\ stack = <<>>
    /\ dumper' = "returned"
    /\ UNCHANGED <<src, root, interned, archive, orig_map, str_map, stack,
                   traverse_error>>

Kill ==
    /\ dumper = "running"
    /\ dumper' = "killed"
    /\ UNCHANGED <<src, root, interned, archive, orig_map, str_map, stack,
                   traverse_error>>

Move == \/ MoveReference \/ MoveAtom \/ MoveUnsupported \/ Unwind
        \/ MoveString \/ ListString \/ RecordString
        \/ MoveContainer \/ MoveItem \/ PublishContainer
        \/ Return

NextDump == Move \/ Kill

SpecDump == InitDump /\ [][NextDump]_dumpVars /\ WF_dumpVars(Move)

-----------------------------------------------------------------------------
(* What the source stands for, as the archive can express it *)

GraphValue(graph, node) ==
    LET value[n \in DOMAIN graph \cup {NULL}] ==
            IF n = NULL THEN <<"null">>
            ELSE LET o == graph[n] IN
                 IF o.kind \in Containers
                 THEN <<IF o.kind = "code" THEN "code" ELSE "tuple",
                        [i \in DOMAIN o.items |-> value[o.items[i]]]>>
                 ELSE <<o.kind, o.val>>
    IN value[node]

SourceValue == GraphValue(src, root)

StringSlots(a) == {s \in Slots(archive) : GetSlot(archive, s) = a}

HeapStrings == {a \in 1..Len(archive.heap) :
                    archive.heap[a].type = TypeAddr(DumpBase, "str")}

Lists == archive.all_string_ref
=============================================================================
