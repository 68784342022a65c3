------------------------------ MODULE LoadImage ------------------------------
(***************************************************************************)
(* `_load_archive' after the header was accepted: the archive is mapped    *)
(* privately, PyCDS_PatchPyObject moves every type and every reference to  *)
(* the interpreter from the dumper's base to the loader's, and the strings *)
(* that the program interned before take the place of the archive's.      *)
(* The C recursion of the patch is a stack of slots still to visit.        *)
(***************************************************************************)
EXTENDS ArchiveMemory, FiniteSets, SequencesExt

CONSTANTS
    LoadBases,      \* bases an interpreter may be loaded at
    InternTables,   \* intern tables of a program that loads: value -> BOOLEAN
    IdStrs,         \* static strings interned from the start (>= 3.12) ...
    ListedStrs      \* ... and those that a program may have interned or not

VARIABLES
    archive,        \* the archive file; never written here
    mem,            \* the loader's private mapping of it
    base,           \* where its interpreter was loaded
    canon,          \* its intern table: value -> pointer or NULL
    held,           \* references given to its own strings: value -> number
    todo,           \* slots PyCDS_PatchPyObject has still to visit
    cursor,         \* the list of all_string_ref to look at next
    load_error,     \* cds_status.traverse_error
    loader          \* "absent", "patching", "interning" or "ready"

loadVars == <<mem, base, canon, held, todo, cursor, load_error, loader>>

InitLoad == /\ mem = EmptyArchive(0)
            /\ base = 0
            /\ canon = <<>>
            /\ held = <<>>
            /\ todo = <<>>
            /\ cursor = 0
            /\ load_error = FALSE
            /\ loader = "absent"

shift == base - mem.none_base

-----------------------------------------------------------------------------
\* What a program's intern table holds when it loads the archive: the static
\* strings that are interned from the start, others that the program interned,
\* and some strings of its own.
InternTable(b, own, statics) ==
    [v \in DOMAIN own |-> IF Py312 /\ v \in IdStrs \cup statics THEN StaticStr(b, v)
                          ELSE IF own[v] THEN ProcessStr(b, v) ELSE NULL]

\* FAST_PATCH: nothing to patch when both interpreters have the same base.
Map ==
    /\ loader = "absent"
    /\ \E b \in LoadBases, own \in InternTables, statics \in SUBSET ListedStrs :
           /\ base' = b
           /\ canon' = InternTable(b, own, statics)
           /\ held' = [v \in DOMAIN own |-> 0]
           /\ mem' = archive
           /\ cursor' = Len(archive.all_string_ref)
           /\ IF archive.obj = NULL
              THEN loader' = "ready" /\ todo' = <<>>
              ELSE IF b = archive.none_base
              THEN loader' = "interning" /\ todo' = <<>>
              ELSE loader' = "patching" /\ todo' = <<Root>>
    /\ load_error' = FALSE

\* Every field of an object, in the order PyCDS_PatchPyObject visits them:
\* tuples from the last item to the first, code in the order of its fields.
Fields(m, a, ty) ==
    LET forward == [i \in 1..Len(m.heap[a].slots) |-> <<a, i>>]
    IN  IF ty = "tuple" THEN Reverse(forward) ELSE forward

\* Fault: a string that was visited before is patched again.
AlreadyPatched_Never(type) == FALSE

AlreadyPatched(type) == type = TypeAddr(base, "str")

\* Fault: the fields of a code object are not visited.
VisitedFields_Tuple(a, ty) == IF ty = "tuple" THEN Fields(mem, a, ty) ELSE <<>>

VisitedFields(a, ty) == Fields(mem, a, ty)

Patch ==
    /\ loader = "patching"
    /\ todo # <<>> /\ ~ load_error
    /\ LET s  == Head(todo)
           op == GetSlot(mem, s)
       IN  IF op = NULL
           THEN todo' = Tail(todo) /\ UNCHANGED <<mem, load_error>>
           ELSE IF ~ InHeap(mem, op)
           THEN /\ mem' = SetSlot(mem, s, UNSHIFT(op, shift))
                /\ todo' = Tail(todo)
                /\ UNCHANGED load_error
           ELSE IF AlreadyPatched(mem.heap[op].type)
           THEN todo' = Tail(todo) /\ UNCHANGED <<mem, load_error>>
           ELSE LET type == UNSHIFT(mem.heap[op].type, shift)
                    ty == TypeOf(base, type)
                IN  /\ todo' = IF ty \in {"tuple", "code"}
                               THEN VisitedFields(op, ty) \o Tail(todo)
                               ELSE Tail(todo)
                    /\ mem' = IF ty = "unknown" THEN mem
                              ELSE [mem EXCEPT !.heap[op].type = type]
                    /\ load_error' = (ty = "unknown")
    /\ UNCHANGED <<base, canon, held, cursor, loader>>

\* An error unwinds the recursion, and LoadArchive returns without interning;
\* archive_header keeps the mapping.
PatchEnd ==
    /\ loader = "patching"
    /\ todo = <<>> \/ load_error
    /\ loader' = IF load_error THEN "ready" ELSE "interning"
    /\ todo' = <<>>
    /\ UNCHANGED <<mem, base, canon, held, cursor, load_error>>

-----------------------------------------------------------------------------
(* Interning *)

\* Fault: the references are left alone when a string is interned already.
Redirected_Not(m, refs, p) == m

\* Every recorded slot now refers to p.
Redirected(m, refs, p) ==
    LET now(s, old) == IF s \in ToSet(refs) THEN p ELSE old IN
    [m EXCEPT !.obj = now(Root, @),
              !.heap = [a \in DOMAIN m.heap |->
                  [m.heap[a] EXCEPT !.slots = [i \in DOMAIN @ |-> now(<<a, i>>, @[i])]]]]

\* Fault: the loop does not move on.
NextList_Same == cursor

\* string_ref = string_ref->next
NextList == cursor - 1

\* Fault: ref_count starts from 0.
Moved_FromZero(n) == IF PyMinor < 11 THEN n + 1 ELSE 1

\* References that pass from a string with n recorded slots to the one that
\* replaces it: PyUnicode_InternInPlace moves one, and before 3.11 ref_count,
\* which starts from -1, moves the others.
Moved(n) == IF PyMinor < 11 THEN n ELSE 1

\* PyUnicode_InternInPlace on a string of the archive: it does nothing to an
\* object whose type is not str.  A string that it finds in the table already
\* (a second list for one string) loses the two references that the table
\* does not count.
InternString ==
    /\ loader = "interning"
    /\ cursor > 0
    /\ LET list == mem.all_string_ref[cursor]
           str  == mem.heap[list.str]
           open == [mem EXCEPT !.heap[list.str].interned = FALSE]
           p    == canon[str.val]
           n    == Moved(Len(list.refs))
       IN  IF ~ str.interned
           THEN UNCHANGED <<mem, canon, held>>
           ELSE IF str.type # TypeAddr(base, "str")
           THEN mem' = open /\ UNCHANGED <<canon, held>>
           ELSE IF p \in {NULL, list.str}
           THEN /\ canon' = [canon EXCEPT ![str.val] = list.str]
                /\ mem' = IF p = NULL THEN mem ELSE Counted(mem, p, -2)
                /\ UNCHANGED held
           ELSE /\ mem' = Redirected(Counted(Counted(open, list.str, -n), p, n),
                                     list.refs, p)
                /\ held' = IF InHeap(mem, p) THEN held
                           ELSE [held EXCEPT ![str.val] = @ + n]
                /\ UNCHANGED canon
    /\ cursor' = NextList
    /\ UNCHANGED <<base, todo, load_error, loader>>

InternEnd ==
    /\ loader = "interning"
    /\ cursor = 0
    /\ loader' = "ready"
    /\ UNCHANGED <<mem, base, canon, held, todo, cursor, load_error>>

\* The loader's process ends; its private mapping goes with it.
Exit ==
    /\ loader # "absent"
    /\ mem' = EmptyArchive(0)
    /\ base' = 0
    /\ canon' = <<>>
    /\ held' = <<>>
    /\ todo' = <<>>
    /\ cursor' = 0
    /\ load_error' = FALSE
    /\ loader' = "absent"

Load == Patch \/ PatchEnd \/ InternString \/ InternEnd

NextLoad == Map \/ Load \/ Exit

-----------------------------------------------------------------------------
(* What the loading process sees *)

LoadedValue == Value(mem, base, mem.obj)

\* The slots that the root reaches.
ReachableFrom(m) ==
    LET grow[n \in Nat] ==
            IF n = 0 THEN {Root}
            ELSE grow[n - 1] \cup
                 UNION {{<<GetSlot(m, s), i>> :
                            i \in 1..Len(m.heap[GetSlot(m, s)].slots)} :
                        s \in {t \in grow[n - 1] : InHeap(m, GetSlot(m, t))}}
    IN grow[Len(m.heap)]
=============================================================================
