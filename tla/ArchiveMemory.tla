---------------------------- MODULE ArchiveMemory ----------------------------
(***************************************************************************)
(* Pointers, archive memory and the values it stands for.                  *)
(*                                                                         *)
(* A pointer is an integer: NULL, the index of an object in the archive's  *)
(* heap, or an address inside an interpreter.  An interpreter is loaded at *)
(* a base that address space randomisation picks afresh for each process;  *)
(* its objects are at fixed offsets from the base.                         *)
(***************************************************************************)
EXTENDS Integers, Sequences

CONSTANTS Environments,
          Span     \* how many values of a kind an interpreter may have objects of

ASSUME SpanAssumption == Span \in Nat

ASSUME EnvironmentsAssumption ==
    Environments \subseteq [minor : Nat, cells : Nat, table_may_fail : BOOLEAN]

VARIABLE env    \* the environment of the dump and of its loads; it never changes

\* PY_MINOR_VERSION, the allocations that fit in CDS_MAX_IMG_SIZE, and whether
\* inserting in a lookup table may run out of memory.
PyMinor      == env.minor
HeapCells    == env.cells
TableMayFail == env.table_may_fail

\* From 3.12 on the archive's objects are immortal: nothing counts them.
Py312 == PyMinor >= 12

NULL == 0

Page == 8 + 4 * Span    \* what the offsets below stay within

\* Offsets of the type objects, of None, True, False and Ellipsis, of the
\* static strings and other static singletons, and of strings that the program
\* interned before it loads an archive.
TypeAddr(base, ty)     == base + (CASE ty = "atom"  -> 1
                                    [] ty = "str"   -> 2
                                    [] ty = "tuple" -> 3
                                    [] ty = "code"  -> 4)
BasicAddr(base, v)     == base + 8 + v
StaticStr(base, v)     == base + 8 + Span + v
StaticAtom(base, v)    == base + 8 + 2 * Span + v
ProcessStr(base, v)    == base + 8 + 3 * Span + v

TypeOf(base, addr) == CASE addr = TypeAddr(base, "atom")  -> "atom"
                        [] addr = TypeAddr(base, "str")   -> "str"
                        [] addr = TypeAddr(base, "tuple") -> "tuple"
                        [] addr = TypeAddr(base, "code")  -> "code"
                        [] OTHER -> "unknown"

\* An address of the dumper, as the same address in the loader.
UNSHIFT(p, shift) == p + shift

-----------------------------------------------------------------------------
(* The archive: its header and its heap.                                    *)
(*   none_base       the base of the dumping interpreter (none_addr stands  *)
(*                   for it)                                                *)
(*   obj             the root                                               *)
(*   all_string_ref  the lists, oldest first: a string and the slots that   *)
(*                   refer to it, newest first                              *)
(*   used            allocations made from the heap                         *)
(*   heap            the objects, by address                                *)

EmptyArchive(base) == [none_base |-> base, obj |-> NULL, all_string_ref |-> <<>>,
                       used |-> 0, heap |-> <<>>]

HeapObject(type, val, nslots) ==
    [type |-> type, val |-> val, interned |-> FALSE, rc |-> 1,
     slots |-> [i \in 1..nslots |-> NULL]]

\* A slot holds a pointer: the root in the header, or field i of object a.
Root == <<0, 0>>

GetSlot(m, s) == IF s = Root THEN m.obj ELSE m.heap[s[1]].slots[s[2]]

SetSlot(m, s, p) == IF s = Root THEN [m EXCEPT !.obj = p]
                    ELSE [m EXCEPT !.heap[s[1]].slots[s[2]] = p]

Slots(m) == {Root} \cup UNION {{<<a, i>> : i \in 1..Len(m.heap[a].slots)} :
                                   a \in 1..Len(m.heap)}

InHeap(m, p) == p \in 1..Len(m.heap)

\* n more references to what p points at; objects of the interpreter are
\* counted elsewhere.
Counted(m, p, n) == IF InHeap(m, p) /\ ~ Py312 THEN [m EXCEPT !.heap[p].rc = @ + n]
                    ELSE m

-----------------------------------------------------------------------------
(* The value that a pointer stands for in an interpreter at `base'.         *)

OutOfHeapValue(base, p) ==
    LET off == p - base - 8
        nth(k) == off - k * Span
        of(k) == nth(k) >= 0 /\ nth(k) < Span
    IN
    CASE p = NULL -> <<"null">>
      [] of(0)    -> <<"basic", nth(0)>>
      [] of(1)    -> <<"str", nth(1)>>
      [] of(2)    -> <<"atom", nth(2)>>
      [] of(3)    -> <<"str", nth(3)>>
      [] OTHER    -> <<"dangling">>

Value(m, base, ptr) ==
    LET value[p \in Int] ==
            IF ~ InHeap(m, p) THEN OutOfHeapValue(base, p)
            ELSE LET o == m.heap[p]
                     ty == TypeOf(base, o.type)
                 IN  IF ty \in {"tuple", "code"}
                     THEN <<ty, [i \in DOMAIN o.slots |-> value[o.slots[i]]]>>
                     ELSE <<ty, o.val>>
    IN value[ptr]
=============================================================================
