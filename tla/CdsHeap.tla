-------------------------------- MODULE CdsHeap --------------------------------
(***************************************************************************)
(* The heap of an archive: PyCDS_Malloc, a bump allocator whose pointer is *)
(* a field of the mapped file, and what a loader maps of that file.        *)
(*                                                                         *)
(* Addresses are offsets from CDS_REQUESTING_ADDR, sizes are bytes of a    *)
(* 64-bit build.  Every store to `used' is a step of its own, because the  *)
(* file keeps whatever it holds when the dumping process is killed.        *)
(***************************************************************************)
EXTENDS Integers

CONSTANTS
    CDS_MAX_IMG_SIZE,   \* the size of the archive file during a dump
    Sizes,              \* sizes that the copy of an object asks for
    MaxAlloc            \* bound on the number of allocations

Page == 4096

\* sizeof(struct CDSArchiveHeader) and sizeof(PyGC_Head)
HeaderSize == 64
GCHeadSize == 16

ASSUME ImgSizeAssumption == CDS_MAX_IMG_SIZE \in Nat /\ HeaderSize <= CDS_MAX_IMG_SIZE
ASSUME SizesAssumption == Sizes \subseteq Nat
ASSUME MaxAllocAssumption == MaxAlloc \in Nat

VARIABLES
    used,       \* archive_header->used
    n_alloc,    \* move_in_ctx->n_alloc
    blocks,     \* what PyCDS_Malloc handed out: [start, size]
    pc,         \* "idle", or the store PyCDS_Malloc makes next
    size,       \* its argument, at least 1
    process,    \* "dumping", "returned", "crashed" or "killed"
    file        \* the length of the archive file

vars == <<used, n_alloc, blocks, pc, size, process, file>>

-----------------------------------------------------------------------------

ALIEN_TO(n, align) == ((n + (align - 1)) \div align) * align

Init == /\ used = ALIEN_TO(HeaderSize, 8)
        /\ n_alloc = 0
        /\ blocks = {}
        /\ pc = "idle"
        /\ size = 1
        /\ process = "dumping"
        /\ file = CDS_MAX_IMG_SIZE

Requested(n) == IF n = 0 THEN 1 ELSE n

\* Fault: no room for the PyGC_Head of the object.
AfterGCHead_None == used

\* Room for the PyGC_Head that CPython keeps before a collectable object.
AfterGCHead == used + GCHeadSize

MallocBegin(n) ==
    /\ process = "dumping" /\ pc = "idle"
    /\ n_alloc < MaxAlloc
    /\ n_alloc' = n_alloc + 1
    /\ size' = Requested(n)
    /\ used' = AfterGCHead
    /\ pc' = "bump"
    /\ UNCHANGED <<blocks, process, file>>

\* Fault: sizes are not rounded up.
SizeAligned_Not == size

SizeAligned == ALIEN_TO(size, 8)

\* used += size_aligned, before the limit is looked at.
MallocBump ==
    /\ process = "dumping" /\ pc = "bump"
    /\ used' = used + SizeAligned
    /\ pc' = "check"
    /\ UNCHANGED <<n_alloc, blocks, size, process, file>>

\* Fault: the limit is compared with the start of the block.
Fits_Start == used - SizeAligned <= CDS_MAX_IMG_SIZE

Fits == used <= CDS_MAX_IMG_SIZE

MallocReturn ==
    /\ process = "dumping" /\ pc = "check"
    /\ Fits
    /\ blocks' = blocks \cup {[start |-> used - SizeAligned, size |-> size]}
    /\ pc' = "idle"
    /\ UNCHANGED <<used, n_alloc, size, process, file>>

\* used is put back in two stores.
MallocUndoGCHead ==
    /\ process = "dumping" /\ pc = "check"
    /\ ~ Fits
    /\ used' = used - GCHeadSize
    /\ pc' = "undo"
    /\ UNCHANGED <<n_alloc, blocks, size, process, file>>

\* Fault: only the object's size is given back, the PyGC_Head stays.
Undone_Partly == used - SizeAligned + GCHeadSize

Undone == used - SizeAligned

\* NULL is returned, and the caller writes through it.
MallocFail ==
    /\ process = "dumping" /\ pc = "undo"
    /\ used' = Undone
    /\ pc' = "idle"
    /\ process' = "crashed"
    /\ UNCHANGED <<n_alloc, blocks, size, file>>

\* finalize_map cuts the file to the bytes in use.
Finalize ==
    /\ process = "dumping" /\ pc = "idle"
    /\ process' = "returned"
    /\ file' = used
    /\ UNCHANGED <<used, n_alloc, blocks, pc, size>>

Kill ==
    /\ process = "dumping"
    /\ process' = "killed"
    /\ UNCHANGED <<used, n_alloc, blocks, pc, size, file>>

Next == \/ \E n \in Sizes : MallocBegin(n)
        \/ MallocBump \/ MallocReturn \/ MallocUndoGCHead \/ MallocFail
        \/ Finalize \/ Kill

Spec == Init /\ [][Next]_vars

-----------------------------------------------------------------------------
(* What the rest of the code asks of a heap *)

\* PyCDS_InHeap, for an offset.
InHeap(p) == p > 0 /\ p < used

\* Fault: the last, partly used page is not mapped.
MapLength_Floor == (used \div Page) * Page

\* aligned_size of PyCDS_LoadArchive
MapLength == ALIEN_TO(used, Page)

-----------------------------------------------------------------------------
(* Properties *)

\* Type invariant of the allocator.
TypeOK == /\ used \in Nat
          /\ n_alloc \in 0..MaxAlloc
          /\ blocks \subseteq [start : Nat, size : Nat \ {0}]
          /\ pc \in {"idle", "bump", "check", "undo"}
          /\ size \in Nat \ {0}
          /\ process \in {"dumping", "returned", "crashed", "killed"}
          /\ file \in Nat

\* Two objects never overlap, and the garbage collector may write the
\* PyGC_Head before any object without touching another one or the header.
BlocksApart ==
    /\ \A b \in blocks : HeaderSize + GCHeadSize <= b.start
    /\ \A a, b \in blocks :
           a # b => \/ a.start + a.size + GCHeadSize <= b.start
                    \/ b.start + b.size + GCHeadSize <= a.start

\* The start of every object is aligned for any C type, and lies where
\* PyCDS_InHeap looks for it, also the start of an object without bytes: the
\* patch would otherwise take it for an address of the interpreter.  A failed
\* or an interrupted allocation takes nothing away.
BlocksInHeap ==
    \A b \in blocks : b.start % 8 = 0 /\ InHeap(b.start) /\ b.start + b.size <= used

\* No object reaches past the end of the file, whose pages would raise SIGBUS.
BlocksInFile ==
    \A b \in blocks : b.start + b.size <= file

\* A process that loads what the dump left maps every object, and every page
\* it touches to populate the mapping is in the file: LoadArchive's loop goes
\* over the page starts below `used'.  The exception is a dump killed inside
\* an allocation that was about to fail.
LoaderMapsBlocks ==
    process # "dumping" =>
        /\ \A b \in blocks : b.start + b.size <= MapLength
        /\ used <= file \/ (process = "killed" /\ pc \in {"bump", "check", "undo"})

\* A failed allocation leaves no hole: outside PyCDS_Malloc, all of the heap
\* up to `used' is the header or belongs to an object and its PyGC_Head.
FailureUndone ==
    pc = "idle" => \/ used = HeaderSize /\ blocks = {}
                   \/ \E b \in blocks : used = b.start + ALIEN_TO(b.size, 8)
=============================================================================
