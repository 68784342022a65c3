----------------------------- MODULE CdsHeapProofs -----------------------------
(***************************************************************************)
(* The heap is well formed for every image size and for all sequences of   *)
(* allocations.  The properties are not inductive: they need to know how   *)
(* far the blocks reach while `used' is on its way from one block's end to *)
(* the next one's.  Top is that point, and it never passes the limit.      *)
(***************************************************************************)
EXTENDS CdsHeap, TLAPS

\* The end of the last block, with `used' as the stores of PyCDS_Malloc left it.
Top == CASE pc = "idle"  -> used
         [] pc = "bump"  -> used - GCHeadSize
         [] pc = "check" -> used - GCHeadSize - SizeAligned
         [] pc = "undo"  -> used - SizeAligned

\* The end of a block, rounded up as PyCDS_Malloc does.
End(b) == b.start + ALIEN_TO(b.size, 8)

Limits == /\ Top \in Nat
          /\ Top % 8 = 0
          /\ HeaderSize <= Top
          /\ Top <= CDS_MAX_IMG_SIZE

BlockShape == \A b \in blocks : /\ b.start % 8 = 0
                                /\ HeaderSize + GCHeadSize <= b.start
                                /\ End(b) <= Top

Apart == \A a, b \in blocks :
             a # b => \/ End(a) + GCHeadSize <= b.start
                      \/ End(b) + GCHeadSize <= a.start

FileLength == /\ file = IF process = "returned" THEN Top ELSE CDS_MAX_IMG_SIZE
              /\ process \in {"returned", "crashed"} => pc = "idle"

NoHole == \/ Top = HeaderSize /\ blocks = {}
          \/ \E b \in blocks : Top = End(b)

\* The inductive invariant.
Inv == TypeOK /\ Limits /\ BlockShape /\ Apart /\ FileLength /\ NoHole

-----------------------------------------------------------------------------

\* Rounding up to a multiple of 8.
LEMMA Align8 ==
    ASSUME NEW n \in Nat
    PROVE  /\ ALIEN_TO(n, 8) \in Nat
           /\ n <= ALIEN_TO(n, 8)
           /\ ALIEN_TO(n, 8) <= n + 7
           /\ ALIEN_TO(n, 8) % 8 = 0
BY DEF ALIEN_TO

LEMMA Sum8 ==
    ASSUME NEW m \in Nat, NEW n \in Nat, m % 8 = 0, n % 8 = 0
    PROVE  (m + 16 + n) % 8 = 0
OBVIOUS

\* Rounding up to a page.
LEMMA AlignPage ==
    ASSUME NEW n \in Nat
    PROVE  ALIEN_TO(n, Page) \in Nat /\ n <= ALIEN_TO(n, Page)
BY DEF ALIEN_TO, Page

LEMMA BlockTypes ==
    ASSUME TypeOK, NEW b \in blocks
    PROVE  /\ b.start \in Nat /\ b.size \in Nat
           /\ End(b) \in Nat /\ b.start + b.size <= End(b)
<1>1. b.start \in Nat /\ b.size \in Nat
  BY DEF TypeOK
<1>2. ALIEN_TO(b.size, 8) \in Nat /\ b.size <= ALIEN_TO(b.size, 8)
  BY <1>1, Align8
<1> QED
  BY <1>1, <1>2 DEF End

LEMMA SizeAlignedType ==
    ASSUME TypeOK
    PROVE  /\ SizeAligned \in Nat /\ size <= SizeAligned /\ SizeAligned % 8 = 0
           /\ 0 < SizeAligned
<1>1. size \in Nat /\ 0 < size
  BY DEF TypeOK
<1> QED
  BY <1>1, Align8 DEF SizeAligned

LEMMA InvInit == Init => Inv
<1> SUFFICES ASSUME Init PROVE Inv
  OBVIOUS
<1>1. used = 64
  BY DEF Init, ALIEN_TO, HeaderSize
<1>2. Top = 64 /\ pc = "idle" /\ blocks = {}
  BY <1>1 DEF Init, Top
<1>3. TypeOK
  BY <1>1, ImgSizeAssumption, MaxAllocAssumption DEF Init, TypeOK
<1>4. Limits
  BY <1>2, ImgSizeAssumption DEF Limits, HeaderSize
<1> QED
  BY <1>2, <1>3, <1>4 DEF Init, Inv, BlockShape, Apart, FileLength, NoHole, HeaderSize

\* A step that moves neither the blocks nor their end keeps the invariant.
LEMMA SameTop ==
    ASSUME Inv, TypeOK', Top' = Top, UNCHANGED <<blocks, file>>,
           process' \in {"dumping", "killed", "crashed"},
           process = "dumping", process' = "crashed" => pc' = "idle"
    PROVE  Inv'
<1>1. Limits' /\ BlockShape' /\ Apart' /\ NoHole'
  BY DEF Inv, Limits, BlockShape, Apart, NoHole, End, ALIEN_TO
<1>2. FileLength'
  BY DEF Inv, FileLength
<1> QED
  BY <1>1, <1>2 DEF Inv

LEMMA InvStep == Inv /\ [Next]_vars => Inv'
<1> SUFFICES ASSUME Inv, [Next]_vars PROVE Inv'
  OBVIOUS
<1>0. /\ TypeOK /\ used \in Nat /\ size \in Nat
      /\ Limits /\ BlockShape /\ Apart /\ FileLength /\ NoHole
  BY DEF Inv, TypeOK
<1>1. ASSUME NEW n \in Sizes, MallocBegin(n) PROVE Inv'
  <2>1. n \in Nat
    BY SizesAssumption
  <2>2. size' \in Nat \ {0}
    BY <1>1, <2>1 DEF MallocBegin, Requested
  <2>3. used' = used + 16 /\ pc' = "bump" /\ pc = "idle"
    BY <1>1 DEF MallocBegin, AfterGCHead, GCHeadSize
  <2>4. Top' = Top
    BY <1>0, <2>3 DEF Top, GCHeadSize
  <2>5. n_alloc' \in 0..MaxAlloc
    BY <1>0, <1>1, MaxAllocAssumption DEF MallocBegin, TypeOK
  <2>6. TypeOK'
    BY <1>0, <1>1, <2>2, <2>3, <2>5 DEF MallocBegin, TypeOK
  <2> QED
    BY <1>1, <2>4, <2>6, SameTop DEF MallocBegin
<1>2. CASE MallocBump
  <2>1. SizeAligned \in Nat /\ SizeAligned' = SizeAligned
    BY <1>0, <1>2, SizeAlignedType DEF MallocBump, SizeAligned
  <2>2. used' = used + SizeAligned /\ pc' = "check" /\ pc = "bump"
    BY <1>2 DEF MallocBump
  <2>3. Top' = Top
    BY <1>0, <2>1, <2>2 DEF Top, GCHeadSize
  <2>4. TypeOK'
    BY <1>0, <1>2, <2>1, <2>2 DEF MallocBump, TypeOK
  <2> QED
    BY <1>2, <2>3, <2>4, SameTop DEF MallocBump
<1>3. CASE MallocReturn
  <2> DEFINE new == [start |-> used - SizeAligned, size |-> size]
  <2>1. /\ SizeAligned \in Nat /\ 0 < SizeAligned /\ SizeAligned % 8 = 0
        /\ size <= SizeAligned
    BY <1>0, SizeAlignedType
  <2>2. /\ pc = "check" /\ pc' = "idle" /\ used' = used
        /\ blocks' = blocks \cup {new}
        /\ used <= CDS_MAX_IMG_SIZE
        /\ process = "dumping" /\ UNCHANGED <<n_alloc, size, process, file>>
    BY <1>3 DEF MallocReturn, Fits
  <2>3. Top = used - 16 - SizeAligned /\ Top' = used
    BY <2>2 DEF Top, GCHeadSize
  <2>4. new.start \in Nat /\ new.start = Top + 16 /\ new.size = size
    BY <1>0, <2>1, <2>3 DEF Limits
  <2>5. End(new) = used
    BY <1>0, <2>1 DEF End, SizeAligned
  <2>6. TypeOK'
    BY <1>0, <2>2, <2>4 DEF TypeOK
  <2>7. Limits'
    <3>1. used = Top + 16 + SizeAligned
      BY <1>0, <2>1, <2>3 DEF Limits
    <3>2. used % 8 = 0
      BY <1>0, <2>1, <3>1, Sum8 DEF Limits
    <3>3. Top \in Nat /\ HeaderSize <= Top
      BY <1>0 DEF Limits
    <3>4. Top' \in Nat /\ HeaderSize <= Top' /\ Top' <= CDS_MAX_IMG_SIZE
      BY <1>0, <2>1, <2>2, <2>3, <3>1, <3>3, ImgSizeAssumption DEF HeaderSize
    <3> QED
      BY <2>3, <3>2, <3>4 DEF Limits
  <2>8. BlockShape'
    <3>1. new.start % 8 = 0 /\ 80 <= new.start
      BY <1>0, <2>4 DEF Limits, HeaderSize
    <3>2. Top <= Top'
      BY <1>0, <2>1, <2>3 DEF Limits
    <3>3. \A b \in blocks : End(b) <= Top'
      BY <1>0, <2>3, <3>2, BlockTypes DEF BlockShape, Limits
    <3> HIDE DEF new
    <3>4. \A b \in blocks' : b.start % 8 = 0 /\ 80 <= b.start /\ End(b) <= Top'
      BY <1>0, <2>2, <2>3, <2>5, <3>1, <3>3 DEF BlockShape, HeaderSize, GCHeadSize
    <3> QED
      BY <3>4 DEF BlockShape, HeaderSize, GCHeadSize, End, ALIEN_TO
  <2>9. Apart'
    <3>1. \A b \in blocks : End(b) + 16 <= new.start
      <4> SUFFICES ASSUME NEW b \in blocks PROVE End(b) + 16 <= new.start
        OBVIOUS
      <4>1. End(b) \in Nat /\ End(b) <= Top
        BY <1>0, BlockTypes DEF BlockShape
      <4> HIDE DEF new
      <4> QED
        BY <1>0, <2>4, <4>1 DEF Limits
    <3> HIDE DEF new
    <3>2. \A a, b \in blocks' :
              a # b => End(a) + 16 <= b.start \/ End(b) + 16 <= a.start
      BY <1>0, <2>2, <3>1 DEF Apart, GCHeadSize
    <3> QED
      BY <3>2 DEF Apart, GCHeadSize, End, ALIEN_TO
  <2>10. FileLength'
    BY <1>0, <2>2 DEF FileLength
  <2>11. NoHole'
    <3> HIDE DEF new
    <3> QED
      BY <2>2, <2>3, <2>5 DEF NoHole, End, ALIEN_TO
  <2> QED
    BY <2>6, <2>7, <2>8, <2>9, <2>10, <2>11 DEF Inv
<1>4. CASE MallocUndoGCHead
  <2>1. SizeAligned \in Nat /\ SizeAligned' = SizeAligned
    BY <1>0, <1>4, SizeAlignedType DEF MallocUndoGCHead, SizeAligned
  <2>2. used' = used - 16 /\ pc' = "undo" /\ pc = "check"
    BY <1>4 DEF MallocUndoGCHead, GCHeadSize
  <2>3. Top' = Top /\ Top = used - 16 - SizeAligned
    BY <1>0, <2>1, <2>2 DEF Top, GCHeadSize
  <2>4. used' \in Nat
    BY <1>0, <2>1, <2>2, <2>3 DEF Limits
  <2>5. TypeOK'
    BY <1>0, <1>4, <2>2, <2>4 DEF MallocUndoGCHead, TypeOK
  <2> QED
    BY <1>4, <2>3, <2>5, SameTop DEF MallocUndoGCHead
<1>5. CASE MallocFail
  <2>1. SizeAligned \in Nat
    BY <1>0, SizeAlignedType
  <2>2. used' = used - SizeAligned /\ pc' = "idle" /\ pc = "undo"
    BY <1>5 DEF MallocFail, Undone
  <2>3. Top' = Top /\ Top = used - SizeAligned
    BY <1>0, <2>1, <2>2 DEF Top
  <2>4. used' \in Nat
    BY <1>0, <2>1, <2>2, <2>3 DEF Limits
  <2>5. TypeOK'
    BY <1>0, <1>5, <2>2, <2>4 DEF MallocFail, TypeOK
  <2> QED
    BY <1>5, <2>2, <2>3, <2>5, SameTop DEF MallocFail
<1>6. CASE Finalize
  <2>1. Top' = Top /\ Top = used /\ pc = "idle" /\ pc' = "idle"
    BY <1>6 DEF Finalize, Top
  <2>2. TypeOK'
    BY <1>0, <1>6 DEF Finalize, TypeOK
  <2>3. Limits' /\ BlockShape' /\ Apart' /\ NoHole'
    BY <1>0, <1>6, <2>1
       DEF Finalize, Limits, BlockShape, Apart, NoHole, End, ALIEN_TO
  <2>4. FileLength'
    BY <1>6, <2>1 DEF Finalize, FileLength
  <2> QED
    BY <2>2, <2>3, <2>4 DEF Inv
<1>7. CASE Kill
  <2>1. Top' = Top
    BY <1>7 DEF Kill, Top, SizeAligned
  <2>2. TypeOK'
    BY <1>0, <1>7 DEF Kill, TypeOK
  <2> QED
    BY <1>7, <2>1, <2>2, SameTop DEF Kill
<1>8. CASE UNCHANGED vars
  BY <1>0, <1>8 DEF vars, Inv, TypeOK, Limits, BlockShape, Apart, FileLength, NoHole,
                    Top, SizeAligned, End, ALIEN_TO
<1> QED
  BY <1>1, <1>2, <1>3, <1>4, <1>5, <1>6, <1>7, <1>8 DEF Next

LEMMA InvCorrect == Spec => []Inv
<1> QED
  BY InvInit, InvStep, PTL DEF Spec

-----------------------------------------------------------------------------

LEMMA UsedCoversTop == ASSUME Inv PROVE Top <= used
<1>1. SizeAligned \in Nat /\ used \in Nat
  BY SizeAlignedType DEF Inv, TypeOK
<1> QED
  BY <1>1 DEF Inv, TypeOK, Top, GCHeadSize

\* The allocator's state is well typed: `used' never becomes negative when a
\* failed allocation is undone.
THEOREM TypeCorrect == Spec => []TypeOK
<1>1. Inv => TypeOK
  BY DEF Inv
<1> QED
  BY <1>1, InvCorrect, PTL

\* Objects never overlap, and each has room for a PyGC_Head before it.
THEOREM Disjoint == Spec => []BlocksApart
<1>1. Inv => BlocksApart
  <2> SUFFICES ASSUME Inv PROVE BlocksApart
    OBVIOUS
  <2>1. \A b \in blocks : HeaderSize + GCHeadSize <= b.start
    BY DEF Inv, BlockShape
  <2>2. ASSUME NEW a \in blocks, NEW b \in blocks, a # b
        PROVE  \/ a.start + a.size + GCHeadSize <= b.start
               \/ b.start + b.size + GCHeadSize <= a.start
    <3>1. /\ a.start \in Nat /\ a.size \in Nat /\ End(a) \in Nat
          /\ b.start \in Nat /\ b.size \in Nat /\ End(b) \in Nat
          /\ a.start + a.size <= End(a) /\ b.start + b.size <= End(b)
      BY BlockTypes DEF Inv
    <3>2. End(a) + 16 <= b.start \/ End(b) + 16 <= a.start
      BY <2>2 DEF Inv, Apart, GCHeadSize
    <3> QED
      BY <3>1, <3>2 DEF GCHeadSize
  <2> QED
    BY <2>1, <2>2 DEF BlocksApart
<1> QED
  BY <1>1, InvCorrect, PTL

\* PyCDS_InHeap recognises every object of the archive.
THEOREM Recognised == Spec => []BlocksInHeap
<1>1. Inv => BlocksInHeap
  <2> SUFFICES ASSUME Inv, NEW b \in blocks
               PROVE  b.start % 8 = 0 /\ InHeap(b.start) /\ b.start + b.size <= used
    BY DEF BlocksInHeap
  <2>1. /\ b.start \in Nat /\ b.size \in Nat /\ End(b) \in Nat
        /\ b.start + b.size <= End(b)
    BY BlockTypes DEF Inv
  <2>2. b.start % 8 = 0 /\ 80 <= b.start /\ End(b) <= Top
    BY DEF Inv, BlockShape, HeaderSize, GCHeadSize
  <2>3. Top \in Nat /\ used \in Nat /\ Top <= used
    BY UsedCoversTop DEF Inv, Limits, TypeOK
  <2>4. 0 < b.size
    BY DEF Inv, TypeOK
  <2> QED
    BY <2>1, <2>2, <2>3, <2>4 DEF InHeap
<1> QED
  BY <1>1, InvCorrect, PTL

\* No object reaches past the end of the archive file, whatever fails and
\* wherever the dump stops.
THEOREM InFile == Spec => []BlocksInFile
<1>1. Inv => BlocksInFile
  <2> SUFFICES ASSUME Inv, NEW b \in blocks PROVE b.start + b.size <= file
    BY DEF BlocksInFile
  <2>1. /\ b.start \in Nat /\ b.size \in Nat /\ End(b) \in Nat
        /\ b.start + b.size <= End(b)
    BY BlockTypes DEF Inv
  <2>2. End(b) <= Top /\ Top \in Nat /\ Top <= CDS_MAX_IMG_SIZE
    BY DEF Inv, BlockShape, Limits
  <2>3. file = Top \/ file = CDS_MAX_IMG_SIZE
    BY DEF Inv, FileLength
  <2> QED
    BY <2>1, <2>2, <2>3, ImgSizeAssumption
<1> QED
  BY <1>1, InvCorrect, PTL

\* A loader's mapping holds every object of the archive, and populating it
\* stays inside the file.
THEOREM Mapped == Spec => []LoaderMapsBlocks
<1>1. Inv /\ BlocksInHeap => LoaderMapsBlocks
  <2> SUFFICES ASSUME Inv, BlocksInHeap, process # "dumping" PROVE
          /\ \A b \in blocks : b.start + b.size <= MapLength
          /\ used <= file \/ (process = "killed" /\ pc \in {"bump", "check", "undo"})
    BY DEF LoaderMapsBlocks
  <2>1. used \in Nat /\ MapLength \in Nat /\ used <= MapLength
    BY AlignPage DEF Inv, TypeOK, MapLength
  <2>2. ASSUME NEW b \in blocks PROVE b.start + b.size <= MapLength
    <3>1. b.start \in Nat /\ b.size \in Nat /\ b.start + b.size <= used
      BY BlockTypes DEF Inv, BlocksInHeap
    <3> QED
      BY <2>1, <3>1
  <2>3. CASE pc = "idle"
    <3>1. Top = used
      BY <2>3 DEF Top
    <3> QED
      BY <2>1, <2>2, <3>1, ImgSizeAssumption DEF Inv, Limits, FileLength
  <2>4. CASE pc # "idle"
    BY <2>2, <2>4 DEF Inv, TypeOK, FileLength
  <2> QED
    BY <2>3, <2>4
<1> QED
  BY <1>1, InvCorrect, Recognised, PTL

\* A failed allocation is undone: the heap has no hole outside PyCDS_Malloc.
THEOREM NoHoles == Spec => []FailureUndone
<1>1. Inv => FailureUndone
  BY DEF Inv, NoHole, FailureUndone, Top, End
<1> QED
  BY <1>1, InvCorrect, PTL
=============================================================================
