--------------------------- MODULE CdsStatusProofs ---------------------------
(***************************************************************************)
(* Proofs about CdsStatus, for every set of arguments and every number of  *)
(* descriptors.                                                            *)
(***************************************************************************)
EXTENDS CdsStatus, TLAPS

\* Creating or moving in: the calls that hold the file open for writing.
Writing == pc \in {"opened", "sized"} \/ mapping = "shared"

\* Whoever touched an archive, or is in the middle of a call, claimed a mode.
Claimed ==
    /\ \/ cds_status.archive
       \/ cds_status.archive_header
       \/ cds_status.archive_fd # NULL_FD
       \/ pc # "idle"
       => /\ cds_status.initialized
          /\ cds_status.mode \in {CDS_MODE_DUMP_ARCHIVE, CDS_MODE_SHARE}
    /\ pc # "idle" \/ cds_status.archive_fd # NULL_FD =>
           cds_status.mode = CDS_MODE_DUMP_ARCHIVE

\* The heap is mapped from the moment mmap returned until finalize_map.
MappedByPc ==
    /\ pc \in {"opened", "sized"} => mapping = "none" /\ ~ cds_status.archive_header
    /\ pc \in {"mapped", "stamped", "copying", "listing", "copied"} =>
           mapping = "shared"

\* archive_fd is the one descriptor of the archive while it is written.
ArchiveFd ==
    /\ \A f \in Fds : fds[f] = "archive" <=> Writing /\ f = cds_status.archive_fd
    /\ Writing => cds_status.archive_fd \in Fds \ {0}

RefusedBefore ==
    reply.res \notin {"archive already initialized", "archive already loaded"}

\* The inductive invariant.
Inv == /\ TypeOK
       /\ Claimed
       /\ MappedByPc
       /\ ArchiveFd
       /\ MappingMatchesMode
       /\ StaleOnlyAfterMoveIn
       /\ RefusedBefore

-----------------------------------------------------------------------------
(* Every state of the extension is well typed. *)

LEMMA InitialValues ==
    /\ InitStatus \in Status
    /\ InitFds \in [Fds -> {"free", "other", "archive"}]
<1>1. InitStatus \in Status
  BY DEF InitStatus, Status, NULL_FD, Modes, CDS_MODE_DISABLED
<1>2. InitFds \in [Fds -> {"free", "other", "archive"}]
  BY DEF InitFds
<1> QED
  BY <1>1, <1>2

LEMMA TypeInit == Init => TypeOK
BY InitialValues DEF Init, TypeOK, PCs, Images, Calls

LEMMA GrantedIsAMode == ASSUME NEW m, ModeOutcome(m) = "ok" PROVE m \in Modes
BY DEF ModeOutcome

LEMMA WithModeType == ASSUME TypeOK, NEW m \in Modes PROVE WithMode(m) \in Status
BY DEF TypeOK, WithMode, Status

LEMMA AfterMapType == ASSUME TypeOK, NEW ok \in BOOLEAN PROVE AfterMap(ok) \in Status
<1>1. CASE ok
  BY <1>1 DEF TypeOK, AfterMap, Status
<1>2. CASE ~ ok
  BY <1>2 DEF TypeOK, AfterMap, Status, NULL_FD
<1> QED
  BY <1>1, <1>2

LEMMA ClosedType ==
    ASSUME TypeOK, NEW f
    PROVE  Closed(f) \in [Fds -> {"free", "other", "archive"}]
BY DEF TypeOK, Closed

LEMMA ReturnCall ==
    ASSUME NEW call, NEW res, Return(call, res) PROVE reply'.call = call
BY DEF Return

LEMMA DieType ==
    ASSUME TypeOK, NEW call \in Calls, NEW res, Die(call, res), UNCHANGED image
    PROVE  TypeOK'
BY InitialValues DEF TypeOK, Die, Return, PCs

LEMMA TypeStep == TypeOK /\ [Next]_vars => TypeOK'
<1> SUFFICES ASSUME TypeOK, [Next]_vars PROVE TypeOK'
  OBVIOUS
<1> USE DEF Idle, Calls
<1>1. ASSUME NEW m \in ModeArgs, SetMode(m) PROVE TypeOK'
  <2> DEFINE res == IF m = CDS_MODE_SHARE THEN "invalid mode" ELSE ModeOutcome(m)
  <2>1. CASE res = "ok"
    <3>1. m \in Modes
      BY <2>1, GrantedIsAMode
    <3> QED
      BY <1>1, <2>1, <3>1, WithModeType, ReturnCall DEF SetMode, TypeOK
  <2>2. CASE res # "ok"
    BY <1>1, <2>2, ReturnCall DEF SetMode, TypeOK
  <2> QED
    BY <2>1, <2>2
<1>2. ASSUME NEW v \in VerboseArgs, SetVerbose(v) PROVE TypeOK'
  <2>1. CASE v >= 0 /\ v <= 2
    <3>1. cds_status' = [cds_status EXCEPT !.verbose = v, !.flags.verbose = v]
      BY <1>2, <2>1 DEF SetVerbose
    <3>2. v \in 0..2
      BY <2>1, ArgsAssumption
    <3>3. cds_status' \in Status
      BY <3>1, <3>2 DEF TypeOK, Status
    <3> QED
      BY <1>2, <3>3, ReturnCall DEF SetVerbose, TypeOK
  <2>2. CASE ~ (v >= 0 /\ v <= 2)
    BY <1>2, <2>2, ReturnCall DEF SetVerbose, TypeOK
  <2> QED
    BY <2>1, <2>2
<1>3. ASSUME NEW f \in Fds \cup {-1}, CreateOpen(f) PROVE TypeOK'
  <2>1. WithMode(CDS_MODE_DUMP_ARCHIVE) \in Status
    BY WithModeType DEF Modes
  <2>2. f \in Int
    BY MaxFdAssumption DEF Fds
  <2> DEFINE refused == \/ ModeOutcome(CDS_MODE_DUMP_ARCHIVE) # "ok"
                        \/ cds_status.archive
                        \/ cds_status.archive_fd # NULL_FD
                        \/ cds_status.archive_header
  <2>3. CASE refused
    BY <1>3, <2>1, <2>3, ReturnCall DEF CreateOpen, TypeOK
  <2>4. CASE ~ refused /\ f > 0
    <3>1. cds_status' = [WithMode(CDS_MODE_DUMP_ARCHIVE) EXCEPT !.archive = TRUE,
                                                                !.archive_fd = f]
      BY <1>3, <2>4 DEF CreateOpen
    <3>2. cds_status' \in Status
      BY <2>1, <2>2, <3>1 DEF Status
    <3> QED
      BY <1>3, <2>4, <3>2 DEF CreateOpen, TypeOK, Images, PCs
  <2>5. CASE ~ refused /\ ~ (f > 0)
    <3>1. cds_status' = [WithMode(CDS_MODE_DUMP_ARCHIVE) EXCEPT !.archive = TRUE]
      BY <1>3, <2>5 DEF CreateOpen
    <3>2. cds_status' \in Status
      BY <2>1, <3>1 DEF Status
    <3> QED
      BY <1>3, <2>5, <3>2, ReturnCall DEF CreateOpen, TypeOK, Images
  <2> QED
    BY <2>3, <2>4, <2>5
<1>4. ASSUME NEW f \in Fds \cup {-1}, NEW ok \in BOOLEAN, LoadArchive(f, ok)
      PROVE  TypeOK'
  <2>1. WithMode(CDS_MODE_SHARE) \in Status
    BY WithModeType DEF Modes
  <2> DEFINE refused == \/ ModeOutcome(CDS_MODE_SHARE) # "ok"
                        \/ cds_status.archive_header
  <2>2. CASE refused
    BY <1>4, <2>1, <2>2, ReturnCall DEF LoadArchive, TypeOK
  <2>3. CASE ~ refused
    <3> DEFINE loaded == LoadOutcome(f, ok) = "ok"
    <3>1. cds_status' = [WithMode(CDS_MODE_SHARE) EXCEPT !.archive = TRUE,
                                                         !.archive_fd = NULL_FD,
                                                         !.archive_header = loaded]
      BY <1>4, <2>3 DEF LoadArchive
    <3>2. cds_status' \in Status
      <4> HIDE DEF loaded
      <4>1. NULL_FD \in Int
        BY DEF NULL_FD
      <4>2. loaded \in BOOLEAN
        BY DEF loaded
      <4> QED
        BY <2>1, <3>1, <4>1, <4>2 DEF Status
    <3>3. fds' \in [Fds -> {"free", "other", "archive"}]
      BY <1>4, <2>3, ClosedType DEF LoadArchive, TypeOK
    <3> QED
      BY <1>4, <2>3, <3>2, <3>3, ReturnCall DEF LoadArchive, TypeOK
  <2> QED
    BY <2>2, <2>3
<1>5. ASSUME NEW ok \in BOOLEAN, CreateTruncate(ok) PROVE TypeOK'
  BY <1>5 DEF CreateTruncate, TypeOK, Images, PCs
<1>6. ASSUME NEW ok \in BOOLEAN, CreateMap(ok) PROVE TypeOK'
  <2>1. cds_status' \in Status
    BY <1>6, AfterMapType DEF CreateMap
  <2>2. CASE ok
    BY <1>6, <2>1, <2>2 DEF CreateMap, TypeOK, PCs
  <2>3. CASE ~ ok
    BY <1>6, <2>1, <2>3, ClosedType, ReturnCall DEF CreateMap, TypeOK, PCs
  <2> QED
    BY <2>2, <2>3
<1>7. CASE CreateStampAddr
  <2>1. CASE image = "short"
    BY <1>7, <2>1, DieType DEF CreateStampAddr
  <2>2. CASE image # "short"
    BY <1>7, <2>2 DEF CreateStampAddr, TypeOK, Images, PCs
  <2> QED
    BY <2>1, <2>2
<1>8. CASE CreateStampUsed
  BY <1>8, ReturnCall DEF CreateStampUsed, TypeOK, Images, PCs
<1>9. CASE MoveInCall
  <2> DEFINE refused == ~ DumpBit(cds_status.mode) \/ cds_status.archive_fd = NULL_FD
  <2>1. CASE refused
    BY <1>9, <2>1, ReturnCall DEF MoveInCall, TypeOK
  <2>2. CASE ~ refused /\ mapping = "none"
    BY <1>9, <2>2, DieType DEF MoveInCall
  <2>3. CASE ~ refused /\ mapping # "none"
    <3>1. cds_status' = [cds_status EXCEPT !.move_in_ctx = "live"]
      BY <1>9, <2>3 DEF MoveInCall
    <3>2. cds_status' \in Status
      BY <3>1 DEF TypeOK, Status
    <3> QED
      BY <1>9, <2>3, <3>2 DEF MoveInCall, TypeOK, PCs
  <2> QED
    BY <2>1, <2>2, <2>3
<1>10. CASE MoveInCopied \/ MoveInString \/ MoveInList
  BY <1>10 DEF MoveInCopied, MoveInString, MoveInList, TypeOK, Images, PCs
<1>11. CASE MoveInUnsupported
  BY <1>11 DEF MoveInUnsupported, TypeOK, PCs, Status
<1>12. CASE MoveInHeapFull
  BY <1>12, DieType DEF MoveInHeapFull
<1>13. CASE MoveInFinish
  BY <1>13, ClosedType, ReturnCall DEF MoveInFinish, TypeOK, PCs, Status
<1>14. CASE GetObj
  <2>1. CASE cds_status.archive_header /\ mapping # "none"
    BY <1>14, <2>1, ReturnCall DEF GetObj, TypeOK
  <2>2. CASE ~ (cds_status.archive_header /\ mapping # "none")
    BY <1>14, <2>2, DieType DEF GetObj
  <2> QED
    BY <2>1, <2>2
<1>15. CASE OpenOther \/ CloseOther
  BY <1>15, ReturnCall DEF OpenOther, CloseOther, TypeOK
<1>16. CASE Exit
  BY <1>16, DieType DEF Exit
<1>17. CASE Start
  BY <1>17, ReturnCall DEF Start, TypeOK
<1>18. CASE UNCHANGED vars
  BY <1>18 DEF vars, TypeOK
<1> QED
  BY <1>1, <1>2, <1>3, <1>4, <1>5, <1>6, <1>7, <1>8, <1>9, <1>10, <1>11, <1>12,
     <1>13, <1>14, <1>15, <1>16, <1>17, <1>18 DEF Next

\* The variables of the extension keep their types, and the descriptor table
\* its domain, in every execution.
THEOREM TypeCorrect == Spec => []TypeOK
<1>1. Init => TypeOK
  BY TypeInit
<1>2. TypeOK /\ [Next]_vars => TypeOK'
  BY TypeStep
<1> QED
  BY <1>1, <1>2, PTL DEF Spec

-----------------------------------------------------------------------------
(* One archive per process, one descriptor while it is written. *)

\* A process that claimed an archive mode is granted no other mode.
LEMMA NoSecondMode ==
    ASSUME cds_status.initialized,
           cds_status.mode \in {CDS_MODE_DUMP_ARCHIVE, CDS_MODE_SHARE}, NEW m
    PROVE  ModeOutcome(m) # "ok"
BY DEF ModeOutcome, CDS_MODE_DUMP_ARCHIVE, CDS_MODE_SHARE, CDS_MODE_MANUALLY,
       CDS_MODE_DISABLED

\* The fields of the status a granted mode leaves.
LEMMA WithModeFields ==
    ASSUME TypeOK, NEW m
    PROVE  /\ WithMode(m).initialized = TRUE
           /\ WithMode(m).mode = m
           /\ WithMode(m).archive = cds_status.archive
           /\ WithMode(m).archive_fd = cds_status.archive_fd
           /\ WithMode(m).archive_header = cds_status.archive_header
           /\ WithMode(m).move_in_ctx = cds_status.move_in_ctx
BY DEF TypeOK, Status, WithMode

LEMMA InitFields ==
    /\ InitStatus.archive = FALSE
    /\ InitStatus.archive_header = FALSE
    /\ InitStatus.archive_fd = NULL_FD
    /\ InitStatus.move_in_ctx = "null"
BY DEF InitStatus

\* Nothing is left of a process that ended.
LEMMA DieInv ==
    ASSUME NEW call \in Calls, NEW res, Die(call, res),
           res \notin {"archive already initialized", "archive already loaded"}
    PROVE  Claimed' /\ MappedByPc' /\ ArchiveFd' /\ MappingMatchesMode'
           /\ StaleOnlyAfterMoveIn' /\ RefusedBefore'
<1>1. pc' = "idle" /\ mapping' = "none" /\ fds' = InitFds /\ reply'.res = res
  BY DEF Die, Return
<1>2. /\ cds_status'.archive = FALSE
      /\ cds_status'.archive_header = FALSE
      /\ cds_status'.archive_fd = NULL_FD
  BY InitFields DEF Die
<1>3. Claimed' /\ MappedByPc'
  BY <1>1, <1>2 DEF Claimed, MappedByPc
<1>4. ArchiveFd'
  BY <1>1 DEF ArchiveFd, Writing, InitFds
<1>5. MappingMatchesMode' /\ StaleOnlyAfterMoveIn' /\ RefusedBefore'
  BY <1>1, <1>2 DEF MappingMatchesMode, StaleOnlyAfterMoveIn, RefusedBefore
<1> QED
  BY <1>3, <1>4, <1>5


\* A mode is only granted to a process that has not touched an archive.
LEMMA GrantedIsUntouched ==
    ASSUME Inv, NEW m, ModeOutcome(m) = "ok"
    PROVE  /\ cds_status.archive = FALSE
           /\ cds_status.archive_header = FALSE
           /\ cds_status.archive_fd = NULL_FD
           /\ pc = "idle"
           /\ mapping = "none"
BY NoSecondMode DEF Inv, TypeOK, Status, Claimed, MappingMatchesMode

LEMMA InvInit == Init => Inv
<1> SUFFICES ASSUME Init PROVE Inv
  OBVIOUS
<1>1. TypeOK
  BY TypeInit
<1>2. ArchiveFd
  BY DEF Init, ArchiveFd, Writing, InitFds
<1>3. reply.res = "ok"
  BY DEF Init
<1> QED
  BY <1>1, <1>2, <1>3, InitFields
     DEF Init, Inv, Claimed, MappedByPc, MappingMatchesMode,
         StaleOnlyAfterMoveIn, RefusedBefore

\* A step that only answers a call, and at most changes the verbosity.
SameArchive(s, t) ==
    /\ s.initialized = t.initialized
    /\ s.mode = t.mode
    /\ s.archive = t.archive
    /\ s.archive_fd = t.archive_fd
    /\ s.archive_header = t.archive_header
    /\ s.move_in_ctx = t.move_in_ctx

LEMMA AnswerInv ==
    ASSUME Inv, NEW call, NEW res, Return(call, res),
           res \notin {"archive already initialized", "archive already loaded"},
           SameArchive(cds_status', cds_status), UNCHANGED <<pc, fds, mapping>>
    PROVE  Claimed' /\ MappedByPc' /\ ArchiveFd' /\ MappingMatchesMode'
           /\ StaleOnlyAfterMoveIn' /\ RefusedBefore'
<1>1. reply'.res = res
  BY DEF Return
<1> QED
  BY <1>1 DEF SameArchive, Inv, Claimed, MappedByPc, ArchiveFd, Writing, MappingMatchesMode,
              StaleOnlyAfterMoveIn, RefusedBefore

LEMMA InvStep == Inv /\ [Next]_vars => Inv'
<1> SUFFICES ASSUME Inv, [Next]_vars PROVE Inv'
  OBVIOUS
<1> DEFINE Rest == Claimed /\ MappedByPc /\ ArchiveFd /\ MappingMatchesMode
                   /\ StaleOnlyAfterMoveIn /\ RefusedBefore
<1>1. TypeOK'
  BY TypeStep DEF Inv
<1>2. SUFFICES Rest'
  BY <1>1 DEF Inv
<1>3. TypeOK /\ Rest
  BY DEF Inv
<1> USE DEF Idle
<1>4. ASSUME NEW m \in ModeArgs, SetMode(m) PROVE Rest'
  <2> DEFINE res == IF m = CDS_MODE_SHARE THEN "invalid mode" ELSE ModeOutcome(m)
  <2>1. CASE res = "ok"
    <3>1. ModeOutcome(m) = "ok" /\ cds_status' = WithMode(m)
      BY <1>4, <2>1 DEF SetMode
    <3>2. reply'.res = "ok" /\ UNCHANGED <<pc, fds, mapping>>
      BY <1>4, <2>1 DEF SetMode, Return
    <3>3. /\ cds_status'.archive = FALSE
          /\ cds_status'.archive_header = FALSE
          /\ cds_status'.archive_fd = NULL_FD
      BY <1>3, <3>1, WithModeFields, GrantedIsUntouched
    <3>4. pc = "idle" /\ mapping = "none"
      BY <3>1, GrantedIsUntouched
    <3> QED
      BY <1>3, <3>2, <3>3, <3>4
         DEF Claimed, MappedByPc, ArchiveFd, Writing, MappingMatchesMode,
             StaleOnlyAfterMoveIn, RefusedBefore
  <2>2. CASE res # "ok"
    <3>1. res \notin {"archive already initialized", "archive already loaded"}
      BY DEF ModeOutcome
    <3>2. Return("_set_mode", res) /\ UNCHANGED <<cds_status, pc, fds, mapping>>
      BY <1>4, <2>2 DEF SetMode
    <3>3. SameArchive(cds_status', cds_status)
      BY <3>2 DEF SameArchive
    <3> HIDE DEF res
    <3> QED
      BY <3>1, <3>2, <3>3, AnswerInv
  <2> QED
    BY <2>1, <2>2
<1>5. ASSUME NEW v \in VerboseArgs, SetVerbose(v) PROVE Rest'
  <2>1. SameArchive(cds_status', cds_status)
    BY <1>3, <1>5 DEF SetVerbose, SameArchive, TypeOK, Status
  <2>2. UNCHANGED <<pc, fds, mapping>>
    BY <1>5 DEF SetVerbose
  <2>3. CASE v >= 0 /\ v <= 2
    BY <1>5, <2>1, <2>2, <2>3, AnswerInv DEF SetVerbose
  <2>4. CASE ~ (v >= 0 /\ v <= 2)
    BY <1>5, <2>1, <2>2, <2>4, AnswerInv DEF SetVerbose
  <2> QED
    BY <2>3, <2>4
<1>6. ASSUME NEW f \in Fds \cup {-1}, CreateOpen(f) PROVE Rest'
  <2> DEFINE res == ModeOutcome(CDS_MODE_DUMP_ARCHIVE)
             claimed == WithMode(CDS_MODE_DUMP_ARCHIVE)
  <2>1. CASE res # "ok"
    <3>1. res \notin {"archive already initialized", "archive already loaded"}
      BY DEF ModeOutcome
    <3>2. /\ Return("_create_archive", res)
          /\ UNCHANGED <<cds_status, pc, fds, mapping>>
      BY <1>6, <2>1 DEF CreateOpen
    <3>3. SameArchive(cds_status', cds_status)
      BY <3>2 DEF SameArchive
    <3> HIDE DEF res
    <3> QED
      BY <3>1, <3>2, <3>3, AnswerInv
  <2>2. CASE res = "ok"
    <3>1. /\ cds_status.archive = FALSE
          /\ cds_status.archive_header = FALSE
          /\ cds_status.archive_fd = NULL_FD
          /\ pc = "idle" /\ mapping = "none" /\ mapping' = "none"
      BY <1>6, <2>2, GrantedIsUntouched DEF CreateOpen
    <3>2. /\ claimed \in Status
          /\ claimed.initialized = TRUE
          /\ claimed.mode = CDS_MODE_DUMP_ARCHIVE
          /\ claimed.archive_fd = NULL_FD
          /\ claimed.archive_header = FALSE
      <4>1. CDS_MODE_DUMP_ARCHIVE \in Modes
        BY DEF Modes
      <4> QED
        BY <1>3, <3>1, <4>1, WithModeFields, WithModeType
    <3>3. CASE f > 0
      <4>1. /\ cds_status' = [claimed EXCEPT !.archive = TRUE, !.archive_fd = f]
            /\ fds' = [fds EXCEPT ![f] = "archive"]
            /\ pc' = "opened" /\ reply' = reply
        BY <1>6, <2>2, <3>1, <3>3 DEF CreateOpen
      <4>2. /\ cds_status'.initialized = TRUE
            /\ cds_status'.mode = CDS_MODE_DUMP_ARCHIVE
            /\ cds_status'.archive_fd = f
            /\ cds_status'.archive_header = FALSE
        <5> HIDE DEF claimed
        <5> QED
          BY <3>2, <4>1 DEF Status
      <4>3. f \in Fds \ {0}
        BY <3>3, MaxFdAssumption DEF Fds
      <4>4. ArchiveFd'
        BY <1>3, <3>1, <4>1, <4>2, <4>3 DEF TypeOK, ArchiveFd, Writing
      <4> QED
        BY <1>3, <3>1, <4>1, <4>2, <4>4
           DEF Claimed, MappedByPc, MappingMatchesMode, StaleOnlyAfterMoveIn,
               RefusedBefore
    <3>4. CASE ~ (f > 0)
      <4>1. /\ cds_status' = [claimed EXCEPT !.archive = TRUE]
            /\ UNCHANGED <<fds, pc>>
            /\ Return("_create_archive", "create mmap file failed")
        BY <1>6, <2>2, <3>1, <3>4 DEF CreateOpen
      <4>2. /\ cds_status'.initialized = TRUE
            /\ cds_status'.mode = CDS_MODE_DUMP_ARCHIVE
            /\ cds_status'.archive_fd = NULL_FD
            /\ cds_status'.archive_header = FALSE
        <5> HIDE DEF claimed
        <5> QED
          BY <3>2, <4>1 DEF Status
      <4>3. reply'.res = "create mmap file failed"
        BY <4>1 DEF Return
      <4> QED
        BY <1>3, <3>1, <4>1, <4>2, <4>3
           DEF Claimed, MappedByPc, ArchiveFd, Writing, MappingMatchesMode,
               StaleOnlyAfterMoveIn, RefusedBefore
    <3> QED
      BY <3>3, <3>4
  <2> QED
    BY <2>1, <2>2
<1>7. ASSUME NEW f \in Fds \cup {-1}, NEW ok \in BOOLEAN, LoadArchive(f, ok)
      PROVE  Rest'
  <2> DEFINE res == ModeOutcome(CDS_MODE_SHARE)
             claimed == WithMode(CDS_MODE_SHARE)
             outcome == LoadOutcome(f, ok)
  <2>1. CASE res # "ok"
    <3>1. res \notin {"archive already initialized", "archive already loaded"}
      BY DEF ModeOutcome
    <3>2. /\ Return("_load_archive", res)
          /\ UNCHANGED <<cds_status, pc, fds, mapping>>
      BY <1>7, <2>1 DEF LoadArchive
    <3>3. SameArchive(cds_status', cds_status)
      BY <3>2 DEF SameArchive
    <3> HIDE DEF res
    <3> QED
      BY <3>1, <3>2, <3>3, AnswerInv
  <2>2. CASE res = "ok"
    <3>1. /\ cds_status.archive_header = FALSE
          /\ pc = "idle" /\ mapping = "none"
      BY <2>2, GrantedIsUntouched
    <3>2. /\ claimed \in Status
          /\ claimed.initialized = TRUE
          /\ claimed.mode = CDS_MODE_SHARE
      <4>1. CDS_MODE_SHARE \in Modes
        BY DEF Modes
      <4> QED
        BY <1>3, <4>1, WithModeFields, WithModeType
    <3>3. /\ Return("_load_archive", outcome)
          /\ cds_status' = [claimed EXCEPT !.archive = TRUE, !.archive_fd = NULL_FD,
                                           !.archive_header = outcome = "ok"]
          /\ fds' = IF f <= 0 THEN Closed(NULL_FD) ELSE fds
          /\ mapping' = IF outcome = "ok" THEN "private" ELSE mapping
          /\ pc' = pc
      BY <1>7, <2>2, <3>1 DEF LoadArchive
    <3>4. /\ cds_status'.initialized = TRUE
          /\ cds_status'.mode = CDS_MODE_SHARE
          /\ cds_status'.archive_fd = NULL_FD
          /\ cds_status'.archive_header = (outcome = "ok")
      <4> HIDE DEF claimed, outcome
      <4> QED
        BY <3>2, <3>3 DEF Status
    <3>5. outcome \notin {"archive already initialized", "archive already loaded"}
      BY DEF LoadOutcome
    <3>6. reply'.res = outcome
      BY <3>3 DEF Return
    <3>7. \A g \in Fds : fds'[g] # "archive"
      BY <1>3, <3>1, <3>3 DEF TypeOK, ArchiveFd, Writing, Closed
    <3> HIDE DEF outcome
    <3>8. ArchiveFd'
      BY <3>1, <3>3, <3>7 DEF ArchiveFd, Writing
    <3> QED
      BY <3>1, <3>3, <3>4, <3>5, <3>6, <3>8
         DEF Claimed, MappedByPc, MappingMatchesMode, StaleOnlyAfterMoveIn,
             RefusedBefore, CDS_MODE_SHARE, CDS_MODE_DUMP_ARCHIVE
  <2> QED
    BY <2>1, <2>2
<1>8. ASSUME NEW ok \in BOOLEAN, CreateTruncate(ok) PROVE Rest'
  BY <1>3, <1>8
     DEF CreateTruncate, Claimed, MappedByPc, ArchiveFd, Writing,
         MappingMatchesMode, StaleOnlyAfterMoveIn, RefusedBefore
<1>9. ASSUME NEW ok \in BOOLEAN, CreateMap(ok) PROVE Rest'
  <2>1. /\ pc = "sized" /\ mapping = "none"
        /\ cds_status.archive_header = FALSE
        /\ cds_status.initialized = TRUE
        /\ cds_status.mode = CDS_MODE_DUMP_ARCHIVE
        /\ cds_status.archive_fd \in Fds \ {0}
    BY <1>3, <1>9
       DEF CreateMap, TypeOK, Status, Claimed, MappedByPc, ArchiveFd, Writing
  <2>2. CASE ok
    <3>1. cds_status' = [cds_status EXCEPT !.archive_header = TRUE]
      BY <1>9, <2>2 DEF CreateMap, AfterMap
    <3>2. /\ cds_status'.initialized = TRUE
          /\ cds_status'.mode = CDS_MODE_DUMP_ARCHIVE
          /\ cds_status'.archive_fd = cds_status.archive_fd
          /\ cds_status'.archive_header = TRUE
      BY <1>3, <2>1, <3>1 DEF TypeOK, Status
    <3>3. mapping' = "shared" /\ pc' = "mapped" /\ UNCHANGED <<fds, reply>>
      BY <1>9, <2>2 DEF CreateMap
    <3> QED
      BY <1>3, <2>1, <3>2, <3>3
         DEF Claimed, MappedByPc, ArchiveFd, Writing, MappingMatchesMode,
             StaleOnlyAfterMoveIn, RefusedBefore
  <2>3. CASE ~ ok
    <3>1. cds_status' = [cds_status EXCEPT !.archive_fd = NULL_FD]
      BY <1>9, <2>3 DEF CreateMap, AfterMap
    <3>2. /\ cds_status'.initialized = TRUE
          /\ cds_status'.mode = CDS_MODE_DUMP_ARCHIVE
          /\ cds_status'.archive_header = FALSE
      BY <1>3, <2>1, <3>1 DEF TypeOK, Status
    <3>3. /\ mapping' = "none" /\ pc' = "idle"
          /\ fds' = Closed(cds_status.archive_fd)
          /\ Return("_create_archive", "mmap failed during dump")
      BY <1>9, <2>1, <2>3 DEF CreateMap
    <3>4. reply'.res = "mmap failed during dump"
      BY <3>3 DEF Return
    <3>5. \A g \in Fds : fds'[g] # "archive"
      BY <1>3, <2>1, <3>3 DEF TypeOK, ArchiveFd, Closed
    <3> QED
      BY <3>2, <3>3, <3>4, <3>5
         DEF Claimed, MappedByPc, ArchiveFd, Writing, MappingMatchesMode,
             StaleOnlyAfterMoveIn, RefusedBefore
  <2> QED
    BY <2>2, <2>3
<1>10. ASSUME NEW call \in Calls, NEW res \in {"segmentation fault", "bus error",
                                             "heap full", "ok"}, Die(call, res)
       PROVE  Rest'
  BY <1>10, DieInv
<1>11. CASE CreateStampAddr
  <2>1. CASE image = "short"
    BY <1>10, <1>11, <2>1 DEF CreateStampAddr, Calls
  <2>2. CASE image # "short"
    BY <1>3, <1>11, <2>2
       DEF CreateStampAddr, Claimed, MappedByPc, ArchiveFd, Writing,
           MappingMatchesMode, StaleOnlyAfterMoveIn, RefusedBefore
  <2> QED
    BY <2>1, <2>2
<1>12. CASE CreateStampUsed
  <2>1. reply'.res = "ok"
    BY <1>12 DEF CreateStampUsed, Return
  <2> QED
    BY <1>3, <1>12, <2>1
       DEF CreateStampUsed, Claimed, MappedByPc, ArchiveFd, Writing,
           MappingMatchesMode, StaleOnlyAfterMoveIn, RefusedBefore
<1>13. CASE MoveInCall
  <2>1. CASE ~ DumpBit(cds_status.mode)
    <3>1. SameArchive(cds_status', cds_status)
      BY <1>13, <2>1 DEF MoveInCall, SameArchive
    <3> QED
      BY <1>13, <2>1, <3>1, AnswerInv DEF MoveInCall
  <2>2. CASE DumpBit(cds_status.mode) /\ cds_status.archive_fd = NULL_FD
    <3>1. SameArchive(cds_status', cds_status)
      BY <1>13, <2>2 DEF MoveInCall, SameArchive
    <3> QED
      BY <1>13, <2>2, <3>1, AnswerInv DEF MoveInCall
  <2>3. CASE DumpBit(cds_status.mode) /\ cds_status.archive_fd # NULL_FD
             /\ mapping = "none"
    BY <1>10, <1>13, <2>3 DEF MoveInCall, Calls
  <2>4. CASE DumpBit(cds_status.mode) /\ cds_status.archive_fd # NULL_FD
             /\ mapping # "none"
    <3>1. /\ cds_status' = [cds_status EXCEPT !.move_in_ctx = "live"]
          /\ pc = "idle" /\ pc' = "copying"
          /\ UNCHANGED <<fds, mapping, reply>>
      BY <1>13, <2>4 DEF MoveInCall
    <3>2. /\ cds_status'.initialized = cds_status.initialized
          /\ cds_status'.mode = cds_status.mode
          /\ cds_status'.archive_fd = cds_status.archive_fd
          /\ cds_status'.archive_header = cds_status.archive_header
      BY <1>3, <3>1 DEF TypeOK, Status
    <3>3. mapping = "shared"
      BY <2>4, <1>3
         DEF TypeOK, MappingMatchesMode, Claimed, CDS_MODE_SHARE, CDS_MODE_DUMP_ARCHIVE
    <3> QED
      BY <1>3, <2>4, <3>1, <3>2, <3>3
         DEF Claimed, MappedByPc, ArchiveFd, Writing, MappingMatchesMode,
             StaleOnlyAfterMoveIn, RefusedBefore
  <2> QED
    BY <2>1, <2>2, <2>3, <2>4
<1>14. CASE MoveInCopied \/ MoveInString \/ MoveInList
  BY <1>3, <1>14
     DEF MoveInCopied, MoveInString, MoveInList, Claimed, MappedByPc, ArchiveFd,
         Writing, MappingMatchesMode, StaleOnlyAfterMoveIn, RefusedBefore
<1>15. CASE MoveInUnsupported
  <2>1. SameArchive(cds_status', cds_status)
    BY <1>3, <1>15 DEF MoveInUnsupported, SameArchive, TypeOK, Status
  <2> QED
    BY <1>3, <1>15, <2>1
       DEF MoveInUnsupported, SameArchive, Claimed, MappedByPc, ArchiveFd, Writing,
           MappingMatchesMode, StaleOnlyAfterMoveIn, RefusedBefore
<1>16. CASE MoveInHeapFull
  BY <1>10, <1>16 DEF MoveInHeapFull, Calls
<1>17. CASE MoveInFinish
  <2>1. /\ pc = "copied" /\ mapping = "shared" /\ pc' = "idle" /\ mapping' = "none"
        /\ cds_status.initialized = TRUE
        /\ cds_status.mode = CDS_MODE_DUMP_ARCHIVE
        /\ cds_status.archive_fd \in Fds \ {0}
    BY <1>3, <1>17 DEF MoveInFinish, TypeOK, Status, Claimed, MappedByPc, ArchiveFd,
                       Writing
  <2>2. /\ cds_status'.initialized = TRUE
        /\ cds_status'.mode = CDS_MODE_DUMP_ARCHIVE
        /\ cds_status'.archive_fd = cds_status.archive_fd
        /\ cds_status'.move_in_ctx = "freed"
    BY <1>3, <1>17, <2>1 DEF MoveInFinish, TypeOK, Status
  <2>3. \A g \in Fds : fds'[g] # "archive"
    BY <1>3, <1>17, <2>1 DEF MoveInFinish, TypeOK, ArchiveFd, Closed
  <2>4. RefusedBefore'
    BY <1>17 DEF MoveInFinish, Return, RefusedBefore
  <2> QED
    BY <2>1, <2>2, <2>3, <2>4
       DEF Claimed, MappedByPc, ArchiveFd, Writing, MappingMatchesMode,
           StaleOnlyAfterMoveIn, NULL_FD
<1>18. CASE GetObj
  <2>1. CASE cds_status.archive_header /\ mapping # "none"
    <3> DEFINE res == IF image = "empty" THEN "No object in heap" ELSE "object"
    <3>1. /\ Return("_get_obj", res)
          /\ UNCHANGED <<cds_status, pc, fds, mapping>>
      BY <1>18, <2>1 DEF GetObj
    <3>2. res \notin {"archive already initialized", "archive already loaded"}
      OBVIOUS
    <3>3. SameArchive(cds_status', cds_status)
      BY <3>1 DEF SameArchive
    <3> HIDE DEF res
    <3> QED
      BY <3>1, <3>2, <3>3, AnswerInv
  <2>2. CASE ~ (cds_status.archive_header /\ mapping # "none")
    BY <1>10, <1>18, <2>2 DEF GetObj, Calls
  <2> QED
    BY <2>1, <2>2
<1>19. CASE OpenOther
  <2>1. \A g \in Fds : fds'[g] = "archive" <=> fds[g] = "archive"
    BY <1>3, <1>19 DEF OpenOther, TypeOK, Opens, Fds
  <2> QED
    BY <1>3, <1>19, <2>1
       DEF OpenOther, Claimed, MappedByPc, ArchiveFd, Writing, MappingMatchesMode,
           StaleOnlyAfterMoveIn, RefusedBefore
<1>20. CASE CloseOther
  <2>1. \A g \in Fds : fds'[g] = "archive" <=> fds[g] = "archive"
    BY <1>3, <1>20 DEF CloseOther, TypeOK
  <2>2. RefusedBefore'
    BY <1>20 DEF CloseOther, Return, RefusedBefore
  <2> QED
    BY <1>3, <1>20, <2>1, <2>2
       DEF CloseOther, Claimed, MappedByPc, ArchiveFd, Writing, MappingMatchesMode,
           StaleOnlyAfterMoveIn
<1>21. CASE Exit
  BY <1>10, <1>21 DEF Exit, Calls
<1>22. CASE Start
  <2>1. RefusedBefore'
    BY <1>22 DEF Start, Return, RefusedBefore
  <2> QED
    BY <1>3, <1>22, <2>1
       DEF Start, Claimed, MappedByPc, ArchiveFd, Writing, MappingMatchesMode,
           StaleOnlyAfterMoveIn
<1>23. CASE UNCHANGED vars
  BY <1>3, <1>23
     DEF vars, Claimed, MappedByPc, ArchiveFd, Writing, MappingMatchesMode,
         StaleOnlyAfterMoveIn, RefusedBefore
<1> QED
  BY <1>4, <1>5, <1>6, <1>7, <1>8, <1>9, <1>11, <1>12, <1>13, <1>14, <1>15, <1>16,
     <1>17, <1>18, <1>19, <1>20, <1>21, <1>22, <1>23 DEF Next

LEMMA InvCorrect == Spec => []Inv
<1>1. Init => Inv
  BY InvInit
<1>2. Inv /\ [Next]_vars => Inv'
  BY InvStep
<1> QED
  BY <1>1, <1>2, PTL DEF Spec

\* In every execution a process works on one archive at most, and never runs
\* into the checks that would refuse a second one.
THEOREM OneArchive == Spec => []OneArchivePerProcess
<1>1. Inv => OneArchivePerProcess
  BY DEF Inv, Claimed, RefusedBefore, OneArchivePerProcess, TypeOK, Status
<1> QED
  BY <1>1, InvCorrect, PTL

\* Whatever fails, the archive's descriptor is open between two calls exactly
\* while a dump waits for its _move_in, and archive_fd names it.
THEOREM NoLeak == Spec => []NoDescriptorLeak
<1>1. Inv => NoDescriptorLeak
  BY DEF Inv, ArchiveFd, Writing, NoDescriptorLeak, Idle
<1> QED
  BY <1>1, InvCorrect, PTL

\* The mapping always is the one the mode calls for.
THEOREM MappingMode == Spec => []MappingMatchesMode
<1>1. Inv => MappingMatchesMode
  BY DEF Inv
<1> QED
  BY <1>1, InvCorrect, PTL

\* The header and the descriptor number are stale only after a finished
\* _move_in.
THEOREM StaleHandles == Spec => []StaleOnlyAfterMoveIn
<1>1. Inv => StaleOnlyAfterMoveIn
  BY DEF Inv
<1> QED
  BY <1>1, InvCorrect, PTL


\* The step of ForeignFdsKept.
KeepsForeignFds ==
    \A f \in Fds \ {0} :
        fds[f] = "other" /\ fds'[f] # "other" /\ alive' => reply'.call = "close"

LEMMA KeepStep == Inv /\ Next => KeepsForeignFds
<1> SUFFICES ASSUME Inv, Next PROVE KeepsForeignFds
  OBVIOUS
<1>1. /\ fds \in [Fds -> {"free", "other", "archive"}]
      /\ ArchiveFd /\ MappedByPc
  BY DEF Inv, TypeOK
<1>2. ASSUME UNCHANGED fds PROVE KeepsForeignFds
  BY <1>2 DEF KeepsForeignFds
<1>3. ASSUME alive' = FALSE PROVE KeepsForeignFds
  BY <1>3 DEF KeepsForeignFds
<1>4. ASSUME NEW m \in ModeArgs, SetMode(m) PROVE KeepsForeignFds
  BY <1>2, <1>4 DEF SetMode
<1>5. ASSUME NEW v \in VerboseArgs, SetVerbose(v) PROVE KeepsForeignFds
  BY <1>2, <1>5 DEF SetVerbose
<1>6. ASSUME NEW f \in Fds \cup {-1}, CreateOpen(f) PROVE KeepsForeignFds
  <2>1. CASE UNCHANGED fds
    BY <1>2, <2>1
  <2>2. CASE ~ UNCHANGED fds
    <3> DEFINE refused == \/ ModeOutcome(CDS_MODE_DUMP_ARCHIVE) # "ok"
                          \/ cds_status.archive
                          \/ cds_status.archive_fd # NULL_FD
                          \/ cds_status.archive_header
    <3>0. ~ refused
      BY <1>6, <2>2 DEF CreateOpen
    <3>1. f > 0 /\ fds' = [fds EXCEPT ![f] = "archive"]
      <4>1. CASE f > 0
        BY <1>6, <3>0, <4>1 DEF CreateOpen
      <4>2. CASE ~ (f > 0)
        BY <1>6, <2>2, <3>0, <4>2 DEF CreateOpen
      <4> QED
        BY <4>1, <4>2
    <3>2. fds[f] = "free"
      <4>1. Opens(f)
        BY <1>6 DEF CreateOpen
      <4> QED
        BY <3>1, <4>1, MaxFdAssumption DEF Opens, Fds
    <3> QED
      BY <1>1, <3>1, <3>2 DEF KeepsForeignFds
  <2> QED
    BY <2>1, <2>2
<1>7. ASSUME NEW f \in Fds \cup {-1}, NEW ok \in BOOLEAN, LoadArchive(f, ok)
      PROVE  KeepsForeignFds
  <2>1. fds' = fds \/ fds' = Closed(NULL_FD)
    BY <1>7 DEF LoadArchive
  <2> QED
    BY <1>1, <2>1 DEF KeepsForeignFds, Closed, NULL_FD
<1>8. ASSUME NEW ok \in BOOLEAN, CreateTruncate(ok) \/ CreateMap(ok)
      PROVE  KeepsForeignFds
  <2>1. fds' = fds \/ (pc = "sized" /\ fds' = Closed(cds_status.archive_fd))
    BY <1>8 DEF CreateTruncate, CreateMap
  <2> QED
    BY <1>1, <2>1 DEF KeepsForeignFds, Closed, ArchiveFd, Writing
<1>9. CASE CreateStampAddr \/ CreateStampUsed
  BY <1>2, <1>3, <1>9 DEF CreateStampAddr, CreateStampUsed, Die
<1>10. CASE MoveInCall
  BY <1>2, <1>3, <1>10 DEF MoveInCall, Die
<1>11. CASE MoveInCopied \/ MoveInString \/ MoveInList \/ MoveInUnsupported
  BY <1>2, <1>11 DEF MoveInCopied, MoveInString, MoveInList, MoveInUnsupported
<1>12. CASE MoveInFinish
  <2>1. mapping = "shared" /\ fds' = Closed(cds_status.archive_fd)
    BY <1>1, <1>12 DEF MoveInFinish, MappedByPc
  <2> QED
    BY <1>1, <2>1 DEF KeepsForeignFds, Closed, ArchiveFd, Writing
<1>13. CASE GetObj
  BY <1>2, <1>3, <1>13 DEF GetObj, Die
<1>14. CASE OpenOther
  BY <1>1, <1>14 DEF OpenOther, KeepsForeignFds
<1>15. CASE CloseOther
  BY <1>15 DEF CloseOther, KeepsForeignFds, Return
<1>16. CASE MoveInHeapFull \/ Exit
  BY <1>3, <1>16 DEF MoveInHeapFull, Exit, Die
<1>17. CASE Start
  BY <1>2, <1>17 DEF Start
<1> QED
  BY <1>4, <1>5, <1>6, <1>7, <1>8, <1>9, <1>10, <1>11, <1>12, <1>13, <1>14, <1>15,
     <1>16, <1>17 DEF Next

\* No method closes a descriptor above 0 that the rest of the program opened.
THEOREM ForeignFds == Spec => ForeignFdsKept
<1>1. Inv /\ [Next]_vars => [KeepsForeignFds]_vars
  BY KeepStep
<1> QED
  BY <1>1, InvCorrect, PTL DEF Spec, ForeignFdsKept, KeepsForeignFds

-----------------------------------------------------------------------------
(* The mode, once claimed, is final. *)

\* The step of ModeIsFinal.
KeepsMode ==
    alive' /\ cds_status.initialized /\ cds_status.mode # CDS_MODE_MANUALLY =>
        \/ cds_status'.mode = cds_status.mode
        \/ /\ cds_status.mode = CDS_MODE_DISABLED
           /\ cds_status'.mode = CDS_MODE_DUMP_ARCHIVE

LEMMA GrantKeepsMode ==
    ASSUME NEW m, ModeOutcome(m) = "ok", cds_status'.mode = m
    PROVE  KeepsMode
BY DEF ModeOutcome, KeepsMode

LEMMA ModeStep == Inv /\ Next => KeepsMode
<1> SUFFICES ASSUME Inv, Next PROVE KeepsMode
  OBVIOUS
<1>1. TypeOK
  BY DEF Inv
<1>2. ASSUME cds_status'.mode = cds_status.mode PROVE KeepsMode
  BY <1>2 DEF KeepsMode
<1>3. ASSUME alive' = FALSE PROVE KeepsMode
  BY <1>3 DEF KeepsMode
<1>4. ASSUME NEW m \in ModeArgs, SetMode(m) PROVE KeepsMode
  <2> DEFINE res == IF m = CDS_MODE_SHARE THEN "invalid mode" ELSE ModeOutcome(m)
  <2>1. CASE res = "ok"
    <3>1. ModeOutcome(m) = "ok" /\ cds_status' = WithMode(m)
      BY <1>4, <2>1 DEF SetMode
    <3> QED
      BY <1>1, <3>1, WithModeFields, GrantKeepsMode
  <2>2. CASE res # "ok"
    BY <1>2, <1>4, <2>2 DEF SetMode
  <2> QED
    BY <2>1, <2>2
<1>5. ASSUME NEW v \in VerboseArgs, SetVerbose(v) PROVE KeepsMode
  BY <1>1, <1>2, <1>5 DEF SetVerbose, TypeOK, Status
<1>6. ASSUME NEW f \in Fds \cup {-1}, CreateOpen(f) PROVE KeepsMode
  <2> DEFINE claimed == WithMode(CDS_MODE_DUMP_ARCHIVE)
  <2>1. claimed \in Status /\ claimed.mode = CDS_MODE_DUMP_ARCHIVE
    BY <1>1, WithModeFields, WithModeType DEF Modes
  <2>2. CASE ModeOutcome(CDS_MODE_DUMP_ARCHIVE) # "ok"
    BY <1>2, <1>6, <2>2 DEF CreateOpen
  <2>3. CASE ModeOutcome(CDS_MODE_DUMP_ARCHIVE) = "ok"
    <3>1. \/ cds_status' = claimed
          \/ cds_status' = [claimed EXCEPT !.archive = TRUE, !.archive_fd = f]
          \/ cds_status' = [claimed EXCEPT !.archive = TRUE]
      BY <1>6, <2>3 DEF CreateOpen
    <3>2. cds_status'.mode = CDS_MODE_DUMP_ARCHIVE
      <4> HIDE DEF claimed
      <4> QED
        BY <2>1, <3>1 DEF Status
    <3> QED
      BY <2>3, <3>2, GrantKeepsMode
  <2> QED
    BY <2>2, <2>3
<1>7. ASSUME NEW f \in Fds \cup {-1}, NEW ok \in BOOLEAN, LoadArchive(f, ok)
      PROVE  KeepsMode
  <2> DEFINE claimed == WithMode(CDS_MODE_SHARE)
             loaded == LoadOutcome(f, ok) = "ok"
  <2>1. claimed \in Status /\ claimed.mode = CDS_MODE_SHARE
    BY <1>1, WithModeFields, WithModeType DEF Modes
  <2>2. CASE ModeOutcome(CDS_MODE_SHARE) # "ok"
    BY <1>2, <1>7, <2>2 DEF LoadArchive
  <2>3. CASE ModeOutcome(CDS_MODE_SHARE) = "ok"
    <3>1. \/ cds_status' = claimed
          \/ cds_status' = [claimed EXCEPT !.archive = TRUE, !.archive_fd = NULL_FD,
                                           !.archive_header = loaded]
      BY <1>7, <2>3 DEF LoadArchive
    <3>2. cds_status'.mode = CDS_MODE_SHARE
      <4> HIDE DEF claimed, loaded
      <4> QED
        BY <2>1, <3>1 DEF Status
    <3> QED
      BY <2>3, <3>2, GrantKeepsMode
  <2> QED
    BY <2>2, <2>3
<1>8. ASSUME NEW ok \in BOOLEAN, CreateTruncate(ok) \/ CreateMap(ok)
      PROVE  KeepsMode
  BY <1>1, <1>2, <1>8 DEF CreateTruncate, CreateMap, AfterMap, TypeOK, Status
<1>9. CASE CreateStampAddr \/ CreateStampUsed
  BY <1>2, <1>3, <1>9 DEF CreateStampAddr, CreateStampUsed, Die
<1>10. CASE MoveInCall
  BY <1>1, <1>2, <1>3, <1>10 DEF MoveInCall, Die, TypeOK, Status
<1>11. CASE MoveInCopied \/ MoveInString \/ MoveInList
  BY <1>2, <1>11 DEF MoveInCopied, MoveInString, MoveInList
<1>12. CASE MoveInUnsupported \/ MoveInFinish
  BY <1>1, <1>2, <1>12 DEF MoveInUnsupported, MoveInFinish, TypeOK, Status
<1>13. CASE GetObj
  BY <1>2, <1>3, <1>13 DEF GetObj, Die
<1>14. CASE OpenOther \/ CloseOther \/ Start
  BY <1>2, <1>14 DEF OpenOther, CloseOther, Start
<1>15. CASE MoveInHeapFull \/ Exit
  BY <1>3, <1>15 DEF MoveInHeapFull, Exit, Die
<1> QED
  BY <1>4, <1>5, <1>6, <1>7, <1>8, <1>9, <1>10, <1>11, <1>12, <1>13, <1>14, <1>15
     DEF Next

\* A process that traces, dumps or shares keeps its mode, and a disabled one
\* can only become a dumper.
THEOREM ModeFinal == Spec => ModeIsFinal
<1>1. Inv /\ [Next]_vars => [KeepsMode]_vars
  BY ModeStep
<1> QED
  BY <1>1, InvCorrect, PTL DEF Spec, ModeIsFinal, KeepsMode

-----------------------------------------------------------------------------
(* What a call that succeeds says about the archive file: no load accepts    *)
(* what a killed or failed dump left, and no object is handed out before it  *)
(* was published.                                                            *)


Stamped == {"empty", "unlisted", "full"}        \* the header is complete
Published == {"unlisted", "full"}               \* and so is its object
Creating == {"opened", "sized", "mapped", "stamped"}

LoadReply == [call |-> "_load_archive", res |-> "ok"]
ObjectReply == [call |-> "_get_obj", res |-> "object"]

\* Only the process that created it maps a file without a complete header,
\* and it has not returned from _create_archive.
MappedIsStamped == mapping # "none" /\ pc \notin {"mapped", "stamped"} =>
                       image \in Stamped

\* A process that was told so keeps its header, so that it cannot begin
\* another archive: what it was told stays true until it is told something
\* else.
AnswerHolds ==
    /\ reply = LoadReply => /\ cds_status.archive_header
                         /\ pc \notin Creating /\ image \in Stamped
    /\ reply = ObjectReply => /\ cds_status.archive_header
                         /\ pc \notin Creating /\ image \in Published

ImageInv == MappedIsStamped /\ AnswerHolds

LEMMA ReturnQuiet ==
    ASSUME NEW call, NEW res, Return(call, res),
           call = "_load_archive" => res # "ok",
           call = "_get_obj" => res # "object"
    PROVE  reply' # LoadReply /\ reply' # ObjectReply
<1>1. reply'.call = call /\ reply'.res = res
  BY DEF Return
<1>2. /\ LoadReply.call = "_load_archive" /\ LoadReply.res = "ok"
      /\ ObjectReply.call = "_get_obj" /\ ObjectReply.res = "object"
  BY DEF LoadReply, ObjectReply
<1> QED
  BY <1>1, <1>2

\* A call that says nothing of the file and leaves it alone.
LEMMA QuietImage ==
    ASSUME ImageInv, NEW call, NEW res, Return(call, res),
           call = "_load_archive" => res # "ok",
           call = "_get_obj" => res # "object",
           UNCHANGED <<mapping, image>>,
           pc' \in {"mapped", "stamped"} <=> pc \in {"mapped", "stamped"}
    PROVE  ImageInv'
BY ReturnQuiet DEF ImageInv, MappedIsStamped, AnswerHolds

\* A process that ended maps nothing and was told nothing.
LEMMA DieImage ==
    ASSUME NEW call, NEW res, Die(call, res),
           call = "_load_archive" => res # "ok",
           call = "_get_obj" => res # "object"
    PROVE  ImageInv'
<1>1. Return(call, res) /\ mapping' = "none"
  BY DEF Die
<1> QED
  BY <1>1, ReturnQuiet DEF ImageInv, MappedIsStamped, AnswerHolds

LEMMA ImageInit == Init => ImageInv
BY DEF Init, ImageInv, MappedIsStamped, AnswerHolds, LoadReply, ObjectReply

LEMMA CreateOpenImage ==
    ASSUME Inv, ImageInv, NEW f \in Fds \cup {-1}, CreateOpen(f)
    PROVE  ImageInv'
<1> DEFINE granted == ModeOutcome(CDS_MODE_DUMP_ARCHIVE)
           used == \/ cds_status.archive
                   \/ cds_status.archive_fd # NULL_FD
                   \/ cds_status.archive_header
<1>0. pc = "idle" /\ UNCHANGED mapping
  BY DEF CreateOpen, Idle
<1>1. CASE granted # "ok" \/ used
  <2> DEFINE res == IF granted # "ok" THEN granted ELSE "archive already initialized"
  <2>1. Return("_create_archive", res) /\ UNCHANGED <<pc, image>>
    BY <1>1 DEF CreateOpen
  <2> HIDE DEF res
  <2> QED
    BY <1>0, <2>1, QuietImage
<1>2. CASE granted = "ok" /\ ~ used
  <2>1. ~ cds_status.archive_header /\ mapping = "none"
    BY <1>2, GrantedIsUntouched
  <2>2. reply # LoadReply /\ reply # ObjectReply
    BY <2>1 DEF ImageInv, AnswerHolds
  <2>3. \/ UNCHANGED reply
        \/ Return("_create_archive", "create mmap file failed")
    BY <1>2 DEF CreateOpen
  <2>4. reply' # LoadReply /\ reply' # ObjectReply
    BY <2>2, <2>3, ReturnQuiet
  <2> QED
    BY <1>0, <2>1, <2>4 DEF ImageInv, MappedIsStamped, AnswerHolds
<1> QED
  BY <1>1, <1>2

LEMMA LoadImage ==
    ASSUME Inv, ImageInv, NEW f \in Fds \cup {-1}, NEW ok \in BOOLEAN,
           LoadArchive(f, ok)
    PROVE  ImageInv'
<1> DEFINE granted == ModeOutcome(CDS_MODE_SHARE)
           outcome == LoadOutcome(f, ok)
<1>0. pc = "idle" /\ UNCHANGED <<pc, image>>
  BY DEF LoadArchive, Idle
<1>1. CASE granted # "ok" \/ cds_status.archive_header
  <2> DEFINE res == IF granted # "ok" THEN granted ELSE "archive already loaded"
  <2>1. Return("_load_archive", res) /\ UNCHANGED mapping
    BY <1>1 DEF LoadArchive
  <2>2. res # "ok"
    OBVIOUS
  <2> HIDE DEF res
  <2> QED
    BY <1>0, <2>1, <2>2, QuietImage
<1>2. CASE granted = "ok" /\ ~ cds_status.archive_header
  <2>1. /\ Return("_load_archive", outcome)
        /\ mapping' = IF outcome = "ok" THEN "private" ELSE mapping
        /\ cds_status' = [WithMode(CDS_MODE_SHARE) EXCEPT
                              !.archive = TRUE, !.archive_fd = NULL_FD,
                              !.archive_header = outcome = "ok"]
    BY <1>2 DEF LoadArchive
  <2>2. CASE outcome # "ok"
    BY <1>0, <2>1, <2>2, QuietImage
  <2>3. CASE outcome = "ok"
    <3>1. image \in Stamped
      <4>1. f > 0 /\ image \notin {"short", "blank", "unsized"}
        <5>1. f \in Int
          BY MaxFdAssumption DEF Fds
        <5> QED
          BY <2>3, <5>1 DEF LoadOutcome
      <4>2. image # "absent"
        <5>1. image = "absent" => f = -1
          BY DEF LoadArchive
        <5> QED
          BY <4>1, <5>1
      <4> QED
        BY <4>1, <4>2 DEF Inv, TypeOK, Images, Stamped
    <3>2. cds_status'.archive_header
      <4>1. WithMode(CDS_MODE_SHARE) \in Status
        BY WithModeType DEF Inv, Modes
      <4> DEFINE w == WithMode(CDS_MODE_SHARE)
                 yes == outcome = "ok"
      <4>2. yes
        BY <2>3
      <4>3. cds_status' = [w EXCEPT !.archive = TRUE, !.archive_fd = NULL_FD,
                                    !.archive_header = yes]
        BY <2>1
      <4> HIDE DEF w, yes
      <4> QED
        BY <4>1, <4>2, <4>3 DEF Status, w
    <3>3. reply' = LoadReply
      BY <2>1, <2>3 DEF Return, LoadReply
    <3>4. reply' # ObjectReply
      BY <3>3 DEF LoadReply, ObjectReply
    <3> QED
      BY <1>0, <3>1, <3>2, <3>4
         DEF ImageInv, MappedIsStamped, AnswerHolds, Creating
  <2> QED
    BY <2>2, <2>3
<1> QED
  BY <1>1, <1>2

LEMMA GetObjImage == ASSUME Inv, ImageInv, GetObj PROVE ImageInv'
<1>1. CASE ~ (cds_status.archive_header /\ mapping # "none")
  BY <1>1, DieImage DEF GetObj
<1>2. CASE cds_status.archive_header /\ mapping # "none"
  <2>1. pc = "idle" /\ UNCHANGED <<cds_status, pc, mapping, image>>
    BY <1>2 DEF GetObj, Idle
  <2>2. image \in Stamped
    BY <1>2, <2>1 DEF ImageInv, MappedIsStamped
  <2>3. CASE image = "empty"
    <3>1. Return("_get_obj", "No object in heap")
      BY <1>2, <2>3 DEF GetObj
    <3> QED
      BY <2>1, <3>1, QuietImage
  <2>4. CASE image # "empty"
    <3>1. reply' # LoadReply
      BY <1>2, <2>4 DEF GetObj, Return, LoadReply
    <3>2. image \in Published
      BY <2>2, <2>4 DEF Stamped, Published
    <3> QED
      BY <1>2, <2>1, <2>2, <3>1, <3>2
         DEF ImageInv, MappedIsStamped, AnswerHolds, Creating
  <2> QED
    BY <2>3, <2>4
<1> QED
  BY <1>1, <1>2

LEMMA ImageStep == Inv /\ ImageInv /\ [Next]_vars => ImageInv'
<1> SUFFICES ASSUME Inv, ImageInv, [Next]_vars PROVE ImageInv'
  OBVIOUS
<1>1. TypeOK /\ MappedByPc
  BY DEF Inv
<1>2. ASSUME NEW m \in ModeArgs, SetMode(m) PROVE ImageInv'
  <2>1. PICK res : Return("_set_mode", res)
    BY <1>2 DEF SetMode
  <2> QED
    BY <1>2, <2>1, QuietImage DEF SetMode
<1>3. ASSUME NEW v \in VerboseArgs, SetVerbose(v) PROVE ImageInv'
  <2>1. PICK res : Return("_set_verbose", res)
    BY <1>3 DEF SetVerbose
  <2> QED
    BY <1>3, <2>1, QuietImage DEF SetVerbose
<1>4. ASSUME NEW f \in Fds \cup {-1}, CreateOpen(f) PROVE ImageInv'
  BY <1>4, CreateOpenImage
<1>5. ASSUME NEW f \in Fds \cup {-1}, NEW ok \in BOOLEAN, LoadArchive(f, ok)
      PROVE  ImageInv'
  BY <1>5, LoadImage
<1>6. ASSUME NEW ok \in BOOLEAN, CreateTruncate(ok) PROVE ImageInv'
  BY <1>1, <1>6
     DEF CreateTruncate, MappedByPc, ImageInv, MappedIsStamped, AnswerHolds, Creating
<1>7. ASSUME NEW ok \in BOOLEAN, CreateMap(ok) PROVE ImageInv'
  <2>1. pc = "sized" /\ mapping = "none" /\ UNCHANGED image
    BY <1>1, <1>7 DEF CreateMap, MappedByPc
  <2>2. CASE ok
    BY <1>7, <2>1, <2>2
       DEF CreateMap, ImageInv, MappedIsStamped, AnswerHolds, Creating
  <2>3. CASE ~ ok
    BY <1>7, <2>1, <2>3, QuietImage DEF CreateMap
  <2> QED
    BY <2>2, <2>3
<1>8. CASE CreateStampAddr
  <2>1. CASE image = "short"
    BY <1>8, <2>1, DieImage DEF CreateStampAddr
  <2>2. CASE image # "short"
    BY <1>8, <2>2
       DEF CreateStampAddr, ImageInv, MappedIsStamped, AnswerHolds, Creating
  <2> QED
    BY <2>1, <2>2
<1>9. CASE CreateStampUsed
  <2>1. reply' # LoadReply /\ reply' # ObjectReply
    BY <1>9, ReturnQuiet DEF CreateStampUsed
  <2> QED
    BY <1>9, <2>1
       DEF CreateStampUsed, ImageInv, MappedIsStamped, AnswerHolds, Stamped
<1>10. CASE MoveInCall
  <2>1. CASE Die("_move_in", "segmentation fault")
    BY <2>1, DieImage
  <2>2. CASE pc' = "copying"
    <3>1. /\ cds_status' = [cds_status EXCEPT !.move_in_ctx = "live"]
          /\ pc = "idle" /\ UNCHANGED <<mapping, image, reply>>
      BY <1>10, <2>2 DEF MoveInCall, Idle, Die
    <3>2. cds_status'.archive_header = cds_status.archive_header
      BY <1>1, <3>1 DEF TypeOK, Status
    <3> QED
      BY <2>2, <3>1, <3>2 DEF ImageInv, MappedIsStamped, AnswerHolds, Creating
  <2>3. CASE \E res : Return("_move_in", res) /\ UNCHANGED <<pc, mapping, image>>
    BY <2>3, QuietImage
  <2> QED
    BY <1>10, <2>1, <2>2, <2>3 DEF MoveInCall
<1>11. CASE MoveInCopied \/ MoveInString \/ MoveInList
  BY <1>11
     DEF MoveInCopied, MoveInString, MoveInList, ImageInv, MappedIsStamped,
         AnswerHolds, Stamped, Published, Creating
<1>12. CASE MoveInUnsupported
  <2>1. cds_status'.archive_header = cds_status.archive_header
    BY <1>1, <1>12 DEF MoveInUnsupported, TypeOK, Status
  <2> QED
    BY <1>12, <2>1
       DEF MoveInUnsupported, ImageInv, MappedIsStamped, AnswerHolds, Creating
<1>13. CASE MoveInHeapFull
  BY <1>13, DieImage DEF MoveInHeapFull
<1>14. CASE MoveInFinish
  <2>1. PICK res : Return("_move_in", res)
    BY <1>14 DEF MoveInFinish
  <2>2. reply' # LoadReply /\ reply' # ObjectReply
    BY <2>1, ReturnQuiet
  <2> QED
    BY <1>14, <2>2 DEF MoveInFinish, ImageInv, MappedIsStamped, AnswerHolds
<1>15. CASE GetObj
  BY <1>15, GetObjImage
<1>16. CASE OpenOther
  BY <1>16 DEF OpenOther, ImageInv, MappedIsStamped, AnswerHolds
<1>17. CASE CloseOther
  BY <1>17, QuietImage DEF CloseOther
<1>18. CASE Exit
  BY <1>18, DieImage DEF Exit
<1>19. CASE Start
  BY <1>19, QuietImage DEF Start
<1>20. CASE UNCHANGED vars
  BY <1>20 DEF vars, ImageInv, MappedIsStamped, AnswerHolds
<1> QED
  BY <1>2, <1>3, <1>4, <1>5, <1>6, <1>7, <1>8, <1>9, <1>10, <1>11, <1>12, <1>13,
     <1>14, <1>15, <1>16, <1>17, <1>18, <1>19, <1>20 DEF Next

\* Whatever earlier dumps left in the file and wherever they were killed, a
\* load that succeeded found a complete header, and an object that was handed
\* out had been published.
THEOREM CompleteLoads == Spec => []LoadOnlyComplete
<1>1. Init => Inv /\ ImageInv
  BY InvInit, ImageInit
<1>2. Inv /\ ImageInv /\ [Next]_vars => (Inv /\ ImageInv)'
  BY InvStep, ImageStep
<1>3. ImageInv => LoadOnlyComplete
  BY DEF ImageInv, AnswerHolds, LoadOnlyComplete, LoadReply, ObjectReply, Stamped,
         Published
<1> QED
  BY <1>1, <1>2, <1>3, PTL DEF Spec
=============================================================================
