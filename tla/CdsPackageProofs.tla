--------------------------- MODULE CdsPackageProofs ---------------------------
(***************************************************************************)
(* Proofs about CdsPackage, for every set of environments and every number *)
(* of descriptors: the package is one of the clients of CdsStatus, it      *)
(* never meets a stale handle, and a process has one role.                 *)
(***************************************************************************)
EXTENDS CdsPackage, CdsStatusProofs

\* The archive is mapped, and stays so as long as the process lives.
Serving == /\ cds_status.initialized
           /\ cds_status.mode = CDS_MODE_SHARE
           /\ cds_status.archive_header
           /\ mapping = "private"

Tracing == cds_status.initialized /\ cds_status.mode = CDS_MODE_DUMP_LIST

\* The package moves in no string, so that an object is published at once.
NoString == pc # "listing" /\ image # "unlisted"

\* A role, and every point of a function on the way to it, stands for a mode
\* that no other function is granted.
RoleInv ==
    /\ finder \in {0, 1} /\ tracer \in {0, 1}
    /\ at # "outside" => alive
    /\ alive /\ (finder = 1 \/ at \in {"root", "dict"}) => Serving
    /\ alive /\ (finder = 1 \/ at = "dict") => image = "full"
    /\ alive /\ (tracer = 1 \/ at = "list") => Tracing
    /\ at \in {"root", "dict"} => finder = 0
    /\ at = "list" => tracer = 0
    /\ at = "move" => mapping # "none"

PackageInv == /\ Inv /\ ImageInv
              /\ env \in Environments
              /\ NoString
              /\ reply.res # "segmentation fault"
              /\ RoleInv

-----------------------------------------------------------------------------
(* The package is one of the clients of the extension. *)

LEMMA ClientStep ==
    ASSUME env \in Environments, [NextPackage]_<<statusVars, pyVars>>
    PROVE  [Next]_vars /\ (env \in Environments)'
<1> USE DEF Goto, Leave, Then, ThenLeave
<1>1. ASSUME NEW f \in Functions, Call(f) PROVE UNCHANGED vars /\ UNCHANGED env
  BY <1>1 DEF Call, statusVars, vars
<1>2. CASE Enter \/ ChooseRole \/ DumpFails
  <2>1. UNCHANGED vars /\ UNCHANGED env
    BY <1>2 DEF Enter, ChooseRole, DumpFails, statusVars, vars
  <2> QED
    BY <2>1
<1>3. CASE Verbosity
  <2>1. env.verbose \in VerboseArgs
    BY EnvironmentsAssumption
  <2>2. SetVerbose(env.verbose) \/ UNCHANGED vars
    BY <1>3 DEF Verbosity, statusVars, vars
  <2>3. UNCHANGED env
    BY <1>3 DEF Verbosity
  <2> QED
    BY <2>1, <2>2, <2>3 DEF Next
<1>4. CASE ChooseMode \/ ClaimTrace
  <2>1. \E m \in ModeArgs : SetMode(m)
    BY <1>4, PackageModes DEF ChooseMode, ClaimTrace
  <2>2. UNCHANGED env
    BY <1>4 DEF ChooseMode, ClaimTrace
  <2> QED
    BY <2>1, <2>2 DEF Next
<1>5. ASSUME NEW f \in Fds \cup {-1}, OpenList(f) PROVE [Next]_vars /\ UNCHANGED env
  <2>0. UNCHANGED env
    BY <1>5 DEF OpenList
  <2>1. CASE f = -1
    BY <1>5, <2>0, <2>1 DEF OpenList, vars
  <2>2. CASE f # -1
    <3>1. OpenOther
      BY <1>5, <2>2 DEF OpenList, OpenOther, Inside
    <3> QED
      BY <2>0, <3>1 DEF Next
  <2> QED
    BY <2>1, <2>2
<1>6. ASSUME NEW f \in Fds \cup {-1}, DumpCreate(f) PROVE [Next]_vars /\ UNCHANGED env
  BY <1>6 DEF DumpCreate, Next
<1>7. ASSUME NEW f \in Fds \cup {-1}, NEW ok \in BOOLEAN, ShareLoad(f, ok)
      PROVE  [Next]_vars /\ UNCHANGED env
  BY <1>7 DEF ShareLoad, Loaded, Next
<1>8. CASE ShareRoot
  BY <1>8 DEF ShareRoot, Next
<1>9. ASSUME NEW pairs \in BOOLEAN, ShareDict(pairs)
      PROVE  UNCHANGED vars /\ UNCHANGED env
  BY <1>9 DEF ShareDict, statusVars, vars
<1>10. CASE DumpCreating
  BY <1>10 DEF DumpCreating, Next
<1>11. CASE DumpMoveIn
  BY <1>11 DEF DumpMoveIn, Next
<1>12. CASE DumpMoving
  BY <1>12 DEF DumpMoving, Next
<1>13. CASE Elsewhere
  BY <1>13 DEF Elsewhere, pyVars, Next
<1>14. CASE Killed
  BY <1>14 DEF Killed, Next
<1>15. CASE StartProcess
  BY <1>15 DEF StartProcess, Next
<1>16. CASE UNCHANGED <<statusVars, pyVars>>
  BY <1>16 DEF statusVars, pyVars, vars
<1> QED
  BY <1>1, <1>2, <1>3, <1>4, <1>5, <1>6, <1>7, <1>8, <1>9, <1>10, <1>11, <1>12,
     <1>13, <1>14, <1>15, <1>16 DEF NextPackage

\* Everything that is proved of the extension under any client holds for the
\* package and the processes that use it.
THEOREM PackageIsClient == SpecPackage => Spec
<1>1. InitPackage => Init /\ env \in Environments
  BY DEF InitPackage
<1>2. env \in Environments /\ [NextPackage]_<<statusVars, pyVars>>
          => [Next]_vars /\ (env \in Environments)'
  BY ClientStep
<1> QED
  BY <1>1, <1>2, PTL DEF SpecPackage, Spec

-----------------------------------------------------------------------------
(* What a process serves or traces is kept by every step of the extension. *)

LEMMA ModeApart ==
    ASSUME NEW m, Serving \/ Tracing PROVE ModeOutcome(m) # "ok"
BY DEF Serving, Tracing, ModeOutcome, CDS_MODE_SHARE, CDS_MODE_DUMP_LIST,
       CDS_MODE_DISABLED, CDS_MODE_MANUALLY, CDS_MODE_DUMP_ARCHIVE

LEMMA RolesApart == ~ (Serving /\ Tracing)
BY DEF Serving, Tracing, CDS_MODE_SHARE, CDS_MODE_DUMP_LIST

\* A step that leaves the status of a granted mode and what is mapped alone.
LEMMA SameRole ==
    ASSUME cds_status'.initialized = cds_status.initialized,
           cds_status'.mode = cds_status.mode,
           cds_status'.archive_header = cds_status.archive_header,
           UNCHANGED mapping
    PROVE  (Serving => Serving') /\ (Tracing => Tracing')
BY DEF Serving, Tracing

LEMMA RoleKept ==
    ASSUME Inv, [Next]_vars, alive, alive', Serving \/ Tracing
    PROVE  /\ (Serving => Serving') /\ (Tracing => Tracing')
           /\ UNCHANGED image
<1> DEFINE Goal == /\ (Serving => Serving') /\ (Tracing => Tracing')
                   /\ UNCHANGED image
<1>1. TypeOK /\ Claimed
  BY DEF Inv
<1>2. pc = "idle" /\ cds_status.archive_fd = NULL_FD
  BY <1>1 DEF Claimed, Serving, Tracing, CDS_MODE_SHARE, CDS_MODE_DUMP_LIST,
              CDS_MODE_DUMP_ARCHIVE
<1>3. ASSUME UNCHANGED <<cds_status, mapping, image>> PROVE Goal
  BY <1>3, SameRole
<1>4. ASSUME NEW m \in ModeArgs, SetMode(m) PROVE Goal
  BY <1>3, <1>4, ModeApart DEF SetMode
<1>5. ASSUME NEW v \in VerboseArgs, SetVerbose(v) PROVE Goal
  BY <1>1, <1>5, SameRole DEF SetVerbose, TypeOK, Status
<1>6. ASSUME NEW f \in Fds \cup {-1}, CreateOpen(f) PROVE Goal
  BY <1>3, <1>6, ModeApart DEF CreateOpen
<1>7. ASSUME NEW f \in Fds \cup {-1}, NEW ok \in BOOLEAN, LoadArchive(f, ok)
      PROVE  Goal
  BY <1>3, <1>7, ModeApart DEF LoadArchive
<1>8. ASSUME NEW ok \in BOOLEAN, CreateTruncate(ok) \/ CreateMap(ok) PROVE FALSE
  BY <1>2, <1>8 DEF CreateTruncate, CreateMap
<1>9. ASSUME \/ CreateStampAddr \/ CreateStampUsed \/ MoveInCopied \/ MoveInString
             \/ MoveInList \/ MoveInUnsupported \/ MoveInHeapFull \/ MoveInFinish
      PROVE  FALSE
  BY <1>2, <1>9 DEF CreateStampAddr, CreateStampUsed, MoveInCopied, MoveInString,
                    MoveInList, MoveInUnsupported, MoveInHeapFull, MoveInFinish
<1>10. CASE MoveInCall
  BY <1>2, <1>3, <1>10 DEF MoveInCall
<1>11. CASE GetObj
  BY <1>3, <1>11 DEF GetObj, Die
<1>12. CASE OpenOther \/ CloseOther \/ UNCHANGED vars
  BY <1>3, <1>12 DEF OpenOther, CloseOther, vars
<1>13. ASSUME Exit \/ Start PROVE FALSE
  BY <1>13 DEF Exit, Start, Die
<1> QED
  BY <1>4, <1>5, <1>6, <1>7, <1>8, <1>9, <1>10, <1>11, <1>12, <1>13 DEF Next

\* A step that adds no role and does not bring a function closer to one.
LEMMA QuietRole ==
    ASSUME PackageInv, [Next]_vars, alive, UNCHANGED roles,
           at' \notin {"root", "dict", "list", "move"},
           at' # "outside" => alive'
    PROVE  RoleInv'
<1>1. UNCHANGED <<finder, tracer>>
  BY DEF roles
<1>2. /\ finder = 1 => Serving /\ image = "full"
      /\ tracer = 1 => Tracing
  BY DEF PackageInv, RoleInv
<1>3. alive' /\ (finder = 1 \/ tracer = 1) =>
          /\ (Serving => Serving') /\ (Tracing => Tracing') /\ UNCHANGED image
  BY <1>2, RoleKept DEF PackageInv
<1> QED
  BY <1>1, <1>2, <1>3 DEF PackageInv, RoleInv

\* A mode was granted, or a header mapped: there was no role before.
LEMMA NoRoleBefore ==
    ASSUME PackageInv, alive, NEW m, ModeOutcome(m) = "ok"
    PROVE  finder = 0 /\ tracer = 0
BY ModeApart DEF PackageInv, RoleInv

-----------------------------------------------------------------------------
(* The inductive step. *)

\* What a step must show beyond the invariants of the extension.
Extra == NoString /\ reply.res # "segmentation fault" /\ RoleInv

LEMMA AnswerIs ==
    ASSUME NEW call, NEW res, Return(call, res) PROVE reply'.res = res
BY DEF Return

LEMMA ModeAnswers == ASSUME NEW m PROVE ModeOutcome(m) # "segmentation fault"
BY DEF ModeOutcome

LEMMA LoadAnswers ==
    ASSUME NEW f, NEW ok PROVE LoadOutcome(f, ok) # "segmentation fault"
BY DEF LoadOutcome

LEMMA PackageInit == InitPackage => PackageInv
<1> SUFFICES ASSUME InitPackage PROVE PackageInv
  OBVIOUS
<1>1. Init /\ env \in Environments /\ at = "outside" /\ finder = 0 /\ tracer = 0
  BY DEF InitPackage
<1>2. Inv /\ ImageInv
  BY <1>1, InvInit, ImageInit
<1>3. pc = "idle" /\ image = "absent" /\ reply.res = "ok"
  BY <1>1 DEF Init
<1> QED
  BY <1>1, <1>2, <1>3 DEF PackageInv, NoString, RoleInv

\* A function goes on from where no role is reached yet.
LEMMA Onward ==
    ASSUME RoleInv, UNCHANGED <<finder, tracer>>, finder = 0, tracer = 0, alive',
           at' \in {"root", "dict"} => Serving',
           at' = "dict" => image' = "full",
           at' = "list" => Tracing',
           at' = "move" => mapping' # "none"
    PROVE  RoleInv'
<1>1. finder' # 1 /\ tracer' # 1
  OBVIOUS
<1>2. finder' \in {0, 1} /\ tracer' \in {0, 1} /\ finder' = 0 /\ tracer' = 0
  OBVIOUS
<1> QED
  BY <1>1, <1>2, Zenon DEF RoleInv

\* What is being dumped is neither served nor traced.
LEMMA DumpApart ==
    ASSUME MappingMatchesMode, mapping = "shared" PROVE ~ Serving /\ ~ Tracing
<1>1. cds_status.mode = CDS_MODE_DUMP_ARCHIVE
  BY DEF MappingMatchesMode
<1>2. ~ Serving
  BY DEF Serving
<1>3. ~ Tracing
  BY <1>1 DEF Tracing, CDS_MODE_DUMP_ARCHIVE, CDS_MODE_DUMP_LIST
<1> QED
  BY <1>2, <1>3

\* share: the load that is granted, and the steps that follow it.
LEMMA ShareStep ==
    ASSUME PackageInv, [Next]_vars, Inv', ImageInv',
           \/ \E f \in Fds \cup {-1}, ok \in BOOLEAN : ShareLoad(f, ok)
           \/ ShareRoot
           \/ \E pairs \in BOOLEAN : ShareDict(pairs)
    PROVE  Extra'
<1> USE DEF Goto, Leave, Then
<1>0. NoString /\ RoleInv /\ reply.res # "segmentation fault" /\ Inv /\ TypeOK
  BY DEF PackageInv, Inv
<1>1. ASSUME NEW f \in Fds \cup {-1}, NEW ok \in BOOLEAN, ShareLoad(f, ok)
      PROVE  Extra'
  <2>1. LoadArchive(f, ok) /\ UNCHANGED <<alive, pc, image, finder, tracer>>
    BY <1>1 DEF ShareLoad, LoadArchive, roles
  <2>2. alive /\ alive'
    <3>1. alive
      BY <2>1 DEF LoadArchive, Idle
    <3> QED
      BY <2>1, <3>1, Zenon
  <2>3. reply'.res # "segmentation fault"
    <3>1. \/ Return("_load_archive", ModeOutcome(CDS_MODE_SHARE))
          \/ Return("_load_archive", "archive already loaded")
          \/ Return("_load_archive", LoadOutcome(f, ok))
      BY <2>1 DEF LoadArchive
    <3> QED
      BY <3>1, AnswerIs, ModeAnswers, LoadAnswers
  <2>4. CASE reply'.res # "ok"
    <3>1. at' = "outside"
      BY <1>1, <2>4 DEF ShareLoad, Loaded
    <3> QED
      BY <1>0, <2>1, <2>2, <2>3, <3>1, QuietRole DEF Extra, NoString, roles
  <2>5. CASE reply'.res = "ok"
    <3>1. at' = "root"
      BY <1>1, <2>2, <2>5 DEF ShareLoad, Loaded
    <3>2. ModeOutcome(CDS_MODE_SHARE) = "ok" /\ ~ cds_status.archive_header
      BY <2>1, <2>5, AnswerIs DEF LoadArchive
    <3>3. LoadOutcome(f, ok) = "ok"
      BY <2>1, <2>5, <3>2, AnswerIs DEF LoadArchive
    <3>4. finder = 0 /\ tracer = 0
      BY <2>2, <3>2, NoRoleBefore
    <3>5. Serving'
      <4> DEFINE w == WithMode(CDS_MODE_SHARE)
                 yes == LoadOutcome(f, ok) = "ok"
      <4>1. /\ cds_status' = [w EXCEPT !.archive = TRUE, !.archive_fd = NULL_FD,
                                       !.archive_header = yes]
            /\ mapping' = "private"
        BY <2>1, <3>2, <3>3 DEF LoadArchive
      <4>2. w \in Status /\ w.initialized = TRUE /\ w.mode = CDS_MODE_SHARE
        BY <1>0, WithModeType, WithModeFields DEF Modes
      <4>3. yes
        BY <3>3
      <4> HIDE DEF w, yes
      <4> QED
        BY <4>1, <4>2, <4>3 DEF Status, Serving
    <3> QED
      <4>1. RoleInv'
        BY <1>0, <2>1, <2>2, <3>1, <3>4, <3>5, Onward
      <4> QED
        BY <1>0, <2>1, <2>3, <4>1 DEF Extra, NoString
  <2> QED
    BY <2>4, <2>5
<1>2. CASE ShareRoot
  <2>1. alive /\ pc = "idle" /\ at = "root" /\ UNCHANGED <<image, finder, tracer>>
    BY <1>2 DEF ShareRoot, Inside, Idle, GetObj, roles
  <2>2. Serving /\ finder = 0
    BY <1>0, <2>1 DEF RoleInv
  <2>3. /\ UNCHANGED <<alive, cds_status, pc, mapping>>
        /\ Return("_get_obj", IF image = "empty" THEN "No object in heap"
                              ELSE "object")
    BY <1>2, <2>2 DEF ShareRoot, GetObj, Serving
  <2>4. reply'.res \in {"object", "No object in heap"}
    BY <2>3, AnswerIs
  <2>5. CASE reply'.res # "object"
    <3>1. at' = "outside"
      BY <1>2, <2>5 DEF ShareRoot
    <3> QED
      BY <1>0, <2>1, <2>3, <2>4, <3>1, QuietRole DEF Extra, NoString, roles
  <2>6. CASE reply'.res = "object"
    <3>1. at' = "dict" /\ alive'
      BY <1>2, <2>1, <2>3, <2>6 DEF ShareRoot
    <3>2. reply' = ObjectReply
      BY <2>3, <2>6 DEF Return, ObjectReply
    <3>3. image' = "full"
      BY <1>0, <2>1, <3>2 DEF ImageInv, AnswerHolds, Published, NoString
    <3>4. tracer = 0
      BY <1>0, <2>1, <2>2, RolesApart DEF RoleInv
    <3>5. Serving'
      BY <2>2, <2>3 DEF Serving
    <3>6. RoleInv'
      BY <1>0, <2>1, <2>2, <3>1, <3>3, <3>4, <3>5, Onward
    <3> QED
      BY <1>0, <2>1, <2>3, <2>6, <3>6 DEF Extra, NoString
  <2> QED
    BY <2>5, <2>6
<1>3. ASSUME NEW pairs \in BOOLEAN, ShareDict(pairs) PROVE Extra'
  <2>1. /\ alive /\ at = "dict" /\ at' = "outside"
        /\ UNCHANGED <<alive, cds_status, pc, mapping, image, reply, tracer>>
    BY <1>3 DEF ShareDict, Inside, Idle, statusVars
  <2>2. Serving /\ image = "full" /\ finder = 0
    BY <1>0, <2>1 DEF RoleInv
  <2>3. finder' \in {0, 1}
    BY <1>3, <2>2 DEF ShareDict
  <2> QED
    BY <1>0, <2>1, <2>2, <2>3 DEF Extra, NoString, RoleInv, Serving, Tracing
<1> QED
  BY <1>1, <1>2, <1>3

\* trace: the mode that is granted, and the list that is opened.
LEMMA TraceStep ==
    ASSUME PackageInv, [Next]_vars,
           ClaimTrace \/ \E f \in Fds \cup {-1} : OpenList(f)
    PROVE  Extra'
<1> USE DEF Goto, Leave, Then
<1>0. NoString /\ RoleInv /\ reply.res # "segmentation fault" /\ TypeOK
  BY DEF PackageInv, Inv
<1>1. CASE ClaimTrace
  <2>1. /\ SetMode(CDS_MODE_DUMP_LIST)
        /\ UNCHANGED <<alive, pc, mapping, image, finder, tracer>>
    BY <1>1 DEF ClaimTrace, SetMode, roles
  <2>2. alive /\ alive'
    <3>1. alive
      BY <2>1 DEF SetMode, Idle
    <3> QED
      BY <2>1, <3>1, Zenon
  <2>3. reply'.res = ModeOutcome(CDS_MODE_DUMP_LIST)
    BY <2>1, AnswerIs DEF SetMode, CDS_MODE_SHARE, CDS_MODE_DUMP_LIST
  <2>4. reply'.res # "segmentation fault"
    BY <2>3, ModeAnswers
  <2>5. CASE reply'.res # "ok"
    <3>1. at' = "outside"
      BY <1>1, <2>5 DEF ClaimTrace
    <3> QED
      BY <1>0, <2>1, <2>2, <2>4, <3>1, QuietRole DEF Extra, NoString, roles
  <2>6. CASE reply'.res = "ok"
    <3>1. at' = "list"
      BY <1>1, <2>2, <2>6 DEF ClaimTrace
    <3>2. finder = 0 /\ tracer = 0
      BY <2>2, <2>3, <2>6, NoRoleBefore
    <3>3. cds_status' = WithMode(CDS_MODE_DUMP_LIST)
      BY <2>1, <2>3, <2>6 DEF SetMode, CDS_MODE_SHARE, CDS_MODE_DUMP_LIST
    <3>4. Tracing'
      BY <1>0, <3>3, WithModeFields DEF Tracing
    <3> QED
      <4>1. RoleInv'
        BY <1>0, <2>1, <2>2, <3>1, <3>2, <3>4, Onward
      <4> QED
        BY <1>0, <2>1, <2>4, <4>1 DEF Extra, NoString
  <2> QED
    BY <2>5, <2>6
<1>2. ASSUME NEW f \in Fds \cup {-1}, OpenList(f) PROVE Extra'
  <2>1. /\ alive /\ at = "list" /\ at' = "outside"
        /\ UNCHANGED <<alive, cds_status, pc, mapping, image, reply, finder>>
    BY <1>2 DEF OpenList, Inside, Idle
  <2>2. Tracing /\ tracer = 0
    BY <1>0, <2>1 DEF RoleInv
  <2>3. tracer' \in {0, 1}
    BY <1>2, <2>2 DEF OpenList
  <2> QED
    BY <1>0, <2>1, <2>2, <2>3 DEF Extra, NoString, RoleInv, Serving, Tracing
<1> QED
  BY <1>1, <1>2

\* run_dump: the archive that is created, and what is moved into it.
LEMMA DumpStep ==
    ASSUME PackageInv, [Next]_vars,
           \/ \E f \in Fds \cup {-1} : DumpCreate(f)
           \/ DumpCreating \/ DumpMoveIn \/ DumpMoving
    PROVE  Extra'
<1> USE DEF Goto, Leave, Then
<1>0. /\ NoString /\ RoleInv /\ reply.res # "segmentation fault"
      /\ MappedByPc /\ Claimed /\ MappingMatchesMode
  BY DEF PackageInv, Inv
<1>1. ASSUME NEW f \in Fds \cup {-1}, DumpCreate(f) PROVE Extra'
  <2>1. /\ CreateOpen(f) /\ at' \in {"creating", "outside"}
        /\ UNCHANGED <<alive, roles>>
    BY <1>1 DEF DumpCreate, CreateOpen
  <2>2. alive
    BY <2>1 DEF CreateOpen, Idle
  <2>3. alive'
    BY <2>1, <2>2, Zenon
  <2>4. pc' # "listing" /\ image' # "unlisted"
    BY <1>0, <2>1 DEF CreateOpen, NoString
  <2>5. reply'.res # "segmentation fault"
    <3>1. \/ UNCHANGED reply
          \/ Return("_create_archive", ModeOutcome(CDS_MODE_DUMP_ARCHIVE))
          \/ Return("_create_archive", "archive already initialized")
          \/ Return("_create_archive", "create mmap file failed")
      BY <2>1 DEF CreateOpen
    <3> QED
      BY <1>0, <3>1, AnswerIs, ModeAnswers
  <2> QED
    BY <2>1, <2>2, <2>3, <2>4, <2>5, QuietRole DEF Extra, NoString
<1>2. CASE DumpCreating
  <2>0. alive /\ UNCHANGED roles
    BY <1>2 DEF DumpCreating, CreateTruncate, CreateMap, CreateStampAddr,
                CreateStampUsed
  <2>1. pc' # "listing" /\ image' # "unlisted"
    BY <1>0, <1>2
       DEF DumpCreating, CreateTruncate, CreateMap, CreateStampAddr,
           CreateStampUsed, Die, NoString
  <2>2. reply'.res # "segmentation fault"
    <3>1. \/ UNCHANGED reply
          \/ Return("_create_archive", "mmap failed during dump")
          \/ Return("_create_archive", "bus error")
          \/ Return("_create_archive", "ok")
      BY <1>2 DEF DumpCreating, CreateTruncate, CreateMap, CreateStampAddr,
                  CreateStampUsed, Die
    <3> QED
      BY <1>0, <3>1, AnswerIs
  <2>3. CASE at' \in {"creating", "outside"} /\ (at' = "creating" => alive')
    BY <2>0, <2>1, <2>2, <2>3, QuietRole DEF Extra, NoString
  <2>4. CASE at' = "move" /\ alive' /\ pc' = "idle" /\ reply'.res = "ok"
    <3>1. CreateStampUsed
      <4>1. ASSUME NEW ok \in BOOLEAN, CreateTruncate(ok) PROVE FALSE
        BY <2>4, <4>1 DEF CreateTruncate
      <4>2. ASSUME NEW ok \in BOOLEAN, CreateMap(ok) PROVE FALSE
        <5>1. CASE ok
          BY <2>4, <4>2, <5>1 DEF CreateMap
        <5>2. CASE ~ ok
          <6>1. Return("_create_archive", "mmap failed during dump")
            BY <4>2, <5>2 DEF CreateMap
          <6> QED
            BY <2>4, <6>1, AnswerIs
        <5> QED
          BY <5>1, <5>2
      <4>3. ASSUME CreateStampAddr PROVE FALSE
        BY <2>4, <4>3 DEF CreateStampAddr, Die
      <4> QED
        BY <1>2, <4>1, <4>2, <4>3 DEF DumpCreating
    <3>2. mapping = "shared" /\ mapping' = "shared"
      BY <1>0, <3>1 DEF CreateStampUsed, MappedByPc
    <3>3. ~ Serving /\ ~ Tracing
      BY <1>0, <3>2, DumpApart
    <3>4. finder = 0 /\ tracer = 0
      BY <1>0, <2>0, <3>3 DEF RoleInv
    <3>5. RoleInv'
      BY <1>0, <2>0, <2>4, <3>2, <3>4, Onward DEF roles
    <3> QED
      BY <2>1, <2>2, <3>5 DEF Extra, NoString
  <2> QED
    BY <1>2, <2>3, <2>4 DEF DumpCreating
<1>3. CASE DumpMoveIn
  <2>1. /\ MoveInCall /\ at = "move" /\ mapping # "none"
        /\ at' \in {"moving", "outside"} /\ UNCHANGED <<image, roles>>
    BY <1>0, <1>3 DEF DumpMoveIn, MoveInCall, Inside, RoleInv
  <2>2. alive /\ pc = "idle"
    BY <2>1 DEF MoveInCall, Idle
  <2>3. UNCHANGED alive
    BY <2>1 DEF MoveInCall
  <2>4. alive'
    BY <2>2, <2>3, Zenon
  <2>5. pc' # "listing" /\ image' # "unlisted"
    BY <1>0, <2>1, <2>2 DEF MoveInCall, NoString
  <2>6. reply'.res # "segmentation fault"
    <3>1. \/ UNCHANGED reply
          \/ Return("_move_in", "error without an exception")
          \/ Return("_move_in", "move in already finished")
      BY <2>1 DEF MoveInCall
    <3> QED
      BY <1>0, <3>1, AnswerIs
  <2> QED
    BY <2>1, <2>2, <2>4, <2>5, <2>6, QuietRole DEF Extra, NoString
<1>4. CASE DumpMoving
  <2>1. /\ alive /\ UNCHANGED roles
        /\ at' \in {"moving", "outside"} /\ (at' = "moving" => alive')
    BY <1>4 DEF DumpMoving, MoveInCopied, MoveInUnsupported, MoveInHeapFull,
                MoveInFinish
  <2>2. pc' # "listing" /\ image' # "unlisted"
    BY <1>0, <1>4
       DEF DumpMoving, MoveInCopied, MoveInUnsupported, MoveInHeapFull,
           MoveInFinish, Die, NoString
  <2>3. reply'.res # "segmentation fault"
    <3>1. \/ UNCHANGED reply
          \/ Return("_move_in", "heap full")
          \/ Return("_move_in", "Trying to move in")
          \/ Return("_move_in", "ok")
      BY <1>4 DEF DumpMoving, MoveInCopied, MoveInUnsupported, MoveInHeapFull,
                  MoveInFinish, Die
    <3> QED
      BY <1>0, <3>1, AnswerIs
  <2> QED
    BY <2>1, <2>2, <2>3, QuietRole DEF Extra, NoString
<1> QED
  BY <1>1, <1>2, <1>3, <1>4

LEMMA PackageStep ==
    PackageInv /\ [NextPackage]_<<statusVars, pyVars>> => PackageInv'
<1> SUFFICES ASSUME PackageInv, [NextPackage]_<<statusVars, pyVars>>
             PROVE  PackageInv'
  OBVIOUS
<1> USE DEF Goto, Leave, Then, ThenLeave
<1>0. /\ Inv /\ ImageInv /\ env \in Environments
      /\ NoString /\ RoleInv /\ reply.res # "segmentation fault"
  BY DEF PackageInv
<1>1. [Next]_vars /\ (env \in Environments)'
  BY <1>0, ClientStep
<1>2. Inv' /\ ImageInv'
  BY <1>0, <1>1, InvStep, ImageStep
<1>3. SUFFICES Extra'
  BY <1>1, <1>2 DEF PackageInv, Extra
\* Nothing happens in the extension, and a function goes on or ends.
<1>4. ASSUME UNCHANGED <<statusVars, roles>>, alive,
             at' \notin {"root", "dict", "list", "move"}
      PROVE  Extra'
  <2>1. UNCHANGED <<alive, pc, image, reply, roles>>
    BY <1>4 DEF statusVars
  <2>2. alive'
    BY <1>4, <2>1, Zenon
  <2> QED
    BY <1>0, <1>1, <1>4, <2>1, <2>2, QuietRole DEF Extra, NoString
<1>5. ASSUME NEW f \in Functions, Call(f) PROVE Extra'
  <2>1. /\ UNCHANGED <<statusVars, roles>> /\ alive
        /\ at' \notin {"root", "dict", "list", "move"}
    BY <1>5 DEF Call, Inside, Idle, Functions, DumpForms
  <2> QED
    BY <1>4, <2>1
<1>6. CASE Enter \/ ChooseRole \/ DumpFails
  <2>1. /\ UNCHANGED <<statusVars, roles>> /\ alive
        /\ at' \notin {"root", "dict", "list", "move"}
    BY <1>6 DEF Enter, ChooseRole, DumpFails, Inside, Idle
  <2> QED
    BY <1>4, <2>1
<1>7. CASE Verbosity
  <2>1. /\ alive /\ UNCHANGED roles /\ at' \notin {"root", "dict", "list", "move"}
    BY <1>7 DEF Verbosity, Inside, Idle
  <2>2. CASE UNCHANGED statusVars
    BY <1>4, <2>1, <2>2
  <2>3. CASE SetVerbose(env.verbose)
    <3>1. /\ UNCHANGED <<alive, pc, image>>
          /\ \/ Return("_set_verbose", "ok")
             \/ Return("_set_verbose", "invalid verbose")
      BY <2>3 DEF SetVerbose
    <3>2. alive'
      BY <2>1, <3>1, Zenon
    <3>3. reply'.res # "segmentation fault"
      BY <3>1, AnswerIs
    <3> QED
      BY <1>0, <1>1, <2>1, <3>1, <3>2, <3>3, QuietRole DEF Extra, NoString
  <2> QED
    BY <1>7, <2>2, <2>3 DEF Verbosity
<1>8. CASE ChooseMode
  <2>1. /\ alive /\ UNCHANGED roles /\ at' = "outside"
        /\ \E m : SetMode(m)
    BY <1>8 DEF ChooseMode, Inside, Idle
  <2>2. PICK m : SetMode(m)
    BY <2>1
  <2>3. /\ UNCHANGED <<alive, pc, image>>
        /\ \/ Return("_set_mode", "invalid mode")
           \/ Return("_set_mode", ModeOutcome(m))
    BY <2>2 DEF SetMode
  <2>4. reply'.res # "segmentation fault"
    BY <2>3, AnswerIs, ModeAnswers
  <2> QED
    BY <1>0, <1>1, <2>1, <2>3, <2>4, QuietRole DEF Extra, NoString
<1>9. CASE ClaimTrace \/ \E f \in Fds \cup {-1} : OpenList(f)
  BY <1>1, <1>9, TraceStep
<1>10. CASE \/ \E f \in Fds \cup {-1}, ok \in BOOLEAN : ShareLoad(f, ok)
            \/ ShareRoot
            \/ \E pairs \in BOOLEAN : ShareDict(pairs)
  BY <1>1, <1>2, <1>10, ShareStep
<1>11. CASE \/ \E f \in Fds \cup {-1} : DumpCreate(f)
            \/ DumpCreating \/ DumpMoveIn \/ DumpMoving
  BY <1>1, <1>11, DumpStep
<1>12. CASE Elsewhere
  <2>1. /\ alive /\ UNCHANGED <<alive, pc, image, at, roles>> /\ at = "outside"
        /\ UNCHANGED reply \/ Return("close", "ok")
    BY <1>12 DEF Elsewhere, OpenOther, CloseOther, Inside, Idle, pyVars, roles
  <2>2. reply'.res # "segmentation fault"
    BY <1>0, <2>1, AnswerIs
  <2> QED
    BY <1>0, <1>1, <2>1, <2>2, QuietRole DEF Extra, NoString
<1>13. CASE Killed
  <2>1. /\ alive /\ UNCHANGED <<image, roles>> /\ at' = "outside"
        /\ pc' = "idle" /\ Return("none", "ok")
    BY <1>13 DEF Killed, Exit, Die
  <2>2. reply'.res # "segmentation fault"
    BY <2>1, AnswerIs
  <2> QED
    BY <1>0, <1>1, <2>1, <2>2, QuietRole DEF Extra, NoString
<1>14. CASE StartProcess
  <2>1. /\ UNCHANGED <<pc, image, at>> /\ finder' = 0 /\ tracer' = 0
        /\ ~ alive /\ Return("none", "ok")
    BY <1>14 DEF StartProcess, Start
  <2>2. at' = "outside"
    BY <1>0, <2>1 DEF RoleInv
  <2>3. reply'.res # "segmentation fault"
    BY <2>1, AnswerIs
  <2>4. finder' # 1 /\ tracer' # 1 /\ finder' \in {0, 1} /\ tracer' \in {0, 1}
    BY <2>1
  <2>5. RoleInv'
    BY <2>2, <2>4 DEF RoleInv
  <2> QED
    BY <1>0, <2>1, <2>3, <2>5 DEF Extra, NoString
<1>15. CASE UNCHANGED <<statusVars, pyVars>>
  BY <1>0, <1>15
     DEF statusVars, pyVars, Extra, NoString, RoleInv, Serving, Tracing
<1> QED
  BY <1>5, <1>6, <1>7, <1>8, <1>9, <1>10, <1>11, <1>12, <1>13, <1>14, <1>15
     DEF NextPackage

LEMMA PackageInvCorrect == SpecPackage => []PackageInv
<1>1. InitPackage => PackageInv
  BY PackageInit
<1>2. PackageInv /\ [NextPackage]_<<statusVars, pyVars>> => PackageInv'
  BY PackageStep
<1> QED
  BY <1>1, <1>2, PTL DEF SpecPackage

\* Whatever the environments are, the functions of the package, called in any
\* order and again after an exception, never make the extension follow a null
\* or a stale header.
THEOREM StaleHandleOutOfReach == SpecPackage => []NeverFollowsStaleHandle
<1>1. PackageInv => NeverFollowsStaleHandle
  BY DEF PackageInv, NeverFollowsStaleHandle
<1> QED
  BY <1>1, PackageInvCorrect, PTL

\* A process serves modules, traces names or dumps, and never two of these;
\* it serves them from a published archive that stays mapped.
THEOREM RoleIsOne == SpecPackage => []OneRole
<1>1. PackageInv => OneRole
  <2> SUFFICES ASSUME PackageInv, alive PROVE OneRole
    BY DEF OneRole
  <2>1. /\ finder \in {0, 1} /\ tracer \in {0, 1}
        /\ finder = 1 => Serving /\ image = "full"
        /\ tracer = 1 => Tracing
    BY DEF PackageInv, RoleInv
  <2>2. mapping = "shared" => ~ Serving /\ ~ Tracing
    BY DumpApart DEF PackageInv, Inv
  <2>3. ~ (finder = 1 /\ tracer = 1)
    BY <2>1, RolesApart
  <2>4. finder + tracer <= 1 /\ (mapping = "shared" => finder + tracer = 0)
    BY <2>1, <2>2, <2>3
  <2> QED
    BY <2>1, <2>4 DEF OneRole, Serving, Tracing
<1> QED
  BY <1>1, PackageInvCorrect, PTL

-----------------------------------------------------------------------------
(* The exit code of run_dump. *)

\* What only a move-in leaves behind.
MoveInOnce ==
    cds_status.traverse_error \/ cds_status.move_in_ctx # "null" =>
        cds_status.initialized /\ cds_status.mode = CDS_MODE_DUMP_ARCHIVE

LEMMA OnceGranted ==
    ASSUME TypeOK, MoveInOnce, NEW m, ModeOutcome(m) = "ok"
    PROVE  cds_status.traverse_error = FALSE /\ cds_status.move_in_ctx = "null"
BY NoSecondMode DEF MoveInOnce, TypeOK, Status

\* Nothing of a move-in is added.
LEMMA OnceKept ==
    ASSUME MoveInOnce,
           cds_status'.traverse_error = cds_status.traverse_error,
           cds_status'.move_in_ctx = cds_status.move_in_ctx,
           \/ /\ cds_status'.initialized = cds_status.initialized
              /\ cds_status'.mode = cds_status.mode
           \/ ~ cds_status.traverse_error /\ cds_status.move_in_ctx = "null"
    PROVE  MoveInOnce'
BY DEF MoveInOnce

\* A granted mode, and the fields that a create or a load sets with it.
LEMMA OnceWith ==
    ASSUME TypeOK, MoveInOnce, NEW m \in Modes, ModeOutcome(m) = "ok", NEW f, NEW h,
           \/ cds_status' = WithMode(m)
           \/ cds_status' = [WithMode(m) EXCEPT !.archive = TRUE]
           \/ cds_status' = [WithMode(m) EXCEPT !.archive = TRUE, !.archive_fd = f]
           \/ cds_status' = [WithMode(m) EXCEPT !.archive = TRUE, !.archive_fd = f,
                                                !.archive_header = h]
    PROVE  MoveInOnce' /\ cds_status'.traverse_error = FALSE
                       /\ cds_status'.move_in_ctx = "null"
<1>1. cds_status.traverse_error = FALSE /\ cds_status.move_in_ctx = "null"
  BY OnceGranted
<1>2. /\ WithMode(m) \in Status
      /\ WithMode(m).traverse_error = FALSE /\ WithMode(m).move_in_ctx = "null"
  <2>1. WithMode(m) \in Status
    BY WithModeType
  <2>2. WithMode(m).traverse_error = cds_status.traverse_error
    BY DEF WithMode, TypeOK, Status
  <2> QED
    BY <1>1, <2>1, <2>2, WithModeFields
<1>3. cds_status'.traverse_error = FALSE /\ cds_status'.move_in_ctx = "null"
  <2> DEFINE w == WithMode(m)
  <2>1. /\ w \in Status /\ w.traverse_error = FALSE /\ w.move_in_ctx = "null"
        /\ \/ cds_status' = w
           \/ cds_status' = [w EXCEPT !.archive = TRUE]
           \/ cds_status' = [w EXCEPT !.archive = TRUE, !.archive_fd = f]
           \/ cds_status' = [w EXCEPT !.archive = TRUE, !.archive_fd = f,
                                      !.archive_header = h]
    BY <1>2
  <2> HIDE DEF w
  <2> QED
    BY <2>1 DEF Status
<1> QED
  BY <1>3 DEF MoveInOnce

LEMMA OnceStep == Inv /\ Inv' /\ MoveInOnce /\ [Next]_vars => MoveInOnce'
<1> SUFFICES ASSUME Inv, Inv', MoveInOnce, [Next]_vars PROVE MoveInOnce'
  OBVIOUS
<1>1. TypeOK /\ Claimed /\ Claimed'
  BY DEF Inv
<1>2. ASSUME UNCHANGED cds_status PROVE MoveInOnce'
  BY <1>2 DEF MoveInOnce
<1>3. ASSUME cds_status' = InitStatus PROVE MoveInOnce'
  BY <1>3 DEF MoveInOnce, InitStatus
<1>4. ASSUME pc' # "idle" PROVE MoveInOnce'
  BY <1>1, <1>4 DEF MoveInOnce, Claimed
<1>5. ASSUME NEW m \in ModeArgs, SetMode(m) PROVE MoveInOnce'
  <2>1. CASE UNCHANGED cds_status
    BY <1>2, <2>1
  <2>2. CASE ModeOutcome(m) = "ok" /\ cds_status' = WithMode(m)
    BY <1>1, <2>2, GrantedIsAMode, OnceWith
  <2> QED
    BY <1>5, <2>1, <2>2 DEF SetMode
<1>6. ASSUME NEW v \in VerboseArgs, SetVerbose(v) PROVE MoveInOnce'
  BY <1>1, <1>6, OnceKept DEF SetVerbose, TypeOK, Status
<1>7. ASSUME NEW f \in Fds \cup {-1}, CreateOpen(f) PROVE MoveInOnce'
  <2>1. CASE ModeOutcome(CDS_MODE_DUMP_ARCHIVE) # "ok"
    BY <1>2, <1>7, <2>1 DEF CreateOpen
  <2>2. CASE ModeOutcome(CDS_MODE_DUMP_ARCHIVE) = "ok"
    <3> DEFINE w == WithMode(CDS_MODE_DUMP_ARCHIVE)
    <3>1. \/ cds_status' = w
          \/ cds_status' = [w EXCEPT !.archive = TRUE]
          \/ cds_status' = [w EXCEPT !.archive = TRUE, !.archive_fd = f]
      BY <1>7, <2>2 DEF CreateOpen
    <3> QED
      BY <1>1, <2>2, <3>1, OnceWith DEF Modes
  <2> QED
    BY <2>1, <2>2
<1>8. ASSUME NEW f \in Fds \cup {-1}, NEW ok \in BOOLEAN, LoadArchive(f, ok)
      PROVE  MoveInOnce'
  <2>1. CASE ModeOutcome(CDS_MODE_SHARE) # "ok"
    BY <1>2, <1>8, <2>1 DEF LoadArchive
  <2>2. CASE ModeOutcome(CDS_MODE_SHARE) = "ok"
    <3> DEFINE w == WithMode(CDS_MODE_SHARE)
               h == LoadOutcome(f, ok) = "ok"
    <3>1. \/ cds_status' = w
          \/ cds_status' = [w EXCEPT !.archive = TRUE, !.archive_fd = NULL_FD,
                                     !.archive_header = h]
      BY <1>8, <2>2 DEF LoadArchive
    <3> HIDE DEF h
    <3> QED
      BY <1>1, <2>2, <3>1, OnceWith DEF Modes
  <2> QED
    BY <2>1, <2>2
<1>9. ASSUME NEW ok \in BOOLEAN, CreateMap(ok) PROVE MoveInOnce'
  BY <1>1, <1>9, OnceKept DEF CreateMap, AfterMap, TypeOK, Status
<1>10. CASE MoveInCall
  BY <1>2, <1>3, <1>4, <1>10 DEF MoveInCall, Die
<1>11. CASE MoveInFinish
  <2>1. cds_status.initialized /\ cds_status.mode = CDS_MODE_DUMP_ARCHIVE
    BY <1>1, <1>11 DEF MoveInFinish, Claimed
  <2> QED
    BY <1>1, <1>11, <2>1 DEF MoveInFinish, MoveInOnce, TypeOK, Status
<1>12. CASE CreateStampAddr \/ CreateStampUsed \/ MoveInCopied \/ MoveInString
            \/ MoveInList \/ MoveInUnsupported \/ \E ok \in BOOLEAN : CreateTruncate(ok)
  BY <1>2, <1>3, <1>4, <1>12
     DEF CreateStampAddr, CreateStampUsed, MoveInCopied, MoveInString, MoveInList,
         MoveInUnsupported, CreateTruncate, Die
<1>13. CASE GetObj \/ MoveInHeapFull \/ Exit
  BY <1>2, <1>3, <1>13 DEF GetObj, MoveInHeapFull, Exit, Die
<1>14. CASE OpenOther \/ CloseOther \/ Start \/ UNCHANGED vars
  BY <1>2, <1>14 DEF OpenOther, CloseOther, Start, vars
<1> QED
  BY <1>5, <1>6, <1>7, <1>8, <1>9, <1>10, <1>11, <1>12, <1>13, <1>14 DEF Next

DumpPoints == {"run_dump", "creating", "move", "moving"}

\* No move-in has begun, in this call of run_dump or before it.
Untouched == /\ before.move_in_ctx = "null" /\ cds_status.move_in_ctx = "null"
             /\ cds_status.traverse_error = FALSE

\* What each point of run_dump says of the move-in and of the file.
DumpInv ==
    /\ at \notin {"creating", "moving"} => pc = "idle"
    /\ at \in DumpPoints => fn \in DumpForms
    /\ at \notin DumpPoints \cup {"outside"} => fn \notin DumpForms
    /\ at = "run_dump" => cds_status = before
    /\ at = "creating" => Untouched
    /\ at = "move" => Untouched /\ image = "empty"
    /\ at = "moving" =>
           /\ before.move_in_ctx = "null" /\ cds_status.move_in_ctx = "live"
           /\ \/ /\ pc = "copying" /\ image = "empty"
                 /\ cds_status.traverse_error = FALSE
              \/ /\ pc = "copied"
                 /\ cds_status.traverse_error = (image # "full")
    /\ ExitZeroMeans

\* A step of another function: what it leaves at the end is not about run_dump.
LEMMA OtherFunction ==
    ASSUME DumpInv, UNCHANGED <<fn, pc>>, at \notin DumpPoints \cup {"outside"},
           at' \notin DumpPoints
    PROVE  DumpInv'
<1>1. fn \notin DumpForms /\ fn' \notin DumpForms /\ pc' = "idle"
  BY DEF DumpInv, DumpPoints
<1> QED
  BY <1>1 DEF DumpInv, DumpPoints, ExitZeroMeans

\* run_dump ends, by an exception, before a move-in began.
LEMMA EndsBefore ==
    ASSUME DumpInv, at' = "outside", pc' = "idle", UNCHANGED <<fn, before>>,
           outcome' = "exception",
           cds_status'.move_in_ctx = before.move_in_ctx
    PROVE  DumpInv'
BY DEF DumpInv, DumpPoints, ExitZeroMeans

\* It ends before it has done anything; the command line may have passed over
\* the exception.
LEMMA EndsUntouched ==
    ASSUME DumpInv, at' = "outside", pc' = "idle", UNCHANGED <<fn, before>>,
           outcome' = "exception" \/ (outcome' = "ok" /\ fn = "cds.dump"),
           cds_status' = before
    PROVE  DumpInv'
BY DEF DumpInv, DumpPoints, ExitZeroMeans

\* The process ends.
LEMMA EndsDead ==
    ASSUME alive' = FALSE, at' = "outside", pc' = "idle" PROVE DumpInv'
BY DEF DumpInv, DumpPoints, ExitZeroMeans

LEMMA CallStep ==
    ASSUME DumpInv, NEW f \in Functions, Call(f) PROVE DumpInv'
<1>1. /\ at' = (IF f \in DumpForms THEN "run_dump" ELSE f)
      /\ fn' = f /\ pc' = "idle" /\ cds_status' = before'
  BY DEF Call, Inside, Idle, statusVars
<1>2. f \in {"init_from_env", "trace", "share"} \cup DumpForms
  BY DEF Functions
<1>3. CASE f \in DumpForms
  BY <1>1, <1>3 DEF DumpInv, DumpPoints, ExitZeroMeans
<1>4. CASE f \notin DumpForms
  BY <1>1, <1>2, <1>4 DEF DumpInv, DumpPoints, DumpForms, ExitZeroMeans
<1> QED
  BY <1>3, <1>4

LEMMA DumpCreateStep ==
    ASSUME Inv, MoveInOnce, DumpInv, NEW f \in Fds \cup {-1}, DumpCreate(f)
    PROVE  DumpInv'
<1> DEFINE granted == ModeOutcome(CDS_MODE_DUMP_ARCHIVE) = "ok"
           used == \/ cds_status.archive
                   \/ cds_status.archive_fd # NULL_FD
                   \/ cds_status.archive_header
           w == WithMode(CDS_MODE_DUMP_ARCHIVE)
<1>0. TypeOK
  BY DEF Inv
<1>1. /\ CreateOpen(f) /\ at = "run_dump" /\ UNCHANGED <<alive, fn, before>>
      /\ pc = "idle"
  BY DEF DumpCreate, CreateOpen, Inside, Idle, Goto, Leave
<1>2. cds_status.move_in_ctx = before.move_in_ctx /\ fn \in DumpForms
  BY <1>1 DEF DumpInv, DumpPoints
<1>3. alive'
  <2>1. alive
    BY <1>1 DEF CreateOpen, Idle
  <2> QED
    BY <1>1, <2>1, Zenon
<1>4. CASE granted /\ ~ used /\ f > 0
  <2>1. pc' = "opened" /\ at' = "creating"
    BY <1>1, <1>4 DEF CreateOpen, DumpCreate, Goto
  <2>2. cds_status' = [w EXCEPT !.archive = TRUE, !.archive_fd = f]
    BY <1>1, <1>4 DEF CreateOpen
  <2>3. cds_status'.traverse_error = FALSE /\ cds_status'.move_in_ctx = "null"
    BY <1>0, <1>4, <2>2, OnceWith DEF Modes
  <2>4. before'.move_in_ctx = "null"
    BY <1>0, <1>1, <1>2, <1>4, OnceGranted
  <2> QED
    BY <1>1, <1>2, <2>1, <2>3, <2>4
       DEF DumpInv, DumpPoints, Untouched, ExitZeroMeans
<1>5. CASE ~ (granted /\ ~ used /\ f > 0)
  <2>1. pc' = "idle"
    BY <1>1, <1>5 DEF CreateOpen
  <2>2. at' = "outside" /\ outcome' = "exception"
    BY <1>3, <2>1 DEF DumpCreate, Leave
  <2>3. cds_status'.move_in_ctx = cds_status.move_in_ctx
    <3>1. \/ UNCHANGED cds_status
          \/ granted /\ (cds_status' = w \/ cds_status' = [w EXCEPT !.archive = TRUE])
      BY <1>1, <1>5 DEF CreateOpen
    <3>2. w \in Status /\ w.move_in_ctx = cds_status.move_in_ctx
      BY <1>0, WithModeType, WithModeFields DEF Modes
    <3> HIDE DEF w
    <3> QED
      BY <3>1, <3>2 DEF Status
  <2> QED
    BY <1>1, <1>2, <2>1, <2>2, <2>3, EndsBefore
<1> QED
  BY <1>4, <1>5

LEMMA DumpCreatingStep ==
    ASSUME Inv, DumpInv, DumpCreating PROVE DumpInv'
<1>0. TypeOK
  BY DEF Inv
<1>1. /\ at = "creating" /\ fn \in DumpForms /\ Untouched
      /\ UNCHANGED <<fn, before>>
  BY DEF DumpCreating, DumpInv, DumpPoints, Goto, Leave, Then
<1>2. CASE alive' = FALSE
  <2>1. pc' = "idle"
    BY <1>2
       DEF DumpCreating, CreateTruncate, CreateMap, CreateStampAddr, CreateStampUsed,
           Die
  <2>2. at' = "outside"
    BY <1>2 DEF DumpCreating, Then, Leave
  <2> QED
    BY <1>2, <2>1, <2>2, EndsDead
<1>3. CASE alive'
  <2>1. /\ cds_status'.move_in_ctx = cds_status.move_in_ctx
        /\ cds_status'.traverse_error = cds_status.traverse_error
    <3>1. UNCHANGED cds_status \/ \E ok \in BOOLEAN : cds_status' = AfterMap(ok)
      BY <1>3
         DEF DumpCreating, CreateTruncate, CreateMap, CreateStampAddr,
             CreateStampUsed, Die
    <3> QED
      BY <1>0, <3>1 DEF AfterMap, TypeOK, Status
  <2>2. Untouched'
    BY <1>1, <2>1 DEF Untouched
  <2>3. CASE pc' # "idle"
    <3>1. at' = "creating"
      BY <1>3, <2>3 DEF DumpCreating, Goto
    <3> QED
      BY <1>1, <2>2, <3>1 DEF DumpInv, DumpPoints, ExitZeroMeans
  <2>4. CASE pc' = "idle"
    <3>1. Then("ok", "move")
      BY <2>4 DEF DumpCreating
    <3>2. CASE CreateStampUsed
      <4>1. image' = "empty" /\ reply'.res = "ok"
        BY <3>2, AnswerIs DEF CreateStampUsed
      <4>2. at' = "move"
        BY <1>3, <3>1, <4>1 DEF Then, Goto
      <4> QED
        BY <1>1, <2>2, <2>4, <4>1, <4>2
           DEF DumpInv, DumpPoints, ExitZeroMeans
    <3>3. CASE Return("_create_archive", "mmap failed during dump")
      <4>1. reply'.res # "ok"
        BY <3>3, AnswerIs
      <4>2. at' = "outside" /\ outcome' = "exception"
        BY <1>3, <3>1, <4>1 DEF Then, Leave
      <4> QED
        BY <1>1, <2>2, <2>4, <4>2, EndsBefore DEF Untouched
    <3> QED
      BY <1>3, <2>4, <3>2, <3>3
         DEF DumpCreating, CreateTruncate, CreateMap, CreateStampAddr, Die
  <2> QED
    BY <2>3, <2>4
<1>4. alive' \in BOOLEAN
  BY <1>0 DEF DumpCreating, CreateTruncate, CreateMap, CreateStampAddr,
              CreateStampUsed, Die, TypeOK
<1> QED
  BY <1>2, <1>3, <1>4

LEMMA DumpMoveInStep ==
    ASSUME PackageInv, DumpInv, DumpMoveIn PROVE DumpInv'
<1>1. /\ MoveInCall /\ at = "move" /\ mapping # "none" /\ fn \in DumpForms
      /\ Untouched /\ image = "empty" /\ pc = "idle" /\ TypeOK
      /\ UNCHANGED <<fn, before, image>>
  BY DEF DumpMoveIn, MoveInCall, Inside, Idle, PackageInv, RoleInv, Inv, DumpInv,
         DumpPoints, Goto, Leave
<1>2. alive'
  <2>1. alive /\ UNCHANGED alive
    BY <1>1 DEF MoveInCall, Idle
  <2> QED
    BY <2>1, Zenon
<1>3. CASE pc' = "copying"
  <2>1. at' = "moving"
    BY <1>3 DEF DumpMoveIn, Goto
  <2>2. cds_status' = [cds_status EXCEPT !.move_in_ctx = "live"]
    BY <1>1, <1>3 DEF MoveInCall
  <2>3. cds_status'.move_in_ctx = "live" /\ cds_status'.traverse_error = FALSE
    BY <1>1, <2>2 DEF TypeOK, Status, Untouched
  <2> QED
    BY <1>1, <1>3, <2>1, <2>3
       DEF DumpInv, DumpPoints, Untouched, ExitZeroMeans
<1>4. CASE pc' # "copying"
  <2>1. pc' = "idle" /\ UNCHANGED cds_status
    BY <1>1, <1>4 DEF MoveInCall
  <2>2. at' = "outside" /\ outcome' = "exception"
    BY <1>2, <1>4 DEF DumpMoveIn, Leave
  <2> QED
    BY <1>1, <2>1, <2>2, EndsBefore DEF Untouched
<1> QED
  BY <1>3, <1>4

LEMMA DumpMovingStep ==
    ASSUME Inv, DumpInv, DumpMoving PROVE DumpInv'
<1>1. /\ at = "moving" /\ fn \in DumpForms /\ TypeOK
      /\ before.move_in_ctx = "null" /\ cds_status.move_in_ctx = "live"
      /\ UNCHANGED <<fn, before>>
  BY DEF DumpMoving, DumpInv, DumpPoints, Inv, Goto, Leave
<1>2. CASE MoveInHeapFull
  <2>1. alive' = FALSE /\ pc' = "idle"
    BY <1>2 DEF MoveInHeapFull, Die
  <2>2. at' = "outside"
    BY <2>1 DEF DumpMoving, Leave
  <2> QED
    BY <2>1, <2>2, EndsDead
<1>3. CASE MoveInCopied \/ MoveInUnsupported
  <2>1. pc' = "copied" /\ alive /\ UNCHANGED alive
    BY <1>3 DEF MoveInCopied, MoveInUnsupported
  <2>2. alive'
    BY <2>1, Zenon
  <2>3. at' = "moving"
    BY <2>1, <2>2 DEF DumpMoving, Goto
  <2>4. image = "empty" /\ cds_status.traverse_error = FALSE
    BY <1>1, <1>3 DEF DumpInv, MoveInCopied, MoveInUnsupported
  <2>5. CASE MoveInCopied
    <3>1. image' = "full" /\ cds_status' = cds_status
      BY <2>5 DEF MoveInCopied
    <3>2. /\ cds_status'.traverse_error = (image' # "full")
          /\ cds_status'.move_in_ctx = "live"
      BY <1>1, <2>4, <3>1
    <3> QED
      BY <1>1, <2>1, <2>3, <3>2 DEF DumpInv, DumpPoints, ExitZeroMeans
  <2>6. CASE MoveInUnsupported
    <3>1. /\ image' = "empty"
          /\ cds_status' = [cds_status EXCEPT !.traverse_error = TRUE]
      BY <2>4, <2>6 DEF MoveInUnsupported
    <3>2. /\ cds_status'.traverse_error = (image' # "full")
          /\ cds_status'.move_in_ctx = "live"
      BY <1>1, <3>1 DEF TypeOK, Status
    <3> QED
      BY <1>1, <2>1, <2>3, <3>2 DEF DumpInv, DumpPoints, ExitZeroMeans
  <2> QED
    BY <1>3, <2>5, <2>6
<1>4. CASE MoveInFinish
  <2>1. /\ alive /\ UNCHANGED <<alive, image>> /\ pc = "copied" /\ pc' = "idle"
        /\ cds_status' = [cds_status EXCEPT !.move_in_ctx = "freed"]
        /\ Return("_move_in", IF cds_status.traverse_error
                              THEN "Trying to move in" ELSE "ok")
    BY <1>4 DEF MoveInFinish
  <2>2. alive'
    BY <2>1, Zenon
  <2>3. at' = "outside" /\ outcome' = DumpResult
    BY <2>1, <2>2 DEF DumpMoving, Leave
  <2>4. cds_status.traverse_error = (image # "full")
    BY <1>1, <2>1 DEF DumpInv
  <2>5. reply'.res = "ok" <=> image = "full"
    <3>1. CASE image = "full"
      BY <2>1, <2>4, <3>1, AnswerIs
    <3>2. CASE image # "full"
      BY <2>1, <2>4, <3>2, AnswerIs
    <3> QED
      BY <3>1, <3>2
  <2>6. (outcome' = "exit(0)" <=> image' = "full") /\ outcome' # "ok"
    BY <2>1, <2>3, <2>5 DEF DumpResult
  <2>7. cds_status'.move_in_ctx = "freed" /\ before'.move_in_ctx = "null"
    BY <1>1, <2>1 DEF TypeOK, Status
  <2> QED
    BY <1>1, <2>1, <2>3, <2>6, <2>7 DEF DumpInv, DumpPoints, ExitZeroMeans
<1> QED
  BY <1>2, <1>3, <1>4 DEF DumpMoving

LEMMA DumpInvStep ==
    PackageInv /\ MoveInOnce /\ DumpInv /\ [NextPackage]_<<statusVars, pyVars>>
        => DumpInv'
<1> SUFFICES ASSUME PackageInv, MoveInOnce, DumpInv,
                    [NextPackage]_<<statusVars, pyVars>>
             PROVE  DumpInv'
  OBVIOUS
<1> USE DEF Goto, Leave, Then, ThenLeave
<1>1. Inv /\ TypeOK /\ RoleInv
  BY DEF PackageInv, Inv
<1>2. ASSUME NEW f \in Functions, Call(f) PROVE DumpInv'
  BY <1>2, CallStep
<1>3. CASE Enter \/ Verbosity \/ ChooseRole \/ ChooseMode
  <2>1. /\ UNCHANGED <<fn, pc>> /\ at \in {"init_from_env", "verbosity", "mode"}
        /\ at' \notin DumpPoints
    BY <1>3 DEF Enter, Verbosity, ChooseRole, ChooseMode, Inside, statusVars,
                SetVerbose, SetMode, DumpPoints
  <2> QED
    BY <2>1, OtherFunction DEF DumpPoints
<1>4. CASE ClaimTrace \/ \E f \in Fds \cup {-1} : OpenList(f)
  <2>1. /\ UNCHANGED <<fn, pc>> /\ at \in {"trace", "list"} /\ at' \notin DumpPoints
    BY <1>4 DEF ClaimTrace, OpenList, Inside, SetMode, DumpPoints
  <2> QED
    BY <2>1, OtherFunction DEF DumpPoints
<1>5. CASE \/ \E f \in Fds \cup {-1}, ok \in BOOLEAN : ShareLoad(f, ok)
           \/ ShareRoot
           \/ \E pairs \in BOOLEAN : ShareDict(pairs)
  <2>1. /\ UNCHANGED <<fn, pc>> /\ at \in {"share", "root", "dict"}
        /\ at' \notin DumpPoints
    BY <1>5 DEF ShareLoad, Loaded, ShareRoot, ShareDict, Inside, Idle, statusVars,
                LoadArchive, GetObj, Die, DumpPoints
  <2> QED
    BY <2>1, OtherFunction DEF DumpPoints
<1>6. CASE DumpFails
  <2>1. /\ at = "run_dump" /\ at' = "outside" /\ UNCHANGED <<fn, before, statusVars>>
        /\ pc = "idle" /\ alive
    BY <1>6 DEF DumpFails, Inside, Idle
  <2>2. UNCHANGED <<alive, pc, cds_status>>
    BY <2>1 DEF statusVars
  <2>3. alive'
    BY <2>1, <2>2, Zenon
  <2>4. outcome' = "exception" \/ (outcome' = "ok" /\ fn = "cds.dump")
    <3>1. PICK e \in {"ValueError", "other"} : outcome' = Raised(e)
      BY <1>6, <2>3 DEF DumpFails
    <3> QED
      BY <3>1 DEF Raised
  <2> QED
    BY <2>1, <2>2, <2>4, EndsUntouched DEF DumpInv
<1>7. ASSUME NEW f \in Fds \cup {-1}, DumpCreate(f) PROVE DumpInv'
  BY <1>1, <1>7, DumpCreateStep
<1>8. CASE DumpCreating
  BY <1>1, <1>8, DumpCreatingStep
<1>9. CASE DumpMoveIn
  BY <1>9, DumpMoveInStep
<1>10. CASE DumpMoving
  BY <1>1, <1>10, DumpMovingStep
<1>11. CASE Elsewhere
  <2>1. UNCHANGED <<alive, pc, cds_status, image, at, fn, before, outcome>>
    BY <1>11 DEF Elsewhere, OpenOther, CloseOther, pyVars
  <2> QED
    BY <2>1 DEF DumpInv, DumpPoints, Untouched, ExitZeroMeans
<1>12. CASE Killed
  BY <1>12, EndsDead DEF Killed, Exit, Die
<1>13. CASE StartProcess
  <2>1. /\ ~ alive /\ UNCHANGED <<pc, at>> /\ fn' = "none"
    BY <1>13 DEF StartProcess, Start
  <2>2. at = "outside"
    BY <1>1, <2>1 DEF RoleInv
  <2> QED
    BY <2>1, <2>2 DEF DumpInv, DumpPoints, DumpForms, ExitZeroMeans
<1>14. CASE UNCHANGED <<statusVars, pyVars>>
  BY <1>14 DEF statusVars, pyVars, DumpInv, DumpPoints, Untouched,
               ExitZeroMeans
<1> QED
  BY <1>2, <1>3, <1>4, <1>5, <1>6, <1>7, <1>8, <1>9, <1>10, <1>11, <1>12, <1>13,
     <1>14 DEF NextPackage

LEMMA DumpInit == InitPackage => MoveInOnce /\ DumpInv
BY DEF InitPackage, Init, MoveInOnce, InitStatus, DumpInv, DumpPoints,
       ExitZeroMeans

LEMMA OncePackageStep ==
    PackageInv /\ MoveInOnce /\ [NextPackage]_<<statusVars, pyVars>> => MoveInOnce'
<1> SUFFICES ASSUME PackageInv, MoveInOnce, [NextPackage]_<<statusVars, pyVars>>
             PROVE  MoveInOnce'
  OBVIOUS
<1>1. PackageInv' /\ [Next]_vars
  BY PackageStep, ClientStep DEF PackageInv
<1> QED
  BY <1>1, OnceStep DEF PackageInv

\* What a build script may take from the exit code: run_dump raises
\* SystemExit(0) exactly when the archive holds all that it was asked to move in;
\* the command line ends with exit code 0 also after a ValueError, and then this
\* run has created no archive.
THEOREM ExitCodeTells == SpecPackage => []ExitZeroMeans
<1> DEFINE All == PackageInv /\ MoveInOnce /\ DumpInv
<1>1. InitPackage => All
  BY PackageInit, DumpInit
<1>2. All /\ [NextPackage]_<<statusVars, pyVars>> => All'
  BY PackageStep, OncePackageStep, DumpInvStep
<1>3. All => ExitZeroMeans
  BY DEF DumpInv
<1> QED
  BY <1>1, <1>2, <1>3, PTL DEF SpecPackage

-----------------------------------------------------------------------------
(* init_from_env. *)

\* On the way from its second statement to the role that the environment asks
\* for, init_from_env has given none yet.
EnvInv ==
    /\ at \in {"init_from_env", "verbosity", "mode"} => fn = "init_from_env"
    /\ at = "init_from_env" => cds_status = before
    /\ fn = "init_from_env" /\ at \notin {"outside", "init_from_env"} =>
           ~ before.initialized /\ finder = 0 /\ tracer = 0
    /\ fn = "init_from_env" /\ at \in {"trace", "list"} => Traces
    /\ fn = "init_from_env" /\ at \in {"share", "root", "dict"} => Shares
    /\ InitFollowsEnvironment

\* A step inside init_from_env, or of another function.
LEMMA EnvGoesOn ==
    ASSUME EnvInv, UNCHANGED <<env, fn, before, roles>>, at # "init_from_env",
           at # "outside", at' \notin {"outside", "init_from_env"},
           at' \in {"verbosity", "mode"} => at \in {"verbosity", "mode"},
           fn = "init_from_env" /\ at' \in {"trace", "list"} => Traces,
           fn = "init_from_env" /\ at' \in {"share", "root", "dict"} => Shares
    PROVE  EnvInv'
BY DEF EnvInv, InitFollowsEnvironment, Traces, Shares, roles

\* A function ends with an exception, or its process does.
LEMMA EnvFails ==
    ASSUME EnvInv, UNCHANGED <<env, fn, before, roles>>, at' = "outside",
           at # "outside", at # "init_from_env",
           alive' => outcome' = "exception"
    PROVE  EnvInv'
BY DEF EnvInv, InitFollowsEnvironment, roles

\* init_from_env ends without an exception, with the mode it was asked for.
LEMMA EnvSucceeds ==
    ASSUME EnvInv, UNCHANGED <<env, fn, before>>, at' = "outside",
           at # "outside", at # "init_from_env", alive' => outcome' = "ok",
           fn = "init_from_env" =>
               /\ cds_status'.initialized /\ cds_status'.mode = ModeOf(env)
               /\ finder' = (IF cds_status'.mode = CDS_MODE_SHARE THEN 1 ELSE 0)
               /\ tracer' = (IF cds_status'.mode = CDS_MODE_DUMP_LIST THEN 1 ELSE 0)
    PROVE  EnvInv'
<1>1. ModeOf(env)' = ModeOf(env)
  BY DEF ModeOf
<1> QED
  BY <1>1 DEF EnvInv, InitFollowsEnvironment

\* What the environment says of the mode.
LEMMA ModeOfEnv ==
    /\ Traces => ModeOf(env) = CDS_MODE_DUMP_LIST
    /\ Shares => ModeOf(env) = CDS_MODE_SHARE
    /\ ~ Traces /\ ~ Shares =>
           ModeOf(env) = IF Manually THEN CDS_MODE_MANUALLY ELSE CDS_MODE_DISABLED
<1>1. Traces => ~ Shares /\ ~ Manually
  BY DEF Traces, Shares, Manually
<1>2. Shares => ~ Manually
  BY DEF Shares, Manually
<1> QED
  BY <1>1, <1>2 DEF ModeOf, Traces, Shares, Manually

LEMMA EnvTraceStep ==
    ASSUME PackageInv, EnvInv, NEW f \in Fds \cup {-1}, OpenList(f) PROVE EnvInv'
<1>1. /\ at = "list" /\ at' = "outside" /\ alive /\ Tracing /\ tracer = 0
      /\ UNCHANGED <<env, fn, before, finder, cds_status, alive>>
  BY DEF OpenList, Inside, Idle, Leave, PackageInv, RoleInv
<1>2. CASE f = -1
  <2>1. outcome' = "exception" \/ ~ alive'
    BY <1>1, <1>2 DEF OpenList, Leave
  <2>2. UNCHANGED roles
    BY <1>1, <1>2 DEF OpenList, roles
  <2> QED
    BY <1>1, <2>1, <2>2, EnvFails
<1>3. CASE f # -1
  <2>1. tracer' = 1
    BY <1>1, <1>3 DEF OpenList
  <2>2. fn = "init_from_env" => Traces /\ finder' = 0
    BY <1>1 DEF EnvInv
  <2>3. CDS_MODE_DUMP_LIST # CDS_MODE_SHARE
    BY DEF CDS_MODE_DUMP_LIST, CDS_MODE_SHARE
  <2>4. cds_status'.initialized /\ cds_status'.mode = CDS_MODE_DUMP_LIST
    BY <1>1 DEF Tracing
  <2>5. alive' => outcome' = "ok"
    BY <1>1, <1>3 DEF OpenList, Leave
  <2> QED
    BY <1>1, <2>1, <2>2, <2>3, <2>4, <2>5, ModeOfEnv, EnvSucceeds
<1> QED
  BY <1>2, <1>3

LEMMA EnvShareStep ==
    ASSUME PackageInv, EnvInv, NEW pairs \in BOOLEAN, ShareDict(pairs) PROVE EnvInv'
<1>1. /\ at = "dict" /\ at' = "outside" /\ alive /\ Serving /\ finder = 0
      /\ UNCHANGED <<env, fn, before, tracer, cds_status>>
  BY DEF ShareDict, Inside, Idle, Leave, PackageInv, RoleInv, statusVars
<1>2. CASE ~ pairs
  <2>1. outcome' = "exception" \/ ~ alive'
    BY <1>1, <1>2 DEF ShareDict, Leave
  <2>2. UNCHANGED roles
    BY <1>1, <1>2 DEF ShareDict, roles
  <2> QED
    BY <1>1, <2>1, <2>2, EnvFails
<1>3. CASE pairs
  <2>1. finder' = 1
    BY <1>1, <1>3 DEF ShareDict
  <2>2. fn = "init_from_env" => Shares /\ tracer' = 0
    BY <1>1 DEF EnvInv
  <2>3. CDS_MODE_DUMP_LIST # CDS_MODE_SHARE
    BY DEF CDS_MODE_DUMP_LIST, CDS_MODE_SHARE
  <2>4. cds_status'.initialized /\ cds_status'.mode = CDS_MODE_SHARE
    BY <1>1 DEF Serving
  <2>5. alive' => outcome' = "ok"
    BY <1>1, <1>3 DEF ShareDict, Leave
  <2> QED
    BY <1>1, <2>1, <2>2, <2>3, <2>4, <2>5, ModeOfEnv, EnvSucceeds
<1> QED
  BY <1>2, <1>3

LEMMA EnvModeStep == ASSUME PackageInv, EnvInv, ChooseMode PROVE EnvInv'
<1> DEFINE m == IF Manually THEN CDS_MODE_MANUALLY ELSE CDS_MODE_DISABLED
<1>1. /\ at = "mode" /\ at' = "outside" /\ ~ Traces /\ ~ Shares /\ SetMode(m)
      /\ UNCHANGED <<env, fn, before, roles, alive>> /\ TypeOK
  BY DEF ChooseMode, Inside, ThenLeave, Leave, PackageInv, Inv, SetMode
<1>2. m \in Modes /\ m \notin {CDS_MODE_SHARE, CDS_MODE_DUMP_LIST}
  BY DEF Modes, CDS_MODE_MANUALLY, CDS_MODE_DISABLED, CDS_MODE_SHARE,
         CDS_MODE_DUMP_LIST
<1>3. m = ModeOf(env)
  BY <1>1, ModeOfEnv
<1> HIDE DEF m
<1>4. CASE reply'.res # "ok"
  <2>1. alive' => outcome' = "exception"
    BY <1>4 DEF ChooseMode, ThenLeave, Leave
  <2> QED
    BY <1>1, <2>1, EnvFails
<1>5. CASE reply'.res = "ok"
  <2>1. cds_status' = WithMode(m)
    BY <1>1, <1>2, <1>5, AnswerIs DEF SetMode
  <2>2. cds_status'.initialized /\ cds_status'.mode = m
    BY <1>1, <1>2, <2>1, WithModeFields
  <2>3. fn = "init_from_env" /\ finder' = 0 /\ tracer' = 0
    BY <1>1 DEF EnvInv, roles
  <2>4. alive' => outcome' = "ok"
    BY <1>5 DEF ChooseMode, ThenLeave, Leave
  <2> QED
    BY <1>1, <1>2, <1>3, <2>2, <2>3, <2>4, EnvSucceeds
<1> QED
  BY <1>4, <1>5

LEMMA EnvStep ==
    PackageInv /\ DumpInv /\ EnvInv /\ [NextPackage]_<<statusVars, pyVars>> => EnvInv'
<1> SUFFICES ASSUME PackageInv, DumpInv, EnvInv,
                    [NextPackage]_<<statusVars, pyVars>>
             PROVE  EnvInv'
  OBVIOUS
<1> USE DEF Goto, Leave, Then, ThenLeave
<1>1. ASSUME NEW f \in Functions, Call(f) PROVE EnvInv'
  <2>1. /\ fn' = f /\ before' = cds_status' /\ UNCHANGED env
        /\ \/ f \in DumpForms /\ at' = "run_dump"
           \/ f \in {"init_from_env", "trace", "share"} /\ at' = f
    BY <1>1 DEF Call, statusVars, Functions, DumpForms
  <2> QED
    BY <2>1 DEF EnvInv, InitFollowsEnvironment, DumpForms
<1>2. CASE Enter
  <2>1. /\ at = "init_from_env" /\ alive /\ cds_status = before
        /\ fn = "init_from_env" /\ UNCHANGED <<env, fn, before, roles>>
        /\ UNCHANGED <<alive, cds_status>>
    BY <1>2 DEF Enter, Inside, Idle, statusVars, EnvInv
  <2>2. alive'
    BY <2>1, Zenon
  <2>3. CASE cds_status.initialized
    <3>1. at' = "outside" /\ outcome' = "ok"
      BY <1>2, <2>2, <2>3 DEF Enter, ReEntered
    <3> QED
      BY <2>1, <2>3, <3>1 DEF EnvInv, InitFollowsEnvironment
  <2>4. CASE ~ cds_status.initialized
    <3>1. at' = "verbosity"
      BY <1>2, <2>4 DEF Enter, ReEntered
    <3>2. finder = 0 /\ tracer = 0
      BY <2>1, <2>4 DEF PackageInv, RoleInv, Serving, Tracing
    <3> QED
      BY <2>1, <2>4, <3>1, <3>2 DEF EnvInv, InitFollowsEnvironment, roles
  <2> QED
    BY <2>3, <2>4
<1>3. CASE Verbosity
  <2>1. /\ at = "verbosity" /\ UNCHANGED <<env, fn, before, roles>>
        /\ \/ at' = "mode"
           \/ at' = "outside" /\ (alive' => outcome' = "exception")
    BY <1>3 DEF Verbosity, Inside
  <2>2. CASE at' = "mode"
    BY <2>1, <2>2, EnvGoesOn
  <2>3. CASE at' = "outside"
    BY <2>1, <2>3, EnvFails
  <2> QED
    BY <2>1, <2>2, <2>3
<1>4. CASE ChooseRole
  <2>1. /\ at = "mode" /\ UNCHANGED <<env, fn, before, roles>>
        /\ \/ Traces /\ at' = "trace"
           \/ Shares /\ at' = "share"
    BY <1>4 DEF ChooseRole, Inside, statusVars, roles
  <2>2. CASE Traces /\ at' = "trace"
    BY <2>1, <2>2, EnvGoesOn
  <2>3. CASE Shares /\ at' = "share"
    BY <2>1, <2>3, EnvGoesOn
  <2> QED
    BY <2>1, <2>2, <2>3
<1>5. CASE ChooseMode
  BY <1>5, EnvModeStep
<1>6. CASE ClaimTrace
  <2>1. /\ at = "trace" /\ UNCHANGED <<env, fn, before, roles>>
        /\ \/ at' = "list"
           \/ at' = "outside" /\ (alive' => outcome' = "exception")
    BY <1>6 DEF ClaimTrace, Inside
  <2>2. fn = "init_from_env" => Traces
    BY <2>1 DEF EnvInv
  <2> QED
    BY <2>1, <2>2, EnvGoesOn, EnvFails
<1>7. CASE ShareRoot \/ \E f \in Fds \cup {-1}, ok \in BOOLEAN : ShareLoad(f, ok)
  <2>1. /\ at \in {"share", "root"} /\ UNCHANGED <<env, fn, before, roles>>
        /\ \/ at' \in {"root", "dict"}
           \/ at' = "outside" /\ (alive' => outcome' = "exception")
    BY <1>7 DEF ShareLoad, Loaded, ShareRoot, Inside
  <2>2. fn = "init_from_env" => Shares
    BY <2>1 DEF EnvInv
  <2> QED
    BY <2>1, <2>2, EnvGoesOn, EnvFails
<1>8. CASE \/ \E f \in Fds \cup {-1} : OpenList(f)
           \/ \E pairs \in BOOLEAN : ShareDict(pairs)
  BY <1>8, EnvTraceStep, EnvShareStep
<1>9. CASE \/ \E f \in Fds \cup {-1} : DumpCreate(f)
           \/ DumpFails \/ DumpCreating \/ DumpMoveIn \/ DumpMoving
  <2>1. /\ at \in DumpPoints /\ at' \in DumpPoints \cup {"outside"}
        /\ UNCHANGED fn
    BY <1>9 DEF DumpCreate, DumpFails, DumpCreating, DumpMoveIn, DumpMoving, Inside,
                DumpPoints
  <2>2. fn \in DumpForms
    BY <2>1 DEF DumpInv
  <2> QED
    BY <2>1, <2>2 DEF DumpForms, EnvInv, InitFollowsEnvironment, DumpPoints
<1>10. CASE Elsewhere
  <2>1. /\ at = "outside" /\ UNCHANGED pyVars /\ UNCHANGED <<alive, cds_status>>
    BY <1>10 DEF Elsewhere, OpenOther, CloseOther, Inside
  <2> QED
    BY <2>1 DEF EnvInv, InitFollowsEnvironment, ModeOf, pyVars
<1>11. CASE Killed
  <2>1. at' = "outside" /\ alive' = FALSE
    BY <1>11 DEF Killed, Exit, Die
  <2> QED
    BY <2>1 DEF EnvInv, InitFollowsEnvironment
<1>12. CASE StartProcess
  <2>1. at = "outside" /\ UNCHANGED at /\ fn' = "none"
    BY <1>12 DEF StartProcess, Start, PackageInv, RoleInv
  <2> QED
    BY <2>1 DEF EnvInv, InitFollowsEnvironment
<1>13. CASE UNCHANGED <<statusVars, pyVars>>
  BY <1>13 DEF statusVars, pyVars, EnvInv, InitFollowsEnvironment, ModeOf, Traces,
               Shares
<1> QED
  BY <1>1, <1>2, <1>3, <1>4, <1>5, <1>6, <1>7, <1>8, <1>9, <1>10, <1>11, <1>12,
     <1>13 DEF NextPackage

\* Unless an exception left it, init_from_env gives a process the mode that the
\* environment asks for and the role that goes with it; after an exception the
\* process has no role, and another call changes nothing.
THEOREM EnvironmentIsFollowed == SpecPackage => []InitFollowsEnvironment
<1> DEFINE All == PackageInv /\ MoveInOnce /\ DumpInv /\ EnvInv
<1>1. InitPackage => All
  <2> SUFFICES ASSUME InitPackage PROVE All
    OBVIOUS
  <2>1. at = "outside" /\ fn = "none"
    BY DEF InitPackage
  <2> QED
    BY <2>1, PackageInit, DumpInit DEF EnvInv, InitFollowsEnvironment
<1>2. All /\ [NextPackage]_<<statusVars, pyVars>> => All'
  BY PackageStep, OncePackageStep, DumpInvStep, EnvStep
<1>3. All => InitFollowsEnvironment
  BY DEF EnvInv
<1> QED
  BY <1>1, <1>2, <1>3, PTL DEF SpecPackage
=============================================================================
