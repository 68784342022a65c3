------------------------------ MODULE CdsStatus ------------------------------
(***************************************************************************)
(* The process-wide state of the extension module `_cds' (the global       *)
(* struct CDSStatus) under the most general client: any sequence of the    *)
(* module's methods, called in one process after another, each of which    *)
(* may be killed between any two writes to the archive file.  The archive  *)
(* file outlives the processes; processes run one at a time, as in the     *)
(* trace / dump / share workflow of the README.  The graph that `_move_in' *)
(* copies is abstracted to the outcome of the copy; MoveIn has the detail. *)
(***************************************************************************)
EXTENDS Integers

CONSTANTS
    ModeArgs,       \* the integers clients pass to _set_mode
    VerboseArgs,    \* the integers clients pass to _set_verbose
    MaxFd           \* descriptors are 0..MaxFd (RLIMIT_NOFILE)

ASSUME ArgsAssumption == ModeArgs \subseteq Int /\ VerboseArgs \subseteq Int
ASSUME MaxFdAssumption == MaxFd \in Nat

CDS_MODE_DISABLED     == 0
CDS_MODE_DUMP_LIST    == 1
CDS_MODE_DUMP_ARCHIVE == 2
CDS_MODE_SHARE        == 3
CDS_MODE_MANUALLY     == -1

Modes == {CDS_MODE_DISABLED, CDS_MODE_DUMP_LIST, CDS_MODE_DUMP_ARCHIVE,
          CDS_MODE_SHARE, CDS_MODE_MANUALLY}

Fds     == 0..MaxFd
NULL_FD == 0        \* "no descriptor", and also the number of stdin

\* The archive file: no file; shorter than its header; a header of zeros;
\* mapped_addr written but `used' still 0; a complete header with obj NULL;
\* obj a string that is not on all_string_ref yet; obj and its strings.
Images == {"absent", "short", "blank", "unsized", "empty", "unlisted", "full"}

PCs == {"idle", "opened", "sized", "mapped", "stamped",      \* _create_archive
        "copying", "listing", "copied"}                      \* _move_in

Calls == {"none", "_set_mode", "_set_verbose", "_create_archive",
          "_load_archive", "_move_in", "_get_obj", "close"}

VARIABLES
    alive,          \* a process that imported _cds is running
    cds_status,     \* its struct CDSStatus
    pc,             \* how far the method it is executing has come
    fds,            \* its descriptor table: "free", "other" or "archive"
    mapping,        \* what is mapped at CDS_REQUESTING_ADDR
    image,          \* the archive file
    reply           \* the last call and what it returned or raised

vars == <<alive, cds_status, pc, fds, mapping, image, reply>>

Status == [verbose : 0..2, mode : Modes, initialized : BOOLEAN,
           traverse_error : BOOLEAN,
           archive : BOOLEAN,           \* not NULL
           archive_fd : Int,
           archive_header : BOOLEAN,    \* not NULL
           flags : [mode : Modes, verbose : 0..2],
           move_in_ctx : {"null", "live", "freed"}]

\* The zero-initialised global, after PyInit__cds made the flags.
InitStatus == [verbose |-> 0, mode |-> CDS_MODE_DISABLED, initialized |-> FALSE,
               traverse_error |-> FALSE, archive |-> FALSE,
               archive_fd |-> NULL_FD, archive_header |-> FALSE,
               flags |-> [mode |-> 0, verbose |-> 0], move_in_ctx |-> "null"]

InitFds == [f \in Fds |-> IF f <= 2 THEN "other" ELSE "free"]

Init == /\ alive = TRUE
        /\ cds_status = InitStatus
        /\ pc = "idle"
        /\ fds = InitFds
        /\ mapping = "none"
        /\ image = "absent"
        /\ reply = [call |-> "none", res |-> "ok"]

-----------------------------------------------------------------------------
(* Helpers *)

Idle == alive /\ pc = "idle"

Return(call, res) == reply' = [call |-> call, res |-> res]

\* The end of the process: the kernel takes back descriptors and mappings.
Die(call, res) == /\ alive' = FALSE
                  /\ cds_status' = InitStatus
                  /\ pc' = "idle"
                  /\ fds' = InitFds
                  /\ mapping' = "none"
                  /\ Return(call, res)

\* open() returns the lowest free descriptor, or -1 for any errno.
Opens(f) == f = -1 \/ /\ f \in Fds
                      /\ fds[f] = "free"
                      /\ \A g \in Fds : fds[g] = "free" => f <= g

\* Fault: a mode is granted again to a process that already has one.
ModeOutcome_Regrant(m) ==
    IF m \notin Modes THEN "invalid mode"
    ELSE IF /\ cds_status.initialized
            /\ cds_status.mode # CDS_MODE_MANUALLY
            /\ m # CDS_MODE_DUMP_ARCHIVE
         THEN "cds already initialized"
         ELSE "ok"

\* Fault: any integer is a mode.
ModeOutcome_Any(m) ==
    IF /\ cds_status.initialized
       /\ cds_status.mode # CDS_MODE_MANUALLY
       /\ ~ (cds_status.mode = CDS_MODE_DISABLED /\ m = CDS_MODE_DUMP_ARCHIVE)
    THEN "cds already initialized"
    ELSE "ok"

\* Fault: the test of close_archive is the wrong way round.
Closed_Never(f) == fds

\* close(f): EBADF, and no effect, for a negative descriptor.
Closed(f) == IF f \in Fds THEN [fds EXCEPT ![f] = "free"] ELSE fds

\* What PyCDS_SetInitializedWithMode answers to a request for mode m ...
ModeOutcome(m) ==
    IF m \notin Modes THEN "invalid mode"
    ELSE IF /\ cds_status.initialized
            /\ cds_status.mode # CDS_MODE_MANUALLY
            /\ ~ (cds_status.mode = CDS_MODE_DISABLED /\ m = CDS_MODE_DUMP_ARCHIVE)
         THEN "cds already initialized"
         ELSE "ok"

\* ... and the status it leaves when it grants it.
WithMode(m) == [cds_status EXCEPT !.initialized = TRUE, !.mode = m,
                                  !.flags.mode = m]

\* cds_status.mode & CDS_MODE_DUMP_ARCHIVE, on a two's complement integer.
DumpBit(m) == (m % 4) \div 2 = 1

-----------------------------------------------------------------------------
(* _set_mode, _set_verbose, _get_obj *)

SetMode(m) ==
    LET res == IF m = CDS_MODE_SHARE THEN "invalid mode" ELSE ModeOutcome(m) IN
    /\ Idle
    /\ cds_status' = IF res = "ok" THEN WithMode(m) ELSE cds_status
    /\ Return("_set_mode", res)
    /\ UNCHANGED <<alive, pc, fds, mapping, image>>

SetVerbose(v) ==
    LET valid == v >= 0 /\ v <= 2 IN
    /\ Idle
    /\ cds_status' = IF valid THEN [cds_status EXCEPT !.verbose = v,
                                                      !.flags.verbose = v]
                     ELSE cds_status
    /\ Return("_set_verbose", IF valid THEN "ok" ELSE "invalid verbose")
    /\ UNCHANGED <<alive, pc, fds, mapping, image>>

\* archive_header is read without asking whether there is one: a null or an
\* unmapped header is a segmentation fault.
GetObj ==
    /\ Idle
    /\ IF cds_status.archive_header /\ mapping # "none"
       THEN /\ Return("_get_obj", IF image = "empty" THEN "No object in heap"
                                  ELSE "object")
            /\ UNCHANGED <<alive, cds_status, pc, fds, mapping>>
       ELSE Die("_get_obj", "segmentation fault")
    /\ UNCHANGED image

-----------------------------------------------------------------------------
(* _create_archive *)

\* The mode is claimed first and is kept whatever happens next.  O_TRUNC
\* empties an older archive at once.  Descriptor 0 counts as a failure.
CreateOpen(f) ==
    LET res == ModeOutcome(CDS_MODE_DUMP_ARCHIVE)
        claimed == WithMode(CDS_MODE_DUMP_ARCHIVE)
        used_before == \/ cds_status.archive
                       \/ cds_status.archive_fd # NULL_FD
                       \/ cds_status.archive_header
    IN
    /\ Idle
    /\ Opens(f)
    /\ IF res # "ok" \/ used_before
       THEN /\ Return("_create_archive",
                      IF res # "ok" THEN res ELSE "archive already initialized")
            /\ cds_status' = IF res = "ok" THEN claimed ELSE cds_status
            /\ UNCHANGED <<pc, fds, image>>
       ELSE /\ image' = IF f = -1 THEN image ELSE "short"
            /\ IF f > 0
               THEN /\ cds_status' = [claimed EXCEPT !.archive = TRUE,
                                                     !.archive_fd = f]
                    /\ fds' = [fds EXCEPT ![f] = "archive"]
                    /\ pc' = "opened"
                    /\ UNCHANGED reply
               ELSE /\ cds_status' = [claimed EXCEPT !.archive = TRUE]
                    /\ fds' = fds       \* 0 is closed again, close(-1) fails
                    /\ Return("_create_archive", "create mmap file failed")
                    /\ UNCHANGED pc
    /\ UNCHANGED <<alive, mapping>>

\* The result of ftruncate is not looked at.
CreateTruncate(resized) ==
    /\ alive /\ pc = "opened"
    /\ image' = IF resized THEN "blank" ELSE image
    /\ pc' = "sized"
    /\ UNCHANGED <<alive, cds_status, fds, mapping, reply>>

\* Fault: the header pointer is assigned before mmap's result is looked at.
AfterMap_Early(ok) ==
    [cds_status EXCEPT !.archive_header = TRUE,
                       !.archive_fd = IF ok THEN @ ELSE NULL_FD]

AfterMap(ok) == IF ok THEN [cds_status EXCEPT !.archive_header = TRUE]
                      ELSE [cds_status EXCEPT !.archive_fd = NULL_FD]

CreateMap(ok) ==
    /\ alive /\ pc = "sized"
    /\ cds_status' = AfterMap(ok)
    /\ IF ok
       THEN /\ mapping' = "shared"
            /\ pc' = "mapped"
            /\ UNCHANGED <<fds, reply>>
       ELSE /\ fds' = Closed(cds_status.archive_fd)
            /\ pc' = "idle"
            /\ Return("_create_archive", "mmap failed during dump")
            /\ UNCHANGED mapping
    /\ UNCHANGED <<alive, image>>

\* The first store to the mapping; beyond the end of the file it is SIGBUS.
CreateStampAddr ==
    /\ alive /\ pc = "mapped"
    /\ IF image = "short"
       THEN Die("_create_archive", "bus error") /\ UNCHANGED image
       ELSE /\ image' = "unsized"
            /\ pc' = "stamped"
            /\ UNCHANGED <<alive, cds_status, fds, mapping, reply>>

CreateStampUsed ==
    /\ alive /\ pc = "stamped"
    /\ image' = "empty"
    /\ pc' = "idle"
    /\ Return("_create_archive", "ok")
    /\ UNCHANGED <<alive, cds_status, fds, mapping>>

-----------------------------------------------------------------------------
(* _load_archive *)

\* Fault: the number of bytes read is not compared with the header's size.
LoadOutcome_NoLength(f, mappable) ==
    CASE f <= 0            -> "open mmap file failed"
      [] image = "blank"   -> "Archive address changed"
      [] image = "unsized" \/ ~ mappable -> "mmap failed"
      [] OTHER             -> "ok"

\* What the checks of PyCDS_LoadArchive say once open() returned f; mapping a
\* length of 0 fails with EINVAL, any other mapping may fail with ENOMEM.
LoadOutcome(f, mappable) ==
    CASE f <= 0            -> "open mmap file failed"
      [] image = "short"   -> "read archive header failed"
      [] image = "blank"   -> "Archive address changed"
      [] image = "unsized" \/ ~ mappable -> "mmap failed"
      [] OTHER             -> "ok"

\* One step: until it returns, nothing it does outlives the process.  The
\* descriptor is closed on every path; when open() failed, close_archive is
\* called on NULL_FD and closes descriptor 0.
LoadArchive(f, mappable) ==
    LET res == ModeOutcome(CDS_MODE_SHARE)
        claimed == WithMode(CDS_MODE_SHARE)
        outcome == LoadOutcome(f, mappable)
    IN
    /\ Idle
    /\ Opens(f)
    /\ image = "absent" => f = -1
    /\ IF res # "ok" \/ cds_status.archive_header
       THEN /\ Return("_load_archive",
                      IF res # "ok" THEN res ELSE "archive already loaded")
            /\ cds_status' = IF res = "ok" THEN claimed ELSE cds_status
            /\ UNCHANGED <<fds, mapping>>
       ELSE /\ Return("_load_archive", outcome)
            /\ cds_status' = [claimed EXCEPT !.archive = TRUE,
                                             !.archive_fd = NULL_FD,
                                             !.archive_header = outcome = "ok"]
            /\ fds' = IF f <= 0 THEN Closed(NULL_FD) ELSE fds
            /\ mapping' = IF outcome = "ok" THEN "private" ELSE mapping
    /\ UNCHANGED <<alive, pc, image>>

-----------------------------------------------------------------------------
(* _move_in *)

MoveInCall ==
    /\ Idle
    /\ IF ~ DumpBit(cds_status.mode)
       THEN /\ Return("_move_in", "error without an exception")
            /\ UNCHANGED <<alive, cds_status, pc, fds, mapping>>
       ELSE IF cds_status.archive_fd = NULL_FD
       THEN /\ Return("_move_in", "move in already finished")
            /\ UNCHANGED <<alive, cds_status, pc, fds, mapping>>
       ELSE IF mapping = "none"
       THEN Die("_move_in", "segmentation fault")     \* *target = NULL
       ELSE /\ cds_status' = [cds_status EXCEPT !.move_in_ctx = "live"]
            /\ pc' = "copying"
            /\ UNCHANGED <<alive, fds, mapping, reply>>
    /\ UNCHANGED image

\* What PyCDS_MoveInRec makes of the argument.  A root other than a string is
\* published by its last store; a string is published before it is listed.
MoveInCopied ==
    /\ alive /\ pc = "copying"
    /\ image' = "full"
    /\ pc' = "copied"
    /\ UNCHANGED <<alive, cds_status, fds, mapping, reply>>

MoveInString ==
    /\ alive /\ pc = "copying"
    /\ image' = "unlisted"
    /\ pc' = "listing"
    /\ UNCHANGED <<alive, cds_status, fds, mapping, reply>>

MoveInList ==
    /\ alive /\ pc = "listing"
    /\ image' = "full"
    /\ pc' = "copied"
    /\ UNCHANGED <<alive, cds_status, fds, mapping, reply>>

MoveInUnsupported ==
    /\ alive /\ pc = "copying"
    /\ cds_status' = [cds_status EXCEPT !.traverse_error = TRUE]
    /\ pc' = "copied"
    /\ UNCHANGED <<alive, fds, mapping, image, reply>>

\* PyCDS_Malloc returned NULL and its caller wrote through it.
MoveInHeapFull ==
    /\ alive /\ pc \in {"copying", "listing"}
    /\ Die("_move_in", "heap full")
    /\ UNCHANGED image

\* Fault: the heap stays mapped after the descriptor was closed.
MoveInFinish_NoUnmap ==
    /\ alive /\ pc = "copied"
    /\ cds_status' = [cds_status EXCEPT !.move_in_ctx = "freed"]
    /\ fds' = Closed(cds_status.archive_fd)
    /\ pc' = "idle"
    /\ Return("_move_in", "ok")
    /\ UNCHANGED <<alive, mapping, image>>

\* PyCDS_FinalizeMoveIn and finalize_map, which works on a copy of cds_status:
\* the global archive_fd and archive_header keep their values.
MoveInFinish ==
    /\ alive /\ pc = "copied"
    /\ cds_status' = [cds_status EXCEPT !.move_in_ctx = "freed"]
    /\ mapping' = "none"
    /\ fds' = Closed(cds_status.archive_fd)
    /\ pc' = "idle"
    /\ Return("_move_in", IF cds_status.traverse_error
                          THEN "Trying to move in" ELSE "ok")
    /\ UNCHANGED <<alive, image>>

-----------------------------------------------------------------------------
(* The rest of the program, and the life of the process *)

OpenOther ==
    /\ Idle
    /\ \E f \in Fds : Opens(f) /\ fds' = [fds EXCEPT ![f] = "other"]
    /\ UNCHANGED <<alive, cds_status, pc, mapping, image, reply>>

CloseOther ==
    /\ Idle
    /\ \E f \in Fds : fds[f] = "other" /\ fds' = [fds EXCEPT ![f] = "free"]
    /\ Return("close", "ok")
    /\ UNCHANGED <<alive, cds_status, pc, mapping, image>>

\* Exit, or a kill in the middle of a call.
Exit == alive /\ Die("none", "ok") /\ UNCHANGED image

Start == /\ ~ alive
         /\ alive' = TRUE
         /\ Return("none", "ok")
         /\ UNCHANGED <<cds_status, pc, fds, mapping, image>>

Next ==
    \/ \E m \in ModeArgs : SetMode(m)
    \/ \E v \in VerboseArgs : SetVerbose(v)
    \/ \E f \in Fds \cup {-1} : CreateOpen(f)
    \/ \E f \in Fds \cup {-1}, ok \in BOOLEAN : LoadArchive(f, ok)
    \/ \E ok \in BOOLEAN : CreateTruncate(ok) \/ CreateMap(ok)
    \/ CreateStampAddr \/ CreateStampUsed
    \/ MoveInCall \/ MoveInCopied \/ MoveInString \/ MoveInList
    \/ MoveInUnsupported \/ MoveInHeapFull \/ MoveInFinish
    \/ GetObj
    \/ OpenOther \/ CloseOther \/ Exit \/ Start

Spec == Init /\ [][Next]_vars

-----------------------------------------------------------------------------
(* Properties *)

\* Type invariant of the extension's state, its process and the file.
TypeOK == /\ alive \in BOOLEAN
          /\ cds_status \in Status
          /\ pc \in PCs
          /\ fds \in [Fds -> {"free", "other", "archive"}]
          /\ mapping \in {"none", "shared", "private"}
          /\ image \in Images
          /\ reply.call \in Calls

\* A process works on one archive at most.  The mode is claimed before any
\* archive call and a process never leaves the two archive modes, so the
\* "already initialized" and "already loaded" checks inside
\* PyCDS_CreateArchive and PyCDS_LoadArchive are never what stops a call,
\* whatever failed before.
OneArchivePerProcess ==
    /\ cds_status.archive \/ cds_status.archive_header =>
            /\ cds_status.initialized
            /\ cds_status.mode \in {CDS_MODE_DUMP_ARCHIVE, CDS_MODE_SHARE}
    /\ reply.res \notin {"archive already initialized", "archive already loaded"}

\* The mapping at CDS_REQUESTING_ADDR is the one the mode calls for: a process
\* that shares never holds the writable file mapping of a dump, and a dumper
\* never works on the private copy of a loader.
MappingMatchesMode ==
    /\ mapping = "private" => cds_status.mode = CDS_MODE_SHARE
    /\ mapping = "shared" => cds_status.mode = CDS_MODE_DUMP_ARCHIVE
    /\ mapping # "none" => cds_status.archive_header

\* Between calls the archive's descriptor is open exactly while a dump waits
\* for its _move_in, and archive_fd is that descriptor: no failed create, no
\* load and no finished move-in leaks it.
NoDescriptorLeak ==
    Idle => {f \in Fds : fds[f] = "archive"} =
            IF mapping = "shared" THEN {cds_status.archive_fd} ELSE {}

\* finalize_map leaves the header pointer and the descriptor number behind.
\* They are stale only after a _move_in ran to its end: before that, or in a
\* process that never moved anything in, a header that is not NULL is mapped.
StaleOnlyAfterMoveIn ==
    cds_status.archive_header /\ mapping = "none" =>
        /\ cds_status.move_in_ctx = "freed"
        /\ cds_status.archive_fd # NULL_FD
        /\ cds_status.mode = CDS_MODE_DUMP_ARCHIVE

\* Whatever a killed dump left in the file, a load that succeeds has found a
\* complete header, and an object is only handed out after it was published.
LoadOnlyComplete ==
    /\ reply = [call |-> "_load_archive", res |-> "ok"] =>
           image \in {"empty", "unlisted", "full"}
    /\ reply = [call |-> "_get_obj", res |-> "object"] =>
           image \in {"unlisted", "full"}

\* No method of the module closes a descriptor it did not open (other than
\* 0, see StdinSurvives), not even one that the program was given after
\* _move_in under the number archive_fd still holds.
ForeignFdsKept ==
    [][\A f \in Fds \ {0} :
           fds[f] = "other" /\ fds'[f] # "other" /\ alive' =>
               reply'.call = "close"]_vars

\* A running process never changes its mind once it traces, dumps or shares,
\* and a disabled process can only become a dumper.
ModeIsFinal ==
    [][alive' /\ cds_status.initialized /\ cds_status.mode # CDS_MODE_MANUALLY =>
           \/ cds_status'.mode = cds_status.mode
           \/ /\ cds_status.mode = CDS_MODE_DISABLED
              /\ cds_status'.mode = CDS_MODE_DUMP_ARCHIVE]_vars

\* The error message of _move_in: after a finished move-in, another one is
\* refused.  It never ends the process.
SecondMoveInRefused ==
    reply.call = "_move_in" => reply.res # "segmentation fault"

\* close_archive leaves "no descriptor" alone: a load that fails to open the
\* archive does not close the program's standard input.
StdinSurvives ==
    [][fds[0] = "other" /\ fds'[0] # "other" /\ alive' =>
           reply'.call = "close"]_vars
=============================================================================
