------------------------------ MODULE CdsPackage ------------------------------
(***************************************************************************)
(* The package cds on top of the extension module: init_from_env, which    *)
(* site runs through pycds.pth, trace and share, and the end of run_dump,  *)
(* called in any order in one process after another; run_dump also in the  *)
(* command-line form, python -m cds.dump.  A function is a sequence of     *)
(* method calls, each of which may raise an exception that leaves the      *)
(* function half way; nothing that it did before is undone.                *)
(***************************************************************************)
EXTENDS CdsStatus

CONSTANT Environments   \* of a process: records [parse, verbose, optimized,
                        \* mode, list, archive]
ASSUME EnvironmentsAssumption ==
    \A e \in Environments :
        /\ e.parse \in {"unset", "malformed", "number"}
        /\ e.verbose \in VerboseArgs
        /\ e.optimized \in BOOLEAN      \* python -O: no assert statements
        /\ e.mode \in {"unset", "TRACE", "DUMP", "SHARE", "MANUALLY"}
        /\ e.list \in BOOLEAN /\ e.archive \in BOOLEAN      \* set or not

\* The modes that the package passes to _set_mode.
ASSUME PackageModes == {CDS_MODE_DISABLED, CDS_MODE_DUMP_LIST, CDS_MODE_MANUALLY}
                           \subseteq ModeArgs

VARIABLES
    env,        \* the environment of the process
    at,         \* where the package's function is; "outside" of any
    fn,         \* the function that was called last
    before,     \* cds_status when it was called
    outcome,    \* how it ended
    finder,     \* how often CDSFinder is in sys.meta_path
    tracer      \* how often get_code is wrapped to write the list

statusVars == <<alive, cds_status, pc, fds, mapping, image, reply>>
pyVars     == <<env, at, fn, before, outcome, finder, tracer>>
roles      == <<finder, tracer>>

\* run_dump by its two forms: a call, and the module's command line.
DumpForms == {"run_dump", "cds.dump"}
Functions == {"init_from_env", "trace", "share"} \cup DumpForms

InitPackage == /\ Init
               /\ env \in Environments
               /\ at = "outside" /\ fn = "none"
               /\ before = InitStatus /\ outcome = "none"
               /\ finder = 0 /\ tracer = 0

-----------------------------------------------------------------------------
(* Helpers *)

Inside(l) == Idle /\ at = l

Goto(l) == at' = l /\ UNCHANGED <<env, fn, before, outcome>>

Leave(res) == /\ at' = "outside"
              /\ outcome' = IF alive' THEN res ELSE "dead"
              /\ UNCHANGED <<env, fn, before>>

\* A method returned: an exception leaves the function.
Then(good, next) == IF alive' /\ reply'.res = good THEN Goto(next)
                    ELSE Leave("exception")

ThenLeave(good) == Leave(IF reply'.res = good THEN "ok" ELSE "exception")

Call(f) ==
    /\ Inside("outside")
    /\ fn' = f
    /\ at' = IF f \in DumpForms THEN "run_dump" ELSE f
    /\ before' = cds_status
    /\ outcome' = "none"
    /\ UNCHANGED <<statusVars, env, roles>>

-----------------------------------------------------------------------------
(* init_from_env *)

\* Fault: the second call goes on.
ReEntered_Never == FALSE

ReEntered == cds_status.initialized

Enter ==
    /\ Inside("init_from_env")
    /\ UNCHANGED <<statusVars, roles>>
    /\ IF ReEntered THEN Leave("ok") ELSE Goto("verbosity")

\* int() and the assert statement stand in front of _set_verbose.
SetsVerbose == /\ env.parse = "number"
               /\ env.verbose \in 0..2 \/ env.optimized

Verbosity ==
    /\ Inside("verbosity")
    /\ IF SetsVerbose
       THEN SetVerbose(env.verbose) /\ Then("ok", "mode")
       ELSE UNCHANGED statusVars /\ Goto("mode")
    /\ UNCHANGED roles

Traces   == env.mode = "TRACE" /\ env.list
Shares   == env.mode = "SHARE" /\ env.archive
Manually == env.mode = "MANUALLY"

ChooseRole ==
    /\ Inside("mode")
    /\ UNCHANGED <<statusVars, roles>>
    /\ \/ Traces /\ Goto("trace")
       \/ Shares /\ Goto("share")

ChooseMode ==
    /\ Inside("mode") /\ ~ Traces /\ ~ Shares
    /\ SetMode(IF Manually THEN CDS_MODE_MANUALLY ELSE CDS_MODE_DISABLED)
    /\ ThenLeave("ok")
    /\ UNCHANGED roles

-----------------------------------------------------------------------------
(* trace *)

ClaimTrace ==
    /\ Inside("trace")
    /\ SetMode(CDS_MODE_DUMP_LIST)
    /\ Then("ok", "list")
    /\ UNCHANGED roles

\* The list stays open as long as the process lives.
OpenList(f) ==
    /\ Inside("list")
    /\ Opens(f)
    /\ fds' = IF f = -1 THEN fds ELSE [fds EXCEPT ![f] = "other"]
    /\ tracer' = IF f = -1 THEN tracer ELSE tracer + 1
    /\ UNCHANGED <<alive, cds_status, pc, mapping, image, reply, finder>>
    /\ Leave(IF f = -1 THEN "exception" ELSE "ok")

(* share *)

\* Fault: an archive that cannot be loaded is passed over.
Loaded_Any == Goto("root")

\* _load_archive
Loaded == Then("ok", "root")

ShareLoad(f, mappable) ==
    /\ Inside("share")
    /\ LoadArchive(f, mappable)
    /\ Loaded
    /\ UNCHANGED roles

ShareRoot ==
    /\ Inside("root")
    /\ GetObj
    /\ Then("object", "dict")
    /\ UNCHANGED roles

\* dict() fails on an object that is not made of pairs.
ShareDict(pairs) ==
    /\ Inside("dict")
    /\ finder' = IF pairs THEN finder + 1 ELSE finder
    /\ UNCHANGED <<statusVars, tracer>>
    /\ Leave(IF pairs THEN "ok" ELSE "exception")

-----------------------------------------------------------------------------
(* run_dump, after the modules of its list were imported (see CdsImport) *)

\* The command line passes over a ValueError of run_dump: the module ends
\* without an exception.  A CDSException is a RuntimeError.
Raised(e) == IF fn = "cds.dump" /\ e = "ValueError" THEN "ok" ELSE "exception"

\* The list, an import that is interrupted, or the argument of _create_archive:
\* what cannot be decoded raises a ValueError.
DumpFails ==
    /\ Inside("run_dump")
    /\ UNCHANGED <<statusVars, roles>>
    /\ \E e \in {"ValueError", "other"} : Leave(Raised(e))

DumpCreate(f) ==
    /\ Inside("run_dump")
    /\ CreateOpen(f)
    /\ IF pc' = "opened" THEN Goto("creating") ELSE Leave("exception")
    /\ UNCHANGED roles

DumpCreating ==
    /\ at = "creating"
    /\ \/ \E ok \in BOOLEAN : CreateTruncate(ok) \/ CreateMap(ok)
       \/ CreateStampAddr \/ CreateStampUsed
    /\ IF alive' /\ pc' # "idle" THEN Goto("creating") ELSE Then("ok", "move")
    /\ UNCHANGED roles

DumpMoveIn ==
    /\ Inside("move")
    /\ MoveInCall
    /\ IF pc' = "copying" THEN Goto("moving") ELSE Leave("exception")
    /\ UNCHANGED roles

\* Fault: the exception of _move_in is passed over.
DumpResult_Zero == "exit(0)"

\* exit(0) raises SystemExit, which a caller may catch.
DumpResult == IF reply'.res = "ok" THEN "exit(0)" ELSE "exception"

\* What is moved in is a tuple, never a string.
DumpMoving ==
    /\ at = "moving"
    /\ MoveInCopied \/ MoveInUnsupported \/ MoveInHeapFull \/ MoveInFinish
    /\ IF alive' /\ pc' # "idle" THEN Goto("moving") ELSE Leave(DumpResult)
    /\ UNCHANGED roles

-----------------------------------------------------------------------------
(* The rest of the program, and the life of the process *)

Elsewhere ==
    /\ Inside("outside")
    /\ OpenOther \/ CloseOther
    /\ UNCHANGED pyVars

Killed == Exit /\ Leave("dead") /\ UNCHANGED roles

StartProcess == /\ Start
                /\ env' \in Environments
                /\ fn' = "none"
                /\ before' = InitStatus /\ outcome' = "none"
                /\ finder' = 0 /\ tracer' = 0
                /\ UNCHANGED at

NextPackage ==
    \/ \E f \in Functions : Call(f)
    \/ Enter \/ Verbosity \/ ChooseRole \/ ChooseMode
    \/ ClaimTrace
    \/ \E f \in Fds \cup {-1} : \/ OpenList(f) \/ DumpCreate(f)
                                \/ \E ok \in BOOLEAN : ShareLoad(f, ok)
    \/ ShareRoot \/ \E pairs \in BOOLEAN : ShareDict(pairs)
    \/ DumpFails \/ DumpCreating \/ DumpMoveIn \/ DumpMoving
    \/ Elsewhere \/ Killed \/ StartProcess

SpecPackage == InitPackage /\ [][NextPackage]_<<statusVars, pyVars>>

-----------------------------------------------------------------------------
(* Properties *)

\* The environment gives a process the mode that the comment on PYCDSMODE
\* describes, unless an exception left init_from_env; then it has no role.
\* Another call of init_from_env changes nothing.
ModeOf(e) == CASE e.mode = "TRACE" /\ e.list    -> CDS_MODE_DUMP_LIST
               [] e.mode = "SHARE" /\ e.archive -> CDS_MODE_SHARE
               [] e.mode = "MANUALLY"           -> CDS_MODE_MANUALLY
               [] OTHER                         -> CDS_MODE_DISABLED

InitFollowsEnvironment ==
    alive /\ fn = "init_from_env" /\ at = "outside" =>
        IF before.initialized THEN outcome = "ok" /\ cds_status = before
        ELSE IF outcome = "ok"
        THEN /\ cds_status.initialized /\ cds_status.mode = ModeOf(env)
             /\ finder = (IF cds_status.mode = CDS_MODE_SHARE THEN 1 ELSE 0)
             /\ tracer = (IF cds_status.mode = CDS_MODE_DUMP_LIST THEN 1 ELSE 0)
        ELSE finder = 0 /\ tracer = 0

\* A process has one role at most, whatever was called in which order and
\* failed where: modules are served only from a published archive that stays
\* mapped, names are traced only in a process that neither serves nor dumps,
\* and nothing that is served or traced is dumped.
OneRole ==
    alive => /\ finder + tracer <= 1
             /\ finder = 1 => /\ cds_status.mode = CDS_MODE_SHARE
                              /\ mapping = "private" /\ image = "full"
             /\ tracer = 1 => cds_status.mode = CDS_MODE_DUMP_LIST
             /\ mapping = "shared" => finder + tracer = 0

\* The stale handles that _move_in leaves, and the null header of a process
\* that loaded nothing, are out of reach of the package: it never makes the
\* extension follow them, also when it is called again after an exception.
NeverFollowsStaleHandle == reply.res # "segmentation fault"

\* run_dump raises SystemExit(0) exactly when it moved its modules in and the
\* file holds all of them.  The command line has a second way to end with exit
\* code 0, the ValueError that it passes over: then nothing was claimed, and no
\* archive created, by this run.
ExitZeroMeans ==
    alive /\ fn \in DumpForms /\ at = "outside" =>
        /\ outcome = "exit(0)" <=> /\ image = "full"
                                   /\ before.move_in_ctx = "null"
                                   /\ cds_status.move_in_ctx = "freed"
        /\ outcome = "ok" => fn = "cds.dump" /\ cds_status = before

\* The message for AssertionError, "PYCDSVERBOSE should be [0, 2]": a number out
\* of range is reported, and init_from_env goes on to the mode.
VerbosityIsReported ==
    ~ (at = "outside" /\ fn = "init_from_env" /\ reply.res = "invalid verbose")
=============================================================================
