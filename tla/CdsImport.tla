------------------------------ MODULE CdsImport ------------------------------
(***************************************************************************)
(* The two ends of the package cds in Python's import: run_dump, which     *)
(* imports a list of modules and records what it saw of them, and          *)
(* CDSFinder, which serves those records to the processes that follow.     *)
(*                                                                         *)
(* A record is the code of a file and a module's __file__ and __path__;    *)
(* the two are taken at different moments, before and after the module's   *)
(* body ran, while other imports nest in between.                          *)
(***************************************************************************)
EXTENDS ImportSystem

\* The list is imported, and the programs that use the archive are run, with and
\* without cds.
ASSUME MainsAssumption ==
    \A p \in Programs : p.list \in p.mains /\ p.users \subseteq p.mains

VARIABLES
    process,        \* "none", "dumper", "dumped" or "user"
    code_map,       \* name -> file whose code get_code returned
    meta_map,       \* name -> __file__ and __path__ after exec_module
    archive,        \* name -> record: the tuple that _move_in is given
    shared_module,  \* CDSFinder's: the records not served yet
    ended,          \* records of all executions that came to their end
    before          \* modules that were there when run_dump began, and still are

cdsVars == <<process, code_map, meta_map, archive, shared_module, ended>>
vars == <<importVars, cdsVars, before>>

InitCds == /\ Init
           /\ process = "none"
           /\ code_map = <<>> /\ meta_map = <<>>
           /\ archive = <<>> /\ shared_module = <<>>
           /\ ended = {} /\ before = {}

\* dict[n] = value
Assigned(dict, n, value) ==
    [m \in DOMAIN dict \cup {n} |-> IF m = n THEN value ELSE dict[m]]

Record(code, file, path) == [code |-> code, file |-> file, path |-> path]

-----------------------------------------------------------------------------
(* run_dump *)

\* Its only thread imports the lines of the list, each in a try statement.  The
\* process has imported modules before get_code and exec_module are wrapped, with
\* python -m those of runpy.
StartDump ==
    /\ process = "none"
    /\ \E there \in program.starts : Begin(program.list, there) /\ before' = there
    /\ process' = "dumper"
    /\ UNCHANGED <<program, code_map, meta_map, archive, shared_module, ended>>

DumpInternal(t) ==
    /\ process = "dumper"
    /\ Internal(t) \/ NotFound(t) \/ Query(t)
    /\ UNCHANGED cdsVars

\* wrap_get_code: SourceFileLoader only.
GetCode(t) ==
    /\ process = "dumper"
    /\ FindFile(t)
    /\ LET n == top(t).name
           file == Resolved(n)
       IN  code_map' = IF program.kind[file] = "source" THEN Assigned(code_map, n, file)
                       ELSE code_map
    /\ UNCHANGED <<process, meta_map, archive, shared_module, ended>>

\* Fault: the module's name is looked at after exec_module.
RecordedName_After(f) == f.alias

RecordedName(f) == f.name

\* Fault: __path__ is not looked at.
RecordsPath_Any(path) == TRUE

RecordsPath(path) == path # {"broken"}

\* wrap_exec_module: any loader of Python files, and not when an exception
\* left the module body; a __path__ that is broken is not recorded.
ExecModule(t) ==
    /\ process = "dumper"
    /\ Finish(t)
    /\ LET f == top(t) IN
       /\ meta_map' = IF program.kind[f.file] # "extension" /\ RecordsPath(PathNow(f))
                      THEN Assigned(meta_map, RecordedName(f),
                                    [file |-> f.file, path |-> PathNow(f)])
                      ELSE meta_map
       /\ ended' = ended \cup {<<f.name, Record(f.code, f.file, PathNow(f))>>}
    /\ UNCHANGED <<process, code_map, archive, shared_module>>

\* Fault: every module whose code was seen is shared.
SharedNames_Code == DOMAIN code_map

SharedNames == DOMAIN code_map \cap DOMAIN meta_map

Write ==
    /\ process = "dumper"
    /\ \A t \in Threads : ~ Alive(t)
    /\ archive' = [n \in SharedNames |->
                      IF n \in DOMAIN meta_map
                      THEN Record(code_map[n], meta_map[n].file, meta_map[n].path)
                      ELSE Record(code_map[n], code_map[n], {})]
    /\ process' = "dumped"
    /\ UNCHANGED <<importVars, code_map, meta_map, shared_module, ended, before>>

Dumper(t) == /\ DumpInternal(t) \/ GetCode(t) \/ ExecModule(t)
             /\ before' = {n \in before : modules'[n] # Absent}

-----------------------------------------------------------------------------
(* CDSFinder, first in sys.meta_path *)

\* share: a process begins with all records, and with the modules that were
\* imported before.
StartUser ==
    /\ process \in {"dumped", "user"}
    /\ \A t \in Threads : ~ Alive(t)
    /\ \E mains \in program.users, there \in program.starts : Begin(mains, there)
    /\ process' = "user"
    /\ shared_module' = archive
    /\ UNCHANGED <<program, code_map, meta_map, archive, ended, before>>

\* Fault: records are served as often as they are asked for.
Taken_Not(n) == shared_module

\* shared_module.pop(fullname)
Taken(n) == [m \in DOMAIN shared_module \ {n} |-> shared_module[m]]

UserInternal(t) ==
    /\ process = "user"
    /\ Internal(t) \/ ImportDeadlock(t) \/ Finish(t)
    /\ UNCHANGED cdsVars

\* Fault: the module gets the path of its file, not the recorded one.
ServedPath_None(record) == {}

\* is_package and submodule_search_locations
ServedPath(record) == record.path

\* find_spec of a shared module.  importlib holds its import lock meanwhile:
\* no other thread runs between the lookup and the pop.
FindSpec(t) ==
    /\ process = "user"
    /\ Finding(t)
    /\ LET n == top(t).name IN
       /\ n \in DOMAIN shared_module
       /\ Start(t, shared_module[n].file, shared_module[n].code,
                ServedPath(shared_module[n]))
       /\ shared_module' = Taken(n)
    /\ UNCHANGED <<process, code_map, meta_map, archive, ended>>

\* find_spec returns None: Python's finders are next.
FallBack(t) ==
    /\ process = "user"
    /\ Finding(t) /\ top(t).name \notin DOMAIN shared_module
    /\ FindFile(t) \/ NotFound(t)
    /\ UNCHANGED cdsVars

\* A lookup without an import takes the record as well, unless the module is
\* in sys.modules, where importlib.util.find_spec looks first.
QuerySpec(t) ==
    /\ process = "user"
    /\ Query(t)
    /\ shared_module' = IF modules[stmt(t).name] = Absent THEN Taken(stmt(t).name)
                        ELSE shared_module
    /\ UNCHANGED <<process, code_map, meta_map, archive, ended>>

User(t) == /\ UserInternal(t) \/ FindSpec(t) \/ FallBack(t) \/ QuerySpec(t)
           /\ UNCHANGED before

-----------------------------------------------------------------------------

NextCds == \/ StartDump \/ Write \/ StartUser
           \/ \E t \in Threads : Dumper(t) \/ User(t)

SpecCds == /\ InitCds /\ [][NextCds]_vars
           /\ \A t \in Threads : WF_vars(Dumper(t)) /\ WF_vars(User(t))

(* Properties *)

\* Type invariant; the __path__ of a record is a list of strings.
TypeOK ==
    /\ process \in {"none", "dumper", "dumped", "user"}
    /\ DOMAIN archive \subseteq Names
    /\ \A n \in DOMAIN archive : archive[n].path \subseteq {"own", "more"}
    /\ DOMAIN shared_module \subseteq DOMAIN archive
    /\ \A t \in Threads : raising[t] => Alive(t)
    /\ \A n \in Names : modules[n].loaded => modules[n].file # None

\* What is shared of a module is code, file and path of one execution of it,
\* which came to its end: never of a module that raised, of two files, or of
\* another module that took its name.
RecordsAreOfOneExecution ==
    \A n \in DOMAIN archive : <<n, archive[n]>> \in ended

\* Everything that was loaded from source since run_dump began is shared, also
\* modules that changed their name and those loaded by a package that raised
\* later; of the modules that were there before, as the module's docstring says of
\* runpy and its dependencies, those that were removed and imported again.
LoadedAreShared ==
    process = "dumped" =>
        \A n \in Names :
            modules[n].loaded /\ program.kind[modules[n].file] = "source"
                              /\ modules[n].path # {"broken"} =>
                IF n \in before THEN n \notin DOMAIN archive
                ELSE n \in DOMAIN archive /\ archive[n].file = modules[n].file

\* A name stands for a second file only where that file is an extension: code
\* and __file__ of two source files under one name are mixed.
RedirectsToExtensions ==
    \A p \in Programs, n \in Names :
        p.other[n] # None => p.kind[p.other[n]] = "extension"

\* Only the file of a module redirects its name, and it runs under no other.
RedirectsOwnName ==
    \A p \in Programs : \A c \in DOMAIN p.body : \A k \in 1..Len(p.body[c]) :
        p.body[c][k].op = "redirect" =>
            /\ \A m \in Names : c \in {p.file[m], p.other[m]} => m = p.body[c][k].name
            /\ \A mains \in p.mains, t \in Threads : mains[t] # c

\* A module's frame as Python itself makes it, with the path of the file.
Seen(f) == [f EXCEPT !.path = OwnPath(f.file)]

SeenStack == [t \in Threads |-> [k \in DOMAIN stack[t] |-> Seen(stack[t][k])]]

\* With cds or without, threads import the same files under the same names,
\* run the same code in the same order, and see the same exceptions and
\* __path__s; the __path__ a module starts with is the only difference.
Python == INSTANCE ImportSystem WITH stack <- SeenStack

ImplementsPython == Python!Spec

\* The comment in find_spec says of a package that imports itself again, "we
\* only use cds in the first time to fall back to python's import": once it is
\* loaded, what is under its name is the file it redirects to.
RedirectsItself(n) ==
    program.file[n] # None /\ \E k \in DOMAIN program.body[program.file[n]] :
        /\ program.body[program.file[n]][k].op = "redirect"
        /\ program.body[program.file[n]][k].name = n

=============================================================================
