----------------------------- MODULE ImportSystem -----------------------------
(***************************************************************************)
(* Python's import, as far as the package cds depends on it: which file a  *)
(* name resolves to, sys.modules, the nesting of imports inside module     *)
(* bodies, exceptions that cut it short, the lock of each module.  It is   *)
(* importlib's behaviour (CPython 3.8 to 3.12), and the specification that *)
(* a process with cds has to implement.                                    *)
(*                                                                         *)
(* A program gives each file a body, a sequence of statements; an import   *)
(* pushes a frame on its thread's stack, innermost first.                  *)
(***************************************************************************)
EXTENDS Integers, Sequences, FiniteSets

CONSTANTS
    Names,      \* module names
    Parent,     \* the package a submodule is in, or None
    Threads,
    Programs,   \* inputs: records [file, other, kind, pkg, body, mains, starts]
    None        \* no name, no file

ASSUME NoneAssumption == None \notin Names
ASSUME ParentAssumption == Parent \in [Names -> Names \cup {None}]

Statements ==
    [op : {"import", "query", "rename", "forget", "redirect"},
     name : Names, guarded : BOOLEAN]
    \cup [op : {"extend_path", "break_path", "may_raise"},
          name : {None}, guarded : BOOLEAN]

\* The files that names resolve to, or may be redirected to, and the bodies of
\* these and of the main programs; what may be imported before these begin.
ASSUME ProgramsAssumption ==
    \A p \in Programs :
        LET Files == DOMAIN p.body \cup {None} IN
        /\ None \notin DOMAIN p.body /\ None \notin p.pkg
        /\ p.file \in [Names -> Files] /\ p.other \in [Names -> Files]
        /\ \A c \in DOMAIN p.body : p.body[c] \in Seq(Statements)
        /\ \A mains \in p.mains : mains \in [Threads -> Files]
        /\ \A there \in p.starts : \A n \in there : n \in Names /\ p.file[n] # None

VARIABLES
    program,
    modules,    \* sys.modules
    moved,      \* names that a module has redirected to another file
    stack,      \* frames of each thread
    raising     \* an exception is on its way through the thread's frames

importVars == <<program, modules, moved, stack, raising>>

Absent == [file |-> None, path |-> {}, loaded |-> FALSE]

\* A frame looks for its module, then runs it: file is the module's __file__,
\* code the file whose code it executes, path the __path__ it started with and
\* alias its present __name__.  A thread's main program is a frame without name.
Frame(name, phase, file, code, path) ==
    [name |-> name, phase |-> phase, file |-> file, code |-> code,
     path |-> path, alias |-> name, pc |-> 1]

\* The __path__ of a package that its finder makes.
OwnPath(file) == IF file \in program.pkg THEN {"own"} ELSE {}

\* A module as it was imported from its file.
Imported(n) == [file |-> program.file[n], path |-> OwnPath(program.file[n]),
                loaded |-> TRUE]

\* A process begins: its main programs, and the modules that were imported before
\* them, by the interpreter's start or by what starts the main program.
Begin(mains, there) ==
    /\ modules' = [n \in Names |-> IF n \in there THEN Imported(n) ELSE Absent]
    /\ moved' = {}
    /\ stack' = [t \in Threads |-> IF mains[t] = None THEN <<>>
                                   ELSE <<Frame(None, "run", None, mains[t], {})>>]
    /\ raising' = [t \in Threads |-> FALSE]

Init == /\ program \in Programs
        /\ modules = [n \in Names |-> Absent]
        /\ moved = {}
        /\ stack = [t \in Threads |-> <<>>]
        /\ raising = [t \in Threads |-> FALSE]

-----------------------------------------------------------------------------

Alive(t) == stack[t] # <<>>

top(t)  == stack[t][1]
body(t) == program.body[top(t).code]
stmt(t) == body(t)[top(t).pc]

\* The next statement of t's innermost module body, and its operation.
At(t, op) == /\ Alive(t) /\ ~ raising[t]
             /\ top(t).phase = "run" /\ top(t).pc <= Len(body(t))
             /\ stmt(t).op = op

Resolved(n) == IF n \in moved THEN program.other[n] ELSE program.file[n]

\* __path__ after the statements that were executed.
PathNow(f) ==
    LET done == {program.body[f.code][k].op : k \in 1..(f.pc - 1)} IN
    IF "break_path" \in done THEN {"broken"}
    ELSE IF "extend_path" \in done THEN f.path \cup {"more"} ELSE f.path

\* A thread holds the locks of the modules on its stack.
Held(t) == {stack[t][k].name : k \in 1..Len(stack[t])} \cap Names

\* The module whose lock t needs to go on.
Needed(t) ==
    IF ~ Alive(t) \/ raising[t] THEN {}
    ELSE IF top(t).phase = "find"
    THEN {p \in {Parent[top(t).name]} \ {None} : ~ modules[p].loaded}
    ELSE IF At(t, "import") /\ ~ modules[stmt(t).name].loaded THEN {stmt(t).name}
    ELSE {}

Blocked(t)  == \E u \in Threads \ {t} : Needed(t) \cap Held(u) # {}
Deadlock(t) == \E u \in Threads \ {t} : /\ Needed(t) \cap Held(u) # {}
                                        /\ Needed(u) \cap Held(t) # {}

Continued(t) == [stack EXCEPT ![t][1].pc = @ + 1]
Pushed(t, n) == [stack EXCEPT ![t] = <<Frame(n, "find", None, None, {})>> \o @]
Popped(t)    == [stack EXCEPT ![t] = Tail(@)]

Raised(t) == raising' = [raising EXCEPT ![t] = TRUE]

-----------------------------------------------------------------------------
(* Importing *)

\* The module is there, maybe unfinished because this thread is loading it.
ImportKnown(t) ==
    /\ At(t, "import")
    /\ LET n == stmt(t).name IN
       modules[n].loaded \/ (modules[n] # Absent /\ n \in Held(t))
    /\ stack' = Continued(t)
    /\ UNCHANGED <<program, modules, moved, raising>>

ImportNew(t) ==
    /\ At(t, "import") /\ ~ Blocked(t)
    /\ modules[stmt(t).name] = Absent
    /\ stack' = Pushed(t, stmt(t).name)
    /\ UNCHANGED <<program, modules, moved, raising>>

\* Before a submodule its package is imported.
ImportParent(t) ==
    /\ Alive(t) /\ ~ raising[t] /\ top(t).phase = "find" /\ ~ Blocked(t)
    /\ Parent[top(t).name] # None
    /\ modules[Parent[top(t).name]] = Absent
    /\ stack' = Pushed(t, Parent[top(t).name])
    /\ UNCHANGED <<program, modules, moved, raising>>

\* Two threads that need each other's modules: the one that sees it gets an
\* exception or goes on with a module that is not finished.
ImportDeadlock(t) ==
    /\ Deadlock(t)
    /\ IF top(t).phase = "find" THEN Raised(t) /\ stack' = Popped(t)
       ELSE \/ Raised(t) /\ UNCHANGED stack
            \/ /\ modules[stmt(t).name] # Absent
               /\ stack' = Continued(t)
               /\ UNCHANGED raising
    /\ UNCHANGED <<program, modules, moved>>

\* The module may be looked for: its package is there.
Finding(t) ==
    /\ Alive(t) /\ ~ raising[t] /\ top(t).phase = "find"
    /\ LET p == Parent[top(t).name] IN p # None => modules[p] # Absent
    /\ ~ Blocked(t)

\* Importing the package imported the submodule as well.
FoundMeanwhile(t) ==
    /\ Finding(t) /\ modules[top(t).name] # Absent
    /\ stack' = Popped(t)
    /\ UNCHANGED <<program, modules, moved, raising>>

\* A spec was found: the module is entered in sys.modules and its body begins.
Start(t, file, code, path) ==
    /\ Finding(t) /\ modules[top(t).name] = Absent
    /\ modules' = [modules EXCEPT ![top(t).name] = [Absent EXCEPT !.file = file]]
    /\ stack' = [stack EXCEPT ![t] = <<Frame(top(t).name, "run", file, code, path)>>
                                     \o Tail(@)]
    /\ UNCHANGED <<program, moved, raising>>

\* Python's own finders.
FindFile(t) ==
    /\ Finding(t)
    /\ LET file == Resolved(top(t).name) IN
       /\ file # None
       /\ Start(t, file, file, OwnPath(file))

NotFound(t) ==
    /\ Finding(t) /\ modules[top(t).name] = Absent
    /\ Resolved(top(t).name) = None
    /\ Raised(t)
    /\ stack' = Popped(t)
    /\ UNCHANGED <<program, modules, moved>>

-----------------------------------------------------------------------------
(* Statements other than import *)

\* importlib.util.find_spec: a lookup and nothing else.
Query(t) ==
    /\ At(t, "query")
    /\ stack' = Continued(t)
    /\ UNCHANGED <<program, modules, moved, raising>>

\* __path__ is changed: extended, as pkgutil.extend_path does, or replaced by
\* something that is not a list of strings.
ChangePath(t) ==
    /\ At(t, "extend_path") \/ At(t, "break_path")
    /\ stack' = Continued(t)
    /\ UNCHANGED <<program, modules, moved, raising>>

\* The module changes its __name__, as _collections_abc does.
Rename(t) ==
    /\ At(t, "rename")
    /\ stack' = [stack EXCEPT ![t][1].pc = @ + 1, ![t][1].alias = stmt(t).name]
    /\ UNCHANGED <<program, modules, moved, raising>>

\* A module leaves sys.modules; "redirect" also changes sys.path so that the
\* name resolves to another file from now on.
Forget(t) ==
    /\ At(t, "forget") \/ At(t, "redirect")
    /\ modules' = [modules EXCEPT ![stmt(t).name] = Absent]
    /\ moved' = moved \cup (IF stmt(t).op = "redirect" THEN {stmt(t).name} ELSE {})
    /\ stack' = Continued(t)
    /\ UNCHANGED <<program, raising>>

\* A statement that may raise an exception.
MayRaise(t) ==
    /\ At(t, "may_raise")
    /\ \/ stack' = Continued(t) /\ UNCHANGED raising
       \/ Raised(t) /\ UNCHANGED stack
    /\ UNCHANGED <<program, modules, moved>>

\* An exception ends a module body and removes the module, unless the import
\* it came from is inside a try statement.
Unwind(t) ==
    /\ Alive(t) /\ raising[t]
    /\ LET f == top(t) IN
       IF f.phase = "run" /\ f.pc <= Len(body(t)) /\ stmt(t).guarded
       THEN /\ stack' = Continued(t)
            /\ raising' = [raising EXCEPT ![t] = FALSE]
            /\ UNCHANGED modules
       ELSE /\ stack' = Popped(t)
            /\ raising' = [raising EXCEPT ![t] = Len(stack[t]) > 1]
            /\ modules' = IF f.name = None \/ f.phase = "find" THEN modules
                          ELSE [modules EXCEPT ![f.name] = Absent]
    /\ UNCHANGED <<program, moved>>

BodyEnds(t) == /\ Alive(t) /\ ~ raising[t]
               /\ top(t).phase = "run" /\ top(t).pc > Len(body(t))

\* The body ended: what sys.modules now has under the name is loaded, which may
\* be another module; a module that removed itself makes the import fail.
Finish(t) ==
    /\ BodyEnds(t) /\ top(t).name # None
    /\ LET n == top(t).name IN
       /\ raising' = [raising EXCEPT ![t] = modules[n] = Absent]
       /\ modules' = IF modules[n].loaded \/ modules[n] = Absent THEN modules
                     ELSE [modules EXCEPT ![n].loaded = TRUE,
                                          ![n].path = PathNow(top(t))]
    /\ stack' = Popped(t)
    /\ UNCHANGED <<program, moved>>

MainEnds(t) ==
    /\ BodyEnds(t) /\ top(t).name = None
    /\ stack' = Popped(t)
    /\ UNCHANGED <<program, modules, moved, raising>>

\* Steps that cds does not see.
Internal(t) == \/ ImportKnown(t) \/ ImportNew(t) \/ ImportParent(t)
               \/ FoundMeanwhile(t)
               \/ ChangePath(t) \/ Rename(t) \/ Forget(t) \/ MayRaise(t)
               \/ Unwind(t) \/ MainEnds(t)

Step(t) == \/ Internal(t) \/ ImportDeadlock(t)
           \/ FindFile(t) \/ NotFound(t) \/ Query(t) \/ Finish(t)

\* The process ended, and another one begins.
NextProcess == /\ \A t \in Threads : ~ Alive(t)
               /\ \E mains \in program.mains, there \in program.starts :
                      Begin(mains, there)
               /\ UNCHANGED program

Next == NextProcess \/ \E t \in Threads : Step(t)

Spec == Init /\ [][Next]_importVars /\ \A t \in Threads : WF_importVars(Step(t))
=============================================================================
