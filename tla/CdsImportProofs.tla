---------------------------- MODULE CdsImportProofs ----------------------------
(***************************************************************************)
(* Proofs about CdsImport, for all programs, any number of threads and any *)
(* nesting of imports: what the dumper records, and that a process with    *)
(* cds imports what it would import without.                               *)
(***************************************************************************)
EXTENDS CdsImport, SequenceTheorems, TLAPS

-----------------------------------------------------------------------------
(* The shape of the stacks. *)

Files  == DOMAIN program.body \cup {None}
Paths  == SUBSET {"own", "more"}
Frames == [name : Names \cup {None}, phase : {"find", "run"},
           file : Files, code : Files, path : Paths,
           alias : Names \cup {None}, pc : Nat]

Body(c) == program.body[c]

\* The files that a name stands for.
FilesOf(n) == {program.file[n], program.other[n]} \ {None}

\* A frame looks for a module, runs a file that its name stands for, or runs a
\* main program.
Looks(f) == f.phase = "find" /\ f.name \in Names
Runs(f)  == /\ f.phase = "run" /\ f.name \in Names
            /\ f.code \in FilesOf(f.name) /\ f.file \in FilesOf(f.name)
IsMain(f) == /\ f.phase = "run" /\ f.name = None /\ f.file = None /\ f.path = {}
             /\ \E mains \in program.mains, t \in Threads : f.code = mains[t]

FrameOK(f) ==
    /\ Looks(f) \/ Runs(f) \/ IsMain(f)
    /\ f.phase = "run" => /\ f.code \in DOMAIN program.body
                          /\ f.pc \in 1..(Len(Body(f.code)) + 1)

\* Main programs, and only these, are at the bottom of a stack.
StackOK(s) ==
    \A k \in 1..Len(s) : FrameOK(s[k]) /\ (s[k].name = None <=> k = Len(s))

ModulesOK ==
    /\ moved \subseteq Names
    /\ modules \in [Names -> [file : Files, path : SUBSET {"own", "more", "broken"},
                              loaded : BOOLEAN]]
    /\ \A n \in Names : modules[n] = Absent \/ modules[n].file # None

RaisingOK == /\ raising \in [Threads -> BOOLEAN]
             /\ \A t \in Threads : raising[t] => Alive(t)

Shape == /\ program \in Programs
         /\ stack \in [Threads -> Seq(Frames)]
         /\ \A t \in Threads : StackOK(stack[t])
         /\ ModulesOK /\ RaisingOK

\* What a step does to the stack of a thread.
Others(t) == \A u \in Threads \ {t} : stack'[u] = stack[u]

Pushes(t, f) == /\ stack' \in [Threads -> Seq(Frames)] /\ Others(t)
                /\ Len(stack'[t]) = Len(stack[t]) + 1 /\ stack'[t][1] = f
                /\ \A k \in 1..Len(stack[t]) : stack'[t][k + 1] = stack[t][k]
SetsTop(t, f) == /\ stack' \in [Threads -> Seq(Frames)] /\ Others(t)
                 /\ Len(stack'[t]) = Len(stack[t]) /\ stack'[t][1] = f
                 /\ \A k \in 2..Len(stack[t]) : stack'[t][k] = stack[t][k]
Pops(t) == /\ stack' \in [Threads -> Seq(Frames)] /\ Others(t)
           /\ Len(stack'[t]) = Len(stack[t]) - 1
           /\ \A k \in 1..(Len(stack[t]) - 1) : stack'[t][k] = stack[t][k + 1]

LEMMA PushedStack ==
    ASSUME stack \in [Threads -> Seq(Frames)], NEW t \in Threads, NEW f \in Frames,
           stack' = [stack EXCEPT ![t] = <<f>> \o @]
    PROVE  Pushes(t, f)
<1> HIDE DEF Frames
<1>1. stack[t] \in Seq(Frames)
  OBVIOUS
<1>2. /\ <<f>> \o stack[t] \in Seq(Frames)
      /\ Len(<<f>> \o stack[t]) = Len(stack[t]) + 1 /\ (<<f>> \o stack[t])[1] = f
      /\ \A k \in 1..Len(stack[t]) : (<<f>> \o stack[t])[k + 1] = stack[t][k]
  BY <1>1
<1> QED
  BY <1>2 DEF Pushes, Others

LEMMA PoppedStack ==
    ASSUME stack \in [Threads -> Seq(Frames)], NEW t \in Threads, stack[t] # <<>>,
           stack' = [stack EXCEPT ![t] = Tail(@)]
    PROVE  Pops(t)
<1> HIDE DEF Frames
<1>1. stack[t] \in Seq(Frames)
  OBVIOUS
<1>2. /\ Tail(stack[t]) \in Seq(Frames) /\ Len(Tail(stack[t])) = Len(stack[t]) - 1
      /\ \A k \in 1..(Len(stack[t]) - 1) : Tail(stack[t])[k] = stack[t][k + 1]
  BY <1>1
<1> QED
  BY <1>2 DEF Pops, Others

LEMMA ReplacedStack ==
    ASSUME stack \in [Threads -> Seq(Frames)], NEW t \in Threads, stack[t] # <<>>,
           NEW f \in Frames, stack' = [stack EXCEPT ![t] = <<f>> \o Tail(@)]
    PROVE  SetsTop(t, f)
<1> HIDE DEF Frames
<1> DEFINE s == stack[t]
<1>1. s \in Seq(Frames)
  OBVIOUS
<1>2. /\ Tail(s) \in Seq(Frames) /\ Len(Tail(s)) = Len(s) - 1
      /\ \A k \in 1..(Len(s) - 1) : Tail(s)[k] = s[k + 1]
  BY <1>1
<1>3. /\ <<f>> \o Tail(s) \in Seq(Frames)
      /\ Len(<<f>> \o Tail(s)) = Len(s) /\ (<<f>> \o Tail(s))[1] = f
      /\ \A k \in 2..Len(s) : (<<f>> \o Tail(s))[k] = s[k]
  BY <1>1, <1>2
<1> QED
  BY <1>3 DEF SetsTop, Others

LEMMA NextFrame ==
    ASSUME NEW f \in Frames
    PROVE  /\ [f EXCEPT !.pc = @ + 1] \in Frames
           /\ \A a \in Names : [f EXCEPT !.pc = @ + 1, !.alias = a] \in Frames
<1> DEFINE g == [f EXCEPT !.pc = @ + 1]
<1>1. g \in Frames
  BY DEF Frames
<1>2. ASSUME NEW a \in Names PROVE [f EXCEPT !.pc = @ + 1, !.alias = a] \in Frames
  <2>1. [g EXCEPT !.alias = a] \in Frames
    <3> HIDE DEF g
    <3> QED
      BY <1>1 DEF Frames
  <2>2. [f EXCEPT !.pc = @ + 1, !.alias = a] = [g EXCEPT !.alias = a]
    OBVIOUS
  <2> QED
    BY <2>1, <2>2
<1> QED
  BY <1>1, <1>2

LEMMA TopFrame ==
    ASSUME stack \in [Threads -> Seq(Frames)], NEW t \in Threads, stack[t] # <<>>
    PROVE  top(t) \in Frames
<1>1. stack[t] \in Seq(Frames) /\ Len(stack[t]) \in Nat \ {0}
  BY EmptySeq
<1> QED
  BY <1>1, ElementOfSeq DEF top

LEMMA TopChanged ==
    ASSUME stack \in [Threads -> Seq(Frames)], NEW t \in Threads, stack[t] # <<>>,
           NEW g \in Frames, stack' = [stack EXCEPT ![t] = [stack[t] EXCEPT ![1] = g]]
    PROVE  SetsTop(t, g)
<1> DEFINE s == [stack[t] EXCEPT ![1] = g]
<1> HIDE DEF Frames
<1>1. stack[t] \in Seq(Frames) /\ Len(stack[t]) \in Nat \ {0}
  BY EmptySeq
<1>2. /\ s \in Seq(Frames) /\ Len(s) = Len(stack[t]) /\ s[1] = g
      /\ \A k \in 2..Len(stack[t]) : s[k] = stack[t][k]
  BY <1>1
<1>3. stack' = [stack EXCEPT ![t] = s]
  OBVIOUS
<1> HIDE DEF s
<1> QED
  BY <1>2, <1>3 DEF SetsTop, Others

LEMMA ContinuedStack ==
    ASSUME stack \in [Threads -> Seq(Frames)], NEW t \in Threads, stack[t] # <<>>,
           stack' = Continued(t)
    PROVE  SetsTop(t, [top(t) EXCEPT !.pc = @ + 1])
<1>1. [top(t) EXCEPT !.pc = @ + 1] \in Frames
  BY TopFrame, NextFrame
<1>2. stack' = [stack EXCEPT ![t] = [stack[t] EXCEPT ![1] = [top(t) EXCEPT !.pc = @ + 1]]]
  BY DEF Continued, top
<1> QED
  BY <1>1, <1>2, TopChanged

LEMMA RenamedStack ==
    ASSUME stack \in [Threads -> Seq(Frames)], NEW t \in Threads, stack[t] # <<>>,
           NEW a \in Names, stack' = [stack EXCEPT ![t][1].pc = @ + 1, ![t][1].alias = a]
    PROVE  SetsTop(t, [top(t) EXCEPT !.pc = @ + 1, !.alias = a])
<1> DEFINE g == [top(t) EXCEPT !.pc = @ + 1, !.alias = a]
<1>1. g \in Frames
  BY TopFrame, NextFrame
<1>2. stack' = [stack EXCEPT ![t] = [stack[t] EXCEPT ![1] = g]]
  BY DEF top
<1> QED
  BY <1>1, <1>2, TopChanged

-----------------------------------------------------------------------------
(* Every step keeps the shape. *)

\* What the top of a stack is, and that a frame with a name has one below it.
LEMMA TopIs ==
    ASSUME Shape, NEW t \in Threads, Alive(t)
    PROVE  /\ stack[t] \in Seq(Frames) /\ Len(stack[t]) \in Nat \ {0}
           /\ top(t) = stack[t][1] /\ top(t) \in Frames /\ FrameOK(top(t))
           /\ top(t).name = None <=> Len(stack[t]) = 1
<1>1. stack[t] \in Seq(Frames) /\ StackOK(stack[t])
  BY DEF Shape
<1>2. Len(stack[t]) \in Nat \ {0}
  BY <1>1, EmptySeq DEF Alive
<1>3. top(t) = stack[t][1] /\ 1 \in 1..Len(stack[t])
  BY <1>2 DEF top
<1>4. top(t) \in Frames
  BY <1>1, <1>3, ElementOfSeq
<1> QED
  BY <1>1, <1>2, <1>3, <1>4 DEF StackOK

LEMMA StmtIs ==
    ASSUME Shape, NEW t \in Threads, Alive(t), top(t).phase = "run",
           top(t).pc <= Len(body(t))
    PROVE  /\ body(t) = Body(top(t).code) /\ top(t).code \in DOMAIN program.body
           /\ top(t).pc \in 1..Len(body(t)) /\ stmt(t) \in Statements
<1>1. FrameOK(top(t)) /\ program \in Programs
  BY TopIs DEF Shape
<1>2. body(t) = Body(top(t).code) /\ top(t).code \in DOMAIN program.body
  BY <1>1 DEF FrameOK, body, Body
<1>3. body(t) \in Seq(Statements)
  BY <1>1, <1>2, ProgramsAssumption DEF Body
<1>4. top(t).pc \in 1..Len(body(t))
  BY <1>1, <1>2, <1>3 DEF FrameOK
<1> QED
  BY <1>2, <1>3, <1>4, ElementOfSeq DEF stmt

LEMMA NamedStmt ==
    ASSUME NEW s \in Statements,
           s.op \in {"import", "query", "rename", "forget", "redirect"}
    PROVE  s.name \in Names
BY DEF Statements

LEMMA SetTopOK ==
    ASSUME Shape, NEW t \in Threads, Alive(t), NEW f, SetsTop(t, f), FrameOK(f),
           f.name = top(t).name
    PROVE  \A u \in Threads : StackOK(stack'[u]) /\ (stack[u] # <<>> => stack'[u] # <<>>)
<1>1. ASSUME NEW u \in Threads, u # t
      PROVE  StackOK(stack'[u]) /\ (stack[u] # <<>> => stack'[u] # <<>>)
  BY <1>1 DEF SetsTop, Others, Shape
<1>2. /\ Len(stack'[t]) = Len(stack[t]) /\ Len(stack[t]) \in Nat \ {0}
      /\ StackOK(stack[t]) /\ top(t) = stack[t][1]
  BY TopIs DEF SetsTop, Shape
<1>3. ASSUME NEW k \in 1..Len(stack'[t])
      PROVE  FrameOK(stack'[t][k]) /\ (stack'[t][k].name = None <=> k = Len(stack'[t]))
  <2>1. CASE k = 1
    BY <1>2, <2>1 DEF SetsTop, StackOK
  <2>2. CASE k # 1
    BY <1>2, <1>3, <2>2 DEF SetsTop, StackOK
  <2> QED
    BY <2>1, <2>2
<1>4. stack'[t] # <<>>
  BY <1>2
<1> QED
  BY <1>1, <1>3, <1>4 DEF StackOK

LEMMA PushOK ==
    ASSUME Shape, NEW t \in Threads, Alive(t), NEW f, Pushes(t, f), FrameOK(f),
           f.name # None
    PROVE  \A u \in Threads : StackOK(stack'[u]) /\ (stack[u] # <<>> => stack'[u] # <<>>)
<1>1. ASSUME NEW u \in Threads, u # t
      PROVE  StackOK(stack'[u]) /\ (stack[u] # <<>> => stack'[u] # <<>>)
  BY <1>1 DEF Pushes, Others, Shape
<1>2. /\ Len(stack'[t]) = Len(stack[t]) + 1 /\ Len(stack[t]) \in Nat \ {0}
      /\ StackOK(stack[t])
  BY TopIs DEF Pushes, Shape
<1>3. ASSUME NEW k \in 1..Len(stack'[t])
      PROVE  FrameOK(stack'[t][k]) /\ (stack'[t][k].name = None <=> k = Len(stack'[t]))
  <2>1. CASE k = 1
    BY <1>2, <2>1 DEF Pushes, StackOK
  <2>2. CASE k # 1
    <3>1. k - 1 \in 1..Len(stack[t]) /\ (k - 1) + 1 = k
      BY <1>2, <2>2
    <3>2. stack'[t][k] = stack[t][k - 1]
      BY <3>1 DEF Pushes
    <3> QED
      BY <1>2, <3>1, <3>2 DEF StackOK
  <2> QED
    BY <2>1, <2>2
<1>4. stack'[t] # <<>>
  BY <1>2
<1> QED
  BY <1>1, <1>3, <1>4 DEF StackOK

LEMMA PopOK ==
    ASSUME Shape, NEW t \in Threads, Alive(t), Pops(t)
    PROVE  /\ \A u \in Threads : StackOK(stack'[u])
           /\ \A u \in Threads \ {t} : stack[u] # <<>> => stack'[u] # <<>>
           /\ stack'[t] # <<>> <=> top(t).name # None
<1>1. ASSUME NEW u \in Threads, u # t
      PROVE  StackOK(stack'[u]) /\ (stack[u] # <<>> => stack'[u] # <<>>)
  BY <1>1 DEF Pops, Others, Shape
<1>2. /\ Len(stack'[t]) = Len(stack[t]) - 1 /\ Len(stack[t]) \in Nat \ {0}
      /\ StackOK(stack[t]) /\ stack'[t] \in Seq(Frames)
      /\ top(t).name = None <=> Len(stack[t]) = 1
  BY TopIs DEF Pops, Shape
<1>3. ASSUME NEW k \in 1..Len(stack'[t])
      PROVE  FrameOK(stack'[t][k]) /\ (stack'[t][k].name = None <=> k = Len(stack'[t]))
  BY <1>2 DEF Pops, StackOK
<1>4. stack'[t] # <<>> <=> Len(stack'[t]) # 0
  BY <1>2, EmptySeq
<1> QED
  BY <1>1, <1>2, <1>3, <1>4 DEF StackOK

-----------------------------------------------------------------------------
(* What a step of a thread does to the stacks and to sys.modules. *)

\* The innermost body goes on with its next statement, in the same frame but
\* for the alias.
Advances(t) ==
    /\ Alive(t) /\ top(t).phase = "run" /\ top(t).pc <= Len(body(t))
    /\ \E f \in Frames :
          /\ SetsTop(t, f) /\ f.pc = top(t).pc + 1
          /\ f.name = top(t).name /\ f.phase = top(t).phase
          /\ f.file = top(t).file /\ f.code = top(t).code /\ f.path = top(t).path
    /\ \A n \in Names : modules'[n] \in {modules[n], Absent}

\* An import begins, of a module that no other thread is importing.
Enters(t) ==
    \E n \in Names :
        /\ Pushes(t, Frame(n, "find", None, None, {}))
        /\ modules[n] = Absent /\ \A u \in Threads \ {t} : n \notin Held(u)
        /\ modules' = modules

\* An import ends: a module that was run is removed or loaded.
Leaves(t) ==
    /\ Pops(t)
    /\ \A n \in Names : \/ top(t).phase = "run" /\ n = top(t).name
                        \/ modules'[n] = modules[n]
    /\ LET n == top(t).name IN
       top(t).phase = "run" /\ n \in Names =>
           \/ modules'[n] = Absent
           \/ modules'[n].loaded /\ modules'[n].file = modules[n].file

Moves(t) == /\ Alive(t)
            /\ Advances(t) \/ Enters(t) \/ Leaves(t) \/ UNCHANGED <<stack, modules>>

LEMMA AtIs ==
    ASSUME Shape, NEW t \in Threads, NEW op, At(t, op)
    PROVE  /\ Alive(t) /\ ~ raising[t] /\ top(t).phase = "run" /\ top(t).pc <= Len(body(t))
           /\ stmt(t) \in Statements /\ stmt(t).op = op
BY StmtIs DEF At

LEMMA GoesOn ==
    ASSUME Shape, NEW t \in Threads, Alive(t), top(t).phase = "run",
           top(t).pc <= Len(body(t)), stack' = Continued(t),
           \A n \in Names : modules'[n] \in {modules[n], Absent}
    PROVE  Advances(t)
<1> DEFINE f == [top(t) EXCEPT !.pc = @ + 1]
<1>1. top(t) \in Frames /\ f \in Frames
  BY TopIs, NextFrame
<1>2. SetsTop(t, f)
  BY ContinuedStack DEF Shape, Alive
<1>3. /\ f.pc = top(t).pc + 1 /\ f.name = top(t).name /\ f.phase = top(t).phase
      /\ f.file = top(t).file /\ f.code = top(t).code /\ f.path = top(t).path
  BY <1>1 DEF Frames
<1> HIDE DEF f
<1> QED
  BY <1>1, <1>2, <1>3 DEF Advances

LEMMA RenameGoesOn ==
    ASSUME Shape, NEW t \in Threads, Rename(t)
    PROVE  Advances(t)
<1>0. At(t, "rename") /\ modules' = modules
  BY DEF Rename
<1>1. /\ Alive(t) /\ top(t).phase = "run" /\ top(t).pc <= Len(body(t))
      /\ stmt(t).name \in Names /\ top(t) \in Frames
  BY <1>0, AtIs, NamedStmt, TopIs
<1> DEFINE f == [top(t) EXCEPT !.pc = @ + 1, !.alias = stmt(t).name]
<1>2. f \in Frames
  BY <1>1, NextFrame
<1>3. SetsTop(t, f)
  BY <1>1, RenamedStack DEF Shape, Alive, Rename
<1>4. /\ f.pc = top(t).pc + 1 /\ f.name = top(t).name /\ f.phase = top(t).phase
      /\ f.file = top(t).file /\ f.code = top(t).code /\ f.path = top(t).path
  BY <1>1 DEF Frames
<1> HIDE DEF f
<1> QED
  BY <1>0, <1>1, <1>2, <1>3, <1>4 DEF Advances

LEMMA FrameIn ==
    ASSUME NEW n \in Names \cup {None}, NEW phase \in {"find", "run"}, NEW file \in Files,
           NEW code \in Files, NEW path \in Paths
    PROVE  Frame(n, phase, file, code, path) \in Frames
BY DEF Frame, Frames

LEMMA Entering ==
    ASSUME Shape, NEW t \in Threads, Alive(t), NEW n \in Needed(t), n \in Names,
           ~ Blocked(t), modules[n] = Absent, stack' = Pushed(t, n), modules' = modules
    PROVE  Enters(t)
<1> DEFINE f == Frame(n, "find", None, None, {})
<1>1. f \in Frames
  BY FrameIn DEF Files, Paths
<1>2. stack' = [stack EXCEPT ![t] = <<f>> \o @]
  BY DEF Pushed
<1> HIDE DEF f
<1>3. Pushes(t, f)
  BY <1>1, <1>2, PushedStack DEF Shape
<1>4. \A u \in Threads \ {t} : n \notin Held(u)
  BY DEF Blocked
<1> QED
  BY <1>3, <1>4 DEF Enters, f

LEMMA Leaving ==
    ASSUME Shape, NEW t \in Threads, Alive(t), stack' = Popped(t)
    PROVE  Pops(t) /\ (stack'[t] # <<>> <=> top(t).name # None)
<1>1. Pops(t)
  BY PoppedStack DEF Shape, Alive, Popped
<1> QED
  BY <1>1, PopOK

\* Removing or finishing a module keeps sys.modules well typed.
LEMMA ModulesKept ==
    ASSUME Shape, program' = program, moved' \subseteq Names,
           \/ modules' = modules
           \/ \E n \in Names : modules' = [modules EXCEPT ![n] = Absent]
           \/ \E n \in Names, p \in SUBSET {"own", "more", "broken"} :
                 /\ modules[n] # Absent
                 /\ modules' = [modules EXCEPT ![n].loaded = TRUE, ![n].path = p]
    PROVE  ModulesOK'
<1> DEFINE Entry == [file : Files, path : SUBSET {"own", "more", "broken"}, loaded : BOOLEAN]
<1>0. Files' = Files /\ ModulesOK /\ modules \in [Names -> Entry]
  BY DEF Files, Shape, ModulesOK
<1>1. CASE modules' = modules
  BY <1>0, <1>1 DEF ModulesOK
<1>2. CASE \E n \in Names : modules' = [modules EXCEPT ![n] = Absent]
  <2>1. Absent \in Entry
    BY DEF Absent, Files
  <2> HIDE DEF Entry
  <2>2. /\ modules' \in [Names -> Entry]
        /\ \A m \in Names : modules'[m] \in {modules[m], Absent}
    BY <1>0, <1>2, <2>1
  <2> QED
    BY <1>0, <2>2 DEF ModulesOK, Entry
<1>3. ASSUME NEW n \in Names, NEW p \in SUBSET {"own", "more", "broken"},
             modules[n] # Absent,
             modules' = [modules EXCEPT ![n].loaded = TRUE, ![n].path = p]
      PROVE  ModulesOK'
  <2> DEFINE d == [modules[n] EXCEPT !.loaded = TRUE]
             e == [d EXCEPT !.path = p]
  <2>1. d \in Entry /\ d.file = modules[n].file
    <3>1. modules[n] \in Entry
      BY <1>0
    <3>2. \A g \in Entry : /\ [g EXCEPT !.loaded = TRUE] \in Entry
                           /\ [g EXCEPT !.loaded = TRUE].file = g.file
      OBVIOUS
    <3> QED
      BY <3>1, <3>2
  <2>2. e \in Entry /\ e.file = modules[n].file /\ e.file # None
    <3>1. e \in Entry /\ e.file = d.file
      <4> HIDE DEF d
      <4> QED
        BY <2>1
    <3> QED
      BY <1>0, <1>3, <2>1, <3>1 DEF ModulesOK
  <2>3. modules' = [modules EXCEPT ![n] = e]
    BY <1>3
  <2> HIDE DEF Entry, e
  <2>4. /\ modules' \in [Names -> Entry] /\ modules'[n] = e
        /\ \A m \in Names \ {n} : modules'[m] = modules[m]
    BY <1>0, <2>2, <2>3
  <2> QED
    BY <1>0, <2>2, <2>4 DEF ModulesOK, Entry
<1> QED
  BY <1>1, <1>2, <1>3

LEMMA PathNowTyped ==
    ASSUME NEW f \in Frames
    PROVE  /\ PathNow(f) \in SUBSET {"own", "more", "broken"}
           /\ RecordsPath(PathNow(f)) => PathNow(f) \in Paths
<1>1. f.path \in Paths
  BY DEF Frames
<1> QED
  BY <1>1 DEF PathNow, RecordsPath, Paths

LEMMA RaisingKept ==
    ASSUME Shape, NEW t \in Threads, raising' \in [Threads -> BOOLEAN],
           \A u \in Threads \ {t} : raising'[u] = raising[u],
           Alive(t), Advances(t) \/ Enters(t) \/ Pops(t) \/ stack' = stack,
           Pops(t) => (raising'[t] => stack'[t] # <<>>)
    PROVE  RaisingOK'
<1>1. \A u \in Threads \ {t} : stack'[u] = stack[u]
  BY DEF Advances, SetsTop, Enters, Pushes, Pops, Others
<1>2. stack'[t] # <<>> \/ Pops(t)
  <2>1. Len(stack[t]) \in Nat \ {0}
    BY TopIs
  <2> QED
    BY <2>1 DEF Advances, SetsTop, Enters, Pushes, Alive
<1> QED
  BY <1>1, <1>2 DEF RaisingOK, Shape, Alive

Effect(t) == /\ program' = program /\ moved' \subseteq Names
             /\ ModulesOK' /\ RaisingOK' /\ Moves(t)

LEMMA AdvanceEffect ==
    ASSUME Shape, NEW t \in Threads,
           \/ ImportKnown(t) \/ Query(t) \/ ChangePath(t) \/ Rename(t) \/ Forget(t)
           \/ MayRaise(t)
    PROVE  Effect(t)
<1>0. program' = program /\ ModulesOK
  BY DEF ImportKnown, Query, ChangePath, Rename, Forget, MayRaise, Shape
<1>1. \/ At(t, "import") \/ At(t, "query") \/ At(t, "extend_path") \/ At(t, "break_path")
      \/ At(t, "rename") \/ At(t, "forget") \/ At(t, "redirect") \/ At(t, "may_raise")
  BY DEF ImportKnown, Query, ChangePath, Rename, Forget, MayRaise
<1>2. /\ Alive(t) /\ ~ raising[t] /\ top(t).phase = "run" /\ top(t).pc <= Len(body(t))
      /\ stmt(t) \in Statements
  BY <1>1, AtIs
<1>3. /\ moved' \subseteq Names /\ ModulesOK'
      /\ \A n \in Names : modules'[n] \in {modules[n], Absent}
  <2>1. CASE ~ Forget(t)
    <3>1. modules' = modules /\ moved' = moved
      BY <2>1 DEF ImportKnown, Query, ChangePath, Rename, MayRaise
    <3> QED
      BY <1>0, <3>1, ModulesKept DEF ModulesOK
  <2>2. CASE Forget(t)
    <3>1. stmt(t).name \in Names
      BY <1>2, <2>2, NamedStmt DEF Forget, At
    <3>2. modules' = [modules EXCEPT ![stmt(t).name] = Absent] /\ moved' \subseteq Names
      BY <1>0, <2>2, <3>1 DEF Forget, ModulesOK
    <3> HIDE DEF Absent
    <3> QED
      BY <1>0, <3>1, <3>2, ModulesKept DEF ModulesOK
  <2> QED
    BY <2>1, <2>2
<1>4. Advances(t) \/ UNCHANGED <<stack, modules>>
  <2>1. stack' = Continued(t) \/ Rename(t) \/ UNCHANGED <<stack, modules>>
    BY DEF ImportKnown, Query, ChangePath, Forget, MayRaise
  <2> QED
    BY <1>2, <1>3, <2>1, GoesOn, RenameGoesOn
<1>5. RaisingOK'
  <2>1. raising' \in [Threads -> BOOLEAN] /\ \A u \in Threads \ {t} : raising'[u] = raising[u]
    BY DEF ImportKnown, Query, ChangePath, Rename, Forget, MayRaise, Raised, Shape, RaisingOK
  <2>2. Len(stack[t]) \in Nat \ {0}
    BY <1>2, TopIs
  <2>3. ~ Pops(t)
    BY <1>4, <2>2 DEF Pops, Advances, SetsTop
  <2> QED
    BY <1>2, <1>4, <2>1, <2>3, RaisingKept
<1> QED
  BY <1>0, <1>2, <1>3, <1>4, <1>5 DEF Effect, Moves

LEMMA EnterEffect ==
    ASSUME Shape, NEW t \in Threads, ImportNew(t) \/ ImportParent(t)
    PROVE  Effect(t)
<1>1. Alive(t) /\ ~ raising[t]
  BY AtIs DEF ImportNew, ImportParent
<1>2. UNCHANGED <<program, modules, moved, raising>>
  BY DEF ImportNew, ImportParent
<1>3. PICK n \in Names : /\ n \in Needed(t) /\ ~ Blocked(t) /\ modules[n] = Absent
                        /\ stack' = Pushed(t, n)
  <2>1. CASE ImportNew(t)
    <3>1. stmt(t).name \in Names
      BY <2>1, AtIs, NamedStmt DEF ImportNew
    <3>2. stmt(t).name \in Needed(t)
      BY <1>1, <2>1, AtIs DEF Needed, ImportNew, Absent
    <3> QED
      BY <2>1, <3>1, <3>2 DEF ImportNew
  <2>2. CASE ImportParent(t)
    <3> DEFINE n == Parent[top(t).name]
    <3>1. top(t).name \in Names
      <4>1. FrameOK(top(t)) /\ top(t).phase = "find"
        BY <1>1, <2>2, TopIs DEF ImportParent
      <4> QED
        BY <4>1 DEF FrameOK, Looks, Runs, IsMain
    <3>2. n \in Names /\ modules[n] = Absent
      BY <2>2, <3>1, ParentAssumption DEF ImportParent
    <3>3. n \in Needed(t)
      BY <1>1, <2>2, <3>2 DEF Needed, ImportParent, Absent
    <3> QED
      BY <2>2, <3>2, <3>3 DEF ImportParent
  <2> QED
    BY <2>1, <2>2
<1>4. Enters(t)
  BY <1>1, <1>2, <1>3, Entering
<1>5. ModulesOK' /\ moved' \subseteq Names
  BY <1>2, ModulesKept DEF Shape, ModulesOK
<1>6. RaisingOK'
  <2>1. Len(stack[t]) \in Nat \ {0}
    BY <1>1, TopIs
  <2>2. ~ Pops(t)
    BY <1>4, <2>1 DEF Pops, Enters, Pushes
  <2> QED
    BY <1>1, <1>2, <1>4, <2>2, RaisingKept DEF Shape, RaisingOK
<1> QED
  BY <1>1, <1>2, <1>4, <1>5, <1>6 DEF Effect, Moves

\* A frame that looks for its module has a name; so has one that is running but
\* for main programs.
LEMMA FindsNamed ==
    ASSUME Shape, NEW t \in Threads, Alive(t)
    PROVE  /\ top(t).name \in Names \cup {None}
           /\ top(t).phase = "find" => top(t).name \in Names /\ top(t).name # None
<1>1. FrameOK(top(t))
  BY TopIs
<1> QED
  BY <1>1, NoneAssumption DEF FrameOK, Looks, Runs, IsMain

LEMMA LeaveEffect ==
    ASSUME Shape, NEW t \in Threads, FoundMeanwhile(t) \/ NotFound(t) \/ MainEnds(t) \/ Finish(t)
    PROVE  Effect(t)
<1>0. /\ program' = program /\ moved' = moved /\ moved' \subseteq Names
      /\ Alive(t) /\ ~ raising[t] /\ stack' = Popped(t)
  BY DEF FoundMeanwhile, NotFound, MainEnds, Finish, BodyEnds, Finding, Shape, ModulesOK
<1>1. Pops(t) /\ (stack'[t] # <<>> <=> top(t).name # None)
  BY <1>0, Leaving
<1>2. ModulesOK' /\ Leaves(t)
  <2>1. CASE Finish(t)
    <3> DEFINE n == top(t).name
    <3>1. n \in Names /\ top(t).phase = "run"
      BY <1>0, <2>1, FindsNamed DEF Finish, BodyEnds
    <3>2. CASE modules[n].loaded \/ modules[n] = Absent
      <4>1. modules' = modules
        BY <2>1, <3>2 DEF Finish
      <4> QED
        BY <1>0, <1>1, <3>1, <3>2, <4>1, ModulesKept DEF Leaves
    <3>3. CASE ~ modules[n].loaded /\ modules[n] # Absent
      <4> DEFINE p == PathNow(top(t))
      <4>1. modules' = [modules EXCEPT ![n].loaded = TRUE, ![n].path = p]
        BY <2>1, <3>3 DEF Finish
      <4>2. p \in SUBSET {"own", "more", "broken"}
        BY <1>0, TopIs, PathNowTyped
      <4>3. ModulesOK'
        BY <1>0, <3>1, <3>3, <4>1, <4>2, ModulesKept
      <4>4. modules'[n].loaded /\ modules'[n].file = modules[n].file
        <5>1. modules \in [Names -> [file : Files, path : SUBSET {"own", "more", "broken"},
                                     loaded : BOOLEAN]]
          BY DEF Shape, ModulesOK
        <5> HIDE DEF p
        <5>2. modules'[n] = [modules[n] EXCEPT !.loaded = TRUE, !.path = p]
          BY <3>1, <4>1, <5>1
        <5> QED
          BY <3>1, <5>1, <5>2
      <4>5. \A m \in Names \ {n} : modules'[m] = modules[m]
        BY <3>1, <4>1 DEF Shape, ModulesOK
      <4> QED
        BY <1>1, <3>1, <4>3, <4>4, <4>5 DEF Leaves
    <3> QED
      BY <3>2, <3>3
  <2>2. CASE ~ Finish(t)
    <3>1. modules' = modules
      BY <2>2 DEF FoundMeanwhile, NotFound, MainEnds
    <3>2. top(t).phase = "find" \/ top(t).name = None
      BY <2>2 DEF FoundMeanwhile, NotFound, MainEnds, Finding
    <3> QED
      BY <1>0, <1>1, <3>1, <3>2, ModulesKept, NoneAssumption DEF Leaves
  <2> QED
    BY <2>1, <2>2
<1>3. RaisingOK'
  <2>1. raising' \in [Threads -> BOOLEAN] /\ \A u \in Threads \ {t} : raising'[u] = raising[u]
    BY DEF FoundMeanwhile, NotFound, MainEnds, Finish, Raised, Shape, RaisingOK
  <2>2. raising'[t] => stack'[t] # <<>>
    <3>1. CASE MainEnds(t)
      BY <1>0, <3>1 DEF MainEnds
    <3>2. CASE ~ MainEnds(t)
      BY <1>0, <1>1, <3>2, FindsNamed DEF FoundMeanwhile, NotFound, Finish, Finding
    <3> QED
      BY <3>1, <3>2
  <2> QED
    BY <1>0, <1>1, <2>1, <2>2, RaisingKept
<1> QED
  BY <1>0, <1>2, <1>3 DEF Effect, Moves

LEMMA UnwindEffect ==
    ASSUME Shape, NEW t \in Threads, Unwind(t)
    PROVE  Effect(t)
<1>0. /\ program' = program /\ moved' = moved /\ moved' \subseteq Names /\ Alive(t)
  BY DEF Unwind, Shape, ModulesOK
<1> DEFINE handled == top(t).phase = "run" /\ top(t).pc <= Len(body(t)) /\ stmt(t).guarded
<1>1. CASE handled
  <2>1. stack' = Continued(t) /\ modules' = modules
    BY <1>1 DEF Unwind
  <2>2. Advances(t)
    BY <1>0, <1>1, <2>1, GoesOn
  <2>3. ModulesOK'
    BY <1>0, <2>1, ModulesKept
  <2>4. RaisingOK'
    <3>1. raising' \in [Threads -> BOOLEAN] /\ \A u \in Threads : u # t => raising'[u] = raising[u]
      BY <1>1 DEF Unwind, Shape, RaisingOK
    <3>2. Len(stack[t]) \in Nat \ {0} /\ ~ Pops(t)
      BY <1>0, <2>2, TopIs DEF Pops, Advances, SetsTop
    <3> QED
      BY <1>0, <2>2, <3>1, <3>2, RaisingKept
  <2> QED
    BY <1>0, <2>2, <2>3, <2>4 DEF Effect, Moves
<1>2. CASE ~ handled
  <2>1. /\ stack' = Popped(t) /\ raising' = [raising EXCEPT ![t] = Len(stack[t]) > 1]
        /\ modules' = IF top(t).name = None \/ top(t).phase = "find" THEN modules
                      ELSE [modules EXCEPT ![top(t).name] = Absent]
    BY <1>2 DEF Unwind
  <2>2. Pops(t) /\ (stack'[t] # <<>> <=> top(t).name # None)
    BY <1>0, <2>1, Leaving
  <2>3. /\ top(t).name \in Names \cup {None} /\ top(t) \in Frames
        /\ top(t).name = None <=> Len(stack[t]) = 1
    BY <1>0, TopIs, FindsNamed
  <2>4. ModulesOK' /\ Leaves(t)
    <3> HIDE DEF Absent
    <3>1. CASE top(t).name = None \/ top(t).phase = "find"
      BY <1>0, <2>1, <2>2, <3>1, ModulesKept, NoneAssumption DEF Leaves
    <3>2. CASE ~ (top(t).name = None \/ top(t).phase = "find")
      <4>1. top(t).name \in Names /\ modules' = [modules EXCEPT ![top(t).name] = Absent]
        BY <2>1, <2>3, <3>2
      <4>2. ModulesOK'
        BY <1>0, <4>1, ModulesKept
      <4>3. /\ modules'[top(t).name] = Absent
            /\ \A m \in Names \ {top(t).name} : modules'[m] = modules[m]
        BY <4>1 DEF Shape, ModulesOK
      <4>4. top(t).phase = "run"
        BY <2>3, <3>2 DEF Frames
      <4> QED
        BY <2>2, <4>2, <4>3, <4>4 DEF Leaves
    <3> QED
      BY <3>1, <3>2
  <2>5. RaisingOK'
    <3>1. raising' \in [Threads -> BOOLEAN] /\ \A u \in Threads \ {t} : raising'[u] = raising[u]
      BY <2>1 DEF Shape, RaisingOK
    <3>2. raising'[t] => stack'[t] # <<>>
      <4>1. PICK d \in Nat : d = Len(stack[t])
        BY <1>0, TopIs
      <4>2. raising'[t] <=> d > 1
        BY <2>1, <4>1 DEF Shape, RaisingOK
      <4>3. d > 1 => d # 1
        OBVIOUS
      <4> QED
        BY <2>2, <2>3, <4>1, <4>2, <4>3, Zenon
    <3> QED
      BY <1>0, <2>2, <3>1, <3>2, RaisingKept
  <2> QED
    BY <1>0, <2>4, <2>5 DEF Effect, Moves
<1> QED
  BY <1>1, <1>2

LEMMA DeadlockEffect ==
    ASSUME Shape, NEW t \in Threads, ImportDeadlock(t)
    PROVE  Effect(t)
<1>0. /\ program' = program /\ moved' = moved /\ modules' = modules /\ moved' \subseteq Names
  BY DEF ImportDeadlock, Shape, ModulesOK
<1>1. Alive(t) /\ ~ raising[t] /\ (top(t).phase = "find" \/ At(t, "import"))
  BY DEF ImportDeadlock, Deadlock, Needed
<1>2. ModulesOK'
  BY <1>0, ModulesKept
<1>3. raising' \in [Threads -> BOOLEAN] /\ \A u \in Threads \ {t} : raising'[u] = raising[u]
  BY DEF ImportDeadlock, Raised, Shape, RaisingOK
<1>4. Len(stack[t]) \in Nat \ {0}
  BY <1>1, TopIs
<1>5. CASE top(t).phase = "find"
  <2>1. Pops(t) /\ (stack'[t] # <<>> <=> top(t).name # None)
    BY <1>1, <1>5, Leaving DEF ImportDeadlock
  <2>2. Leaves(t)
    BY <1>0, <1>5, <2>1 DEF Leaves
  <2>3. RaisingOK'
    BY <1>1, <1>3, <1>5, <2>1, FindsNamed, RaisingKept
  <2> QED
    BY <1>0, <1>1, <1>2, <2>2, <2>3 DEF Effect, Moves
<1>6. CASE top(t).phase # "find"
  <2>1. top(t).phase = "run" /\ top(t).pc <= Len(body(t))
    BY <1>1, <1>6, AtIs
  <2>2. Advances(t) \/ UNCHANGED <<stack, modules>>
    BY <1>0, <1>1, <1>6, <2>1, GoesOn DEF ImportDeadlock
  <2>3. ~ Pops(t)
    BY <1>4, <2>2 DEF Pops, Advances, SetsTop
  <2>4. RaisingOK'
    BY <1>1, <1>3, <2>2, <2>3, RaisingKept
  <2> QED
    BY <1>0, <1>1, <1>2, <2>2, <2>4 DEF Effect, Moves
<1> QED
  BY <1>5, <1>6

\* The steps of a thread other than the start of a module.
Progress(t) == \/ Internal(t) \/ ImportDeadlock(t) \/ Query(t) \/ NotFound(t) \/ Finish(t)

LEMMA ProgressEffect ==
    ASSUME Shape, NEW t \in Threads, Progress(t)
    PROVE  Effect(t)
<1>1. CASE \/ ImportKnown(t) \/ Query(t) \/ ChangePath(t) \/ Rename(t) \/ Forget(t)
           \/ MayRaise(t)
  BY <1>1, AdvanceEffect
<1>2. CASE ImportNew(t) \/ ImportParent(t)
  BY <1>2, EnterEffect
<1>3. CASE FoundMeanwhile(t) \/ NotFound(t) \/ MainEnds(t) \/ Finish(t)
  BY <1>3, LeaveEffect
<1>4. CASE Unwind(t)
  BY <1>4, UnwindEffect
<1>5. CASE ImportDeadlock(t)
  BY <1>5, DeadlockEffect
<1> QED
  BY <1>1, <1>2, <1>3, <1>4, <1>5 DEF Progress, Internal

-----------------------------------------------------------------------------
(* Every step keeps the shape. *)

LEMMA StacksAgain ==
    ASSUME Shape, program' = program, stack' \in [Threads -> Seq(Frames)],
           \A u \in Threads : StackOK(stack'[u]), ModulesOK', RaisingOK'
    PROVE  Shape'
<1>1. Frames' = Frames
  BY DEF Frames, Files
<1>2. \A u \in Threads : StackOK(stack[u])'
  BY DEF StackOK, FrameOK, Looks, Runs, IsMain, FilesOf, Body
<1> QED
  BY <1>1, <1>2 DEF Shape

LEMMA SameShape ==
    ASSUME Shape, UNCHANGED <<program, modules, moved, stack, raising>>
    PROVE  Shape'
<1>1. ModulesOK'
  BY ModulesKept DEF Shape, ModulesOK
<1>2. RaisingOK'
  BY DEF Shape, RaisingOK, Alive
<1> QED
  BY <1>1, <1>2, StacksAgain DEF Shape

LEMMA EffectShape ==
    ASSUME Shape, NEW t \in Threads, Effect(t)
    PROVE  Shape'
<1>0. program' = program /\ ModulesOK' /\ RaisingOK' /\ Alive(t)
  BY DEF Effect, Moves
<1>1. CASE Advances(t)
  <2>1. PICK f \in Frames :
          /\ SetsTop(t, f) /\ f.pc = top(t).pc + 1
          /\ f.name = top(t).name /\ f.phase = top(t).phase
          /\ f.file = top(t).file /\ f.code = top(t).code /\ f.path = top(t).path
    BY <1>1 DEF Advances
  <2>2. top(t).phase = "run" /\ top(t).pc <= Len(body(t)) /\ FrameOK(top(t))
    BY <1>0, <1>1, TopIs DEF Advances
  <2>3. f.code \in DOMAIN program.body /\ f.pc \in 1..(Len(Body(f.code)) + 1)
    <3>1. body(t) = Body(f.code) /\ f.code \in DOMAIN program.body
      BY <2>1, <2>2 DEF FrameOK, body, Body
    <3>2. PICK n \in Nat : n = Len(body(t))
      <4>1. body(t) \in Seq(Statements)
        BY <3>1, ProgramsAssumption DEF Shape, Body
      <4> QED
        BY <4>1
    <3>3. top(t).pc \in 1..(n + 1) /\ top(t).pc <= n
      BY <2>1, <2>2, <3>1, <3>2 DEF FrameOK
    <3>4. top(t).pc + 1 \in 1..(n + 1)
      BY <3>3
    <3> QED
      BY <2>1, <3>1, <3>2, <3>4
  <2>4. FrameOK(f)
    BY <2>1, <2>2, <2>3 DEF FrameOK, Looks, Runs, IsMain
  <2>5. \A u \in Threads : StackOK(stack'[u])
    BY <1>0, <2>1, <2>4, SetTopOK
  <2> QED
    BY <1>0, <2>1, <2>5, StacksAgain DEF SetsTop
<1>2. CASE Enters(t)
  <2>1. PICK n \in Names : Pushes(t, Frame(n, "find", None, None, {}))
    BY <1>2 DEF Enters
  <2>2. /\ FrameOK(Frame(n, "find", None, None, {}))
        /\ Frame(n, "find", None, None, {}).name # None
    BY NoneAssumption DEF Frame, FrameOK, Looks
  <2>3. \A u \in Threads : StackOK(stack'[u])
    BY <1>0, <2>1, <2>2, PushOK
  <2> QED
    BY <1>0, <2>1, <2>3, StacksAgain DEF Pushes
<1>3. CASE Leaves(t)
  <2>1. Pops(t)
    BY <1>3 DEF Leaves
  <2>2. \A u \in Threads : StackOK(stack'[u])
    BY <1>0, <2>1, PopOK
  <2> QED
    BY <1>0, <2>1, <2>2, StacksAgain DEF Pops
<1>4. CASE UNCHANGED <<stack, modules>>
  BY <1>0, <1>4, StacksAgain DEF Shape
<1> QED
  BY <1>1, <1>2, <1>3, <1>4 DEF Effect, Moves

\* A module begins, from a file that its name stands for.
Starts(t, file, code, path) ==
    /\ Alive(t) /\ ~ raising[t] /\ top(t).phase = "find" /\ top(t).name \in Names
    /\ modules[top(t).name] = Absent
    /\ modules' = [modules EXCEPT ![top(t).name] = [Absent EXCEPT !.file = file]]
    /\ SetsTop(t, Frame(top(t).name, "run", file, code, path))
    /\ UNCHANGED <<program, moved, raising>>

LEMMA StartEffect ==
    ASSUME Shape, NEW t \in Threads, NEW file, NEW code, NEW path \in Paths,
           Start(t, file, code, path),
           file \in FilesOf(top(t).name), code \in FilesOf(top(t).name)
    PROVE  Starts(t, file, code, path) /\ Shape'
<1> DEFINE n == top(t).name
           f == Frame(n, "run", file, code, path)
<1>0. /\ Alive(t) /\ top(t).phase = "find" /\ UNCHANGED <<program, moved, raising>>
      /\ ~ raising[t] /\ n \in Names /\ n # None
  BY FindsNamed DEF Start, Finding
<1>1. /\ file \in Files /\ code \in Files /\ file # None /\ code # None
      /\ code \in DOMAIN program.body /\ Len(Body(code)) \in Nat
  <2>1. program.file \in [Names -> Files] /\ program.other \in [Names -> Files]
    BY ProgramsAssumption DEF Shape, Files
  <2>2. /\ file \in Files /\ code \in Files /\ file # None /\ code # None
        /\ code \in DOMAIN program.body
    BY <1>0, <2>1 DEF FilesOf, Files
  <2>3. Body(code) \in Seq(Statements)
    BY <2>2, ProgramsAssumption DEF Shape, Body
  <2> QED
    BY <2>2, <2>3
<1>2. f \in Frames
  BY <1>0, <1>1, FrameIn
<1>3. FrameOK(f) /\ f.name = n
  <2>1. /\ f.name = n /\ f.phase = "run" /\ f.file = file /\ f.code = code /\ f.pc = 1
    BY DEF Frame
  <2>2. 1 \in 1..(Len(Body(code)) + 1)
    BY <1>1
  <2> HIDE DEF f
  <2> QED
    BY <1>0, <1>1, <2>1, <2>2 DEF FrameOK, Runs
<1>4. SetsTop(t, f)
  <2> HIDE DEF f
  <2>1. stack' = [stack EXCEPT ![t] = <<f>> \o Tail(@)]
    BY DEF Start, f
  <2> QED
    BY <1>0, <1>2, <2>1, ReplacedStack DEF Shape, Alive
<1>5. \A u \in Threads : StackOK(stack'[u]) /\ (stack[u] # <<>> => stack'[u] # <<>>)
  <2> HIDE DEF f
  <2> QED
    BY <1>0, <1>3, <1>4, SetTopOK
<1>6. ModulesOK'
  <2> DEFINE e == [Absent EXCEPT !.file = file]
  <2>1. modules' = [modules EXCEPT ![n] = e]
    BY DEF Start
  <2>2. /\ e \in [file : Files, path : SUBSET {"own", "more", "broken"}, loaded : BOOLEAN]
        /\ e.file = file
    BY <1>1 DEF Absent
  <2>3. Files' = Files
    BY <1>0 DEF Files
  <2> HIDE DEF e
  <2>4. modules'[n] = e /\ \A m \in Names \ {n} : modules'[m] = modules[m]
    BY <1>0, <2>1 DEF Shape, ModulesOK
  <2> QED
    BY <1>0, <1>1, <2>1, <2>2, <2>3, <2>4 DEF Shape, ModulesOK
<1>7. RaisingOK'
  BY <1>0, <1>5 DEF Shape, RaisingOK, Alive
<1>8. Shape'
  BY <1>0, <1>4, <1>5, <1>6, <1>7, StacksAgain DEF SetsTop
<1>9. modules[n] = Absent /\ modules' = [modules EXCEPT ![n] = [Absent EXCEPT !.file = file]]
  BY DEF Start
<1> QED
  BY <1>0, <1>4, <1>8, <1>9 DEF Starts

\* What was imported before a process has its own file.
LEMMA ThereHasFile ==
    ASSUME program \in Programs, NEW there \in program.starts, NEW n \in there
    PROVE  /\ n \in Names /\ program.file[n] # None
           /\ program.file[n] \in Files /\ program.file[n] \in FilesOf(n)
BY ProgramsAssumption DEF Files, FilesOf

LEMMA BeginShape ==
    ASSUME Shape, program' = program, NEW mains \in program.mains,
           NEW there \in program.starts, Begin(mains, there)
    PROVE  Shape'
<1> DEFINE s(t) == IF mains[t] = None THEN <<>>
                   ELSE <<Frame(None, "run", None, mains[t], {})>>
<1>1. mains \in [Threads -> Files] /\ program \in Programs
  BY ProgramsAssumption DEF Shape, Files
<1>2. stack' = [t \in Threads |-> s(t)]
  BY DEF Begin
<1>3. ASSUME NEW t \in Threads
      PROVE  s(t) \in Seq(Frames) /\ StackOK(s(t))
  <2> DEFINE f == Frame(None, "run", None, mains[t], {})
  <2>1. CASE mains[t] = None
    BY <2>1 DEF StackOK
  <2>2. CASE mains[t] # None
    <3>1. mains[t] \in DOMAIN program.body /\ mains[t] \in Files
      BY <1>1, <2>2 DEF Files
    <3>2. f \in Frames
      BY <3>1, FrameIn DEF Files, Paths
    <3>3. Body(mains[t]) \in Seq(Statements)
      BY <1>1, <3>1, ProgramsAssumption DEF Body
    <3>4. FrameOK(f) /\ f.name = None
      <4>1. /\ f.name = None /\ f.phase = "run" /\ f.file = None /\ f.code = mains[t]
            /\ f.pc = 1 /\ f.path = {}
        BY DEF Frame
      <4>2. 1 \in 1..(Len(Body(mains[t])) + 1)
        BY <3>3
      <4> HIDE DEF f
      <4> QED
        BY <3>1, <4>1, <4>2 DEF FrameOK, IsMain
    <3> HIDE DEF f, Frames
    <3>5. <<f>> \in Seq(Frames) /\ Len(<<f>>) = 1 /\ <<f>>[1] = f
      BY <3>2
    <3>6. s(t) = <<f>>
      BY <2>2 DEF f
    <3> HIDE DEF s
    <3> QED
      BY <3>4, <3>5, <3>6 DEF StackOK
  <2> QED
    BY <2>1, <2>2
<1>4. stack' \in [Threads -> Seq(Frames)] /\ \A t \in Threads : StackOK(stack'[t])
  <2> HIDE DEF s, Frames
  <2> QED
    BY <1>2, <1>3
<1>5. ModulesOK'
  <2>1. Absent \in [file : Files, path : SUBSET {"own", "more", "broken"}, loaded : BOOLEAN]
    BY DEF Absent, Files
  <2>2. Files' = Files
    BY DEF Files
  <2>3. ASSUME NEW n \in Names, n \in there
        PROVE  /\ Imported(n) \in [file : Files, path : SUBSET {"own", "more", "broken"},
                                    loaded : BOOLEAN]
               /\ Imported(n).file # None
    BY <2>3, ThereHasFile DEF Imported, OwnPath, Shape
  <2> HIDE DEF Absent, Imported
  <2>4. \A n \in Names : /\ n \in there => modules'[n] = Imported(n)
                         /\ n \notin there => modules'[n] = Absent
    BY DEF Begin
  <2>5. modules' \in [Names -> [file : Files, path : SUBSET {"own", "more", "broken"},
                                loaded : BOOLEAN]]
    BY <2>1, <2>3 DEF Begin
  <2>6. Absent' = Absent
    BY DEF Absent
  <2>7. moved' \subseteq Names
    BY DEF Begin
  <2> QED
    BY <2>2, <2>3, <2>4, <2>5, <2>6, <2>7 DEF ModulesOK
<1>6. RaisingOK'
  BY DEF Begin, RaisingOK
<1> QED
  BY <1>4, <1>5, <1>6, StacksAgain

-----------------------------------------------------------------------------
(* What the package cds has recorded, and the steps of both processes. *)

CodeMapOK ==
    /\ DOMAIN code_map \subseteq Names
    /\ \A n \in DOMAIN code_map : code_map[n] \in FilesOf(n)

MetaMapOK ==
    /\ DOMAIN meta_map \subseteq Names
    /\ \A n \in DOMAIN meta_map :
          meta_map[n].file \in FilesOf(n) /\ meta_map[n].path \in Paths

ArchiveOK ==
    /\ DOMAIN archive \subseteq Names
    /\ \A n \in DOMAIN archive :
          /\ archive[n].file \in FilesOf(n) /\ archive[n].code \in FilesOf(n)
          /\ archive[n].path \in Paths

ServedOK ==
    /\ process \in {"none", "dumper", "dumped", "user"}
    /\ process \in {"none", "dumper"} => archive = <<>>
    /\ process # "user" => shared_module = <<>>
    /\ process = "none" => code_map = <<>>
    /\ DOMAIN shared_module \subseteq DOMAIN archive
    /\ \A n \in DOMAIN shared_module : shared_module[n] = archive[n]

RecordsOK == CodeMapOK /\ MetaMapOK /\ ArchiveOK /\ ServedOK

LEMMA TakenIs ==
    ASSUME NEW n
    PROVE  /\ DOMAIN Taken(n) = DOMAIN shared_module \ {n}
           /\ \A m \in DOMAIN Taken(n) : Taken(n)[m] = shared_module[m]
BY DEF Taken

\* A body that ended was the one of a module, whose frame says which.
LEMMA FinishIs ==
    ASSUME Shape, NEW t \in Threads, Finish(t)
    PROVE  /\ Alive(t) /\ top(t) \in Frames /\ top(t).phase = "run" /\ top(t).name \in Names
           /\ top(t).code \in FilesOf(top(t).name) /\ top(t).file \in FilesOf(top(t).name)
           /\ top(t).pc = Len(Body(top(t).code)) + 1
<1>1. Alive(t) /\ top(t).name # None /\ top(t).phase = "run" /\ top(t).pc > Len(body(t))
  BY DEF Finish, BodyEnds
<1>2. FrameOK(top(t)) /\ top(t) \in Frames
  BY <1>1, TopIs
<1>3. Runs(top(t))
  BY <1>1, <1>2 DEF FrameOK, Looks, IsMain
<1>4. body(t) = Body(top(t).code) /\ top(t).code \in DOMAIN program.body
  BY <1>1, <1>2 DEF FrameOK, body, Body
<1>5. PICK n \in Nat : n = Len(Body(top(t).code))
  <2>1. Body(top(t).code) \in Seq(Statements)
    BY <1>4, ProgramsAssumption DEF Shape, Body
  <2> QED
    BY <2>1
<1>6. top(t).pc \in 1..(n + 1) /\ top(t).pc > n
  BY <1>1, <1>2, <1>4, <1>5 DEF FrameOK
<1>7. top(t).pc = n + 1
  BY <1>6
<1> QED
  BY <1>1, <1>2, <1>3, <1>5, <1>7 DEF Runs

LEMMA ResolvedIn ==
    ASSUME NEW n, Resolved(n) # None
    PROVE  Resolved(n) \in FilesOf(n)
BY DEF Resolved, FilesOf

LEMMA FindFileStarts ==
    ASSUME Shape, NEW t \in Threads, FindFile(t)
    PROVE  LET n == top(t).name
               file == Resolved(n)
           IN  /\ Starts(t, file, file, OwnPath(file)) /\ Shape'
               /\ file \in FilesOf(n) /\ n \in Names
<1> DEFINE n == top(t).name
           file == Resolved(n)
<1>1. file # None /\ Start(t, file, file, OwnPath(file))
  BY DEF FindFile
<1>2. file \in FilesOf(n)
  BY <1>1, ResolvedIn
<1>3. OwnPath(file) \in Paths
  BY DEF OwnPath, Paths
<1>4. Starts(t, file, file, OwnPath(file)) /\ Shape'
  <2> HIDE DEF file
  <2> QED
    BY <1>1, <1>2, <1>3, StartEffect
<1>5. n \in Names
  BY <1>4 DEF Starts
<1> QED
  BY <1>2, <1>4, <1>5

LEMMA FindSpecStarts ==
    ASSUME Shape, RecordsOK, NEW t \in Threads, FindSpec(t)
    PROVE  LET n == top(t).name
               r == archive[n]
           IN  /\ n \in DOMAIN shared_module /\ n \in DOMAIN archive /\ r = shared_module[n]
               /\ Starts(t, r.file, r.code, r.path) /\ Shape'
<1> DEFINE n == top(t).name
           r == archive[n]
<1>1. n \in DOMAIN shared_module /\ n \in DOMAIN archive /\ r = shared_module[n]
  BY DEF FindSpec, RecordsOK, ServedOK
<1>2. Start(t, r.file, r.code, r.path)
  BY <1>1 DEF FindSpec, ServedPath
<1>3. r.file \in FilesOf(n) /\ r.code \in FilesOf(n) /\ r.path \in Paths
  BY <1>1 DEF RecordsOK, ArchiveOK
<1>4. Starts(t, r.file, r.code, r.path) /\ Shape'
  <2> HIDE DEF r
  <2> QED
    BY <1>2, <1>3, StartEffect
<1> QED
  BY <1>1, <1>4

\* The steps that leave the records alone, of both processes.
Plain(t) == /\ process \in {"dumper", "user"} /\ UNCHANGED cdsVars
            /\ Progress(t) \/ FindFile(t)

LEMMA StepKinds ==
    ASSUME NextCds
    PROVE  \/ StartDump \/ Write \/ StartUser
           \/ \E t \in Threads : \/ GetCode(t) \/ ExecModule(t)
                                 \/ FindSpec(t) \/ QuerySpec(t) \/ Plain(t)
<1>1. ASSUME NEW t \in Threads, DumpInternal(t) \/ UserInternal(t) \/ FallBack(t)
      PROVE  Plain(t)
  BY <1>1 DEF DumpInternal, UserInternal, FallBack, Plain, Progress
<1> QED
  BY <1>1 DEF NextCds, Dumper, User

LEMMA ShapeStep ==
    ASSUME Shape, RecordsOK, [NextCds]_vars
    PROVE  Shape' /\ program' = program
<1>1. CASE UNCHANGED importVars
  BY <1>1, SameShape DEF importVars
<1>2. CASE StartDump
  <2>1. PICK there \in program.starts : Begin(program.list, there)
    BY <1>2 DEF StartDump
  <2>2. program.list \in program.mains /\ program' = program
    BY <1>2, MainsAssumption DEF Shape, StartDump
  <2> QED
    BY <2>1, <2>2, BeginShape
<1>3. CASE StartUser
  <2>1. PICK mains \in program.users, there \in program.starts : Begin(mains, there)
    BY <1>3 DEF StartUser
  <2>2. mains \in program.mains /\ program' = program
    BY <1>3, MainsAssumption DEF Shape, StartUser
  <2> QED
    BY <2>1, <2>2, BeginShape
<1>4. ASSUME NEW t \in Threads,
             GetCode(t) \/ ExecModule(t) \/ FindSpec(t) \/ QuerySpec(t) \/ Plain(t)
      PROVE  Shape' /\ program' = program
  <2>1. Progress(t) \/ FindFile(t) \/ FindSpec(t)
    BY <1>4 DEF GetCode, ExecModule, QuerySpec, Plain, Progress
  <2>2. CASE Progress(t)
    BY <2>2, ProgressEffect, EffectShape DEF Effect
  <2>3. CASE FindFile(t)
    BY <2>3, FindFileStarts DEF Starts
  <2>4. CASE FindSpec(t)
    BY <2>4, FindSpecStarts DEF Starts
  <2> QED
    BY <2>1, <2>2, <2>3, <2>4
<1> QED
  BY <1>1, <1>2, <1>3, <1>4, StepKinds DEF vars, Write

\* The parts of the records that a step does not assign.
LEMMA RecordsKept ==
    ASSUME RecordsOK, program' = program
    PROVE  /\ code_map' = code_map => CodeMapOK'
           /\ meta_map' = meta_map => MetaMapOK'
           /\ archive' = archive => ArchiveOK'
           /\ /\ UNCHANGED <<process, archive, shared_module>>
              /\ process = "none" => code_map' = code_map
              => ServedOK'
<1>1. code_map' = code_map => CodeMapOK'
  BY DEF RecordsOK, CodeMapOK, FilesOf
<1>2. meta_map' = meta_map => MetaMapOK'
  BY DEF RecordsOK, MetaMapOK, FilesOf
<1>3. archive' = archive => ArchiveOK'
  BY DEF RecordsOK, ArchiveOK, FilesOf
<1>4. /\ UNCHANGED <<process, archive, shared_module>>
      /\ process = "none" => code_map' = code_map
      => ServedOK'
  BY DEF RecordsOK, ServedOK
<1> QED
  BY <1>1, <1>2, <1>3, <1>4

LEMMA RecordsStep ==
    ASSUME Shape, RecordsOK, [NextCds]_vars
    PROVE  RecordsOK'
<1>0. program' = program
  BY ShapeStep
<1>1. CASE UNCHANGED vars
  BY <1>0, <1>1, RecordsKept DEF vars, cdsVars, RecordsOK
<1>2. CASE StartDump
  <2>1. ServedOK'
    BY <1>2 DEF StartDump, RecordsOK, ServedOK
  <2> QED
    BY <1>0, <1>2, <2>1, RecordsKept DEF StartDump, RecordsOK
<1>3. CASE StartUser
  <2>1. ServedOK'
    BY <1>3 DEF StartUser, RecordsOK, ServedOK
  <2> QED
    BY <1>0, <1>3, <2>1, RecordsKept DEF StartUser, RecordsOK
<1>4. CASE Write
  <2>1. archive' = [n \in SharedNames |-> Record(code_map[n], meta_map[n].file, meta_map[n].path)]
    BY <1>4 DEF Write, SharedNames
  <2>2. shared_module' = <<>> /\ process' = "dumped" /\ UNCHANGED <<code_map, meta_map>>
    BY <1>4 DEF Write, RecordsOK, ServedOK
  <2>3. ServedOK'
    BY <2>2 DEF ServedOK
  <2>4. \A n \in SharedNames :
          /\ n \in Names /\ archive'[n].file \in FilesOf(n) /\ archive'[n].code \in FilesOf(n)
          /\ archive'[n].path \in Paths
    BY <2>1 DEF SharedNames, RecordsOK, CodeMapOK, MetaMapOK, Record
  <2>5. ArchiveOK'
    <3>1. DOMAIN archive' = SharedNames
      BY <2>1
    <3> QED
      BY <1>0, <2>4, <3>1 DEF ArchiveOK, FilesOf
  <2> QED
    BY <1>0, <2>2, <2>3, <2>5, RecordsKept DEF RecordsOK
<1>5. ASSUME NEW t \in Threads, GetCode(t)
      PROVE  RecordsOK'
  <2> DEFINE n == top(t).name
  <2>1. n \in Names /\ Resolved(n) \in FilesOf(n)
    BY <1>5, FindFileStarts DEF GetCode
  <2>2. code_map' = Assigned(code_map, n, Resolved(n)) \/ code_map' = code_map
    BY <1>5 DEF GetCode
  <2>3. process # "none" /\ UNCHANGED <<process, meta_map, archive, shared_module>>
    BY <1>5 DEF GetCode
  <2> HIDE DEF n
  <2>4. CodeMapOK'
    <3>1. DOMAIN code_map' \subseteq Names /\ \A m \in DOMAIN code_map' : code_map'[m] \in FilesOf(m)
      <4> DEFINE file == Resolved(n)
      <4> HIDE DEF file
      <4>1. /\ DOMAIN code_map' \subseteq DOMAIN code_map \cup {n}
            /\ \A m \in DOMAIN code_map' : \/ m = n /\ code_map'[m] = file
                                           \/ m \in DOMAIN code_map /\ code_map'[m] = code_map[m]
        BY <2>2 DEF Assigned, file
      <4> QED
        BY <2>1, <4>1 DEF RecordsOK, CodeMapOK, file
    <3> QED
      BY <1>0, <3>1 DEF CodeMapOK, FilesOf
  <2> QED
    BY <1>0, <2>3, <2>4, RecordsKept DEF RecordsOK
<1>6. ASSUME NEW t \in Threads, ExecModule(t)
      PROVE  RecordsOK'
  <2> DEFINE n == top(t).name
             v == [file |-> top(t).file, path |-> PathNow(top(t))]
  <2>1. n \in Names /\ top(t).file \in FilesOf(n) /\ top(t) \in Frames
    BY <1>6, FinishIs DEF ExecModule
  <2>2. \/ meta_map' = Assigned(meta_map, n, v) /\ RecordsPath(PathNow(top(t)))
        \/ meta_map' = meta_map
    BY <1>6 DEF ExecModule, RecordedName
  <2>3. UNCHANGED <<process, code_map, archive, shared_module>>
    BY <1>6 DEF ExecModule
  <2>4. RecordsPath(PathNow(top(t))) => v.path \in Paths /\ v.file \in FilesOf(n)
    BY <2>1, PathNowTyped
  <2> HIDE DEF n, v
  <2>5. MetaMapOK'
    <3>1. /\ DOMAIN meta_map' \subseteq Names
          /\ \A m \in DOMAIN meta_map' :
                meta_map'[m].file \in FilesOf(m) /\ meta_map'[m].path \in Paths
      <4>1. /\ DOMAIN meta_map' \subseteq DOMAIN meta_map \cup {n}
            /\ \A m \in DOMAIN meta_map' :
                  \/ m = n /\ meta_map'[m] = v /\ RecordsPath(PathNow(top(t)))
                  \/ m \in DOMAIN meta_map /\ meta_map'[m] = meta_map[m]
        BY <2>2 DEF Assigned
      <4> QED
        BY <2>1, <2>4, <4>1 DEF RecordsOK, MetaMapOK
    <3> QED
      BY <1>0, <3>1 DEF MetaMapOK, FilesOf
  <2> QED
    BY <1>0, <2>3, <2>5, RecordsKept DEF RecordsOK
<1>7. ASSUME NEW t \in Threads, FindSpec(t) \/ QuerySpec(t)
      PROVE  RecordsOK'
  <2>1. PICK n : shared_module' = Taken(n) \/ shared_module' = shared_module
    BY <1>7 DEF FindSpec, QuerySpec
  <2>2. process = "user" /\ UNCHANGED <<process, code_map, meta_map, archive>>
    BY <1>7 DEF FindSpec, QuerySpec
  <2>3. ServedOK'
    BY <2>1, <2>2, TakenIs DEF RecordsOK, ServedOK
  <2> QED
    BY <1>0, <2>2, <2>3, RecordsKept DEF RecordsOK
<1>8. ASSUME NEW t \in Threads, Plain(t)
      PROVE  RecordsOK'
  BY <1>0, <1>8, RecordsKept DEF Plain, cdsVars, RecordsOK
<1> QED
  BY <1>1, <1>2, <1>3, <1>4, <1>5, <1>6, <1>7, <1>8, StepKinds

LEMMA CdsBegins == InitCds => Shape /\ RecordsOK
<1> SUFFICES ASSUME InitCds PROVE Shape /\ RecordsOK
  OBVIOUS
<1>1. /\ program \in Programs /\ stack = [t \in Threads |-> <<>>]
      /\ raising = [t \in Threads |-> FALSE] /\ moved = {}
      /\ modules = [n \in Names |-> Absent]
  BY DEF InitCds, Init
<1>2. Absent \in [file : Files, path : SUBSET {"own", "more", "broken"}, loaded : BOOLEAN]
  BY DEF Absent, Files
<1>3. ModulesOK /\ RaisingOK
  <2> HIDE DEF Absent
  <2> QED
    BY <1>1, <1>2 DEF ModulesOK, RaisingOK
<1>4. stack \in [Threads -> Seq(Frames)] /\ \A t \in Threads : StackOK(stack[t])
  BY <1>1 DEF StackOK
<1>5. RecordsOK
  BY DEF InitCds, RecordsOK, CodeMapOK, MetaMapOK, ArchiveOK, ServedOK
<1> QED
  BY <1>1, <1>3, <1>4, <1>5 DEF Shape

LEMMA CdsKeepsShape == SpecCds => [](Shape /\ RecordsOK)
<1>1. Shape /\ RecordsOK /\ [NextCds]_vars => (Shape /\ RecordsOK)'
  BY ShapeStep, RecordsStep
<1> QED
  BY <1>1, CdsBegins, PTL DEF SpecCds

\* TypeOK: what is on the stacks and in the records has its type; a module that
\* is loaded has a file, an exception has a frame to leave, and what is served
\* was recorded.
THEOREM ImportTypes == SpecCds => []TypeOK
<1>1. Shape /\ RecordsOK => TypeOK
  <2> SUFFICES ASSUME Shape, RecordsOK PROVE TypeOK
    OBVIOUS
  <2>1. \A n \in Names : modules[n].loaded => modules[n].file # None
    BY DEF Shape, ModulesOK, Absent
  <2> QED
    BY <2>1 DEF Shape, RecordsOK, ArchiveOK, ServedOK, RaisingOK, TypeOK, Paths
<1> QED
  BY <1>1, CdsKeepsShape, PTL

-----------------------------------------------------------------------------
(* A module that is not loaded yet is the one that is being run: the locks   *)
(* keep two threads from running one name at a time, and what a thread runs  *)
(* of a name is its innermost frame of that name.                            *)

Runner(n, t, k) ==
    /\ k \in 1..Len(stack[t])
    /\ stack[t][k].name = n /\ stack[t][k].phase = "run"
    /\ stack[t][k].file = modules[n].file
    /\ \A j \in 1..(k - 1) : stack[t][j].name # n

Exclusive == \A t, u \in Threads : t # u => Held(t) \cap Held(u) = {}

Current == \A n \in Names : modules[n] # Absent /\ ~ modules[n].loaded =>
               \E t \in Threads : \E k \in Nat : Runner(n, t, k)

FileOfName == \A n \in Names : modules[n] # Absent => modules[n].file \in FilesOf(n)

Running == Exclusive /\ Current /\ FileOfName

LEMMA HeldIs ==
    ASSUME NEW t \in Threads, NEW n
    PROVE  n \in Held(t) <=> n \in Names /\ \E k \in 1..Len(stack[t]) : stack[t][k].name = n
BY DEF Held

\* The names on a stack after a step, and where its frames were before.
LEMMA SetTopHeld ==
    ASSUME Shape, NEW t \in Threads, Alive(t), NEW f, SetsTop(t, f), f.name = top(t).name
    PROVE  \A u \in Threads : Held(u)' \subseteq Held(u)
<1>1. Len(stack'[t]) = Len(stack[t]) /\ Len(stack[t]) \in Nat \ {0} /\ top(t) = stack[t][1]
  BY TopIs DEF SetsTop
<1>2. \A k \in 1..Len(stack[t]) : stack'[t][k].name = stack[t][k].name
  BY <1>1 DEF SetsTop
<1>3. Held(t)' \subseteq Held(t)
  BY <1>1, <1>2 DEF Held
<1>4. \A u \in Threads \ {t} : Held(u)' \subseteq Held(u)
  BY DEF Held, SetsTop, Others
<1> QED
  BY <1>3, <1>4

LEMMA PopHeld ==
    ASSUME Shape, NEW t \in Threads, Alive(t), Pops(t)
    PROVE  \A u \in Threads : Held(u)' \subseteq Held(u)
<1>1. Len(stack'[t]) = Len(stack[t]) - 1 /\ Len(stack[t]) \in Nat \ {0}
  BY TopIs DEF Pops
<1>2. \A k \in 1..Len(stack'[t]) : /\ k + 1 \in 1..Len(stack[t])
                                   /\ stack'[t][k] = stack[t][k + 1]
  BY <1>1 DEF Pops
<1>3. Held(t)' \subseteq Held(t)
  BY <1>2 DEF Held
<1>4. \A u \in Threads \ {t} : Held(u)' \subseteq Held(u)
  BY DEF Held, Pops, Others
<1> QED
  BY <1>3, <1>4

LEMMA PushHeld ==
    ASSUME Shape, NEW t \in Threads, Alive(t), NEW f, Pushes(t, f)
    PROVE  /\ \A u \in Threads \ {t} : Held(u)' \subseteq Held(u)
           /\ Held(t)' \subseteq Held(t) \cup {f.name}
<1>1. Len(stack'[t]) = Len(stack[t]) + 1 /\ Len(stack[t]) \in Nat \ {0}
  BY TopIs DEF Pushes
<1>2. \A k \in 1..Len(stack'[t]) :
          stack'[t][k] = f \/ \E j \in 1..Len(stack[t]) : stack'[t][k] = stack[t][j]
  <2> SUFFICES ASSUME NEW k \in 1..Len(stack'[t]), k # 1
               PROVE  \E j \in 1..Len(stack[t]) : stack'[t][k] = stack[t][j]
    BY DEF Pushes
  <2>1. k - 1 \in 1..Len(stack[t]) /\ (k - 1) + 1 = k
    BY <1>1
  <2> QED
    BY <2>1 DEF Pushes
<1>3. Held(t)' \subseteq Held(t) \cup {f.name}
  BY <1>2 DEF Held
<1>4. \A u \in Threads \ {t} : Held(u)' \subseteq Held(u)
  BY DEF Held, Pushes, Others
<1> QED
  BY <1>3, <1>4

LEMMA ExclusiveStep ==
    ASSUME Shape, Exclusive, NEW t \in Threads,
           Effect(t) \/ \E file, code, path : Starts(t, file, code, path)
    PROVE  Exclusive'
<1>1. CASE \A u \in Threads : Held(u)' \subseteq Held(u)
  BY <1>1 DEF Exclusive
<1>2. CASE Enters(t) /\ Alive(t)
  <2>1. PICK n \in Names : /\ Pushes(t, Frame(n, "find", None, None, {}))
                          /\ \A u \in Threads \ {t} : n \notin Held(u)
    BY <1>2 DEF Enters
  <2>2. Frame(n, "find", None, None, {}).name = n
    BY DEF Frame
  <2>3. /\ \A u \in Threads \ {t} : Held(u)' \subseteq Held(u)
        /\ Held(t)' \subseteq Held(t) \cup {n}
    BY <1>2, <2>1, <2>2, PushHeld
  <2> QED
    BY <2>1, <2>3 DEF Exclusive
<1>3. CASE Effect(t) /\ ~ Enters(t)
  <2>1. Alive(t) /\ (Advances(t) \/ Leaves(t) \/ UNCHANGED <<stack, modules>>)
    BY <1>3 DEF Effect, Moves
  <2>2. CASE UNCHANGED <<stack, modules>>
    BY <2>2 DEF Exclusive, Held
  <2> QED
    BY <1>1, <2>1, <2>2, SetTopHeld, PopHeld DEF Advances, Leaves
<1>4. ASSUME NEW file, NEW code, NEW path, Starts(t, file, code, path)
      PROVE  Exclusive'
  <2>1. /\ Alive(t) /\ SetsTop(t, Frame(top(t).name, "run", file, code, path))
        /\ Frame(top(t).name, "run", file, code, path).name = top(t).name
    BY <1>4 DEF Starts, Frame
  <2> QED
    BY <1>1, <2>1, SetTopHeld
<1> QED
  BY <1>2, <1>3, <1>4 DEF Effect, Moves

LEMMA RunnerElsewhere ==
    ASSUME NEW n \in Names, NEW u \in Threads, NEW k \in Nat, Runner(n, u, k),
           modules'[n] = modules[n], stack'[u] = stack[u]
    PROVE  Runner(n, u, k)'
BY DEF Runner

LEMMA RunnerSetTop ==
    ASSUME Shape, NEW t \in Threads, Alive(t), NEW f, SetsTop(t, f), f.name = top(t).name,
           NEW n \in Names, NEW k \in Nat, Runner(n, t, k), modules'[n] = modules[n],
           k = 1 => f.phase = "run" /\ f.file = top(t).file
    PROVE  Runner(n, t, k)'
<1>1. /\ Len(stack'[t]) = Len(stack[t]) /\ Len(stack[t]) \in Nat \ {0}
      /\ top(t) = stack[t][1] /\ stack'[t][1] = f
  BY TopIs DEF SetsTop
<1>2. k \in 1..Len(stack[t]) /\ \A j \in 2..Len(stack[t]) : stack'[t][j] = stack[t][j]
  BY DEF Runner, SetsTop
<1>3. \A j \in 1..Len(stack[t]) : stack'[t][j].name = stack[t][j].name
  BY <1>1, <1>2
<1>4. stack'[t][k].phase = "run" /\ stack'[t][k].file = modules'[n].file
  BY <1>1, <1>2 DEF Runner
<1>5. \A j \in 1..(k - 1) : j \in 1..Len(stack[t])
  BY <1>1, <1>2
<1> QED
  BY <1>1, <1>2, <1>3, <1>4, <1>5 DEF Runner

LEMMA RunnerPush ==
    ASSUME Shape, NEW t \in Threads, Alive(t), NEW f, Pushes(t, f),
           NEW n \in Names, NEW k \in Nat, Runner(n, t, k), modules'[n] = modules[n],
           f.name # n
    PROVE  Runner(n, t, k + 1)'
<1>1. /\ Len(stack'[t]) = Len(stack[t]) + 1 /\ Len(stack[t]) \in Nat \ {0}
      /\ stack'[t][1] = f /\ k \in 1..Len(stack[t])
      /\ \A j \in 1..Len(stack[t]) : stack'[t][j + 1] = stack[t][j]
  BY TopIs DEF Pushes, Runner
<1>2. k + 1 \in 1..Len(stack'[t]) /\ stack'[t][k + 1] = stack[t][k]
  BY <1>1
<1>3. ASSUME NEW j \in 1..((k + 1) - 1)
      PROVE  stack'[t][j].name # n
  <2>1. CASE j = 1
    BY <1>1, <2>1
  <2>2. CASE j # 1
    <3>1. /\ j - 1 \in 1..(k - 1) /\ j - 1 \in 1..Len(stack[t])
          /\ (j - 1) + 1 = j
      BY <1>1, <2>2
    <3> QED
      BY <1>1, <3>1 DEF Runner
  <2> QED
    BY <2>1, <2>2
<1> QED
  BY <1>2, <1>3 DEF Runner

LEMMA RunnerPop ==
    ASSUME Shape, NEW t \in Threads, Alive(t), Pops(t),
           NEW n \in Names, NEW k \in Nat, Runner(n, t, k), modules'[n] = modules[n],
           k # 1
    PROVE  Runner(n, t, k - 1)' /\ k - 1 \in Nat
<1>1. /\ Len(stack'[t]) = Len(stack[t]) - 1 /\ Len(stack[t]) \in Nat \ {0}
      /\ k \in 1..Len(stack[t])
      /\ \A j \in 1..(Len(stack[t]) - 1) : stack'[t][j] = stack[t][j + 1]
  BY TopIs DEF Pops, Runner
<1>2. /\ k - 1 \in 1..(Len(stack[t]) - 1) /\ (k - 1) + 1 = k
      /\ k - 1 \in 1..Len(stack'[t])
  BY <1>1
<1>3. stack'[t][k - 1] = stack[t][k]
  BY <1>1, <1>2
<1>4. ASSUME NEW j \in 1..((k - 1) - 1)
      PROVE  stack'[t][j].name # n
  <2>1. j + 1 \in 1..(k - 1) /\ j \in 1..(Len(stack[t]) - 1)
    BY <1>1
  <2> QED
    BY <1>1, <2>1 DEF Runner
<1>5. /\ stack'[t][k - 1].name = n /\ stack'[t][k - 1].phase = "run"
      /\ stack'[t][k - 1].file = modules'[n].file
  BY <1>3 DEF Runner
<1>6. k - 1 \in Nat
  BY <1>1
<1>7. Runner(n, t, k - 1)'
  BY <1>2, <1>4, <1>5 DEF Runner
<1> QED
  BY <1>6, <1>7

LEMMA CurrentStep ==
    ASSUME Shape, Current, NEW t \in Threads,
           Effect(t) \/ \E file, code, path : Starts(t, file, code, path)
    PROVE  Current'
<1> SUFFICES ASSUME NEW n \in Names, modules'[n] # Absent, ~ modules'[n].loaded
             PROVE  \E u \in Threads : \E k \in Nat : Runner(n, u, k)'
  BY DEF Current, Absent
<1>0. Alive(t)
  BY DEF Effect, Moves, Starts
<1>1. ASSUME modules'[n] = modules[n]
      PROVE  \E u \in Threads : \E k \in Nat : Runner(n, u, k)'
  <2>1. PICK u \in Threads : \E k \in Nat : Runner(n, u, k)
    BY <1>1 DEF Current
  <2>2. PICK k \in Nat : Runner(n, u, k)
    BY <2>1
  <2>3. CASE u # t
    <3>1. stack'[u] = stack[u]
      BY <2>3 DEF Effect, Moves, Advances, Enters, Leaves, Starts, SetsTop, Pushes, Pops, Others
    <3> QED
      BY <1>1, <2>2, <3>1, RunnerElsewhere
  <2>4. CASE u = t
    <3>0. /\ Runner(n, t, k) /\ k \in 1..Len(stack[t])
          /\ k = 1 => top(t).name = n /\ top(t).phase = "run"
      BY <2>2, <2>4 DEF Runner, top
    <3>1. CASE Advances(t)
      <4>1. PICK f \in Frames : /\ SetsTop(t, f) /\ f.name = top(t).name
                                /\ f.phase = top(t).phase /\ f.file = top(t).file
        BY <3>1 DEF Advances
      <4>2. top(t).phase = "run"
        BY <3>1 DEF Advances
      <4> QED
        BY <1>0, <1>1, <3>0, <4>1, <4>2, RunnerSetTop
    <3>2. CASE Enters(t)
      <4>1. PICK m \in Names : /\ Pushes(t, Frame(m, "find", None, None, {}))
                              /\ modules[m] = Absent
        BY <3>2 DEF Enters
      <4>2. Frame(m, "find", None, None, {}).name # n
        BY <1>1, <4>1 DEF Frame
      <4>3. Runner(n, t, k + 1)'
        BY <1>0, <1>1, <3>0, <4>1, <4>2, RunnerPush
      <4> QED
        BY <4>3
    <3>3. CASE Leaves(t)
      <4>1. ~ (top(t).phase = "run" /\ top(t).name = n)
        <5> SUFFICES ASSUME top(t).phase = "run", top(t).name = n
                     PROVE  FALSE
          OBVIOUS
        <5> QED
          BY <3>3 DEF Leaves
      <4>2. k # 1 /\ Pops(t)
        BY <3>0, <3>3, <4>1 DEF Leaves
      <4>3. Runner(n, t, k - 1)' /\ k - 1 \in Nat
        BY <1>0, <1>1, <3>0, <4>2, RunnerPop
      <4> QED
        BY <4>3
    <3>4. CASE UNCHANGED <<stack, modules>>
      BY <1>1, <3>0, <3>4, RunnerElsewhere
    <3>5. ASSUME NEW file, NEW code, NEW path, Starts(t, file, code, path)
          PROVE  \E v \in Threads : \E j \in Nat : Runner(n, v, j)'
      <4> DEFINE f == Frame(top(t).name, "run", file, code, path)
      <4>1. SetsTop(t, f) /\ f.name = top(t).name /\ top(t).phase = "find"
        BY <3>5 DEF Starts, Frame
      <4>2. k # 1
        BY <3>0, <4>1
      <4> HIDE DEF f
      <4> QED
        BY <1>0, <1>1, <3>0, <4>1, <4>2, RunnerSetTop
    <3> QED
      BY <3>1, <3>2, <3>3, <3>4, <3>5 DEF Effect, Moves
  <2> QED
    BY <2>3, <2>4
<1>2. ASSUME modules'[n] # modules[n]
      PROVE  \E u \in Threads : \E k \in Nat : Runner(n, u, k)'
  <2>1. PICK file, code, path : Starts(t, file, code, path)
    <3> SUFFICES ASSUME Effect(t) PROVE FALSE
      OBVIOUS
    <3>1. ~ Advances(t)
      BY <1>2 DEF Advances
    <3>2. ~ Enters(t)
      BY <1>2 DEF Enters
    <3>3. Leaves(t) => modules'[n] = Absent \/ modules'[n].loaded
      BY <1>2 DEF Leaves
    <3> QED
      BY <1>2, <3>1, <3>2, <3>3 DEF Effect, Moves
  <2> DEFINE f == Frame(top(t).name, "run", file, code, path)
  <2>2. /\ SetsTop(t, f) /\ f.name = top(t).name /\ f.phase = "run" /\ f.file = file
        /\ modules' = [modules EXCEPT ![top(t).name] = [Absent EXCEPT !.file = file]]
    BY <2>1 DEF Starts, Frame
  <2>3. n = top(t).name /\ modules'[n].file = file
    BY <1>2, <2>2 DEF Shape, ModulesOK, Absent
  <2> HIDE DEF f
  <2>4. 1 \in 1..Len(stack'[t]) /\ stack'[t][1] = f
    BY <1>0, <2>2, TopIs DEF SetsTop
  <2>5. Runner(n, t, 1)'
    BY <2>2, <2>3, <2>4 DEF Runner
  <2> QED
    BY <2>5
<1> QED
  BY <1>1, <1>2

LEMMA FileOfNameStep ==
    ASSUME Shape, FileOfName, NEW t \in Threads,
           \/ Effect(t)
           \/ \E file \in FilesOf(top(t).name) : \E code, path : Starts(t, file, code, path)
    PROVE  FileOfName'
<1>0. program' = program
  BY DEF Effect, Starts
<1>1. ASSUME NEW n \in Names, modules'[n] # Absent
      PROVE  modules'[n].file \in FilesOf(n)
  <2>1. CASE modules'[n] = modules[n]
    BY <1>1, <2>1 DEF FileOfName
  <2>2. CASE modules'[n] # modules[n] /\ Effect(t)
    <3>1. Leaves(t) /\ n = top(t).name /\ top(t).phase = "run"
      BY <1>1, <2>2 DEF Effect, Moves, Advances, Enters, Leaves
    <3>2. modules'[n].loaded /\ modules'[n].file = modules[n].file
      BY <1>1, <3>1 DEF Leaves
    <3>3. modules[n] # Absent
      BY <1>1, <3>2, EffectShape, <2>2 DEF Shape, ModulesOK, Absent
    <3> QED
      BY <3>2, <3>3 DEF FileOfName
  <2>3. ASSUME modules'[n] # modules[n],
               NEW file \in FilesOf(top(t).name), NEW code, NEW path, Starts(t, file, code, path)
        PROVE  modules'[n].file \in FilesOf(n)
    <3>1. modules' = [modules EXCEPT ![top(t).name] = [Absent EXCEPT !.file = file]]
      BY <2>3 DEF Starts
    <3>2. n = top(t).name /\ modules'[n].file = file
      BY <2>3, <3>1 DEF Shape, ModulesOK, Absent
    <3> QED
      BY <3>2
  <2> QED
    BY <2>1, <2>2, <2>3
<1> QED
  BY <1>0, <1>1 DEF FileOfName, FilesOf

LEMMA ImportedIs ==
    ASSUME NEW n
    PROVE  Imported(n).loaded = TRUE /\ Imported(n).file = program.file[n]
BY DEF Imported

LEMMA AbsentIs == ~ Absent.loaded
BY DEF Absent

LEMMA BeginRunning ==
    ASSUME program \in Programs, program' = program, NEW mains,
           NEW there \in program.starts, Begin(mains, there)
    PROVE  Running'
<1>1. ASSUME NEW t \in Threads PROVE Held(t)' = {}
  <2>1. /\ Len(<<Frame(None, "run", None, mains[t], {})>>) = 1
        /\ <<Frame(None, "run", None, mains[t], {})>>[1].name = None
    BY DEF Frame
  <2>2. \A k \in 1..Len(stack'[t]) : stack'[t][k].name = None
    BY <2>1 DEF Begin
  <2> QED
    BY <2>2, NoneAssumption DEF Held
<1>2. \A n \in Names : /\ n \in there => modules'[n] = Imported(n)
                       /\ n \notin there => modules'[n] = Absent
  BY DEF Begin
<1>3. Exclusive'
  BY <1>1 DEF Exclusive
<1>4. Absent' = Absent
  BY DEF Absent
<1>5. Current'
  <2> SUFFICES ASSUME NEW n \in Names, modules'[n] # Absent, ~ modules'[n].loaded
               PROVE  FALSE
    BY <1>4 DEF Current
  <2>1. n \in there => modules'[n].loaded
    BY <1>2, ImportedIs
  <2> HIDE DEF Absent
  <2> QED
    BY <1>2, <2>1
<1>6. FileOfName'
  <2> SUFFICES ASSUME NEW n \in Names, modules'[n] # Absent
               PROVE  modules'[n].file \in FilesOf(n)'
    BY <1>4 DEF FileOfName
  <2>1. n \in there /\ modules'[n].file = program.file[n]
    <3>1. n \in there => modules'[n].file = program.file[n]
      BY <1>2, ImportedIs
    <3> HIDE DEF Absent
    <3> QED
      BY <1>2, <3>1
  <2> QED
    BY <2>1, ThereHasFile DEF FilesOf
<1> QED
  BY <1>3, <1>5, <1>6 DEF Running

LEMMA ThreadRunning ==
    ASSUME Shape, Running, NEW t \in Threads,
           \/ Effect(t)
           \/ \E file \in FilesOf(top(t).name) : \E code, path : Starts(t, file, code, path)
    PROVE  Running'
BY ExclusiveStep, CurrentStep, FileOfNameStep DEF Running

LEMMA RunningStep ==
    ASSUME Shape, RecordsOK, Running, [NextCds]_vars
    PROVE  Running'
<1>1. CASE UNCHANGED importVars
  <2>1. UNCHANGED <<program, modules, stack>>
    BY <1>1 DEF importVars
  <2>2. Exclusive'
    BY <2>1 DEF Running, Exclusive, Held
  <2>3. Current'
    <3> SUFFICES ASSUME NEW n \in Names, modules[n] # Absent, ~ modules[n].loaded
                 PROVE  \E u \in Threads : \E k \in Nat : Runner(n, u, k)'
      BY <2>1 DEF Current, Absent
    <3>1. PICK u \in Threads : \E k \in Nat : Runner(n, u, k)
      BY DEF Running, Current
    <3> QED
      BY <2>1, <3>1, RunnerElsewhere
  <2>4. FileOfName'
    BY <2>1 DEF Running, FileOfName, FilesOf, Absent
  <2> QED
    BY <2>2, <2>3, <2>4 DEF Running
<1>2. CASE StartDump \/ StartUser
  <2>1. \E mains : \E there \in program.starts : Begin(mains, there)
    <3>1. CASE StartDump
      BY <3>1 DEF StartDump
    <3>2. CASE StartUser
      <4>1. PICK mains \in program.users : \E there \in program.starts : Begin(mains, there)
        BY <3>2 DEF StartUser
      <4> QED
        BY <4>1
    <3> QED
      BY <1>2, <3>1, <3>2
  <2>2. program' = program /\ program \in Programs
    BY <1>2 DEF StartDump, StartUser, Shape
  <2>3. PICK mains : \E there \in program.starts : Begin(mains, there)
    BY <2>1
  <2>4. PICK there \in program.starts : Begin(mains, there)
    BY <2>3
  <2> QED
    BY <2>2, <2>4, BeginRunning
<1>3. ASSUME NEW t \in Threads,
             GetCode(t) \/ ExecModule(t) \/ FindSpec(t) \/ QuerySpec(t) \/ Plain(t)
      PROVE  Running'
  <2>1. Progress(t) \/ FindFile(t) \/ FindSpec(t)
    BY <1>3 DEF GetCode, ExecModule, QuerySpec, Plain, Progress
  <2>2. CASE Progress(t)
    BY <2>2, ProgressEffect, ThreadRunning
  <2>3. CASE FindFile(t)
    BY <2>3, FindFileStarts, ThreadRunning
  <2>4. CASE FindSpec(t)
    <3> DEFINE r == archive[top(t).name]
    <3>1. Starts(t, r.file, r.code, r.path) /\ top(t).name \in DOMAIN archive
      BY <2>4, FindSpecStarts
    <3>2. r.file \in FilesOf(top(t).name)
      BY <3>1 DEF RecordsOK, ArchiveOK
    <3> HIDE DEF r
    <3> QED
      BY <3>1, <3>2, ThreadRunning
  <2> QED
    BY <2>1, <2>2, <2>3, <2>4
<1> QED
  BY <1>1, <1>2, <1>3, StepKinds DEF vars, Write

-----------------------------------------------------------------------------
(* What the dumper records. *)

\* __path__ of a package whose body came to its end, started by its own finder.
FinalPath(c) == PathNow([code |-> c, path |-> OwnPath(c), pc |-> Len(Body(c)) + 1])

RunsModule(f) == f.phase = "run" /\ f.name \in Names

Dumping(f) == /\ f.code = f.file /\ f.path = OwnPath(f.file)
              /\ program.kind[f.file] = "source" => f.name \in DOMAIN code_map

DumperFrames ==
    process = "dumper" =>
        \A t \in Threads : \A k \in 1..Len(stack[t]) :
            RunsModule(stack[t][k]) => Dumping(stack[t][k])

CodeRecords == \A n \in DOMAIN code_map : program.kind[code_map[n]] = "source"

MetaRecords ==
    \A n \in DOMAIN meta_map :
        LET m == meta_map[n] IN
        /\ program.kind[m.file] # "extension"
        /\ m.path = FinalPath(m.file) /\ m.path # {"broken"}
        /\ <<n, Record(m.file, m.file, m.path)>> \in ended

LoadedRecords ==
    process \in {"dumper", "dumped"} =>
        \A n \in Names :
            modules[n].loaded /\ program.kind[modules[n].file] = "source"
                              /\ modules[n].path # {"broken"} /\ n \notin before =>
                n \in DOMAIN code_map /\ n \in DOMAIN meta_map

\* Of what was there before, nothing is looked for.
BeforeRecords ==
    process \in {"dumper", "dumped"} =>
        \A n \in before : n \in Names /\ modules[n] # Absent /\ n \notin DOMAIN code_map

ArchiveRecords ==
    /\ \A n \in DOMAIN archive :
          LET r == archive[n] IN
          /\ r.file = program.file[n] /\ r.code = program.file[n]
          /\ r.path = FinalPath(r.file) /\ r.path # {"broken"}
          /\ <<n, r>> \in ended
    /\ process = "dumped" => DOMAIN archive = DOMAIN code_map \cap DOMAIN meta_map

Recorded == /\ DumperFrames /\ CodeRecords /\ MetaRecords
            /\ LoadedRecords /\ BeforeRecords /\ ArchiveRecords

\* The dumper's step keeps of them what stays in sys.modules.
Forgets == before' = {n \in before : modules'[n] # Absent}

LEMMA OwnFile ==
    ASSUME RedirectsToExtensions, Shape, NEW n \in Names, NEW c \in FilesOf(n),
           program.kind[c] # "extension"
    PROVE  c = program.file[n]
BY DEF RedirectsToExtensions, Shape, FilesOf

Same(f, g) == /\ f.name = g.name /\ f.phase = g.phase /\ f.file = g.file
              /\ f.code = g.code /\ f.path = g.path

\* A frame that runs a module was there before the step, or is the module that
\* begins.
LEMMA FramesKept ==
    ASSUME Shape, NEW t \in Threads, Effect(t), NEW u \in Threads,
           NEW k \in 1..Len(stack'[u]), RunsModule(stack'[u][k])
    PROVE  \E j \in 1..Len(stack[u]) : Same(stack'[u][k], stack[u][j])
<1>0. Alive(t) /\ Len(stack[t]) \in Nat \ {0} /\ top(t) = stack[t][1]
  BY TopIs DEF Effect, Moves
<1>1. CASE stack'[u] = stack[u]
  BY <1>1 DEF Same
<1>2. CASE u = t /\ Advances(t)
  <2>1. PICK f \in Frames : SetsTop(t, f) /\ Same(f, top(t))
    BY <1>2 DEF Advances, Same
  <2>2. CASE k = 1
    BY <1>0, <1>2, <2>1, <2>2 DEF SetsTop
  <2>3. CASE k # 1
    BY <1>0, <1>2, <2>1, <2>3 DEF SetsTop, Same
  <2> QED
    BY <2>2, <2>3
<1>3. CASE u = t /\ Enters(t)
  <2>1. PICK n \in Names : Pushes(t, Frame(n, "find", None, None, {}))
    BY <1>3 DEF Enters
  <2>2. k # 1
    BY <1>3, <2>1 DEF Pushes, Frame, RunsModule
  <2>3. k - 1 \in 1..Len(stack[t]) /\ (k - 1) + 1 = k
    <3>1. Len(stack'[t]) = Len(stack[t]) + 1 /\ k \in 1..Len(stack'[t])
      BY <1>3, <2>1 DEF Pushes
    <3> QED
      BY <1>0, <2>2, <3>1
  <2>4. stack'[t][k] = stack[t][k - 1]
    BY <2>1, <2>3 DEF Pushes
  <2> QED
    BY <1>3, <2>3, <2>4 DEF Same
<1>4. CASE u = t /\ Leaves(t)
  <2>1. k + 1 \in 1..Len(stack[t]) /\ stack'[t][k] = stack[t][k + 1]
    BY <1>0, <1>4 DEF Leaves, Pops
  <2> QED
    BY <1>4, <2>1 DEF Same
<1> QED
  BY <1>1, <1>2, <1>3, <1>4
     DEF Effect, Moves, Advances, Enters, Leaves, SetsTop, Pushes, Pops, Others

LEMMA FramesStarted ==
    ASSUME Shape, NEW t \in Threads, NEW file, NEW code, NEW path,
           Starts(t, file, code, path), NEW u \in Threads, NEW k \in 1..Len(stack'[u])
    PROVE  \/ stack'[u][k] = Frame(top(t).name, "run", file, code, path)
           \/ \E j \in 1..Len(stack[u]) : stack'[u][k] = stack[u][j]
<1> DEFINE f == Frame(top(t).name, "run", file, code, path)
<1>1. SetsTop(t, f)
  BY DEF Starts
<1> HIDE DEF f
<1>2. CASE u = t /\ k # 1
  BY <1>1, <1>2 DEF SetsTop
<1>3. CASE u # t
  BY <1>1, <1>3 DEF SetsTop, Others
<1> QED
  BY <1>1, <1>2, <1>3 DEF SetsTop, f

LEMMA FinalPathIs ==
    ASSUME NEW f, f.code = f.file, f.path = OwnPath(f.file),
           f.pc = Len(Body(f.code)) + 1
    PROVE  PathNow(f) = FinalPath(f.file)
<1> DEFINE g == [code |-> f.code, path |-> f.path, pc |-> f.pc]
<1>1. g.code = f.code /\ g.path = f.path /\ g.pc = f.pc
  OBVIOUS
<1>2. PathNow(f) = PathNow(g)
  <2> HIDE DEF g
  <2> QED
    BY <1>1 DEF PathNow
<1> QED
  BY <1>2 DEF FinalPath

LEMMA SameRecords ==
    ASSUME Recorded, program' = program
    PROVE  /\ code_map' = code_map => CodeRecords'
           /\ UNCHANGED <<meta_map, ended>> => MetaRecords'
           /\ UNCHANGED <<process, code_map, meta_map, archive, ended>> => ArchiveRecords'
<1>1. \A c : FinalPath(c)' = FinalPath(c)
  BY DEF FinalPath, PathNow, OwnPath, Body
<1>2. code_map' = code_map => CodeRecords'
  BY DEF Recorded, CodeRecords
<1>3. UNCHANGED <<meta_map, ended>> => MetaRecords'
  BY <1>1 DEF Recorded, MetaRecords, Record
<1>4. UNCHANGED <<process, code_map, meta_map, archive, ended>> => ArchiveRecords'
  BY <1>1 DEF Recorded, ArchiveRecords
<1> QED
  BY <1>2, <1>3, <1>4

\* What is loaded is not forgotten, and nothing else joins what was there before.
LEMMA LoadedNotBefore ==
    ASSUME Forgets, NEW n, modules'[n].loaded, n \notin before'
    PROVE  n \notin before
BY DEF Forgets, Absent

LEMMA StillBefore ==
    ASSUME BeforeRecords, Forgets, process = "dumper",
           DOMAIN code_map' \subseteq DOMAIN code_map \cup {n \in Names : modules[n] = Absent}
    PROVE  BeforeRecords'
BY DEF BeforeRecords, Forgets, Absent

\* Steps of the dumper that record nothing.
LEMMA RecordedInternal ==
    ASSUME Shape, Recorded, NEW t \in Threads, DumpInternal(t), Forgets
    PROVE  Recorded'
<1>0. /\ Internal(t) \/ NotFound(t) \/ Query(t)
      /\ UNCHANGED <<process, code_map, meta_map, archive, shared_module, ended>>
  BY DEF DumpInternal, cdsVars
<1>1. Effect(t) /\ program' = program
  BY <1>0, ProgressEffect DEF Progress, Effect
<1>2. \A n \in Names : modules'[n].loaded => modules'[n] = modules[n]
  <2>1. \/ modules' = modules
        \/ \E n \in Names : modules' = [modules EXCEPT ![n] = Absent]
    <3>1. CASE Forget(t)
      <4>1. stmt(t).name \in Names
        BY <3>1, AtIs, NamedStmt DEF Forget
      <4> QED
        BY <3>1, <4>1 DEF Forget
    <3>2. CASE Unwind(t)
      <4>1. top(t).name \in Names \cup {None}
        BY <3>2, FindsNamed DEF Unwind
      <4> HIDE DEF Absent
      <4> QED
        BY <3>2, <4>1 DEF Unwind
    <3>3. CASE ~ Forget(t) /\ ~ Unwind(t)
      BY <1>0, <3>3 DEF Internal, NotFound, Query, ImportKnown, ImportNew, ImportParent,
                        FoundMeanwhile, ChangePath, Rename, MayRaise, MainEnds
    <3> QED
      BY <3>1, <3>2, <3>3
  <2> QED
    BY <2>1 DEF Absent, Shape, ModulesOK
<1>3. DumperFrames'
  <2> SUFFICES ASSUME process = "dumper", NEW u \in Threads, NEW k \in 1..Len(stack'[u]),
                      RunsModule(stack'[u][k])
               PROVE  Dumping(stack[u][k])'
    BY <1>0 DEF DumperFrames, RunsModule
  <2>1. PICK j \in 1..Len(stack[u]) : Same(stack'[u][k], stack[u][j])
    BY <1>1, FramesKept
  <2>2. Dumping(stack[u][j])
    BY <2>1 DEF Recorded, DumperFrames, RunsModule, Same
  <2> QED
    BY <1>0, <1>1, <2>1, <2>2 DEF Dumping, Same, OwnPath
<1>4. CodeRecords' /\ MetaRecords' /\ ArchiveRecords'
  BY <1>0, <1>1, SameRecords
<1>5. LoadedRecords'
  BY <1>0, <1>1, <1>2, LoadedNotBefore DEF Recorded, LoadedRecords
<1>6. BeforeRecords'
  <2>1. process = "dumper"
        /\ DOMAIN code_map' \subseteq DOMAIN code_map \cup {n \in Names : modules[n] = Absent}
    BY <1>0 DEF DumpInternal
  <2>2. BeforeRecords
    BY DEF Recorded
  <2> QED
    BY <2>1, <2>2, StillBefore
<1> QED
  BY <1>3, <1>4, <1>5, <1>6 DEF Recorded

LEMMA RecordedGetCode ==
    ASSUME Shape, Recorded, NEW t \in Threads, GetCode(t), Forgets
    PROVE  Recorded'
<1> DEFINE n == top(t).name
           file == Resolved(n)
<1>0. /\ process = "dumper" /\ UNCHANGED <<process, meta_map, archive, shared_module, ended>>
      /\ code_map' = IF program.kind[file] = "source" THEN Assigned(code_map, n, file)
                     ELSE code_map
  BY DEF GetCode
<1>1. /\ Starts(t, file, file, OwnPath(file)) /\ program' = program /\ n \in Names
      /\ modules[n] = Absent
  BY FindFileStarts DEF GetCode, Starts
<1> HIDE DEF n, file
<1>2. /\ DOMAIN code_map \subseteq DOMAIN code_map'
      /\ program.kind[file] = "source" => n \in DOMAIN code_map'
      /\ \A m \in DOMAIN code_map' :
            \/ code_map'[m] = file /\ program.kind[file] = "source"
            \/ m \in DOMAIN code_map /\ code_map'[m] = code_map[m]
  <2>1. CASE program.kind[file] = "source"
    BY <1>0, <2>1 DEF Assigned
  <2>2. CASE program.kind[file] # "source"
    BY <1>0, <2>2
  <2> QED
    BY <2>1, <2>2
<1>3. CodeRecords'
  BY <1>1, <1>2 DEF Recorded, CodeRecords
<1>4. MetaRecords'
  BY <1>0, <1>1, SameRecords
<1>5. ArchiveRecords'
  <2>1. \A c : FinalPath(c)' = FinalPath(c)
    BY <1>1 DEF FinalPath, PathNow, OwnPath, Body
  <2> QED
    BY <1>0, <1>1, <2>1 DEF Recorded, ArchiveRecords
<1>6. DumperFrames'
  <2> SUFFICES ASSUME NEW u \in Threads, NEW k \in 1..Len(stack'[u]),
                      RunsModule(stack'[u][k])
               PROVE  Dumping(stack[u][k])'
    BY DEF DumperFrames, RunsModule
  <2> DEFINE f == Frame(n, "run", file, file, OwnPath(file))
  <2>1. CASE stack'[u][k] = f
    <3>1. f.name = n /\ f.code = file /\ f.file = file /\ f.path = OwnPath(file)
      BY DEF Frame
    <3> HIDE DEF f
    <3> QED
      BY <1>1, <1>2, <2>1, <3>1 DEF Dumping, OwnPath
  <2>2. CASE \E j \in 1..Len(stack[u]) : stack'[u][k] = stack[u][j]
    <3>1. PICK j \in 1..Len(stack[u]) : stack'[u][k] = stack[u][j]
      BY <2>2
    <3>2. Dumping(stack[u][j])
      BY <1>0, <3>1 DEF Recorded, DumperFrames
    <3> QED
      BY <1>1, <1>2, <3>1, <3>2 DEF Dumping, OwnPath
  <2> QED
    BY <1>1, <2>1, <2>2, FramesStarted DEF n
<1>7. LoadedRecords'
  <2>1. modules' = [modules EXCEPT ![n] = [Absent EXCEPT !.file = file]]
    BY <1>1 DEF Starts, n
  <2>2. \A m \in Names : modules'[m].loaded => modules'[m] = modules[m]
    BY <2>1 DEF Absent, Shape, ModulesOK
  <2> QED
    BY <1>0, <1>1, <1>2, <2>2, LoadedNotBefore DEF Recorded, LoadedRecords
<1>8. BeforeRecords'
  <2>1. DOMAIN code_map' \subseteq DOMAIN code_map \cup {n}
    BY <1>0 DEF Assigned
  <2> QED
    BY <1>0, <1>1, <2>1, StillBefore DEF Recorded
<1> QED
  BY <1>3, <1>4, <1>5, <1>6, <1>7, <1>8 DEF Recorded

\* The module that is not loaded yet when its body ends is the one whose body
\* it is.
LEMMA FinishesItsFile ==
    ASSUME Shape, Running, NEW t \in Threads, Finish(t),
           modules[top(t).name] # Absent, ~ modules[top(t).name].loaded
    PROVE  modules[top(t).name].file = top(t).file
<1> DEFINE n == top(t).name
<1>1. n \in Names /\ Alive(t)
  BY FinishIs
<1>2. Len(stack[t]) \in Nat \ {0} /\ top(t) = stack[t][1]
  BY <1>1, TopIs
<1>3. PICK u \in Threads : \E k \in Nat : Runner(n, u, k)
  BY <1>1 DEF Running, Current
<1>4. PICK k \in Nat : Runner(n, u, k)
  BY <1>3
<1>5. n \in Held(u) /\ n \in Held(t)
  BY <1>1, <1>2, <1>4, HeldIs DEF Runner
<1>6. u = t
  BY <1>5 DEF Running, Exclusive
<1>7. k = 1
  <2>1. k \in 1..Len(stack[t]) /\ (1 \in 1..(k - 1) => stack[t][1].name # n)
    BY <1>4, <1>6 DEF Runner
  <2> QED
    BY <1>2, <2>1
<1> QED
  BY <1>2, <1>4, <1>6, <1>7 DEF Runner

LEMMA RecordedExecModule ==
    ASSUME RedirectsToExtensions, Shape, Running, Recorded, NEW t \in Threads, ExecModule(t),
           Forgets
    PROVE  Recorded'
<1> DEFINE f == top(t)
           n == f.name
           path == PathNow(f)
           v == [file |-> f.file, path |-> path]
<1>0. /\ process = "dumper" /\ UNCHANGED <<process, code_map, archive, shared_module>>
      /\ meta_map' = IF program.kind[f.file] # "extension" /\ path # {"broken"}
                     THEN Assigned(meta_map, n, v) ELSE meta_map
      /\ ended' = ended \cup {<<n, Record(f.code, f.file, path)>>}
      /\ Finish(t)
  BY DEF ExecModule, RecordsPath, RecordedName
<1>1. /\ Alive(t) /\ n \in Names /\ RunsModule(f) /\ f.pc = Len(Body(f.code)) + 1
      /\ f.file \in FilesOf(n)
  BY <1>0, FinishIs DEF RunsModule
<1>2. Effect(t) /\ program' = program
  BY <1>0, ProgressEffect DEF Progress, Effect
<1>3. Dumping(f)
  <2>1. Len(stack[t]) \in Nat \ {0} /\ f = stack[t][1]
    BY <1>1, TopIs
  <2> QED
    BY <1>0, <1>1, <2>1 DEF Recorded, DumperFrames
<1>4. path = FinalPath(f.file) /\ f.code = f.file
  BY <1>1, <1>3, FinalPathIs DEF Dumping
<1>5. \A c : FinalPath(c)' = FinalPath(c)
  BY <1>2 DEF FinalPath, PathNow, OwnPath, Body
<1>6. CodeRecords'
  BY <1>0, <1>2, SameRecords
<1>7. ArchiveRecords'
  BY <1>0, <1>2, <1>5 DEF Recorded, ArchiveRecords
<1>8. /\ DOMAIN meta_map \subseteq DOMAIN meta_map'
      /\ program.kind[f.file] # "extension" /\ path # {"broken"} => n \in DOMAIN meta_map'
      /\ \A m \in DOMAIN meta_map' :
            \/ /\ m = n /\ meta_map'[m] = v
               /\ program.kind[f.file] # "extension" /\ path # {"broken"}
            \/ m \in DOMAIN meta_map /\ meta_map'[m] = meta_map[m]
  <2> HIDE DEF f, n, path, v
  <2>1. CASE program.kind[f.file] # "extension" /\ path # {"broken"}
    BY <1>0, <2>1 DEF Assigned
  <2>2. CASE ~ (program.kind[f.file] # "extension" /\ path # {"broken"})
    BY <1>0, <2>2
  <2> QED
    BY <2>1, <2>2
<1>9. MetaRecords'
  <2>1. v.file = f.file /\ v.path = path
    OBVIOUS
  <2>2. <<n, Record(f.file, f.file, path)>> \in ended'
    BY <1>0, <1>4
  <2>3. ended \subseteq ended'
    BY <1>0
  <2> HIDE DEF f, n, path, v
  <2>4. ASSUME NEW m \in DOMAIN meta_map'
        PROVE  /\ program.kind[meta_map'[m].file] # "extension"
               /\ meta_map'[m].path = FinalPath(meta_map'[m].file)
               /\ meta_map'[m].path # {"broken"}
               /\ <<m, Record(meta_map'[m].file, meta_map'[m].file, meta_map'[m].path)>> \in ended'
    <3>1. CASE /\ m = n /\ meta_map'[m] = v
               /\ program.kind[f.file] # "extension" /\ path # {"broken"}
      BY <1>4, <2>1, <2>2, <3>1
    <3>2. CASE m \in DOMAIN meta_map /\ meta_map'[m] = meta_map[m]
      BY <2>3, <3>2 DEF Recorded, MetaRecords
    <3> QED
      BY <1>8, <3>1, <3>2
  <2> QED
    BY <1>2, <1>5, <2>4 DEF MetaRecords, Record
<1>10. DumperFrames'
  <2> SUFFICES ASSUME NEW u \in Threads, NEW k \in 1..Len(stack'[u]),
                      RunsModule(stack'[u][k])
               PROVE  Dumping(stack[u][k])'
    BY DEF DumperFrames, RunsModule
  <2>1. PICK j \in 1..Len(stack[u]) : Same(stack'[u][k], stack[u][j])
    BY <1>2, FramesKept
  <2>2. Dumping(stack[u][j])
    BY <1>0, <2>1 DEF Recorded, DumperFrames, RunsModule, Same
  <2> QED
    BY <1>0, <1>2, <2>1, <2>2 DEF Dumping, Same, OwnPath
<1>11. LoadedRecords'
  <2>1. ASSUME NEW m \in Names, modules'[m] = modules[m], modules'[m].loaded,
               program.kind[modules'[m].file] = "source", modules'[m].path # {"broken"},
               m \notin before'
        PROVE  m \in DOMAIN code_map' /\ m \in DOMAIN meta_map'
    BY <1>0, <1>8, <2>1, LoadedNotBefore DEF Recorded, LoadedRecords
  <2>2. ASSUME modules'[n] # modules[n],
               program.kind[modules'[n].file] = "source", modules'[n].path # {"broken"}
        PROVE  n \in DOMAIN code_map' /\ n \in DOMAIN meta_map'
    <3>1. /\ ~ modules[n].loaded /\ modules[n] # Absent
          /\ modules' = [modules EXCEPT ![n].loaded = TRUE, ![n].path = path]
      BY <1>0, <2>2 DEF Finish
    <3>2. modules'[n].file = f.file /\ modules'[n].path = path
      <4>1. modules[n].file = f.file
        BY <1>0, <3>1, FinishesItsFile
      <4>2. modules[n] \in [file : Files, path : SUBSET {"own", "more", "broken"},
                            loaded : BOOLEAN]
        BY <1>1 DEF Shape, ModulesOK
      <4> HIDE DEF f, n, path
      <4>3. modules'[n] = [modules[n] EXCEPT !.loaded = TRUE, !.path = path]
        BY <1>1, <3>1 DEF Shape, ModulesOK
      <4> QED
        BY <4>1, <4>2, <4>3
    <3>3. n \in DOMAIN code_map
      BY <1>3, <2>2, <3>2 DEF Dumping
    <3> QED
      BY <1>0, <1>8, <2>2, <3>2, <3>3
  <2>3. \A m \in Names \ {n} : modules'[m] = modules[m]
    BY <1>0 DEF Finish, Shape, ModulesOK
  <2> QED
    BY <1>0, <1>2, <2>1, <2>2, <2>3 DEF LoadedRecords
<1>12. BeforeRecords'
  BY <1>0, StillBefore DEF Recorded
<1> QED
  BY <1>6, <1>7, <1>9, <1>10, <1>11, <1>12 DEF Recorded

LEMMA RecordedWrite ==
    ASSUME RedirectsToExtensions, Shape, RecordsOK, Recorded, Write
    PROVE  Recorded'
<1>0. /\ process' = "dumped" /\ process = "dumper"
      /\ UNCHANGED <<program, modules, stack, code_map, meta_map, ended, before>>
      /\ archive' = [n \in SharedNames |->
                        Record(code_map[n], meta_map[n].file, meta_map[n].path)]
  BY DEF Write, importVars, SharedNames
<1>1. CodeRecords' /\ MetaRecords'
  BY <1>0, SameRecords
<1>2. DumperFrames' /\ LoadedRecords' /\ BeforeRecords'
  BY <1>0 DEF Recorded, DumperFrames, LoadedRecords, BeforeRecords, Absent
<1>3. \A c : FinalPath(c)' = FinalPath(c)
  BY <1>0 DEF FinalPath, PathNow, OwnPath, Body
<1>4. ASSUME NEW n \in SharedNames
      PROVE  /\ archive'[n].file = program.file[n] /\ archive'[n].code = program.file[n]
             /\ archive'[n].path = FinalPath(archive'[n].file)
             /\ archive'[n].path # {"broken"} /\ <<n, archive'[n]>> \in ended
  <2> DEFINE m == meta_map[n]
  <2>1. /\ n \in DOMAIN code_map /\ n \in DOMAIN meta_map /\ n \in Names
        /\ code_map[n] \in FilesOf(n) /\ m.file \in FilesOf(n)
    BY DEF SharedNames, RecordsOK, CodeMapOK, MetaMapOK
  <2>2. program.kind[code_map[n]] = "source"
    BY <2>1 DEF Recorded, CodeRecords
  <2>3. /\ program.kind[m.file] # "extension" /\ m.path = FinalPath(m.file)
        /\ m.path # {"broken"} /\ <<n, Record(m.file, m.file, m.path)>> \in ended
    BY <2>1 DEF Recorded, MetaRecords
  <2> HIDE DEF m
  <2>4. code_map[n] = program.file[n] /\ m.file = program.file[n]
    BY <2>1, <2>2, <2>3, OwnFile
  <2>5. archive'[n] = Record(program.file[n], program.file[n], m.path)
    BY <1>0, <2>4 DEF m
  <2>6. /\ archive'[n].file = program.file[n] /\ archive'[n].code = program.file[n]
        /\ archive'[n].path = m.path
    BY <2>5 DEF Record
  <2> QED
    BY <2>3, <2>4, <2>5, <2>6
<1>5. ArchiveRecords'
  <2>1. DOMAIN archive' = SharedNames
    BY <1>0
  <2> QED
    BY <1>0, <1>3, <1>4, <2>1 DEF ArchiveRecords, SharedNames
<1> QED
  BY <1>1, <1>2, <1>5 DEF Recorded

LEMMA RecordedBegin ==
    ASSUME Shape, RecordsOK, Recorded, StartDump
    PROVE  Recorded'
<1> PICK there \in program.starts : Begin(program.list, there) /\ before' = there
  BY DEF StartDump
<1>0. /\ process' = "dumper" /\ process = "none" /\ Begin(program.list, there)
      /\ UNCHANGED <<program, code_map, meta_map, archive, ended>>
      /\ code_map = <<>>
  BY DEF StartDump, RecordsOK, ServedOK
<1>1. CodeRecords' /\ MetaRecords'
  BY <1>0, SameRecords
<1>2. ArchiveRecords'
  <2>1. \A c : FinalPath(c)' = FinalPath(c)
    BY <1>0 DEF FinalPath, PathNow, OwnPath, Body
  <2> QED
    BY <1>0, <2>1 DEF Recorded, ArchiveRecords
<1>3. DumperFrames'
  <2>1. ASSUME NEW t \in Threads, NEW k \in 1..Len(stack'[t])
        PROVE  stack'[t][k].name = None
    <3>1. /\ Len(<<Frame(None, "run", None, program.list[t], {})>>) = 1
          /\ <<Frame(None, "run", None, program.list[t], {})>>[1].name = None
      BY DEF Frame
    <3> QED
      BY <1>0, <2>1, <3>1 DEF Begin
  <2> QED
    BY <2>1, NoneAssumption DEF DumperFrames, RunsModule
<1>4. \A n \in Names : /\ n \in there => modules'[n] = Imported(n)
                       /\ n \notin there => modules'[n] = Absent
  BY <1>0 DEF Begin
<1>5. LoadedRecords'
  <2> SUFFICES ASSUME NEW n \in Names, modules'[n].loaded, n \notin before'
               PROVE  FALSE
    BY DEF LoadedRecords
  <2>1. modules'[n] = Absent
    BY <1>4
  <2> QED
    BY <2>1, AbsentIs
<1>6. BeforeRecords'
  <2> SUFFICES ASSUME NEW n \in there
               PROVE  n \in Names /\ modules'[n] # Absent' /\ n \notin DOMAIN code_map'
    BY DEF BeforeRecords
  <2>1. n \in Names
    BY ThereHasFile DEF Shape
  <2>2. modules'[n].loaded
    BY <1>4, <2>1, ImportedIs
  <2>3. modules'[n] # Absent'
    BY <2>2 DEF Absent
  <2> QED
    BY <1>0, <2>1, <2>3
<1> QED
  BY <1>1, <1>2, <1>3, <1>5, <1>6 DEF Recorded

\* The processes that use the archive do not change what was recorded.
LEMMA RecordedUser ==
    ASSUME Shape, RecordsOK, Recorded, program' = program,
           process' = "user", UNCHANGED <<code_map, meta_map, archive, ended>>
    PROVE  Recorded'
<1>1. CodeRecords' /\ MetaRecords'
  BY SameRecords
<1>2. ArchiveRecords'
  <2>1. \A c : FinalPath(c)' = FinalPath(c)
    BY DEF FinalPath, PathNow, OwnPath, Body
  <2> QED
    BY <2>1 DEF Recorded, ArchiveRecords
<1>3. DumperFrames' /\ LoadedRecords' /\ BeforeRecords'
  BY DEF DumperFrames, LoadedRecords, BeforeRecords
<1> QED
  BY <1>1, <1>2, <1>3 DEF Recorded

LEMMA RecordedStep ==
    ASSUME RedirectsToExtensions, Shape, RecordsOK, Running, Recorded, [NextCds]_vars
    PROVE  Recorded'
<1>0. program' = program
  BY ShapeStep
<1>1. CASE UNCHANGED vars
  <2>1. UNCHANGED <<program, modules, stack, process, code_map, meta_map, archive, ended,
                    before>>
    BY <1>1 DEF vars, importVars, cdsVars
  <2>2. CodeRecords' /\ MetaRecords' /\ ArchiveRecords'
    BY <2>1, SameRecords
  <2>3. DumperFrames' /\ LoadedRecords' /\ BeforeRecords'
    BY <2>1 DEF Recorded, DumperFrames, Dumping, OwnPath, LoadedRecords, BeforeRecords,
                Absent
  <2> QED
    BY <2>2, <2>3 DEF Recorded
<1>2. CASE StartUser
  BY <1>0, <1>2, RecordedUser DEF StartUser
<1>3. ASSUME NEW t \in Threads, Dumper(t) \/ User(t)
      PROVE  Recorded'
  <2>1. CASE Dumper(t)
    BY <2>1, RecordedInternal, RecordedGetCode, RecordedExecModule DEF Dumper, Forgets
  <2>2. CASE User(t)
    BY <1>0, <2>2, RecordedUser
       DEF User, UserInternal, FindSpec, FallBack, QuerySpec, cdsVars
  <2> QED
    BY <1>3, <2>1, <2>2
<1> QED
  BY <1>1, <1>2, <1>3, RecordedWrite, RecordedBegin DEF NextCds

Invariant == Shape /\ RecordsOK /\ Running /\ Recorded

LEMMA InvariantBegins == InitCds => Invariant
<1> SUFFICES ASSUME InitCds PROVE Invariant
  OBVIOUS
<1>1. /\ stack = [t \in Threads |-> <<>>] /\ modules = [n \in Names |-> Absent]
      /\ code_map = <<>> /\ meta_map = <<>> /\ archive = <<>> /\ process = "none"
  BY DEF InitCds, Init
<1>2. \A t \in Threads : Held(t) = {}
  BY <1>1 DEF Held
<1>3. Running
  BY <1>1, <1>2 DEF Running, Exclusive, Current, FileOfName
<1>4. Recorded
  BY <1>1 DEF Recorded, DumperFrames, CodeRecords, MetaRecords, LoadedRecords, BeforeRecords,
              ArchiveRecords
<1> QED
  BY <1>3, <1>4, CdsBegins DEF Invariant

LEMMA CdsKeepsRecords ==
    ASSUME RedirectsToExtensions
    PROVE  SpecCds => []Invariant
<1>1. InitCds => Invariant
  BY InvariantBegins
<1>2. Invariant /\ [NextCds]_vars => Invariant'
  BY ShapeStep, RecordsStep, RunningStep, RecordedStep DEF Invariant
<1> QED
  BY <1>1, <1>2, PTL DEF SpecCds

\* RecordsAreOfOneExecution, for all programs in which no name stands for two
\* files of Python source or bytecode: what _move_in is given of a module is
\* the code, the __file__ and the __path__ of one execution that came to its
\* end, although wrap_get_code and wrap_exec_module look at them apart.
THEOREM RecordsOfOneExecution ==
    ASSUME RedirectsToExtensions
    PROVE  SpecCds => []RecordsAreOfOneExecution
<1>1. Invariant => RecordsAreOfOneExecution
  BY DEF Invariant, Recorded, ArchiveRecords, RecordsAreOfOneExecution
<1> QED
  BY <1>1, CdsKeepsRecords, PTL

\* LoadedAreShared, for the same programs: whatever was imported before, and
\* whatever nesting of imports, failure and change of name follows, a module that
\* was loaded from source since run_dump began is in the archive, from the file it
\* was loaded from, and one that was there before, and stayed, is not.
THEOREM AllLoadedAreShared ==
    ASSUME RedirectsToExtensions
    PROVE  SpecCds => []LoadedAreShared
<1>1. Invariant => LoadedAreShared
  <2> SUFFICES ASSUME Invariant, process = "dumped", NEW n \in Names, modules[n].loaded,
                      program.kind[modules[n].file] = "source", modules[n].path # {"broken"}
               PROVE  IF n \in before THEN n \notin DOMAIN archive
                      ELSE n \in DOMAIN archive /\ archive[n].file = modules[n].file
    BY DEF LoadedAreShared
  <2>0. CASE n \in before
    BY <2>0 DEF Invariant, Recorded, BeforeRecords, ArchiveRecords
  <2> SUFFICES ASSUME n \notin before
               PROVE  n \in DOMAIN archive /\ archive[n].file = modules[n].file
    BY <2>0
  <2>1. n \in DOMAIN archive
    BY DEF Invariant, Recorded, LoadedRecords, ArchiveRecords
  <2>2. modules[n].file \in FilesOf(n)
    BY DEF Invariant, Running, FileOfName, Absent
  <2>3. modules[n].file = program.file[n]
    BY <2>2, OwnFile DEF Invariant
  <2> QED
    BY <2>1, <2>3 DEF Invariant, Recorded, ArchiveRecords
<1> QED
  BY <1>1, CdsKeepsRecords, PTL

-----------------------------------------------------------------------------
(* What the finder serves is what Python would find. *)

Using(f) ==
    /\ f.code = f.file /\ f.name \notin DOMAIN shared_module
    /\ \/ f.path = OwnPath(f.file)
       \/ f.path = FinalPath(f.file) /\ FinalPath(f.file) # {"broken"}

UserFrames ==
    process = "user" =>
        \A t \in Threads : \A k \in 1..Len(stack[t]) :
            RunsModule(stack[t][k]) => Using(stack[t][k])

Unmoved == moved \cap DOMAIN shared_module = {}

Idle == process = "none" => \A t \in Threads : ~ Alive(t)

Served == UserFrames /\ Unmoved /\ Idle

\* A name that is redirected is the one of the module that runs.
LEMMA RedirectIs ==
    ASSUME RedirectsOwnName, Shape, NEW t \in Threads, At(t, "redirect")
    PROVE  RunsModule(top(t)) /\ stmt(t).name = top(t).name
<1> DEFINE c == top(t).code
           f == top(t)
<1>1. /\ Alive(t) /\ f.phase = "run" /\ f.pc <= Len(body(t)) /\ stmt(t).op = "redirect"
  BY AtIs
<1>2. /\ body(t) = Body(c) /\ c \in DOMAIN program.body /\ f.pc \in 1..Len(body(t))
  BY <1>1, StmtIs
<1>3. stmt(t) = program.body[c][f.pc] /\ f.pc \in 1..Len(program.body[c])
  BY <1>2 DEF stmt, Body
<1>4. program \in Programs /\ FrameOK(f)
  BY <1>1, TopIs DEF Shape
<1>5. /\ \A m \in Names : c \in {program.file[m], program.other[m]} => m = stmt(t).name
      /\ \A mains \in program.mains, u \in Threads : mains[u] # c
  BY <1>1, <1>2, <1>3, <1>4 DEF RedirectsOwnName
<1>6. Runs(f)
  BY <1>1, <1>4, <1>5 DEF FrameOK, Looks, IsMain
<1> QED
  BY <1>1, <1>5, <1>6 DEF Runs, RunsModule, FilesOf

LEMMA MovedKept ==
    ASSUME RedirectsOwnName, Shape, Served, process = "user", NEW t \in Threads, Progress(t)
    PROVE  moved' \cap DOMAIN shared_module = {}
<1>1. \/ moved' = moved
      \/ At(t, "redirect") /\ moved' = moved \cup {stmt(t).name}
  <2>1. CASE Forget(t)
    <3>1. CASE stmt(t).op = "redirect"
      <4>1. At(t, "redirect")
        BY <2>1, <3>1 DEF Forget, At
      <4> QED
        BY <2>1, <3>1, <4>1 DEF Forget
    <3>2. CASE stmt(t).op # "redirect"
      <4>1. moved' = moved \cup {}
        BY <2>1, <3>2 DEF Forget
      <4> QED
        BY <4>1
    <3> QED
      BY <3>1, <3>2
  <2>2. CASE ~ Forget(t)
    <3>1. CASE Internal(t)
      BY <2>2, <3>1 DEF Internal, ImportKnown, ImportNew, ImportParent, FoundMeanwhile,
                        ChangePath, Rename, MayRaise, Unwind, MainEnds
    <3>2. CASE ImportDeadlock(t) \/ Query(t) \/ NotFound(t) \/ Finish(t)
      BY <3>2 DEF ImportDeadlock, Query, NotFound, Finish
    <3> QED
      BY <3>1, <3>2 DEF Progress
  <2> QED
    BY <2>1, <2>2
<1>2. CASE At(t, "redirect") /\ moved' = moved \cup {stmt(t).name}
  <2>1. RunsModule(top(t)) /\ stmt(t).name = top(t).name /\ Alive(t)
    BY <1>2, RedirectIs, AtIs
  <2>2. Len(stack[t]) \in Nat \ {0} /\ top(t) = stack[t][1]
    BY <2>1, TopIs
  <2>3. Using(top(t))
    BY <2>1, <2>2 DEF Served, UserFrames
  <2> QED
    BY <1>2, <2>1, <2>3 DEF Using, Served, Unmoved
<1> QED
  BY <1>1, <1>2 DEF Served, Unmoved

\* A frame that runs stays as it is served, as long as fewer records are left.
LEMMA UsingKept ==
    ASSUME Shape, Served, process = "user", NEW t \in Threads, Effect(t),
           DOMAIN shared_module' \subseteq DOMAIN shared_module, process' = process
    PROVE  UserFrames'
<1>0. program' = program
  BY DEF Effect
<1> SUFFICES ASSUME NEW u \in Threads, NEW k \in 1..Len(stack'[u]), RunsModule(stack'[u][k])
             PROVE  Using(stack[u][k])'
  BY DEF UserFrames, RunsModule
<1>1. PICK j \in 1..Len(stack[u]) : Same(stack'[u][k], stack[u][j])
  BY FramesKept
<1>2. Using(stack[u][j])
  BY <1>1 DEF Served, UserFrames, RunsModule, Same
<1>3. \A c : FinalPath(c)' = FinalPath(c)
  BY <1>0 DEF FinalPath, PathNow, OwnPath, Body
<1>4. \A c : OwnPath(c)' = OwnPath(c)
  BY <1>0 DEF OwnPath
<1> QED
  BY <1>1, <1>2, <1>3, <1>4 DEF Using, Same

LEMMA UsingStarted ==
    ASSUME Shape, Served, process = "user", process' = process, NEW t \in Threads,
           NEW file, NEW path, Starts(t, file, file, path),
           DOMAIN shared_module' \subseteq DOMAIN shared_module \ {top(t).name},
           \/ path = OwnPath(file)
           \/ path = FinalPath(file) /\ FinalPath(file) # {"broken"}
    PROVE  UserFrames'
<1>0. program' = program
  BY DEF Starts
<1> SUFFICES ASSUME NEW u \in Threads, NEW k \in 1..Len(stack'[u]), RunsModule(stack'[u][k])
             PROVE  Using(stack[u][k])'
  BY DEF UserFrames, RunsModule
<1> DEFINE f == Frame(top(t).name, "run", file, file, path)
<1>1. \A c : FinalPath(c)' = FinalPath(c)
  BY <1>0 DEF FinalPath, PathNow, OwnPath, Body
<1>2. \A c : OwnPath(c)' = OwnPath(c)
  BY <1>0 DEF OwnPath
<1>3. CASE stack'[u][k] = f
  <2>1. f.name = top(t).name /\ f.code = file /\ f.file = file /\ f.path = path
    BY DEF Frame
  <2> HIDE DEF f
  <2> QED
    BY <1>1, <1>2, <1>3, <2>1 DEF Using
<1>4. CASE \E j \in 1..Len(stack[u]) : stack'[u][k] = stack[u][j]
  <2>1. PICK j \in 1..Len(stack[u]) : stack'[u][k] = stack[u][j]
    BY <1>4
  <2>2. Using(stack[u][j])
    BY <2>1 DEF Served, UserFrames
  <2> QED
    BY <1>1, <1>2, <2>1, <2>2 DEF Using
<1> QED
  BY <1>3, <1>4, FramesStarted

LEMMA ServedUser ==
    ASSUME RedirectsOwnName, Shape, RecordsOK, Recorded, Served, NEW t \in Threads, User(t)
    PROVE  Served'
<1>0. process = "user" /\ process' = process
  BY DEF User, UserInternal, FindSpec, FallBack, QuerySpec, cdsVars
<1>1. Idle'
  BY <1>0 DEF Idle
<1>2. CASE UserInternal(t) \/ (FallBack(t) /\ NotFound(t))
  <2>1. Progress(t) /\ shared_module' = shared_module
    BY <1>2 DEF UserInternal, FallBack, Progress, cdsVars
  <2> QED
    BY <1>0, <1>1, <2>1, ProgressEffect, UsingKept, MovedKept DEF Served, Unmoved
<1>3. CASE QuerySpec(t)
  <2>1. Progress(t)
    BY <1>3 DEF QuerySpec, Progress
  <2>2. DOMAIN shared_module' \subseteq DOMAIN shared_module
    BY <1>3 DEF QuerySpec, Taken
  <2> QED
    BY <1>0, <1>1, <2>1, <2>2, ProgressEffect, UsingKept, MovedKept DEF Served, Unmoved
<1>4. CASE FallBack(t) /\ FindFile(t)
  <2> DEFINE file == Resolved(top(t).name)
  <2>1. Starts(t, file, file, OwnPath(file))
    BY <1>4, FindFileStarts
  <2>2. shared_module' = shared_module /\ top(t).name \notin DOMAIN shared_module
    BY <1>4 DEF FallBack, cdsVars
  <2>3. UserFrames'
    <3>1. DOMAIN shared_module' \subseteq DOMAIN shared_module \ {top(t).name}
      BY <2>2
    <3> HIDE DEF file
    <3> QED
      BY <1>0, <2>1, <3>1, UsingStarted
  <2> QED
    BY <1>1, <2>1, <2>2, <2>3 DEF Served, Unmoved, Starts
<1>5. CASE FindSpec(t)
  <2> DEFINE r == archive[top(t).name]
  <2>1. top(t).name \in DOMAIN archive /\ Starts(t, r.file, r.code, r.path)
    BY <1>5, FindSpecStarts
  <2>2. r.code = r.file /\ r.path = FinalPath(r.file) /\ r.path # {"broken"}
    BY <2>1 DEF Recorded, ArchiveRecords
  <2>3. DOMAIN shared_module' = DOMAIN shared_module \ {top(t).name}
    BY <1>5 DEF FindSpec, Taken
  <2> HIDE DEF r
  <2>4. UserFrames'
    BY <1>0, <2>1, <2>2, <2>3, UsingStarted
  <2> QED
    BY <1>1, <2>1, <2>3, <2>4 DEF Served, Unmoved, Starts
<1> QED
  <2>1. FallBack(t) => FindFile(t) \/ NotFound(t)
    BY DEF FallBack
  <2> QED
    BY <1>2, <1>3, <1>4, <1>5, <2>1 DEF User

LEMMA ServedStep ==
    ASSUME RedirectsOwnName, Shape, RecordsOK, Recorded, Served, [NextCds]_vars
    PROVE  Served'
<1>0. program' = program
  BY ShapeStep
<1>1. CASE UNCHANGED vars
  <2>1. UNCHANGED <<program, moved, stack, process, shared_module>>
    BY <1>1 DEF vars, importVars, cdsVars
  <2>2. UserFrames'
    <3>1. \A c : OwnPath(c)' = OwnPath(c)
      BY <2>1 DEF OwnPath
    <3>2. \A c : FinalPath(c)' = FinalPath(c)
      BY <2>1 DEF FinalPath, PathNow, OwnPath, Body
    <3> QED
      BY <2>1, <3>1, <3>2 DEF Served, UserFrames, Using
  <2> QED
    BY <2>1, <2>2 DEF Served, Unmoved, Idle, Alive
<1>2. CASE StartDump \/ Write
  <2>1. process' # "user" /\ process' # "none" /\ shared_module' = <<>>
    BY <1>2 DEF StartDump, Write, RecordsOK, ServedOK
  <2> QED
    BY <2>1 DEF Served, UserFrames, Unmoved, Idle
<1>3. CASE StartUser
  <2>1. PICK mains, there : Begin(mains, there)
    BY <1>3 DEF StartUser
  <2>2. process' = "user" /\ moved' = {}
    BY <1>3, <2>1 DEF StartUser, Begin
  <2>3. ASSUME NEW t \in Threads, NEW k \in 1..Len(stack'[t])
        PROVE  stack'[t][k].name = None
    <3>1. /\ Len(<<Frame(None, "run", None, mains[t], {})>>) = 1
          /\ <<Frame(None, "run", None, mains[t], {})>>[1].name = None
      BY DEF Frame
    <3> QED
      BY <2>1, <2>3, <3>1 DEF Begin
  <2>4. UserFrames'
    BY <2>3, NoneAssumption DEF UserFrames, RunsModule
  <2> QED
    BY <2>2, <2>4 DEF Served, Unmoved, Idle
<1>4. ASSUME NEW t \in Threads, Dumper(t)
      PROVE  Served'
  <2>1. process = "dumper" /\ process' = "dumper" /\ shared_module' = shared_module
    BY <1>4 DEF Dumper, DumpInternal, GetCode, ExecModule, cdsVars
  <2>2. shared_module' = <<>>
    BY <2>1 DEF RecordsOK, ServedOK
  <2> QED
    BY <2>1, <2>2 DEF Served, UserFrames, Unmoved, Idle
<1> QED
  BY <1>1, <1>2, <1>3, <1>4, ServedUser DEF NextCds

-----------------------------------------------------------------------------
(* The stacks that Python has without cds. *)

LEMMA SeenFrame ==
    ASSUME Shape, NEW f \in Frames
    PROVE  /\ Seen(f) \in Frames
           /\ Seen(f).name = f.name /\ Seen(f).phase = f.phase /\ Seen(f).file = f.file
           /\ Seen(f).code = f.code /\ Seen(f).alias = f.alias /\ Seen(f).pc = f.pc
           /\ Seen(f).path = OwnPath(f.file)
<1>1. OwnPath(f.file) \in Paths
  BY DEF OwnPath, Paths
<1> QED
  BY <1>1 DEF Seen, Frames

LEMMA SeenSeq ==
    ASSUME Shape, NEW s \in Seq(Frames)
    PROVE  LET q == [k \in DOMAIN s |-> Seen(s[k])] IN
           /\ q \in Seq(Frames) /\ Len(q) = Len(s)
           /\ \A k \in 1..Len(s) : q[k] = Seen(s[k])
           /\ q # <<>> <=> s # <<>>
<1> DEFINE q == [k \in DOMAIN s |-> Seen(s[k])]
<1>1. \A k \in 1..Len(s) : Seen(s[k]) \in Frames
  BY ElementOfSeq, SeenFrame
<1>2. q = [k \in 1..Len(s) |-> Seen(s[k])]
  OBVIOUS
<1>3. q \in Seq(Frames) /\ Len(q) = Len(s)
  <2> HIDE DEF Frames
  <2> QED
    BY <1>1, <1>2
<1>4. q # <<>> <=> s # <<>>
  <2> HIDE DEF q
  <2> QED
    BY <1>3, EmptySeq
<1> QED
  BY <1>2, <1>3, <1>4

LEMMA SeenNow ==
    ASSUME Shape, NEW t \in Threads
    PROVE  /\ SeenStack[t] \in Seq(Frames) /\ Len(SeenStack[t]) = Len(stack[t])
           /\ \A k \in 1..Len(stack[t]) : SeenStack[t][k] = Seen(stack[t][k])
           /\ SeenStack[t] # <<>> <=> stack[t] # <<>>
<1>1. SeenStack[t] = [k \in DOMAIN stack[t] |-> Seen(stack[t][k])]
  BY DEF SeenStack
<1>2. stack[t] \in Seq(Frames)
  BY DEF Shape
<1> QED
  BY <1>1, <1>2, SeenSeq

LEMMA SeenNext ==
    ASSUME Shape, program' = program, stack' \in [Threads -> Seq(Frames)], NEW t \in Threads
    PROVE  /\ SeenStack'[t] \in Seq(Frames) /\ Len(SeenStack'[t]) = Len(stack'[t])
           /\ \A k \in 1..Len(stack'[t]) : SeenStack'[t][k] = Seen(stack'[t][k])
<1>1. SeenStack'[t] = [k \in DOMAIN stack'[t] |-> Seen(stack'[t][k])]
  BY DEF SeenStack, Seen, OwnPath
<1>2. stack'[t] \in Seq(Frames)
  OBVIOUS
<1> QED
  BY <1>1, <1>2, SeenSeq

\* A new stack of Python without cds, from the new stack of one thread.
LEMMA SeenOthers ==
    ASSUME Shape, program' = program, stack' \in [Threads -> Seq(Frames)], NEW t \in Threads,
           Others(t), NEW s \in Seq(Frames), Len(s) = Len(stack'[t]),
           \A k \in 1..Len(stack'[t]) : s[k] = Seen(stack'[t][k])
    PROVE  SeenStack' = [SeenStack EXCEPT ![t] = s]
<1>1. SeenStack'[t] = s
  BY SeenNext, SeqEqual
<1>2. \A u \in Threads \ {t} : SeenStack'[u] = SeenStack[u]
  BY DEF Others, SeenStack, Seen, OwnPath
<1>3. SeenStack = [u \in Threads |-> SeenStack[u]] /\ SeenStack' = [u \in Threads |-> SeenStack'[u]]
  BY DEF SeenStack
<1> QED
  BY <1>1, <1>2, <1>3

\* Frames with the same fields are the same.
LEMMA FrameEqual ==
    ASSUME NEW f \in Frames, NEW g \in Frames, f.name = g.name, f.phase = g.phase,
           f.file = g.file, f.code = g.code, f.path = g.path, f.alias = g.alias, f.pc = g.pc
    PROVE  f = g
BY DEF Frames

LEMMA SeenSetTop ==
    ASSUME Shape, NEW t \in Threads, Alive(t), NEW f \in Frames, SetsTop(t, f),
           program' = program
    PROVE  /\ SeenStack' = [SeenStack EXCEPT ![t] = [SeenStack[t] EXCEPT ![1] = Seen(f)]]
           /\ SeenStack' = [SeenStack EXCEPT ![t] = <<Seen(f)>> \o Tail(SeenStack[t])]
<1> DEFINE s == SeenStack[t]
           g == Seen(f)
<1>1. /\ Len(stack'[t]) = Len(stack[t]) /\ Len(stack[t]) \in Nat \ {0} /\ stack'[t][1] = f
      /\ \A k \in 2..Len(stack[t]) : stack'[t][k] = stack[t][k]
      /\ stack' \in [Threads -> Seq(Frames)] /\ Others(t)
  BY TopIs DEF SetsTop
<1>2. /\ s \in Seq(Frames) /\ Len(s) = Len(stack[t]) /\ g \in Frames
      /\ \A k \in 1..Len(stack[t]) : s[k] = Seen(stack[t][k])
  BY SeenNow, SeenFrame
<1>3. /\ \A k \in 2..Len(stack[t]) : s[k] = Seen(stack'[t][k])
      /\ g = Seen(stack'[t][1])
  BY <1>1, <1>2
<1>4. SeenStack' = [SeenStack EXCEPT ![t] = [s EXCEPT ![1] = g]]
  <2> DEFINE q == [s EXCEPT ![1] = g]
  <2> HIDE DEF Frames, s, g
  <2>1. q \in Seq(Frames) /\ Len(q) = Len(s) /\ q[1] = g /\ \A k \in 2..Len(s) : q[k] = s[k]
    BY <1>1, <1>2
  <2> HIDE DEF q
  <2>2. \A k \in 1..Len(stack'[t]) : q[k] = Seen(stack'[t][k])
    BY <1>1, <1>2, <1>3, <2>1
  <2>3. SeenStack' = [SeenStack EXCEPT ![t] = q]
    BY <1>1, <1>2, <2>1, <2>2, SeenOthers
  <2> QED
    BY <2>3 DEF q
<1>5. SeenStack' = [SeenStack EXCEPT ![t] = <<g>> \o Tail(s)]
  <2> DEFINE q == <<g>> \o Tail(s)
  <2> HIDE DEF Frames, s, g
  <2>1. /\ Tail(s) \in Seq(Frames) /\ Len(Tail(s)) = Len(s) - 1
        /\ \A k \in 1..(Len(s) - 1) : Tail(s)[k] = s[k + 1]
    BY <1>1, <1>2
  <2>2. q \in Seq(Frames) /\ Len(q) = Len(s) /\ q[1] = g /\ \A k \in 2..Len(s) : q[k] = s[k]
    BY <1>1, <1>2, <2>1
  <2> HIDE DEF q
  <2>3. \A k \in 1..Len(stack'[t]) : q[k] = Seen(stack'[t][k])
    BY <1>1, <1>2, <1>3, <2>2
  <2>4. SeenStack' = [SeenStack EXCEPT ![t] = q]
    BY <1>1, <1>2, <2>2, <2>3, SeenOthers
  <2> QED
    BY <2>4 DEF q
<1> QED
  BY <1>4, <1>5

LEMMA SeenPush ==
    ASSUME Shape, NEW t \in Threads, Alive(t), NEW f \in Frames, Pushes(t, f),
           program' = program
    PROVE  SeenStack' = [SeenStack EXCEPT ![t] = <<Seen(f)>> \o SeenStack[t]]
<1> DEFINE s == SeenStack[t]
           g == Seen(f)
           q == <<g>> \o s
<1>1. /\ Len(stack'[t]) = Len(stack[t]) + 1 /\ Len(stack[t]) \in Nat \ {0} /\ stack'[t][1] = f
      /\ \A k \in 1..Len(stack[t]) : stack'[t][k + 1] = stack[t][k]
      /\ stack' \in [Threads -> Seq(Frames)] /\ Others(t)
  BY TopIs DEF Pushes
<1>2. /\ s \in Seq(Frames) /\ Len(s) = Len(stack[t]) /\ g \in Frames
      /\ \A k \in 1..Len(stack[t]) : s[k] = Seen(stack[t][k])
  BY SeenNow, SeenFrame
<1>3. g = Seen(stack'[t][1]) /\ \A k \in 1..Len(stack[t]) : s[k] = Seen(stack'[t][k + 1])
  BY <1>1, <1>2
<1> HIDE DEF Frames, s, g
<1>4. /\ q \in Seq(Frames) /\ Len(q) = Len(s) + 1 /\ q[1] = g
      /\ \A k \in 1..Len(s) : q[k + 1] = s[k]
  BY <1>2
<1> HIDE DEF q
<1>5. ASSUME NEW k \in 1..Len(stack'[t]) PROVE q[k] = Seen(stack'[t][k])
  <2>1. CASE k = 1
    BY <1>3, <1>4, <2>1
  <2>2. CASE k # 1
    <3>1. k - 1 \in 1..Len(stack[t]) /\ (k - 1) + 1 = k
      BY <1>1, <2>2
    <3>2. q[k] = s[k - 1] /\ s[k - 1] = Seen(stack'[t][k])
      BY <1>2, <1>3, <1>4, <3>1
    <3> QED
      BY <3>2
  <2> QED
    BY <2>1, <2>2
<1>6. SeenStack' = [SeenStack EXCEPT ![t] = q]
  BY <1>1, <1>2, <1>4, <1>5, SeenOthers
<1> QED
  BY <1>6 DEF q, s, g

LEMMA SeenPop ==
    ASSUME Shape, NEW t \in Threads, Alive(t), Pops(t), program' = program
    PROVE  SeenStack' = [SeenStack EXCEPT ![t] = Tail(SeenStack[t])]
<1> DEFINE s == SeenStack[t]
           q == Tail(s)
<1>1. /\ Len(stack'[t]) = Len(stack[t]) - 1 /\ Len(stack[t]) \in Nat \ {0}
      /\ \A k \in 1..(Len(stack[t]) - 1) : stack'[t][k] = stack[t][k + 1]
      /\ stack' \in [Threads -> Seq(Frames)] /\ Others(t)
  BY TopIs DEF Pops
<1>2. /\ s \in Seq(Frames) /\ Len(s) = Len(stack[t])
      /\ \A k \in 1..Len(stack[t]) : s[k] = Seen(stack[t][k])
  BY SeenNow
<1>3. \A k \in 1..(Len(stack[t]) - 1) : s[k + 1] = Seen(stack'[t][k])
  BY <1>1, <1>2
<1> HIDE DEF Frames, s
<1>4. /\ q \in Seq(Frames) /\ Len(q) = Len(s) - 1
      /\ \A k \in 1..(Len(s) - 1) : q[k] = s[k + 1]
  BY <1>1, <1>2
<1> HIDE DEF q
<1>5. \A k \in 1..Len(stack'[t]) : q[k] = Seen(stack'[t][k])
  BY <1>1, <1>2, <1>3, <1>4
<1>6. SeenStack' = [SeenStack EXCEPT ![t] = q]
  BY <1>1, <1>2, <1>4, <1>5, SeenOthers
<1> QED
  BY <1>6 DEF q, s

-----------------------------------------------------------------------------
(* Every step is one of Python without cds, or none: guards first. *)

LEMMA SameTop ==
    ASSUME Shape, NEW t \in Threads
    PROVE  /\ Python!Alive(t) <=> Alive(t)
           /\ Alive(t) => Python!top(t) = Seen(top(t)) /\ top(t) \in Frames
                          /\ Python!body(t) = body(t) /\ Python!stmt(t) = stmt(t)
<1>1. Python!Alive(t) <=> Alive(t)
  BY SeenNow DEF Python!Alive, Alive
<1>2. ASSUME Alive(t)
      PROVE  Python!top(t) = Seen(top(t)) /\ top(t) \in Frames
  <2>1. Len(stack[t]) \in Nat \ {0} /\ top(t) = stack[t][1] /\ top(t) \in Frames
    BY <1>2, TopIs
  <2> QED
    BY <2>1, SeenNow DEF Python!top
<1>3. Alive(t) => Python!body(t) = body(t)
  BY <1>2, SeenFrame DEF Python!body, body
<1>4. Alive(t) => Python!stmt(t) = stmt(t)
  BY <1>2, <1>3, SeenFrame DEF Python!stmt, stmt
<1> QED
  BY <1>1, <1>2, <1>3, <1>4

LEMMA SameAt ==
    ASSUME Shape, NEW t \in Threads, NEW op
    PROVE  Python!At(t, op) <=> At(t, op)
<1>1. CASE Alive(t)
  BY <1>1, SameTop, SeenFrame DEF Python!At, At
<1>2. CASE ~ Alive(t)
  BY <1>2, SameTop DEF Python!At, At
<1> QED
  BY <1>1, <1>2

LEMMA SameHeld ==
    ASSUME Shape, NEW t \in Threads
    PROVE  Python!Held(t) = Held(t)
<1>1. \A k \in 1..Len(stack[t]) : stack[t][k] \in Frames
  <2>1. stack[t] \in Seq(Frames)
    BY DEF Shape
  <2> QED
    BY <2>1, ElementOfSeq
<1>2. \A k \in 1..Len(stack[t]) : SeenStack[t][k].name = stack[t][k].name
  BY <1>1, SeenNow, SeenFrame
<1> QED
  BY <1>2, SeenNow DEF Python!Held, Held

LEMMA SameNeeded ==
    ASSUME Shape, NEW t \in Threads
    PROVE  Python!Needed(t) = Needed(t)
<1>1. CASE ~ Alive(t) \/ raising[t]
  BY <1>1, SameTop DEF Python!Needed, Needed
<1>2. CASE Alive(t) /\ ~ raising[t]
  <2>1. /\ Python!Alive(t) /\ Python!stmt(t) = stmt(t)
        /\ Python!top(t).phase = top(t).phase /\ Python!top(t).name = top(t).name
        /\ Python!At(t, "import") <=> At(t, "import")
    BY <1>2, SameTop, SameAt, SeenFrame
  <2> QED
    BY <1>2, <2>1 DEF Python!Needed, Needed
<1> QED
  BY <1>1, <1>2

LEMMA SameLocks ==
    ASSUME Shape, NEW t \in Threads
    PROVE  /\ Python!Blocked(t) <=> Blocked(t)
           /\ Python!Deadlock(t) <=> Deadlock(t)
           /\ Python!Finding(t) <=> Finding(t)
           /\ Python!BodyEnds(t) <=> BodyEnds(t)
<1>1. Python!Blocked(t) <=> Blocked(t)
  BY SameHeld, SameNeeded DEF Python!Blocked, Blocked
<1>2. Python!Deadlock(t) <=> Deadlock(t)
  BY SameHeld, SameNeeded DEF Python!Deadlock, Deadlock
<1>3. Python!Absent = Absent
  BY DEF Python!Absent, Absent
<1>4. Python!Finding(t) <=> Finding(t)
  <2>1. CASE Alive(t)
    BY <1>1, <1>3, <2>1, SameTop, SeenFrame DEF Python!Finding, Finding
  <2>2. CASE ~ Alive(t)
    BY <2>2, SameTop DEF Python!Finding, Finding
  <2> QED
    BY <2>1, <2>2
<1>5. Python!BodyEnds(t) <=> BodyEnds(t)
  <2>1. CASE Alive(t)
    BY <2>1, SameTop, SeenFrame DEF Python!BodyEnds, BodyEnds
  <2>2. CASE ~ Alive(t)
    BY <2>2, SameTop DEF Python!BodyEnds, BodyEnds
  <2> QED
    BY <2>1, <2>2
<1> QED
  BY <1>1, <1>2, <1>4, <1>5

\* And the stacks after a step.
LEMMA SameContinued ==
    ASSUME Shape, NEW t \in Threads, Alive(t), stack' = Continued(t), program' = program
    PROVE  SeenStack' = Python!Continued(t)
<1> DEFINE f == [top(t) EXCEPT !.pc = @ + 1]
<1>1. top(t) \in Frames /\ f \in Frames
  BY TopIs, NextFrame
<1>2. SetsTop(t, f)
  BY ContinuedStack DEF Shape, Alive
<1>3. SeenStack' = [SeenStack EXCEPT ![t] = [SeenStack[t] EXCEPT ![1] = Seen(f)]]
  <2> HIDE DEF f
  <2> QED
    BY <1>1, <1>2, SeenSetTop
<1>4. Seen(f) = [Seen(top(t)) EXCEPT !.pc = @ + 1]
  <2>1. [Seen(top(t)) EXCEPT !.pc = @ + 1] \in Frames
    BY <1>1, SeenFrame, NextFrame
  <2>2. /\ f.name = top(t).name /\ f.phase = top(t).phase /\ f.file = top(t).file
        /\ f.code = top(t).code /\ f.alias = top(t).alias /\ f.pc = top(t).pc + 1
    BY <1>1 DEF Frames
  <2> HIDE DEF f
  <2> DEFINE g == Seen(top(t))
             h == [g EXCEPT !.pc = @ + 1]
  <2>3. g \in Frames
    BY <1>1, SeenFrame
  <2>4. /\ h.name = g.name /\ h.phase = g.phase /\ h.file = g.file
        /\ h.code = g.code /\ h.alias = g.alias /\ h.pc = g.pc + 1 /\ h.path = g.path
    <3> HIDE DEF g
    <3> QED
      BY <2>3 DEF Frames
  <2>5. h \in Frames /\ Seen(f) \in Frames
    BY <1>1, <2>1, SeenFrame
  <2>6. /\ g.name = f.name /\ g.phase = f.phase /\ g.file = f.file /\ g.code = f.code
        /\ g.alias = f.alias /\ g.pc + 1 = f.pc /\ g.path = OwnPath(f.file)
    BY <1>1, <2>2, SeenFrame
  <2> HIDE DEF h, g
  <2>7. Seen(f) = h
    <3> DEFINE e == Seen(f)
    <3>1. /\ e.name = f.name /\ e.phase = f.phase /\ e.file = f.file /\ e.code = f.code
          /\ e.alias = f.alias /\ e.pc = f.pc /\ e.path = OwnPath(f.file)
      BY <1>1, SeenFrame
    <3> HIDE DEF e
    <3>2. e = h
      BY <2>4, <2>5, <2>6, <3>1, FrameEqual DEF e
    <3> QED
      BY <3>2 DEF e
  <2> QED
    BY <2>7 DEF h, g
<1>5. SeenStack[t][1] = Seen(top(t))
  BY SameTop DEF Python!top
<1> QED
  BY <1>3, <1>4, <1>5 DEF Python!Continued

LEMMA SameRenamed ==
    ASSUME Shape, NEW t \in Threads, Alive(t), NEW a \in Names, program' = program,
           stack' = [stack EXCEPT ![t][1].pc = @ + 1, ![t][1].alias = a]
    PROVE  SeenStack' = [SeenStack EXCEPT ![t][1].pc = @ + 1, ![t][1].alias = a]
<1> DEFINE f == [top(t) EXCEPT !.pc = @ + 1, !.alias = a]
           g == Seen(top(t))
           h == [g EXCEPT !.pc = @ + 1, !.alias = a]
<1>1. /\ top(t) \in Frames /\ f \in Frames /\ g \in Frames /\ h \in Frames
      /\ Seen(f) \in Frames
  BY TopIs, NextFrame, SeenFrame
<1>2. SetsTop(t, f)
  BY RenamedStack DEF Shape, Alive
<1>3. SeenStack' = [SeenStack EXCEPT ![t] = [SeenStack[t] EXCEPT ![1] = Seen(f)]]
  <2> HIDE DEF f
  <2> QED
    BY <1>1, <1>2, SeenSetTop
<1>4. /\ f.name = top(t).name /\ f.phase = top(t).phase /\ f.file = top(t).file
      /\ f.code = top(t).code /\ f.alias = a /\ f.pc = top(t).pc + 1
  BY <1>1 DEF Frames
<1>5. /\ h.name = g.name /\ h.phase = g.phase /\ h.file = g.file
      /\ h.code = g.code /\ h.alias = a /\ h.pc = g.pc + 1 /\ h.path = g.path
  <2> HIDE DEF g
  <2> QED
    BY <1>1 DEF Frames
<1>6. /\ g.name = f.name /\ g.phase = f.phase /\ g.file = f.file /\ g.code = f.code
      /\ g.pc + 1 = f.pc /\ g.path = OwnPath(f.file)
  BY <1>1, <1>4, SeenFrame
<1>7. Seen(f) = h
  <2> DEFINE e == Seen(f)
  <2> HIDE DEF f, g, h
  <2>1. /\ e.name = f.name /\ e.phase = f.phase /\ e.file = f.file /\ e.code = f.code
        /\ e.alias = f.alias /\ e.pc = f.pc /\ e.path = OwnPath(f.file)
    BY <1>1, SeenFrame
  <2>2. f.alias = a
    BY <1>4
  <2> HIDE DEF e
  <2>3. e = h
    BY <1>1, <1>5, <1>6, <2>1, <2>2, FrameEqual DEF e
  <2> QED
    BY <2>3 DEF e
<1>8. SeenStack[t][1] = g
  BY SameTop DEF Python!top
<1> QED
  BY <1>3, <1>7, <1>8

LEMMA SeenNew ==
    ASSUME Shape, NEW n \in Names, NEW phase \in {"find", "run"}, NEW file \in Files,
           NEW path \in Paths
    PROVE  Seen(Frame(n, phase, file, file, path))
           = Python!Frame(n, phase, file, file, OwnPath(file))
<1> DEFINE f == Frame(n, phase, file, file, path)
           h == Frame(n, phase, file, file, OwnPath(file))
           e == Seen(f)
<1>1. h = Python!Frame(n, phase, file, file, OwnPath(file))
  BY DEF Frame, Python!Frame
<1>2. OwnPath(file) \in Paths
  BY DEF OwnPath, Paths
<1>3. f \in Frames /\ h \in Frames
  BY <1>2, FrameIn
<1>4. /\ f.name = n /\ f.phase = phase /\ f.file = file /\ f.code = file /\ f.alias = n
      /\ f.pc = 1
      /\ h.name = n /\ h.phase = phase /\ h.file = file /\ h.code = file /\ h.alias = n
      /\ h.pc = 1 /\ h.path = OwnPath(file)
  BY DEF Frame
<1> HIDE DEF f, h
<1>5. /\ e \in Frames /\ e.name = n /\ e.phase = phase /\ e.file = file /\ e.code = file
      /\ e.alias = n /\ e.pc = 1 /\ e.path = OwnPath(file)
  BY <1>3, <1>4, SeenFrame
<1> HIDE DEF e
<1>6. e = h
  BY <1>3, <1>4, <1>5, FrameEqual
<1> QED
  BY <1>1, <1>6 DEF e, f

LEMMA SamePushed ==
    ASSUME Shape, NEW t \in Threads, Alive(t), NEW n \in Names, stack' = Pushed(t, n),
           program' = program
    PROVE  SeenStack' = Python!Pushed(t, n)
<1> DEFINE f == Frame(n, "find", None, None, {})
<1>1. None \in Files /\ {} \in Paths /\ OwnPath(None) = {}
  BY ProgramsAssumption DEF Shape, Files, Paths, OwnPath
<1>2. f \in Frames
  BY <1>1, FrameIn
<1>3. Pushes(t, f)
  <2>1. stack' = [stack EXCEPT ![t] = <<f>> \o @]
    BY DEF Pushed
  <2> HIDE DEF f
  <2> QED
    BY <1>2, <2>1, PushedStack DEF Shape
<1>4. SeenStack' = [SeenStack EXCEPT ![t] = <<Seen(f)>> \o SeenStack[t]]
  <2> HIDE DEF f
  <2> QED
    BY <1>2, <1>3, SeenPush
<1>5. Seen(f) = Python!Frame(n, "find", None, None, {})
  BY <1>1, SeenNew
<1> QED
  BY <1>4, <1>5 DEF Python!Pushed

LEMMA SamePopped ==
    ASSUME Shape, NEW t \in Threads, Alive(t), stack' = Popped(t), program' = program
    PROVE  SeenStack' = Python!Popped(t)
<1>1. Pops(t)
  BY Leaving
<1> QED
  BY <1>1, SeenPop DEF Python!Popped

LEMMA SameBegin ==
    ASSUME Shape, program' = program, NEW mains \in program.mains, NEW there,
           Begin(mains, there)
    PROVE  Python!Begin(mains, there)
<1> DEFINE f(t) == Frame(None, "run", None, mains[t], {})
<1>0. None \in Files /\ {} \in Paths /\ OwnPath(None) = {}
  BY ProgramsAssumption DEF Shape, Files, Paths, OwnPath
<1>1. ASSUME NEW t \in Threads
      PROVE  SeenStack'[t] = IF mains[t] = None THEN <<>>
                             ELSE <<Python!Frame(None, "run", None, mains[t], {})>>
  <2>1. stack'[t] = IF mains[t] = None THEN <<>> ELSE <<f(t)>>
    BY DEF Begin
  <2>2. SeenStack'[t] = [k \in DOMAIN stack'[t] |-> Seen(stack'[t][k])]
    BY DEF SeenStack, Seen, OwnPath
  <2>3. CASE mains[t] = None
    BY <2>1, <2>2, <2>3
  <2>4. CASE mains[t] # None
    <3>1. mains[t] \in Files
      BY ProgramsAssumption DEF Shape, Files
    <3>2. f(t) \in Frames
      BY <1>0, <3>1, FrameIn
    <3> DEFINE g == f(t)
               h == Seen(g)
    <3>3. /\ g.name = None /\ g.phase = "run" /\ g.file = None /\ g.code = mains[t]
          /\ g.alias = None /\ g.pc = 1 /\ g.path = {}
      BY DEF Frame
    <3>4. h = g
      <4>1. g \in Frames
        BY <3>2
      <4> HIDE DEF f, g
      <4>2. /\ h \in Frames /\ h.name = g.name /\ h.phase = g.phase /\ h.file = g.file
            /\ h.code = g.code /\ h.alias = g.alias /\ h.pc = g.pc
            /\ h.path = OwnPath(g.file)
        BY <4>1, SeenFrame
      <4> HIDE DEF h
      <4> QED
        BY <1>0, <3>3, <4>1, <4>2, FrameEqual
    <3>5. g = Python!Frame(None, "run", None, mains[t], {})
      BY DEF Frame, Python!Frame
    <3> HIDE DEF f, g
    <3>6. DOMAIN stack'[t] = 1..1 /\ stack'[t][1] = g
      BY <2>1, <2>4 DEF g
    <3>7. SeenStack'[t] = [k \in 1..1 |-> g]
      BY <2>2, <3>4, <3>6
    <3> QED
      BY <2>4, <3>5, <3>7
  <2> QED
    BY <2>3, <2>4
<1>2. SeenStack' = [t \in Threads |-> SeenStack'[t]]
  BY DEF SeenStack
<1>3. SeenStack' = [t \in Threads |-> IF mains[t] = None THEN <<>>
                        ELSE <<Python!Frame(None, "run", None, mains[t], {})>>]
  BY <1>1, <1>2
<1>4. Python!Absent = Absent /\ \A n : Python!Imported(n) = Imported(n)
  BY DEF Python!Absent, Absent, Python!Imported, Imported, Python!OwnPath, OwnPath
<1> QED
  BY <1>3, <1>4 DEF Begin, Python!Begin

\* The actions, one after the other.
LEMMA SameView ==
    ASSUME Shape, NEW t \in Threads
    PROVE  /\ Python!Alive(t) <=> Alive(t)
           /\ Alive(t) => /\ Python!top(t).name = top(t).name
                          /\ Python!top(t).phase = top(t).phase
                          /\ Python!top(t).pc = top(t).pc
                          /\ Python!body(t) = body(t) /\ Python!stmt(t) = stmt(t)
           /\ Python!Absent = Absent /\ (Python!Raised(t) <=> Raised(t))
           /\ \A n : Python!Resolved(n) = Resolved(n)
           /\ \A c : Python!OwnPath(c) = OwnPath(c)
<1>1. /\ Python!Absent = Absent /\ (Python!Raised(t) <=> Raised(t))
      /\ \A n : Python!Resolved(n) = Resolved(n)
      /\ \A c : Python!OwnPath(c) = OwnPath(c)
  BY DEF Python!Absent, Absent, Python!Raised, Raised, Python!Resolved, Resolved,
         Python!OwnPath, OwnPath
<1> QED
  BY <1>1, SameTop, SeenFrame

LEMMA SameStatements ==
    ASSUME Shape, NEW t \in Threads
    PROVE  /\ ImportKnown(t) => Python!ImportKnown(t)
           /\ Query(t) => Python!Query(t)
           /\ ChangePath(t) => Python!ChangePath(t)
           /\ Rename(t) => Python!Rename(t)
           /\ Forget(t) => Python!Forget(t)
           /\ MayRaise(t) => Python!MayRaise(t)
<1>1. \A op : At(t, op) => Alive(t) /\ Python!At(t, op)
  BY AtIs, SameAt
<1>2. Alive(t) /\ stack' = Continued(t) /\ program' = program => SeenStack' = Python!Continued(t)
  BY SameContinued
<1>3. ASSUME ImportKnown(t) PROVE Python!ImportKnown(t)
  <2>1. /\ At(t, "import") /\ stack' = Continued(t)
        /\ UNCHANGED <<program, modules, moved, raising>>
        /\ \/ modules[stmt(t).name].loaded
           \/ modules[stmt(t).name] # Absent /\ stmt(t).name \in Held(t)
    BY <1>3 DEF ImportKnown
  <2>2. Alive(t) /\ Python!At(t, "import") /\ SeenStack' = Python!Continued(t)
    BY <1>1, <1>2, <2>1
  <2>3. Python!stmt(t) = stmt(t) /\ Python!Absent = Absent /\ Python!Held(t) = Held(t)
    BY <2>2, SameView, SameHeld
  <2> QED
    BY <2>1, <2>2, <2>3 DEF Python!ImportKnown
<1>4. Query(t) => Python!Query(t)
  BY <1>1, <1>2 DEF Query, Python!Query
<1>5. ChangePath(t) => Python!ChangePath(t)
  BY <1>1, <1>2 DEF ChangePath, Python!ChangePath
<1>6. ASSUME Forget(t) PROVE Python!Forget(t)
  <2>1. At(t, "forget") \/ At(t, "redirect")
    BY <1>6 DEF Forget
  <2>2. /\ modules' = [modules EXCEPT ![stmt(t).name] = Absent]
        /\ moved' = moved \cup (IF stmt(t).op = "redirect" THEN {stmt(t).name} ELSE {})
        /\ stack' = Continued(t) /\ UNCHANGED <<program, raising>>
    BY <1>6 DEF Forget
  <2>3. Alive(t) /\ (Python!At(t, "forget") \/ Python!At(t, "redirect"))
    BY <1>1, <2>1
  <2>4. SeenStack' = Python!Continued(t)
    BY <1>2, <2>2, <2>3
  <2>5. Python!stmt(t) = stmt(t) /\ Python!Absent = Absent
    BY <2>3, SameView
  <2> QED
    BY <2>2, <2>3, <2>4, <2>5 DEF Python!Forget
<1>7. MayRaise(t) => Python!MayRaise(t)
  <2>1. UNCHANGED <<stack, program>> => UNCHANGED SeenStack
    BY DEF SeenStack, Seen, OwnPath
  <2> QED
    BY <1>1, <1>2, <2>1, SameView DEF MayRaise, Python!MayRaise
<1>8. ASSUME Rename(t) PROVE Python!Rename(t)
  <2>1. At(t, "rename") /\ Alive(t) /\ stmt(t).name \in Names /\ program' = program
    BY <1>8, AtIs, NamedStmt DEF Rename
  <2>2. stack' = [stack EXCEPT ![t][1].pc = @ + 1, ![t][1].alias = stmt(t).name]
    BY <1>8 DEF Rename
  <2>3. SeenStack' = [SeenStack EXCEPT ![t][1].pc = @ + 1, ![t][1].alias = stmt(t).name]
    BY <2>1, <2>2, SameRenamed
  <2>4. Python!stmt(t) = stmt(t) /\ Python!At(t, "rename")
    BY <1>1, <2>1, SameView
  <2> QED
    BY <1>8, <2>3, <2>4 DEF Rename, Python!Rename
<1> QED
  BY <1>3, <1>4, <1>5, <1>6, <1>7, <1>8

LEMMA SameImports ==
    ASSUME Shape, NEW t \in Threads
    PROVE  /\ ImportNew(t) => Python!ImportNew(t)
           /\ ImportParent(t) => Python!ImportParent(t)
           /\ ImportDeadlock(t) => Python!ImportDeadlock(t)
<1>1. ASSUME ImportNew(t) PROVE Python!ImportNew(t)
  <2>1. Alive(t) /\ stmt(t).name \in Names /\ Python!At(t, "import")
    BY <1>1, AtIs, NamedStmt, SameAt DEF ImportNew
  <2>2. SeenStack' = Python!Pushed(t, stmt(t).name)
    BY <1>1, <2>1, SamePushed DEF ImportNew
  <2>3. /\ At(t, "import") /\ ~ Blocked(t) /\ modules[stmt(t).name] = Absent
        /\ UNCHANGED <<program, modules, moved, raising>>
    BY <1>1 DEF ImportNew
  <2>4. Python!stmt(t) = stmt(t) /\ Python!Absent = Absent /\ ~ Python!Blocked(t)
    BY <2>1, <2>3, SameView, SameLocks
  <2> QED
    BY <2>1, <2>2, <2>3, <2>4 DEF Python!ImportNew
<1>2. ASSUME ImportParent(t) PROVE Python!ImportParent(t)
  <2>1. Alive(t) /\ top(t).name \in Names /\ Parent[top(t).name] \in Names
    BY <1>2, FindsNamed, ParentAssumption DEF ImportParent
  <2>2. SeenStack' = Python!Pushed(t, Parent[top(t).name])
    BY <1>2, <2>1, SamePushed DEF ImportParent
  <2>3. /\ ~ raising[t] /\ top(t).phase = "find" /\ ~ Blocked(t)
        /\ Parent[top(t).name] # None /\ modules[Parent[top(t).name]] = Absent
        /\ UNCHANGED <<program, modules, moved, raising>>
    BY <1>2 DEF ImportParent
  <2>4. /\ Python!Alive(t) /\ Python!top(t).name = top(t).name
        /\ Python!top(t).phase = top(t).phase
        /\ Python!Absent = Absent /\ ~ Python!Blocked(t)
    BY <2>1, <2>3, SameView, SameLocks
  <2> QED
    BY <2>2, <2>3, <2>4 DEF Python!ImportParent
<1>3. ASSUME ImportDeadlock(t) PROVE Python!ImportDeadlock(t)
  <2>1. Alive(t) /\ program' = program
    BY <1>3 DEF ImportDeadlock, Deadlock, Needed
  <2>2. stack' = Popped(t) => SeenStack' = Python!Popped(t)
    BY <2>1, SamePopped
  <2>3. stack' = Continued(t) => SeenStack' = Python!Continued(t)
    BY <2>1, SameContinued
  <2>4. UNCHANGED stack => UNCHANGED SeenStack
    BY <2>1 DEF SeenStack, Seen, OwnPath
  <2>5. /\ Python!Deadlock(t) /\ Python!top(t).phase = top(t).phase
        /\ Python!stmt(t) = stmt(t) /\ Python!Absent = Absent
        /\ Raised(t) => Python!Raised(t)
    BY <1>3, <2>1, SameView, SameLocks DEF ImportDeadlock
  <2>6. UNCHANGED <<program, modules, moved>>
    BY <1>3 DEF ImportDeadlock
  <2>7. CASE top(t).phase = "find"
    <3>1. Python!Raised(t) /\ SeenStack' = Python!Popped(t)
      BY <1>3, <2>2, <2>5, <2>7 DEF ImportDeadlock
    <3> QED
      BY <2>5, <2>6, <2>7, <3>1 DEF Python!ImportDeadlock
  <2>8. CASE top(t).phase # "find"
    <3>1. \/ Python!Raised(t) /\ UNCHANGED SeenStack
          \/ /\ modules[stmt(t).name] # Absent
             /\ SeenStack' = Python!Continued(t)
             /\ UNCHANGED raising
      BY <1>3, <2>3, <2>4, <2>5, <2>8 DEF ImportDeadlock
    <3> QED
      BY <2>5, <2>6, <2>8, <3>1 DEF Python!ImportDeadlock
  <2> QED
    BY <2>7, <2>8
<1> QED
  BY <1>1, <1>2, <1>3

LEMMA SameEnds ==
    ASSUME Shape, NEW t \in Threads
    PROVE  /\ FoundMeanwhile(t) => Python!FoundMeanwhile(t)
           /\ NotFound(t) => Python!NotFound(t)
           /\ Unwind(t) => Python!Unwind(t)
           /\ MainEnds(t) => Python!MainEnds(t)
<1>1. Alive(t) /\ stack' = Popped(t) /\ program' = program => SeenStack' = Python!Popped(t)
  BY SamePopped
<1>2. Finding(t) => Alive(t) /\ Python!Finding(t)
  BY SameLocks DEF Finding
<1>3. ASSUME FoundMeanwhile(t) PROVE Python!FoundMeanwhile(t)
  <2>1. /\ Finding(t) /\ modules[top(t).name] # Absent /\ stack' = Popped(t)
        /\ UNCHANGED <<program, modules, moved, raising>>
    BY <1>3 DEF FoundMeanwhile
  <2>2. /\ Python!Finding(t) /\ Python!top(t).name = top(t).name /\ Python!Absent = Absent
        /\ SeenStack' = Python!Popped(t)
    BY <1>1, <1>2, <2>1, SameView
  <2> QED
    BY <2>1, <2>2 DEF Python!FoundMeanwhile
<1>4. NotFound(t) => Python!NotFound(t)
  BY <1>1, <1>2, SameView DEF NotFound, Python!NotFound
<1>5. MainEnds(t) => Python!MainEnds(t)
  <2>1. BodyEnds(t) => Alive(t) /\ Python!BodyEnds(t)
    BY SameLocks DEF BodyEnds
  <2> QED
    BY <1>1, <2>1, SameView DEF MainEnds, Python!MainEnds
<1>6. ASSUME Unwind(t) PROVE Python!Unwind(t)
  <2>1. Alive(t) /\ program' = program
    BY <1>6 DEF Unwind
  <2>2. stack' = Popped(t) => SeenStack' = Python!Popped(t)
    BY <1>1, <2>1
  <2>3. stack' = Continued(t) => SeenStack' = Python!Continued(t)
    BY <2>1, SameContinued
  <2>4. Len(SeenStack[t]) = Len(stack[t])
    BY SeenNow
  <2>5. /\ Python!Alive(t) /\ Python!top(t).name = top(t).name
        /\ Python!top(t).phase = top(t).phase /\ Python!top(t).pc = top(t).pc
        /\ Python!body(t) = body(t) /\ Python!stmt(t) = stmt(t) /\ Python!Absent = Absent
    BY <2>1, SameView
  <2>6. raising[t] /\ UNCHANGED <<program, moved>>
    BY <1>6 DEF Unwind
  <2> DEFINE caught == /\ top(t).phase = "run" /\ top(t).pc <= Len(body(t))
                       /\ stmt(t).guarded
  <2>7. CASE caught
    <3>1. /\ SeenStack' = Python!Continued(t) /\ UNCHANGED modules
          /\ raising' = [raising EXCEPT ![t] = FALSE]
      BY <1>6, <2>3, <2>7 DEF Unwind
    <3> QED
      BY <2>5, <2>6, <2>7, <3>1 DEF Python!Unwind
  <2>8. CASE ~ caught
    <3>1. /\ SeenStack' = Python!Popped(t)
          /\ raising' = [raising EXCEPT ![t] = Len(stack[t]) > 1]
          /\ modules' = IF top(t).name = None \/ top(t).phase = "find" THEN modules
                        ELSE [modules EXCEPT ![top(t).name] = Absent]
      BY <1>6, <2>2, <2>8 DEF Unwind
    <3> QED
      BY <2>4, <2>5, <2>6, <2>8, <3>1 DEF Python!Unwind
  <2> QED
    BY <2>7, <2>8
<1> QED
  BY <1>3, <1>4, <1>5, <1>6

\* A __path__ that was recorded after the body, given to the module before it,
\* is the same after the body again.
LEMMA SamePath ==
    ASSUME NEW f, f.code = f.file, f.pc = Len(Body(f.code)) + 1,
           \/ f.path = OwnPath(f.file)
           \/ f.path = FinalPath(f.file) /\ FinalPath(f.file) # {"broken"}
    PROVE  PathNow(f) = FinalPath(f.file)
<1> DEFINE c == f.file
           g == [code |-> c, path |-> OwnPath(c), pc |-> Len(Body(c)) + 1]
           done == {program.body[c][k].op : k \in 1..((Len(Body(c)) + 1) - 1)}
<1>1. CASE f.path = OwnPath(f.file)
  BY <1>1, FinalPathIs
<1>2. CASE f.path = FinalPath(c) /\ FinalPath(c) # {"broken"}
  <2>1. PathNow(f) = IF "break_path" \in done THEN {"broken"}
                     ELSE IF "extend_path" \in done THEN f.path \cup {"more"} ELSE f.path
    BY DEF PathNow
  <2>2. g.code = c /\ g.path = OwnPath(c) /\ g.pc = Len(Body(c)) + 1
    OBVIOUS
  <2>3. FinalPath(c) = PathNow(g)
    BY DEF FinalPath
  <2> HIDE DEF g
  <2>4. PathNow(g) = IF "break_path" \in done THEN {"broken"}
                     ELSE IF "extend_path" \in done THEN OwnPath(c) \cup {"more"}
                     ELSE OwnPath(c)
    BY <2>2 DEF PathNow
  <2> HIDE DEF done
  <2> QED
    BY <1>2, <2>1, <2>3, <2>4
<1> QED
  BY <1>1, <1>2

LEMMA SameFinish ==
    ASSUME Shape, Recorded, Served, process \in {"dumper", "user"},
           NEW t \in Threads, Finish(t)
    PROVE  Python!Finish(t)
<1> DEFINE f == top(t)
           g == Seen(f)
           n == f.name
<1>1. /\ Alive(t) /\ f \in Frames /\ n \in Names /\ n # None /\ RunsModule(f)
      /\ f.pc = Len(Body(f.code)) + 1
  BY FinishIs, NoneAssumption DEF RunsModule
<1>2. f = stack[t][1] /\ 1 \in 1..Len(stack[t])
  BY <1>1, TopIs
<1>3. /\ f.code = f.file
      /\ \/ f.path = OwnPath(f.file)
         \/ f.path = FinalPath(f.file) /\ FinalPath(f.file) # {"broken"}
  <2>1. CASE process = "dumper"
    BY <1>1, <1>2, <2>1 DEF Recorded, DumperFrames, Dumping
  <2>2. CASE process = "user"
    BY <1>1, <1>2, <2>2 DEF Served, UserFrames, Using
  <2> QED
    BY <2>1, <2>2
<1>4. PathNow(f) = FinalPath(f.file)
  <2> HIDE DEF f
  <2> QED
    BY <1>1, <1>3, SamePath
<1>5. PathNow(g) = FinalPath(f.file)
  <2>1. g.code = f.code /\ g.file = f.file /\ g.pc = f.pc /\ g.path = OwnPath(f.file)
    BY <1>1, SeenFrame
  <2> HIDE DEF g
  <2>2. g.code = g.file /\ g.pc = Len(Body(g.code)) + 1 /\ g.path = OwnPath(g.file)
    BY <1>1, <1>3, <2>1
  <2>3. PathNow(g) = FinalPath(g.file)
    BY <2>2, SamePath
  <2> QED
    BY <2>1, <2>3
<1>6. Python!top(t) = g /\ g.name = n /\ Python!Absent = Absent
  BY <1>1, SameTop, SameView, SeenFrame
<1>7. Python!PathNow(g) = PathNow(g)
  BY DEF Python!PathNow, PathNow
<1>8. /\ BodyEnds(t) /\ stack' = Popped(t) /\ UNCHANGED <<program, moved>>
      /\ raising' = [raising EXCEPT ![t] = modules[n] = Absent]
      /\ modules' = IF modules[n].loaded \/ modules[n] = Absent THEN modules
                    ELSE [modules EXCEPT ![n].loaded = TRUE, ![n].path = PathNow(f)]
  BY DEF Finish
<1>9. Python!BodyEnds(t) /\ SeenStack' = Python!Popped(t)
  BY <1>1, <1>8, SameLocks, SamePopped
<1> HIDE DEF f, g, n
<1>10. /\ Python!top(t).name = n /\ n # None
       /\ Python!PathNow(Python!top(t)) = PathNow(f)
  BY <1>1, <1>4, <1>5, <1>6, <1>7
<1> QED
  BY <1>6, <1>8, <1>9, <1>10 DEF Python!Finish

\* A module's body begins, as it would without cds: the stack that is seen.
LEMMA SeenStart ==
    ASSUME Shape, NEW t \in Threads, NEW file, NEW path \in Paths,
           Starts(t, file, file, path), file \in FilesOf(top(t).name)
    PROVE  SeenStack' = [SeenStack EXCEPT ![t] =
                <<Python!Frame(top(t).name, "run", file, file, OwnPath(file))>> \o Tail(@)]
<1> DEFINE n == top(t).name
           f == Frame(n, "run", file, file, path)
<1>1. /\ Alive(t) /\ n \in Names /\ SetsTop(t, f) /\ program' = program
  BY DEF Starts
<1>2. file \in Files
  <2>1. program.file \in [Names -> Files] /\ program.other \in [Names -> Files]
    BY ProgramsAssumption DEF Shape, Files
  <2> QED
    BY <1>1, <2>1 DEF FilesOf
<1>3. f \in Frames
  BY <1>1, <1>2, FrameIn
<1>4. Seen(f) = Python!Frame(n, "run", file, file, OwnPath(file))
  BY <1>1, <1>2, SeenNew
<1> HIDE DEF f
<1>5. SeenStack' = [SeenStack EXCEPT ![t] = <<Seen(f)>> \o Tail(SeenStack[t])]
  BY <1>1, <1>3, SeenSetTop
<1> QED
  BY <1>4, <1>5

\* A file that Python finds, or the record that stands for it.
LEMMA SameStart ==
    ASSUME Shape, NEW t \in Threads, Finding(t), NEW file, NEW path \in Paths,
           Starts(t, file, file, path), file \in FilesOf(top(t).name),
           file = Resolved(top(t).name)
    PROVE  Python!FindFile(t)
<1> DEFINE n == top(t).name
<1>1. Alive(t) /\ Python!Finding(t) /\ Python!top(t).name = n /\ file # None
  BY SameLocks, SameView DEF Finding, FilesOf
<1>2. Python!Absent = Absent /\ Python!Resolved(n) = file /\ Python!OwnPath(file) = OwnPath(file)
  BY SameView
<1>3. /\ modules[n] = Absent
      /\ modules' = [modules EXCEPT ![n] = [Absent EXCEPT !.file = file]]
      /\ UNCHANGED <<program, moved, raising>>
  BY DEF Starts
<1>4. SeenStack' = [SeenStack EXCEPT ![t] =
           <<Python!Frame(n, "run", file, file, OwnPath(file))>> \o Tail(@)]
  BY SeenStart
<1> HIDE DEF n
<1>5. Python!Start(t, file, file, OwnPath(file))
  BY <1>1, <1>2, <1>3, <1>4 DEF Python!Start
<1> QED
  BY <1>1, <1>2, <1>5 DEF Python!FindFile

LEMMA SameFindFile ==
    ASSUME Shape, NEW t \in Threads, FindFile(t)
    PROVE  Python!FindFile(t)
<1> DEFINE file == Resolved(top(t).name)
<1>1. Starts(t, file, file, OwnPath(file)) /\ file \in FilesOf(top(t).name) /\ Finding(t)
  BY FindFileStarts DEF FindFile
<1>2. OwnPath(file) \in Paths
  BY DEF OwnPath, Paths
<1> HIDE DEF file
<1>3. file = Resolved(top(t).name)
  BY DEF file
<1> QED
  BY <1>1, <1>2, <1>3, SameStart

LEMMA SameFindSpec ==
    ASSUME Shape, RecordsOK, Recorded, Served, NEW t \in Threads, FindSpec(t)
    PROVE  Python!FindFile(t)
<1> DEFINE n == top(t).name
           r == archive[n]
<1>1. /\ n \in DOMAIN archive /\ r.file \in FilesOf(n) /\ r.path \in Paths
      /\ Starts(t, r.file, r.code, r.path)
  <2>1. n \in DOMAIN archive /\ Starts(t, r.file, r.code, r.path)
    BY FindSpecStarts
  <2> QED
    BY <2>1 DEF RecordsOK, ArchiveOK
<1>2. r.file = program.file[n] /\ r.code = r.file
  BY <1>1 DEF Recorded, ArchiveRecords
<1>3. n \in DOMAIN shared_module /\ Finding(t)
  BY DEF FindSpec
<1>4. r.file = Resolved(n)
  BY <1>2, <1>3 DEF Served, Unmoved, Resolved
<1> HIDE DEF r
<1> QED
  BY <1>1, <1>2, <1>3, <1>4, SameStart

\* A process begins where Python begins one.
LEMMA SameProcess ==
    ASSUME Shape, Served, StartDump \/ StartUser
    PROVE  Python!NextProcess
<1>1. PICK mains \in program.mains, there \in program.starts : Begin(mains, there)
  BY MainsAssumption DEF Shape, StartDump, StartUser
<1>2. program' = program
  BY DEF StartDump, StartUser
<1>3. \A t \in Threads : ~ Alive(t)
  BY DEF StartDump, StartUser, Served, Idle
<1>4. \A t \in Threads : ~ Python!Alive(t)
  BY <1>3, SameTop
<1>5. Python!Begin(mains, there)
  BY <1>1, <1>2, SameBegin
<1> QED
  BY <1>1, <1>2, <1>4, <1>5 DEF Python!NextProcess

LEMMA SameStep ==
    ASSUME Shape, RecordsOK, Recorded, Served, NEW t \in Threads,
           \/ GetCode(t) \/ ExecModule(t) \/ FindSpec(t) \/ QuerySpec(t) \/ Plain(t)
    PROVE  Python!Step(t)
<1>1. CASE FindSpec(t)
  BY <1>1, SameFindSpec DEF Python!Step
<1>2. CASE FindFile(t)
  BY <1>2, SameFindFile DEF Python!Step
<1>3. CASE Progress(t) /\ process \in {"dumper", "user"}
  <2>1. CASE Internal(t)
    BY <2>1, SameStatements, SameImports, SameEnds
       DEF Internal, Python!Internal, Python!Step
  <2>2. CASE ImportDeadlock(t) \/ NotFound(t) \/ Query(t)
    BY <2>2, SameStatements, SameImports, SameEnds DEF Python!Step
  <2>3. CASE Finish(t)
    BY <1>3, <2>3, SameFinish DEF Python!Step
  <2> QED
    BY <1>3, <2>1, <2>2, <2>3 DEF Progress
<1> QED
  BY <1>1, <1>2, <1>3 DEF GetCode, ExecModule, QuerySpec, Plain, Progress

\* Every step of a process with cds is one of a process without, or none.
LEMMA StepOfPython ==
    ASSUME Shape, RecordsOK, Recorded, Served, [NextCds]_vars
    PROVE  [Python!Next]_(Python!importVars)
<1>1. CASE UNCHANGED importVars
  BY <1>1 DEF importVars, Python!importVars, SeenStack, Seen, OwnPath
<1>2. CASE StartDump \/ StartUser
  BY <1>2, SameProcess DEF Python!Next
<1>3. ASSUME NEW t \in Threads,
             GetCode(t) \/ ExecModule(t) \/ FindSpec(t) \/ QuerySpec(t) \/ Plain(t)
      PROVE  Python!Next
  BY <1>3, SameStep DEF Python!Next
<1> QED
  BY <1>1, <1>2, <1>3, StepKinds DEF vars, Write

InvariantServed == Invariant /\ Served

\* The safety part of ImplementsPython: with cds or without, threads import the
\* same files under the same names, run the same code in the same order, see
\* the same exceptions and the same __path__s; in the dumper, in the processes
\* that are served, and from one process to the next.  It is about programs in
\* which no name stands for two files of Python source or bytecode, and a module
\* that redirects its name is no other module.
THEOREM ImplementsPythonSteps ==
    ASSUME RedirectsToExtensions, RedirectsOwnName
    PROVE  SpecCds => Python!Init /\ [][Python!Next]_(Python!importVars)
<1>1. InitCds => Served /\ Python!Init
  <2> SUFFICES ASSUME InitCds PROVE Served /\ Python!Init
    OBVIOUS
  <2>1. /\ stack = [t \in Threads |-> <<>>] /\ moved = {} /\ process = "none"
        /\ program \in Programs /\ modules = [n \in Names |-> Absent]
        /\ raising = [t \in Threads |-> FALSE]
    BY DEF InitCds, Init
  <2>2. Served
    BY <2>1 DEF Served, UserFrames, Unmoved, Idle, Alive
  <2>3. SeenStack = [t \in Threads |-> <<>>]
    BY <2>1 DEF SeenStack
  <2>4. Python!Absent = Absent
    BY DEF Python!Absent, Absent
  <2> QED
    BY <2>1, <2>2, <2>3, <2>4 DEF Python!Init
<1>2. InitCds => Invariant
  BY InvariantBegins
<1>3. InvariantServed /\ [NextCds]_vars => InvariantServed'
  BY ShapeStep, RecordsStep, RunningStep, RecordedStep, ServedStep
     DEF Invariant, InvariantServed
<1>4. InvariantServed /\ [NextCds]_vars => [Python!Next]_(Python!importVars)
  BY StepOfPython DEF Invariant, InvariantServed
<1>5. InitCds => InvariantServed
  BY <1>1, <1>2 DEF InvariantServed
<1> QED
  BY <1>1, <1>3, <1>4, <1>5, PTL DEF SpecCds
=============================================================================
