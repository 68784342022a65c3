----------------------------- MODULE MCCdsImport -----------------------------
(***************************************************************************)
(* Instance of CdsImport for TLC: a package p, its submodule s and a       *)
(* module q, with bodies that import each other, fail, rename themselves,  *)
(* change their __path__ or redirect their name to another file; and       *)
(* processes in which p was imported before, and is removed or not.        *)
(***************************************************************************)
EXTENDS CdsImport, TLC

CONSTANT OtherKind      \* kind of the file that p redirects to

MCNames == {"p", "s", "q"}
MCParent == [n \in MCNames |-> IF n = "s" THEN "p" ELSE None]

Stmt(op, name)  == [op |-> op, name |-> name, guarded |-> FALSE]
Try(name)       == [op |-> "import", name |-> name, guarded |-> TRUE]
Import(name)    == Stmt("import", name)
MayFail         == Stmt("may_raise", None)

BodiesP == {<<Import("s")>>,
            <<Stmt("extend_path", None), Try("s"), MayFail>>,
            <<Stmt("redirect", "p"), Import("p")>>,
            <<Stmt("query", "q"), Try("q")>>}
BodiesS == {<<>>, <<Import("p"), MayFail>>}
BodiesQ == {<<Stmt("rename", "s"), Try("p")>>, <<Stmt("break_path", None)>>, <<MayFail>>}

List   == <<Try("s"), Try("q")>>
Reload == <<Stmt("forget", "p"), Try("s"), Try("q")>>
UserMains == {<<<<Import("p"), Try("q")>>, <<Try("s")>>>>,
              <<<<Try("q"), Stmt("forget", "q"), Import("q")>>, <<Stmt("query", "q"), Try("p")>>>>}

Files == {"p.py", "other", "s.py", "q.py", "list", "main1", "main2"}

MCProgram(p, s, q, kind_q, l, u, starts) ==
    [file  |-> ("p" :> "p.py" @@ "s" :> "s.py" @@
                "q" :> IF kind_q = "missing" THEN None ELSE "q.py"),
     other |-> ("p" :> "other" @@ "s" :> None @@ "q" :> None),
     kind  |-> ("p.py" :> "source" @@ "other" :> OtherKind @@ "s.py" :> "source" @@
                "q.py" :> kind_q),
     pkg   |-> {"p.py", "other"},
     body  |-> ("p.py" :> p @@ "other" :> <<>> @@ "s.py" :> s @@ "q.py" :> q @@
                "list" :> l @@ "main1" :> u[1] @@ "main2" :> u[2]),
     list  |-> <<"list", None>>,
     users |-> {<<"main1", "main2">>},
     mains |-> {<<"list", None>>, <<"main1", "main2">>},
     starts |-> starts]

MCPrograms ==
    {MCProgram(p, s, q, k, List, u, {{}}) :
         p \in BodiesP, s \in BodiesS, q \in BodiesQ, k \in {"source", "bytecode"},
         u \in UserMains}
    \cup {MCProgram(p, s, <<>>, "missing", List, u, {{}}) :
               p \in BodiesP, s \in BodiesS, u \in UserMains}
    \cup {MCProgram(p, s, <<MayFail>>, "source", l, u, {{"p"}}) :
               p \in BodiesP, s \in BodiesS, l \in {List, Reload}, u \in UserMains}

\* What the theorems of CdsImportProofs suppose of programs.
ASSUME HypothesesMet == OtherKind = "extension" => RedirectsToExtensions /\ RedirectsOwnName
=============================================================================
