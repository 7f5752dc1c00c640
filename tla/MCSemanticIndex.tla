-------------------------- MODULE MCSemanticIndex --------------------------
(***************************************************************************)
(* Model values for SemanticIndex: a project and one of its modules, and a *)
(* repository that is empty or has two files, before and after an edit.    *)
(* Some names are defined twice in a file: two overlapping calls           *)
(* leave up to seven chunks of three symbols, more than are fetched.       *)
(***************************************************************************)
EXTENDS SemanticIndex, TLC

CONSTANTS a, b, f, g, h, empty, before, after, project, module

Project == [project |-> project, module |-> NoModule]
Module  == [project |-> project, module |-> module]

BothScopes == {Project, Module}
AllTrees   == {empty, before, after}
AllPaths   == {a, b}
TreeFiles  == (empty :> {}) @@ (before :> {a, b}) @@ (after :> {a, b})

Define(path, symbol, line) == [path |-> path, symbol |-> symbol, line |-> line]
Defined == (empty  :> <<>>)
        @@ (before :> <<Define(a, h, 1), Define(a, f, 2), Define(a, f, 3), Define(b, g, 1), Define(b, g, 2)>>)
        @@ (after  :> <<Define(a, f, 1), Define(a, h, 2), Define(a, h, 3), Define(b, g, 1)>>)

\* The definitions that one tree has in the files of another.
InFilesOf(t, u) == LET Listed(d) == d.path \in TreeFiles[t] IN SelectSeq(Defined[u], Listed)
AllExtracted == [t \in AllTrees |-> [u \in AllTrees |-> InFilesOf(t, u)]]

Guide     == {[scope |-> Module, kind |-> "document", at |-> Define(a, h, 1),
               label |-> before, content |-> before]}
GuideGoes == {[scope |-> Module, path |-> a]}
=============================================================================
