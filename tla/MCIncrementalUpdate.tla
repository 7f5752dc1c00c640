------------------------ MODULE MCIncrementalUpdate ------------------------
(***************************************************************************)
(* Model values for IncrementalUpdate: three files, in whose contents one  *)
(* thing, another or nothing is observed.                                  *)
(***************************************************************************)
EXTENDS IncrementalUpdate

CONSTANTS service, other, plain, conventions, deviations

ThreePaths == 1..3
ThreeContents == {service, other, plain}
ObservedIn == [c \in ThreeContents |->
    CASE c = service -> conventions [] c = other -> deviations [] c = plain -> Nothing]

\* Shapes of dependencies; any of the files may be the one that changes.
Chain  == {<<3, 2>>, <<2, 1>>}
Cycle  == {<<3, 2>>, <<2, 1>>, <<1, 3>>}
Double == {<<3, 1>>, <<3, 2>>, <<2, 1>>}
Shapes == {{}, Chain, Cycle, Double}
=============================================================================
