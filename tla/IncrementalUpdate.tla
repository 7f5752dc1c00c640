------------------------- MODULE IncrementalUpdate -------------------------
(***************************************************************************)
(* Incremental learning as the repository's components and their tests put *)
(* it together: two inventories are compared (InventoryDiff), the files    *)
(* that depend on a change are found (ImpactAnalysis), and the store of    *)
(* observations is brought up to date (ObservationStore.apply_diff)        *)
(* instead of built again.  Nothing edits the files of an inventory while  *)
(* it is worked on; SemanticIndex models that race.                        *)
(***************************************************************************)
EXTENDS Integers, Sequences, FiniteSets, SequencesExt

CONSTANTS
    Paths,      \* numbers, in the order in which paths are sorted
    Contents,   \* what a file may contain: its hash and size
    Absent,     \* no such file
    Observed,   \* what is observed in a file of some content ...
    Nothing,    \* ... which may be nothing
    Graphs      \* the dependency graphs a caller may pass

ASSUME PathsAssumption == Paths \subseteq Nat /\ IsFiniteSet(Paths)
ASSUME ContentsAssumption == Absent \notin Contents
ASSUME GraphsAssumption == Graphs \subseteq SUBSET (Paths \X Paths)

Inventories == [Paths -> Contents \cup {Absent}]
Entries == [path : Paths, observed : {Observed[c] : c \in Contents}]

VARIABLES
    inventory,  \* the inventory the store was last brought up to
    next,       \* the one it is being brought up to
    store,      \* the observation store, a sequence of entries
    graph,      \* <<p, q>> when p depends on q
    phase,
    toProcess,  \* the analysis: paths still to be processed (one that is twice in
                \*   the list is skipped the second time),
    visited,    \*   paths that were,
    affected    \*   and the dependents found; they are gone with the update

analysis == <<graph, toProcess, visited, affected>>
vars == <<inventory, next, store, phase, analysis>>

\* Of the store, StoreIsCurrent says more than its type.
TypeOK ==
    /\ inventory \in Inventories
    /\ next \in Inventories
    /\ graph \in Graphs \cup {{}}
    /\ phase \in {"idle", "analysis"}
    /\ toProcess \subseteq Paths
    /\ visited \subseteq Paths
    /\ affected \subseteq Paths

Init ==
    /\ inventory = [p \in Paths |-> Absent]
    /\ next = inventory
    /\ store = <<>>
    /\ graph = {}
    /\ phase = "idle"
    /\ toProcess = {}
    /\ visited = {}
    /\ affected = {}

----------------------------------------------------------------------------

\* InventoryDiff of two inventories.
Deleted(old, new) == {p \in Paths : old[p] # Absent /\ new[p] = Absent}
Added(old, new) == {p \in Paths : old[p] = Absent /\ new[p] # Absent}
Changed(old, new) == {p \in Paths : old[p] # new[p] /\ Absent \notin {old[p], new[p]}}

\* changed_paths of the analysis under way.
Differing == {p \in Paths : inventory[p] # next[p]}

\* Mutant of Dependents: the edge read the other way.
Dependents_Reversed(p) == {q \in Paths : <<p, q>> \in graph}

Dependents(p) == {q \in Paths : <<q, p>> \in graph}

----------------------------------------------------------------------------

HasEntry(s, p) == \E i \in 1..Len(s) : s[i].path = p

\* observations_for: () without an entry.
ObservationsFor(s, p) ==
    IF HasEntry(s, p) THEN s[CHOOSE i \in 1..Len(s) : s[i].path = p].observed ELSE Nothing

\* Mutant of Add: the entry goes to the end.
Add_Last(s, e) == Append(s, e)

\* add_observations: before the first entry with a greater path.
Add(s, e) ==
    LET greater == {i \in 1..Len(s) : e.path < s[i].path}
    IN  InsertAt(s, Min(greater \cup {Len(s) + 1}), e)

\* Its repetition for a set of paths of an inventory, in path order.
AddAll(s, new, paths) ==
    MapThenFoldSet(LAMBDA e, t : Add(t, e), s,
                   LAMBDA p : [path |-> p, observed |-> Observed[new[p]]], Max, paths)

\* remove_observations for a set of paths.
Without(s, paths) ==
    FoldLeft(LAMBDA kept, e : IF e.path \in paths THEN kept ELSE Append(kept, e), <<>>, s)

\* replace_observations for a set of paths; those without an entry get none.
Replaced(s, new, paths) ==
    [i \in 1..Len(s) |->
        IF s[i].path \in paths THEN [s[i] EXCEPT !.observed = Observed[new[s[i].path]]] ELSE s[i]]

\* Mutant of ApplyDiff: changed files are removed first, and have no entry to replace.
ApplyDiff_RemovesChanged(s, old, new, given) ==
    LET kept == Without(s, Deleted(old, new) \cup Changed(old, new))
    IN  AddAll(Replaced(kept, new, Changed(old, new) \cap given), new, Added(old, new) \cap given)

\* apply_diff: given are the paths new_observations has.
ApplyDiff(s, old, new, given) ==
    LET kept == Without(s, Deleted(old, new) \cup (Changed(old, new) \ given))
    IN  AddAll(Replaced(kept, new, Changed(old, new) \cap given), new, Added(old, new) \cap given)

\* The files of an inventory in which something is observed.
Observable(new) == {p \in Paths : new[p] # Absent /\ Observed[new[p]] # Nothing}

----------------------------------------------------------------------------

\* learn with a store: every file is parsed, and those in which something is
\* observed get an entry.
Learn(new) ==
    /\ phase = "idle"
    /\ inventory' = new
    /\ next' = new
    /\ store' = AddAll(<<>>, new, Observable(new))
    /\ UNCHANGED <<phase, analysis>>

\* A later inventory, and the start of ImpactAnalysis.compute.
Compare(new, g) ==
    /\ phase = "idle"
    /\ phase' = "analysis"
    /\ next' = new
    /\ graph' = g
    /\ toProcess' = {p \in Paths : inventory[p] # new[p]}
    /\ visited' = {}
    /\ affected' = {}
    /\ UNCHANGED <<inventory, store>>

\* Mutant of Process: a dependent is processed again although it has been.
Process_Again(p) ==
    /\ phase = "analysis"
    /\ p \in toProcess
    /\ toProcess' = (toProcess \ {p}) \cup Dependents(p)
    /\ visited' = visited \cup {p}
    /\ affected' = affected \cup (Dependents(p) \ Differing)
    /\ UNCHANGED <<inventory, next, store, graph, phase>>

\* One turn of its loop, for any of the paths in the list.
Process(p) ==
    /\ phase = "analysis"
    /\ p \in toProcess
    /\ visited' = visited \cup {p}
    /\ toProcess' = (toProcess \cup Dependents(p)) \ visited'
    /\ affected' = affected \cup (Dependents(p) \ Differing)
    /\ UNCHANGED <<inventory, next, store, graph, phase>>

\* Mutant of Recompute: dependents are found but not computed again.
Recompute_Changed == Differing

\* observations_to_recompute.
Recompute == Differing \cup {p \in affected : ObservationsFor(store, p) # Nothing}

\* The files to recompute are parsed, and the store is updated; the caller may or
\* may not pass on that nothing was observed in a file.
Update ==
    /\ phase = "analysis"
    /\ toProcess = {}
    /\ phase' = "idle"
    /\ \E unobserved \in SUBSET {p \in Recompute : next[p] # Absent /\ Observed[next[p]] = Nothing} :
         store' = ApplyDiff(store, inventory, next, (Recompute \cap Observable(next)) \cup unobserved)
    /\ inventory' = next
    /\ graph' = {}
    /\ visited' = {}
    /\ affected' = {}
    /\ UNCHANGED <<next, toProcess>>

Next ==
    \/ \E new \in Inventories : Learn(new) \/ \E g \in Graphs : Compare(new, g)
    \/ \E p \in Paths : Process(p)
    \/ Update

\* The loop is a function's: it runs until it is done.
Spec == Init /\ [][Next]_vars /\ WF_vars(\E p \in Paths : Process(p))

----------------------------------------------------------------------------

\* With a file, the set contains every file that depends on it.
ClosedUnder(S) == \A p, q \in Paths : <<p, q>> \in graph /\ q \in S => p \in S

\* The analysis finds the files that depend on a change, directly or through
\* others, and no other: with the changed ones, the least set that contains
\* every dependent of its members ("Transitively affected = dependents of
\* changed files (recursively)", dependency_graph.py:68).
AnalysisIsExact ==
    phase = "analysis" /\ toProcess = {} =>
        /\ affected \cap Differing = {}
        /\ ClosedUnder(affected \cup Differing)
        /\ \A S \in SUBSET Paths : Differing \subseteq S /\ ClosedUnder(S) => affected \subseteq S

\* A file whose observations the store holds is left out only if it depends on
\* no changed file, also not by way of files without observations.
DependentsRecomputed ==
    phase = "analysis" /\ toProcess = {} =>
        \A p \in Paths \ Recompute : ObservationsFor(store, p) # Nothing =>
            \E S \in SUBSET Paths : Differing \subseteq S /\ ClosedUnder(S) /\ p \notin S

\* The store never holds what is observed no more: after any sequence of full and
\* incremental runs each entry is what its file has, once, in path order.
StoreIsCurrent ==
    /\ store \in Seq(Entries)
    /\ \A i \in 1..Len(store) :
         /\ inventory[store[i].path] # Absent
         /\ store[i].observed = Observed[inventory[store[i].path]]
    /\ \A i, j \in 1..Len(store) : i < j => store[i].path < store[j].path

\* An update keeps every file that has an entry or is new, and in which something
\* is observed ("replacing observations for changed files, removing observations
\* for deleted files, and adding observations for new files",
\* observations.py:119).
UpdateKeepsUp ==
    [][Update => \A p \in Observable(next) :
         HasEntry(store, p) \/ inventory[p] = Absent => HasEntry(store', p)]_vars

\* Cycles of dependencies do not keep the analysis from its end.
AnalysisEnds == (phase = "analysis") ~> (phase = "analysis" /\ toProcess = {})
=============================================================================
