---------------------- MODULE IncrementalUpdateProofs ----------------------
(***************************************************************************)
(* The impact analysis is exact, and the store of observations follows the *)
(* inventory, for any number of files, any inventories and any graph of    *)
(* dependencies, cyclic ones included.                                     *)
(***************************************************************************)
EXTENDS IncrementalUpdate, FiniteSetTheorems, WellFoundedInduction, TLAPS

LEMMA TypeStep == TypeOK /\ [Next]_vars => TypeOK'
<1> SUFFICES ASSUME TypeOK, [Next]_vars PROVE TypeOK'
  OBVIOUS
<1> USE DEF TypeOK
<1>1. ASSUME NEW new \in Inventories, Learn(new) PROVE TypeOK'
  BY <1>1 DEF Learn, analysis
<1>2. ASSUME NEW new \in Inventories, NEW g \in Graphs, Compare(new, g) PROVE TypeOK'
  BY <1>2 DEF Compare
<1>3. ASSUME NEW p \in Paths, Process(p) PROVE TypeOK'
  <2>1. Dependents(p) \subseteq Paths
    BY DEF Dependents
  <2> QED BY <1>3, <2>1 DEF Process
<1>4. CASE Update
  BY <1>4 DEF Update
<1>5. CASE UNCHANGED vars
  BY <1>5 DEF vars, analysis
<1> QED BY <1>1, <1>2, <1>3, <1>4, <1>5 DEF Next

\* Learning and updating keep every variable's type, whatever the inventories and
\* graphs (what the store holds is StoreIsCurrent's subject).
THEOREM TypeCorrect == Spec => []TypeOK
<1>1. Init => TypeOK
  BY DEF Init, TypeOK, Inventories
<1> QED BY <1>1, TypeStep, PTL DEF Spec

----------------------------------------------------------------------------

\* What the loop of ImpactAnalysis.compute keeps true: what it has found is on its
\* list or done with, what is done with has had its dependents found, and nothing
\* is found that is not in every closed set around the changes.
AnalysisInv ==
    phase = "analysis" =>
        /\ toProcess \subseteq Paths /\ visited \subseteq Paths /\ affected \subseteq Paths
        /\ Differing \cup affected = visited \cup toProcess
        /\ \A p \in visited : Dependents(p) \subseteq affected \cup Differing
        /\ affected \cap Differing = {}
        /\ \A S \in SUBSET Paths : Differing \subseteq S /\ ClosedUnder(S) => affected \subseteq S

LEMMA AnalysisInit == Init => AnalysisInv
BY DEF Init, AnalysisInv

LEMMA AnalysisStep == AnalysisInv /\ [Next]_vars => AnalysisInv'
<1> SUFFICES ASSUME AnalysisInv, [Next]_vars, phase' = "analysis" PROVE AnalysisInv'
  BY DEF AnalysisInv
<1>1. ASSUME NEW new \in Inventories, NEW g \in Graphs, Compare(new, g) PROVE AnalysisInv'
  <2>1. Differing' = toProcess'
    BY <1>1 DEF Compare, Differing
  <2>2. visited' = {} /\ affected' = {} /\ toProcess' \subseteq Paths
    BY <1>1 DEF Compare
  <2> QED BY <2>1, <2>2 DEF AnalysisInv
<1>2. ASSUME NEW p \in Paths, Process(p) PROVE AnalysisInv'
  <2>1. Differing' = Differing /\ graph' = graph /\ Differing \subseteq Paths
    BY <1>2 DEF Process, Differing
  <2>2. \A q : Dependents(q)' = Dependents(q) /\ Dependents(q) \subseteq Paths
    BY <2>1 DEF Dependents
  <2>3. \A S : ClosedUnder(S)' <=> ClosedUnder(S)
    BY <2>1 DEF ClosedUnder
  <2>4. /\ toProcess \subseteq Paths /\ visited \subseteq Paths /\ affected \subseteq Paths
        /\ Differing \cup affected = visited \cup toProcess
        /\ affected \cap Differing = {}
        /\ p \in toProcess
    BY <1>2 DEF AnalysisInv, Process
  <2>5. /\ visited' = visited \cup {p}
        /\ toProcess' = (toProcess \cup Dependents(p)) \ visited'
        /\ affected' = affected \cup (Dependents(p) \ Differing)
    BY <1>2 DEF Process
  <2>6. toProcess' \subseteq Paths /\ visited' \subseteq Paths /\ affected' \subseteq Paths
    BY <2>2, <2>4, <2>5
  <2>7. Differing \cup affected' = visited' \cup toProcess' /\ affected' \cap Differing = {}
    BY <2>4, <2>5
  <2>8. \A q \in visited' : Dependents(q) \subseteq affected' \cup Differing
    BY <1>2, <2>5 DEF AnalysisInv, Process
  <2>9. ASSUME NEW S \in SUBSET Paths, Differing \subseteq S, ClosedUnder(S)
        PROVE  affected' \subseteq S
    <3>1. affected \subseteq S
      BY <1>2, <2>9 DEF AnalysisInv, Process
    <3>2. p \in S
      BY <2>4, <2>9, <3>1
    <3> QED BY <2>5, <2>9, <3>1, <3>2 DEF ClosedUnder, Dependents
  <2> QED BY <2>1, <2>2, <2>3, <2>6, <2>7, <2>8, <2>9 DEF AnalysisInv
<1>3. ASSUME NEW new \in Inventories, Learn(new) PROVE AnalysisInv'
  BY <1>3 DEF Learn
<1>4. CASE Update
  BY <1>4 DEF Update
<1>5. CASE UNCHANGED vars
  BY <1>5 DEF AnalysisInv, vars, analysis, Differing, Dependents, ClosedUnder
<1> QED BY <1>1, <1>2, <1>3, <1>4, <1>5 DEF Next

LEMMA ExactAtTheEnd == AnalysisInv => AnalysisIsExact
BY DEF AnalysisInv, AnalysisIsExact, ClosedUnder, Dependents

\* The files found are the least set that contains the dependents of every changed
\* file and of its own members (dependency_graph.py:68).
THEOREM AnalysisCorrect == Spec => []AnalysisIsExact
BY AnalysisInit, AnalysisStep, ExactAtTheEnd, PTL DEF Spec

LEMMA LeftOutIsIndependent == AnalysisInv => DependentsRecomputed
<1> SUFFICES ASSUME AnalysisInv, phase = "analysis", toProcess = {},
                    NEW p \in Paths \ Recompute, ObservationsFor(store, p) # Nothing
             PROVE  \E S \in SUBSET Paths : Differing \subseteq S /\ ClosedUnder(S) /\ p \notin S
  BY DEF DependentsRecomputed
<1> DEFINE S == affected \cup Differing
<1>1. S \in SUBSET Paths
  BY DEF AnalysisInv, Differing
<1>2. ClosedUnder(S)
  BY ExactAtTheEnd DEF AnalysisIsExact
<1>3. p \notin S
  BY DEF Recompute
<1> QED BY <1>1, <1>2, <1>3

\* What is not computed again depends on no changed file (dependency_graph.py:84).
THEOREM RecomputeCorrect == Spec => []DependentsRecomputed
BY AnalysisInit, AnalysisStep, LeftOutIsIndependent, PTL DEF Spec

\* Nothing is on the list that is done with.
Fresh == toProcess \cap visited = {}

LEMMA FreshStep == Fresh /\ [Next]_vars => Fresh'
<1> SUFFICES ASSUME Fresh, [Next]_vars PROVE Fresh'
  OBVIOUS
<1>1. ASSUME NEW new \in Inventories, Learn(new) PROVE Fresh'
  BY <1>1 DEF Learn, Fresh, analysis
<1>2. ASSUME NEW new \in Inventories, NEW g \in Graphs, Compare(new, g) PROVE Fresh'
  BY <1>2 DEF Compare, Fresh
<1>3. ASSUME NEW p \in Paths, Process(p) PROVE Fresh'
  BY <1>3 DEF Process, Fresh
<1>4. CASE Update
  BY <1>4 DEF Update, Fresh
<1>5. CASE UNCHANGED vars
  BY <1>5 DEF vars, analysis, Fresh
<1> QED BY <1>1, <1>2, <1>3, <1>4, <1>5 DEF Next

\* A file is processed once, in a graph with cycles too: with every turn of the
\* loop there are fewer files that were not (ImpactAnalysis.compute, the visited
\* set), so an analysis has at most as many turns as there are files.
TurnsAreBounded ==
    [][\A p \in Paths : Process(p) =>
        Cardinality(Paths \ visited') < Cardinality(Paths \ visited)]_vars

LEMMA TurnIsNew ==
    ASSUME Fresh, NEW p \in Paths, Process(p)
    PROVE  Cardinality(Paths \ visited') < Cardinality(Paths \ visited)
<1> DEFINE left == Paths \ visited
<1>1. p \in left /\ Paths \ visited' = left \ {p}
  BY DEF Process, Fresh
<1>2. IsFiniteSet(left)
  BY PathsAssumption, FS_Difference
<1>3. Cardinality(left \ {p}) = Cardinality(left) - 1 /\ Cardinality(left) \in Nat
  BY <1>1, <1>2, FS_RemoveElement, FS_CardinalityType
<1> QED BY <1>1, <1>3

\* The loop of the analysis cannot go on for ever: what AnalysisEnds has besides
\* is that it goes on while something is on the list.
THEOREM TurnsBounded == Spec => TurnsAreBounded
<1>1. Init => Fresh
  BY DEF Init, Fresh
<1>2. Fresh /\ [Next]_vars =>
        [\A p \in Paths : Process(p) =>
            Cardinality(Paths \ visited') < Cardinality(Paths \ visited)]_vars
  BY TurnIsNew
<1> QED BY <1>1, <1>2, FreshStep, PTL DEF Spec, TurnsAreBounded

----------------------------------------------------------------------------
(* What add_observations and remove_observations come to, repeated for a set of paths.  The    *)
(* repetitions are folds, in the order of the paths; each is a recursive function on the       *)
(* subsets of a finite set of numbers, whose last member is dealt with last.                   *)

\* A finite set of numbers that is not empty has a largest one.
LEMMA LargestNumber ==
    ASSUME NEW S, S \subseteq Nat, S # {}, IsFiniteSet(S)
    PROVE  \E x \in S : \A y \in S : y <= x
<1> DEFINE Unbounded(T) == T \subseteq Nat /\ T # {} /\ IsFiniteSet(T) /\ \A x \in T : \E y \in T : y > x
           bad == {n \in Nat : \E T : Unbounded(T) /\ Cardinality(T) = n}
           Below == {ss \in Nat \X Nat : ss[1] < ss[2]}
<1>1. SUFFICES ASSUME Unbounded(S) PROVE FALSE
  <2>1. PICK y \in S : TRUE
    OBVIOUS
  <2> QED BY <1>1
<1>2. Cardinality(S) \in bad
  BY <1>1, FS_CardinalityType
<1>3. IsWellFoundedOn(Below, Nat)
  BY NatLessThanWellFounded DEF OpToRel
<1>4. PICK n \in bad : \A m \in bad : <<m, n>> \notin Below
  <2> HIDE DEF Below, Unbounded
  <2> QED BY <1>2, <1>3, WFMin
<1>5. PICK T : Unbounded(T) /\ Cardinality(T) = n
  BY <1>4
<1>6. PICK x \in T : TRUE
  BY <1>5
<1> DEFINE U == T \ {x}
<1>7. IsFiniteSet(U) /\ Cardinality(U) = n - 1
  BY <1>5, <1>6, FS_RemoveElement
<1>8. Unbounded(U)
  <2>1. PICK y \in T : y > x
    BY <1>5, <1>6
  <2>2. y \in U /\ U \subseteq Nat
    BY <1>5, <1>6, <2>1
  <2>3. ASSUME NEW z \in U PROVE \E w \in U : w > z
    <3>1. PICK w \in T : w > z
      BY <1>5, <2>3
    <3>2. CASE w = x
      BY <3>1, <3>2, <2>1, <2>2, <1>5, <1>6, <2>3
    <3> QED BY <3>1, <3>2
  <2> QED BY <2>2, <2>3, <1>7
<1>9. n - 1 \in bad /\ n - 1 < n /\ n \in Nat
  <2>1. Cardinality(U) \in Nat
    BY <1>7, FS_CardinalityType
  <2> QED BY <1>7, <1>8, <2>1, <1>4
<1> QED BY <1>4, <1>9

LEMMA FirstOf ==
    ASSUME NEW S, S \subseteq Nat, S # {}
    PROVE  Min(S) \in S /\ \A y \in S : Min(S) <= y
<1> DEFINE Below == {ss \in Nat \X Nat : ss[1] < ss[2]}
<1>1. IsWellFoundedOn(Below, Nat)
  BY NatLessThanWellFounded DEF OpToRel
<1>2. PICK x \in S : \A y \in S : <<y, x>> \notin Below
  <2> HIDE DEF Below
  <2> QED BY <1>1, WFMin
<1>3. \A y \in S : x =< y
  <2>1. SUFFICES ASSUME NEW y \in S PROVE ~(y < x)
    BY <1>2
  <2>2. y < x => <<y, x>> \in Below
    BY <1>2
  <2> QED BY <1>2, <2>2
<1> QED BY <1>3 DEF Min

LEMMA LastOf ==
    ASSUME NEW S, S \subseteq Nat, S # {}, IsFiniteSet(S)
    PROVE  Max(S) \in S /\ \A y \in S : y <= Max(S)
<1>1. PICK x \in S : \A y \in S : y <= x
  BY LargestNumber
<1>2. \A y \in S : x >= y
  BY <1>1
<1> QED BY <1>1, <1>2 DEF Max

\* What holds of the empty set, and of a set when it holds without its last member, holds of
\* every set.
LEMMA UpToTheLast ==
    ASSUME NEW S, S \subseteq Nat, IsFiniteSet(S), NEW Good, {} \in Good,
           \A t \in SUBSET S : t # {} /\ t \ {Max(t)} \in Good => t \in Good
    PROVE  \A t \in SUBSET S : t \in Good
<1> DEFINE bad == {n \in Nat : \E t \in SUBSET S : t \notin Good /\ Cardinality(t) = n}
           Below == {ss \in Nat \X Nat : ss[1] < ss[2]}
<1>1. SUFFICES ASSUME NEW u \in SUBSET S, u \notin Good PROVE FALSE
  OBVIOUS
<1>2. \A t \in SUBSET S : IsFiniteSet(t) /\ Cardinality(t) \in Nat
  BY FS_Subset, FS_CardinalityType
<1>3. Cardinality(u) \in bad
  BY <1>1, <1>2
<1>4. IsWellFoundedOn(Below, Nat)
  BY NatLessThanWellFounded DEF OpToRel
<1>5. PICK n \in bad : \A m \in bad : <<m, n>> \notin Below
  <2>1. bad \subseteq Nat
    OBVIOUS
  <2> HIDE DEF Below, bad
  <2> QED BY <1>3, <1>4, <2>1, WFMin
<1>6. PICK t \in SUBSET S : t \notin Good /\ Cardinality(t) = n
  BY <1>5
<1>7. t # {}
  BY <1>6
<1>8. Max(t) \in t
  BY <1>2, <1>7, LastOf
<1>9. Cardinality(t \ {Max(t)}) = n - 1
  BY <1>2, <1>6, <1>8, FS_RemoveElement
<1>10. t \ {Max(t)} \notin Good
  BY <1>6, <1>7
<1>11. n - 1 \in bad /\ n - 1 < n /\ n \in Nat
  <2>1. n - 1 \in Nat
    BY <1>2, <1>9
  <2> QED BY <1>9, <1>10, <2>1
<1> QED BY <1>5, <1>11

\* The value for a set is one step from the value for the set without its last member.
StepsTo(f, S, base, step) ==
    \A t \in SUBSET S : f[t] = IF t = {} THEN base ELSE step[<<Max(t), f[t \ {Max(t)}]>>]

\* A step per member, from the first to the last, is a function on the sets of members.
LEMMA FoldExists ==
    ASSUME NEW S, S \subseteq Nat, IsFiniteSet(S), NEW T, NEW base \in T, NEW step \in [S \X T -> T]
    PROVE  \E f \in [SUBSET S -> T] : StepsTo(f, S, base, step)
<1> DEFINE Folds(f, u) == \A t \in SUBSET u :
                            f[t] = IF t = {} THEN base ELSE step[<<Max(t), f[t \ {Max(t)}]>>]
           Good == {u \in SUBSET S : \E f \in [SUBSET u -> T] : Folds(f, u)}
<1>1. \A t \in SUBSET S : t # {} => Max(t) \in t /\ \A y \in t : y <= Max(t)
  BY FS_Subset, LastOf
<1>2. {} \in Good
  <2> DEFINE f == [t \in SUBSET {} |-> base]
  <2>1. f \in [SUBSET {} -> T] /\ Folds(f, {})
    OBVIOUS
  <2> QED BY <2>1
<1>3. ASSUME NEW u \in SUBSET S, u # {}, u \ {Max(u)} \in Good PROVE u \in Good
  <2> DEFINE m == Max(u)
             v == u \ {m}
  <2>1. PICK g \in [SUBSET v -> T] : Folds(g, v)
    BY <1>3
  <2>2. m \in u /\ m \in S /\ \A y \in u : y <= m
    BY <1>1, <1>3
  <2> DEFINE f == [t \in SUBSET u |-> IF t \in SUBSET v THEN g[t] ELSE step[<<m, g[t \ {m}]>>]]
  <2>3. f \in [SUBSET u -> T]
    <3>1. ASSUME NEW t \in SUBSET u, t \notin SUBSET v PROVE step[<<m, g[t \ {m}]>>] \in T
      <4>1. t \ {m} \in SUBSET v
        OBVIOUS
      <4> HIDE DEF m, v
      <4> QED BY <2>1, <2>2, <4>1
    <3> QED BY <2>1, <3>1
  <2>4. ASSUME NEW t \in SUBSET u
        PROVE  f[t] = IF t = {} THEN base ELSE step[<<Max(t), f[t \ {Max(t)}]>>]
    <3>1. CASE t \in SUBSET v
      <4>1. t \ {Max(t)} \in SUBSET v
        BY <3>1
      <4>2. f[t] = g[t] /\ f[t \ {Max(t)}] = g[t \ {Max(t)}]
        BY <3>1, <4>1
      <4> HIDE DEF f, v
      <4> QED BY <2>1, <3>1, <4>2
    <3>2. CASE t \notin SUBSET v
      <4>1. m \in t
        BY <3>2
      <4>2. Max(t) \in t /\ \A y \in t : y <= Max(t)
        BY <1>1, <4>1
      <4>3. Max(t) = m
        <5>1. m <= Max(t) /\ Max(t) <= m
          BY <2>2, <4>1, <4>2
        <5>2. m \in Nat /\ Max(t) \in Nat
          BY <2>2, <4>2
        <5> QED BY <5>1, <5>2
      <4>4. t \ {m} \in SUBSET v
        OBVIOUS
      <4>5. f[t] = step[<<m, g[t \ {m}]>>] /\ f[t \ {m}] = g[t \ {m}]
        BY <3>2, <4>4
      <4> HIDE DEF f, v, m
      <4> QED BY <4>1, <4>3, <4>5
    <3> QED BY <3>1, <3>2
  <2>5. Folds(f, u)
    BY <2>4
  <2> HIDE DEF f
  <2> QED BY <2>3, <2>5
<1> HIDE DEF Good
<1>4. \A t \in SUBSET S : t \in Good
  BY <1>2, <1>3, UpToTheLast
<1> QED BY <1>4 DEF Good, StepsTo

Sorted(s) == \A i, j \in 1..Len(s) : i < j => s[i].path < s[j].path
Held(s) == {s[i] : i \in 1..Len(s)}

LEMMA EntryPath == ASSUME NEW e \in Entries PROVE e.path \in Paths /\ e.path \in Nat
<1>1. e.path \in Paths
  BY DEF Entries
<1> QED BY <1>1, PathsAssumption

LEMMA Between ==
    ASSUME NEW T, NEW a \in Seq(T), NEW e \in T, NEW b \in Seq(T)
    PROVE  /\ Len(a \o <<e>> \o b) = Len(a) + 1 + Len(b)
           /\ \A i \in 1..Len(a) : (a \o <<e>> \o b)[i] = a[i]
           /\ (a \o <<e>> \o b)[Len(a) + 1] = e
           /\ \A i \in 1..Len(b) : (a \o <<e>> \o b)[Len(a) + 1 + i] = b[i]
<1>1. /\ a \o <<e>> \in Seq(T) /\ Len(a \o <<e>>) = Len(a) + 1
      /\ \A i \in 1..Len(a) : (a \o <<e>>)[i] = a[i]
      /\ (a \o <<e>>)[Len(a) + 1] = e
  OBVIOUS
<1>2. PICK c \in Seq(T) : c = a \o <<e>>
  BY <1>1
<1>3. Len(c) \in Nat /\ Len(a) \in Nat /\ Len(b) \in Nat
  OBVIOUS
<1>4. /\ Len(c \o b) = Len(c) + Len(b)
      /\ \A i \in 1..Len(c) : (c \o b)[i] = c[i]
      /\ \A i \in 1..Len(b) : (c \o b)[Len(c) + i] = b[i]
  OBVIOUS
<1>5. \A i \in 1..Len(a) : i \in 1..Len(c)
  BY <1>1, <1>2, <1>3
<1>6. Len(a) + 1 \in 1..Len(c)
  BY <1>1, <1>2, <1>3
<1> QED BY <1>1, <1>2, <1>3, <1>4, <1>5, <1>6

LEMMA AddType == ASSUME NEW s \in Seq(Entries), NEW e \in Entries PROVE Add(s, e) \in Seq(Entries)
<1> DEFINE greater == {i \in 1..Len(s) : e.path < s[i].path}
<1>1. greater \cup {Len(s) + 1} \subseteq Nat /\ greater \cup {Len(s) + 1} # {}
  OBVIOUS
<1>2. Min(greater \cup {Len(s) + 1}) \in greater \cup {Len(s) + 1}
  <2> HIDE DEF greater
  <2> QED BY <1>1, FirstOf
<1>3. PICK k \in 1..(Len(s) + 1) : Min(greater \cup {Len(s) + 1}) = k
  <2>1. greater \cup {Len(s) + 1} \subseteq 1..(Len(s) + 1)
    OBVIOUS
  <2> HIDE DEF greater
  <2> QED BY <1>2, <2>1
<1>4. Add(s, e) = SubSeq(s, 1, k - 1) \o <<e>> \o SubSeq(s, k, Len(s))
  BY <1>3 DEF Add, InsertAt
<1>5. SubSeq(s, 1, k - 1) \in Seq(Entries) /\ SubSeq(s, k, Len(s)) \in Seq(Entries)
  OBVIOUS
<1> QED BY <1>4, <1>5

\* Added in its place, an entry of a new path leaves the entries sorted.
LEMMA AddSorted ==
    ASSUME NEW s \in Seq(Entries), Sorted(s), NEW e \in Entries, ~HasEntry(s, e.path)
    PROVE  Sorted(Add(s, e)) /\ Held(Add(s, e)) = Held(s) \cup {e}
<1> DEFINE greater == {i \in 1..Len(s) : e.path < s[i].path}
           a == Add(s, e)
<1>1. greater \cup {Len(s) + 1} \subseteq Nat /\ greater \cup {Len(s) + 1} # {}
  OBVIOUS
<1>2. PICK k \in greater \cup {Len(s) + 1} :
        Min(greater \cup {Len(s) + 1}) = k /\ \A i \in greater \cup {Len(s) + 1} : k <= i
  <2> HIDE DEF greater
  <2> QED BY <1>1, FirstOf
<1>3. k \in 1..(Len(s) + 1) /\ Len(s) \in Nat
  OBVIOUS
<1>4. a = SubSeq(s, 1, k - 1) \o <<e>> \o SubSeq(s, k, Len(s))
  BY <1>2 DEF Add, InsertAt
<1>5. /\ Len(a) = Len(s) + 1
      /\ \A i \in 1..(Len(s) + 1) : a[i] = IF i < k THEN s[i] ELSE IF i = k THEN e ELSE s[i - 1]
  <2> HIDE DEF a, greater
  <2>1. SubSeq(s, 1, k - 1) \in Seq(Entries) /\ Len(SubSeq(s, 1, k - 1)) = k - 1
    BY <1>3
  <2>2. SubSeq(s, k, Len(s)) \in Seq(Entries) /\ Len(SubSeq(s, k, Len(s))) = Len(s) + 1 - k
    BY <1>3
  <2>3. \A i \in 1..(k - 1) : SubSeq(s, 1, k - 1)[i] = s[i]
    BY <1>3
  <2>4. \A i \in 1..(Len(s) + 1 - k) : SubSeq(s, k, Len(s))[i] = s[k + i - 1]
    BY <1>3
  <2> DEFINE before == SubSeq(s, 1, k - 1)
             after == SubSeq(s, k, Len(s))
  <2> HIDE DEF before, after
  <2>5. /\ Len(a) = Len(before) + 1 + Len(after)
        /\ \A i \in 1..Len(before) : a[i] = before[i]
        /\ a[Len(before) + 1] = e
        /\ \A i \in 1..Len(after) : a[Len(before) + 1 + i] = after[i]
    <3>1. a = before \o <<e>> \o after
      BY <1>4 DEF before, after
    <3>2. before \in Seq(Entries) /\ after \in Seq(Entries)
      BY <2>1, <2>2 DEF before, after
    <3> QED BY <3>1, <3>2, Between
  <2>6. Len(before) = k - 1 /\ Len(after) = Len(s) + 1 - k
    BY <2>1, <2>2 DEF before, after
  <2>7. \A i \in 1..(k - 1) : a[i] = s[i]
    BY <2>3, <2>5, <2>6 DEF before
  <2>8. a[k] = e
    BY <1>3, <2>5, <2>6
  <2>9. ASSUME NEW i \in 1..(Len(s) + 1), k < i PROVE a[i] = s[i - 1]
    <3>1. i - k \in 1..(Len(s) + 1 - k) /\ (k - 1) + 1 + (i - k) = i /\ k + (i - k) - 1 = i - 1
      BY <1>3, <2>9
    <3>2. a[(k - 1) + 1 + (i - k)] = after[i - k]
      BY <2>5, <2>6, <3>1
    <3>3. after[i - k] = s[k + (i - k) - 1]
      BY <2>4, <3>1 DEF after
    <3> QED BY <3>1, <3>2, <3>3
  <2>10. Len(a) = Len(s) + 1
    BY <1>3, <2>5, <2>6
  <2> QED BY <1>3, <2>7, <2>8, <2>9, <2>10
<1>6. \A i \in 1..Len(s) : s[i].path \in Nat /\ e.path \in Nat /\ s[i].path # e.path
  <2>1. \A i \in 1..Len(s) : s[i] \in Entries
    OBVIOUS
  <2> QED BY <2>1, EntryPath DEF HasEntry
<1>7. \A i \in 1..Len(s) : i < k => s[i].path < e.path
  <2>1. ASSUME NEW i \in 1..Len(s), i < k PROVE ~(e.path < s[i].path)
    BY <1>2, <1>3, <2>1
  <2> QED BY <1>6, <2>1
<1>8. \A i \in 1..Len(s) : k <= i => e.path < s[i].path
  <2>1. ASSUME NEW i \in 1..Len(s), k <= i PROVE e.path < s[i].path
    <3>1. k \in greater
      BY <1>3, <2>1
    <3>2. e.path < s[k].path /\ k \in 1..Len(s)
      BY <3>1
    <3>3. k = i \/ s[k].path < s[i].path
      BY <2>1, <1>3, <3>2 DEF Sorted
    <3> QED BY <1>6, <3>2, <3>3
  <2> QED BY <2>1
<1> HIDE DEF greater, a
<1>9. Sorted(a)
  <2>1. SUFFICES ASSUME NEW i \in 1..(Len(s) + 1), NEW j \in 1..(Len(s) + 1), i < j
                 PROVE  a[i].path < a[j].path
    BY <1>5 DEF Sorted
  <2>2. CASE j < k
    <3>1. a[i] = s[i] /\ a[j] = s[j] /\ i \in 1..Len(s) /\ j \in 1..Len(s)
      BY <1>3, <1>5, <2>1, <2>2
    <3> QED BY <2>1, <3>1 DEF Sorted
  <2>3. CASE j = k
    <3>1. a[i] = s[i] /\ a[j] = e /\ i \in 1..Len(s)
      BY <1>3, <1>5, <2>1, <2>3
    <3> QED BY <1>7, <2>1, <2>3, <3>1
  <2>4. CASE k < j
    <3>1. a[j] = s[j - 1] /\ j - 1 \in 1..Len(s) /\ k <= j - 1
      BY <1>3, <1>5, <2>1, <2>4
    <3>2. CASE i < k
      <4>1. a[i] = s[i] /\ i \in 1..Len(s) /\ i < j - 1
        BY <1>3, <1>5, <2>1, <2>4, <3>2
      <4> QED BY <3>1, <4>1 DEF Sorted
    <3>3. CASE i = k
      <4>1. a[i] = e
        BY <1>5, <2>1, <3>3
      <4> QED BY <1>8, <3>1, <4>1
    <3>4. CASE k < i
      <4>1. a[i] = s[i - 1] /\ i - 1 \in 1..Len(s) /\ i - 1 < j - 1
        BY <1>3, <1>5, <2>1, <3>4
      <4> QED BY <3>1, <4>1 DEF Sorted
    <3> QED BY <1>3, <2>1, <3>2, <3>3, <3>4
  <2> QED BY <1>3, <2>1, <2>2, <2>3, <2>4
<1>10. Held(a) \subseteq Held(s) \cup {e}
  <2>1. SUFFICES ASSUME NEW i \in 1..(Len(s) + 1) PROVE a[i] \in Held(s) \cup {e}
    BY <1>5 DEF Held
  <2>2. CASE i < k
    BY <1>3, <1>5, <2>2 DEF Held
  <2>3. CASE i = k
    BY <1>5, <2>3
  <2>4. CASE k < i
    <3>1. a[i] = s[i - 1] /\ i - 1 \in 1..Len(s)
      BY <1>3, <1>5, <2>4
    <3> QED BY <3>1 DEF Held
  <2> QED BY <1>3, <2>2, <2>3, <2>4
<1>11. e \in Held(a)
  BY <1>3, <1>5 DEF Held
<1>12. Held(s) \subseteq Held(a)
  <2>1. SUFFICES ASSUME NEW i \in 1..Len(s) PROVE s[i] \in Held(a)
    BY DEF Held
  <2>2. CASE i < k
    <3>1. a[i] = s[i] /\ i \in 1..Len(a)
      BY <1>3, <1>5, <2>2
    <3> QED BY <3>1 DEF Held
  <2>3. CASE k <= i
    <3>1. a[i + 1] = s[i] /\ i + 1 \in 1..Len(a)
      BY <1>3, <1>5, <2>3
    <3> QED BY <3>1 DEF Held
  <2> QED BY <1>3, <2>2, <2>3
<1> QED BY <1>9, <1>10, <1>11, <1>12 DEF a

EntryOf(new, p) == [path |-> p, observed |-> Observed[new[p]]]

LEMMA EntryOfIsEntry ==
    ASSUME NEW new \in Inventories, NEW p \in Paths, new[p] # Absent
    PROVE  EntryOf(new, p) \in Entries /\ EntryOf(new, p).path = p
<1>1. new[p] \in Contents
  BY DEF Inventories
<1> QED BY <1>1 DEF EntryOf, Entries

\* What add_observations leaves, repeated for the files of an inventory.
LEMMA AddAllSteps ==
    ASSUME NEW s \in Seq(Entries), NEW new \in Inventories, NEW paths \in SUBSET Paths,
           \A p \in paths : new[p] # Absent
    PROVE  \E f : /\ AddAll(s, new, paths) = f[paths]
                  /\ f[{}] = s
                  /\ \A t \in SUBSET paths : t # {} =>
                        f[t] = Add(f[t \ {Max(t)}], EntryOf(new, Max(t)))
<1> DEFINE Adds(f) == f = [t \in SUBSET paths |-> IF t = {} THEN s
                                                  ELSE Add(f[t \ {Max(t)}], EntryOf(new, Max(t)))]
           step == [x \in paths \X Seq(Entries) |-> Add(x[2], EntryOf(new, x[1]))]
<1>1. AddAll(s, new, paths) = (CHOOSE f : Adds(f))[paths]
  BY Zenon DEF AddAll, MapThenFoldSet, EntryOf
<1>2. paths \subseteq Nat /\ IsFiniteSet(paths)
  BY PathsAssumption, FS_Subset
<1>3. step \in [paths \X Seq(Entries) -> Seq(Entries)]
  <2>1. ASSUME NEW p \in paths, NEW q \in Seq(Entries) PROVE Add(q, EntryOf(new, p)) \in Seq(Entries)
    BY EntryOfIsEntry, AddType
  <2> QED BY <2>1
<1>4. PICK f \in [SUBSET paths -> Seq(Entries)] : \A t \in SUBSET paths :
         f[t] = IF t = {} THEN s ELSE step[<<Max(t), f[t \ {Max(t)}]>>]
  <2> HIDE DEF step
  <2> DEFINE T == Seq(Entries)
  <2>1. step \in [paths \X T -> T] /\ s \in T
    BY <1>3
  <2> HIDE DEF T
  <2>2. \E f \in [SUBSET paths -> T] : StepsTo(f, paths, s, step)
    BY <1>2, <2>1, FoldExists
  <2> QED BY <2>2 DEF T, StepsTo
<1>5. ASSUME NEW t \in SUBSET paths, t # {}
      PROVE  step[<<Max(t), f[t \ {Max(t)}]>>] = Add(f[t \ {Max(t)}], EntryOf(new, Max(t)))
  <2>1. Max(t) \in paths
    BY <1>2, <1>5, FS_Subset, LastOf
  <2>2. f[t \ {Max(t)}] \in Seq(Entries)
    OBVIOUS
  <2> QED BY <2>1, <2>2
<1> HIDE DEF step
<1>6. Adds(f)
  BY <1>4, <1>5
<1>7. Adds(CHOOSE g : Adds(g))
  <2> HIDE DEF Adds
  <2> QED BY <1>6
<1> DEFINE g == CHOOSE h : Adds(h)
<1>8. g[{}] = s
  <2> HIDE DEF g
  <2> QED BY <1>7 DEF g
<1>9. \A t \in SUBSET paths : t # {} => g[t] = Add(g[t \ {Max(t)}], EntryOf(new, Max(t)))
  <2>1. Adds(g)
    BY <1>7
  <2> HIDE DEF g
  <2> QED BY <2>1
<1>10. AddAll(s, new, paths) = g[paths]
  BY <1>1
<1> HIDE DEF g
<1> QED BY <1>8, <1>9, <1>10

LEMMA AddAllSorted ==
    ASSUME NEW s \in Seq(Entries), Sorted(s), NEW new \in Inventories, NEW paths \in SUBSET Paths,
           \A p \in paths : new[p] # Absent /\ ~HasEntry(s, p)
    PROVE  /\ AddAll(s, new, paths) \in Seq(Entries)
           /\ Sorted(AddAll(s, new, paths))
           /\ Held(AddAll(s, new, paths)) = Held(s) \cup {EntryOf(new, p) : p \in paths}
<1>1. PICK f : /\ AddAll(s, new, paths) = f[paths]
               /\ f[{}] = s
               /\ \A t \in SUBSET paths : t # {} => f[t] = Add(f[t \ {Max(t)}], EntryOf(new, Max(t)))
  <2>1. \A p \in paths : new[p] # Absent
    OBVIOUS
  <2> QED BY <2>1, AddAllSteps, Zenon
<1>2. paths \subseteq Nat /\ IsFiniteSet(paths)
  BY PathsAssumption, FS_Subset
<1> DEFINE Good == {t \in SUBSET paths : /\ f[t] \in Seq(Entries)
                                         /\ Sorted(f[t])
                                         /\ Held(f[t]) = Held(s) \cup {EntryOf(new, p) : p \in t}}
<1>3. {} \in Good
  BY <1>1
<1>4. ASSUME NEW t \in SUBSET paths, t # {}, t \ {Max(t)} \in Good PROVE t \in Good
  <2> DEFINE m == Max(t)
             u == t \ {m}
             e == EntryOf(new, m)
  <2>1. m \in t /\ m \in Paths /\ m \in paths
    BY <1>2, <1>4, FS_Subset, LastOf
  <2>2. e \in Entries /\ e.path = m
    BY <2>1, EntryOfIsEntry
  <2>3. f[u] \in Seq(Entries) /\ Sorted(f[u]) /\ Held(f[u]) = Held(s) \cup {EntryOf(new, p) : p \in u}
    BY <1>4
  <2>4. ~HasEntry(f[u], m)
    <3>1. SUFFICES ASSUME NEW x \in Held(f[u]), x.path = m PROVE FALSE
      BY DEF HasEntry, Held
    <3>2. CASE x \in Held(s)
      <4>1. HasEntry(s, m)
        BY <3>1, <3>2 DEF HasEntry, Held
      <4> QED BY <2>1, <4>1
    <3>3. CASE x \in {EntryOf(new, p) : p \in u}
      <4>1. PICK p \in u : x = EntryOf(new, p)
        BY <3>3
      <4>2. x.path = p
        BY <4>1, EntryOfIsEntry
      <4> QED BY <3>1, <4>2
    <3> QED BY <2>3, <3>1, <3>2, <3>3
  <2>5. f[t] = Add(f[u], e)
    BY <1>1, <1>4
  <2>6. {EntryOf(new, p) : p \in t} = {EntryOf(new, p) : p \in u} \cup {e}
    BY <2>1
  <2> HIDE DEF m, u, e
  <2>7. f[t] \in Seq(Entries) /\ Sorted(f[t]) /\ Held(f[t]) = Held(f[u]) \cup {e}
    <3>1. f[u] \in Seq(Entries) /\ Sorted(f[u]) /\ e \in Entries /\ ~HasEntry(f[u], e.path)
      BY <2>2, <2>3, <2>4
    <3>2. Add(f[u], e) \in Seq(Entries)
      BY <3>1, AddType
    <3>3. Sorted(Add(f[u], e)) /\ Held(Add(f[u], e)) = Held(f[u]) \cup {e}
      BY <3>1, AddSorted, Zenon
    <3> QED BY <2>5, <3>2, <3>3
  <2> QED BY <2>3, <2>6, <2>7
<1> HIDE DEF Good
<1>5. paths \in Good
  BY <1>2, <1>3, <1>4, UpToTheLast
<1> QED BY <1>1, <1>5 DEF Good

\* What remove_observations leaves, repeated for a set of paths.
Removes(f, s, paths) ==
    /\ f[{}] = <<>>
    /\ \A t \in SUBSET DOMAIN s : t # {} =>
          f[t] = IF s[Max(t)].path \in paths THEN f[t \ {Max(t)}]
                 ELSE Append(f[t \ {Max(t)}], s[Max(t)])

LEMMA WithoutSteps ==
    ASSUME NEW s \in Seq(Entries), NEW paths
    PROVE  \E f : Without(s, paths) = f[DOMAIN s] /\ Removes(f, s, paths)
<1> DEFINE Keeps(f) == f = [t \in SUBSET DOMAIN s |->
                              IF t = {} THEN <<>>
                              ELSE IF s[Max(t)].path \in paths THEN f[t \ {Max(t)}]
                                   ELSE Append(f[t \ {Max(t)}], s[Max(t)])]
           step == [x \in (DOMAIN s) \X Seq(Entries) |->
                      IF s[x[1]].path \in paths THEN x[2] ELSE Append(x[2], s[x[1]])]
<1>1. Without(s, paths) = (CHOOSE f : Keeps(f))[DOMAIN s]
  BY Zenon DEF Without, FoldLeft, MapThenFoldSet
<1>2. DOMAIN s \subseteq Nat /\ IsFiniteSet(DOMAIN s)
  <2>1. DOMAIN s = 1..Len(s) /\ Len(s) \in Nat
    OBVIOUS
  <2> QED BY <2>1, FS_Interval
<1>3. step \in [(DOMAIN s) \X Seq(Entries) -> Seq(Entries)]
  <2>1. ASSUME NEW i \in DOMAIN s, NEW q \in Seq(Entries) PROVE Append(q, s[i]) \in Seq(Entries)
    OBVIOUS
  <2> QED BY <2>1
<1>4. PICK f \in [SUBSET DOMAIN s -> Seq(Entries)] : \A t \in SUBSET DOMAIN s :
         f[t] = IF t = {} THEN <<>> ELSE step[<<Max(t), f[t \ {Max(t)}]>>]
  <2>1. <<>> \in Seq(Entries)
    OBVIOUS
  <2> HIDE DEF step
  <2> DEFINE T == Seq(Entries)
             base == <<>>
             S == DOMAIN s
  <2>2. S \subseteq Nat /\ IsFiniteSet(S) /\ step \in [S \X T -> T] /\ base \in T
    BY <1>2, <1>3, <2>1
  <2> HIDE DEF T, base, S
  <2>3. \E f \in [SUBSET S -> T] : StepsTo(f, S, base, step)
    BY <2>2, FoldExists
  <2> QED BY <2>3 DEF T, base, S, StepsTo
<1>5. ASSUME NEW t \in SUBSET DOMAIN s, t # {}
      PROVE  step[<<Max(t), f[t \ {Max(t)}]>>] = IF s[Max(t)].path \in paths THEN f[t \ {Max(t)}]
                                                 ELSE Append(f[t \ {Max(t)}], s[Max(t)])
  <2>1. Max(t) \in DOMAIN s
    BY <1>2, <1>5, FS_Subset, LastOf
  <2>2. f[t \ {Max(t)}] \in Seq(Entries)
    OBVIOUS
  <2> QED BY <2>1, <2>2
<1> HIDE DEF step
<1>6. Keeps(f)
  BY <1>4, <1>5
<1>7. Keeps(CHOOSE g : Keeps(g))
  <2> HIDE DEF Keeps
  <2> QED BY <1>6
<1> DEFINE g == CHOOSE h : Keeps(h)
<1>8. Keeps(g)
  BY <1>7
<1>9. Without(s, paths) = g[DOMAIN s]
  BY <1>1
<1> HIDE DEF g
<1>10. g[{}] = <<>>
  BY <1>8
<1>11. \A t \in SUBSET DOMAIN s : t # {} =>
         g[t] = IF s[Max(t)].path \in paths THEN g[t \ {Max(t)}] ELSE Append(g[t \ {Max(t)}], s[Max(t)])
  BY <1>8
<1> QED BY <1>9, <1>10, <1>11 DEF Removes

LEMMA AppendSorted ==
    ASSUME NEW s \in Seq(Entries), Sorted(s), NEW e \in Entries, \A x \in Held(s) : x.path < e.path
    PROVE  /\ Append(s, e) \in Seq(Entries)
           /\ Sorted(Append(s, e))
           /\ Held(Append(s, e)) = Held(s) \cup {e}
<1> DEFINE a == Append(s, e)
<1>1. /\ a \in Seq(Entries) /\ Len(a) = Len(s) + 1 /\ Len(s) \in Nat
      /\ \A i \in 1..Len(s) : a[i] = s[i]
      /\ a[Len(s) + 1] = e
  OBVIOUS
<1> HIDE DEF a
<1>2. Sorted(a)
  <2>1. SUFFICES ASSUME NEW i \in 1..(Len(s) + 1), NEW j \in 1..(Len(s) + 1), i < j
                 PROVE  a[i].path < a[j].path
    BY <1>1 DEF Sorted
  <2>2. i \in 1..Len(s) /\ a[i] = s[i] /\ s[i] \in Held(s)
    BY <1>1, <2>1 DEF Held
  <2>3. CASE j = Len(s) + 1
    BY <1>1, <2>2, <2>3
  <2>4. CASE j \in 1..Len(s)
    BY <1>1, <2>1, <2>2, <2>4 DEF Sorted
  <2> QED BY <1>1, <2>3, <2>4
<1>3. Held(a) = Held(s) \cup {e}
  <2>1. ASSUME NEW i \in 1..Len(a) PROVE a[i] \in Held(s) \cup {e}
    BY <1>1 DEF Held
  <2>2. e \in Held(a)
    BY <1>1 DEF Held
  <2>3. ASSUME NEW i \in 1..Len(s) PROVE s[i] \in Held(a)
    <3>1. i \in 1..Len(a) /\ a[i] = s[i]
      BY <1>1
    <3> QED BY <3>1 DEF Held
  <2>4. Held(a) \subseteq Held(s) \cup {e}
    BY <2>1 DEF Held
  <2>5. Held(s) \subseteq Held(a)
    BY <2>3 DEF Held
  <2> QED BY <2>2, <2>4, <2>5
<1> QED BY <1>1, <1>2, <1>3 DEF a

LEMMA WithoutSorted ==
    ASSUME NEW s \in Seq(Entries), Sorted(s), NEW paths
    PROVE  /\ Without(s, paths) \in Seq(Entries)
           /\ Sorted(Without(s, paths))
           /\ Held(Without(s, paths)) = {x \in Held(s) : x.path \notin paths}
<1>0. PICK f : Without(s, paths) = f[DOMAIN s] /\ Removes(f, s, paths)
  BY WithoutSteps
<1>1. /\ Without(s, paths) = f[DOMAIN s]
      /\ f[{}] = <<>>
      /\ \A t \in SUBSET DOMAIN s : t # {} =>
            f[t] = IF s[Max(t)].path \in paths THEN f[t \ {Max(t)}]
                   ELSE Append(f[t \ {Max(t)}], s[Max(t)])
  BY <1>0 DEF Removes
<1>2. DOMAIN s \subseteq Nat /\ IsFiniteSet(DOMAIN s) /\ DOMAIN s = 1..Len(s)
  <2>1. DOMAIN s = 1..Len(s) /\ Len(s) \in Nat
    OBVIOUS
  <2> QED BY <2>1, FS_Interval
<1> DEFINE Kept(t) == {s[i] : i \in {j \in t : s[j].path \notin paths}}
           Good == {t \in SUBSET DOMAIN s : f[t] \in Seq(Entries) /\ Sorted(f[t]) /\ Held(f[t]) = Kept(t)}
<1>3. {} \in Good
  <2>1. <<>> \in Seq(Entries) /\ Sorted(<<>>) /\ Held(<<>>) = {}
    BY DEF Sorted, Held
  <2> QED BY <1>1, <2>1
<1>4. ASSUME NEW t \in SUBSET DOMAIN s, t # {}, t \ {Max(t)} \in Good PROVE t \in Good
  <2> DEFINE m == Max(t)
             u == t \ {m}
  <2>1. m \in t /\ \A i \in t : i <= m
    BY <1>2, <1>4, FS_Subset, LastOf
  <2>2. f[u] \in Seq(Entries) /\ Sorted(f[u]) /\ Held(f[u]) = Kept(u)
    BY <1>4
  <2>3. CASE s[m].path \in paths
    <3>1. f[t] = f[u]
      BY <1>1, <1>4, <2>3
    <3>2. Kept(t) = Kept(u)
      BY <2>3
    <3> HIDE DEF Kept, u, m
    <3> QED BY <2>2, <3>1, <3>2
  <2>4. CASE s[m].path \notin paths
    <3>1. f[t] = Append(f[u], s[m])
      BY <1>1, <1>4, <2>4
    <3>2. Kept(t) = Kept(u) \cup {s[m]}
      BY <2>1, <2>4
    <3>3. ASSUME NEW x \in Kept(u) PROVE x.path < s[m].path
      <4>1. PICK i \in u : x = s[i]
        BY <3>3
      <4>2. i \in 1..Len(s) /\ m \in 1..Len(s) /\ i < m
        <5>1. i \in t /\ i # m /\ i <= m
          BY <2>1, <4>1
        <5>2. i \in Nat /\ m \in Nat
          BY <1>2, <2>1, <5>1
        <5> HIDE DEF m, u
        <5> QED BY <1>2, <2>1, <5>1, <5>2
      <4> HIDE DEF m, u
      <4> QED BY <4>1, <4>2 DEF Sorted
    <3>4. s[m] \in Entries
      BY <1>2, <2>1
    <3> HIDE DEF Kept, u, m
    <3>5. \A x \in Held(f[u]) : x.path < s[m].path
      BY <2>2, <3>3
    <3>6. /\ Append(f[u], s[m]) \in Seq(Entries)
          /\ Sorted(Append(f[u], s[m]))
          /\ Held(Append(f[u], s[m])) = Held(f[u]) \cup {s[m]}
      BY <2>2, <3>4, <3>5, AppendSorted
    <3> QED BY <2>2, <3>1, <3>2, <3>6
  <2> QED BY <2>3, <2>4
<1>5. DOMAIN s \in Good
  <2> DEFINE S == DOMAIN s
  <2>1. S \subseteq Nat /\ IsFiniteSet(S) /\ \A t \in SUBSET S : t # {} /\ t \ {Max(t)} \in Good => t \in Good
    BY <1>2, <1>4
  <2> HIDE DEF Good, S
  <2>2. \A t \in SUBSET S : t \in Good
    BY <1>3, <2>1, UpToTheLast
  <2> QED BY <2>2 DEF S
<1>6. Kept(DOMAIN s) = {x \in Held(s) : x.path \notin paths}
  BY <1>2 DEF Held
<1> HIDE DEF Kept
<1> QED BY <1>1, <1>5, <1>6

LEMMA ReplacedSorted ==
    ASSUME NEW s \in Seq(Entries), Sorted(s), NEW new \in Inventories, NEW paths \in SUBSET Paths,
           \A p \in paths : new[p] # Absent
    PROVE  /\ Replaced(s, new, paths) \in Seq(Entries)
           /\ Sorted(Replaced(s, new, paths))
           /\ Held(Replaced(s, new, paths)) =
                {IF x.path \in paths THEN EntryOf(new, x.path) ELSE x : x \in Held(s)}
<1> DEFINE With(x) == IF x.path \in paths THEN EntryOf(new, x.path) ELSE x
           r == Replaced(s, new, paths)
<1>1. \A i \in 1..Len(s) : s[i] \in Entries /\ Len(s) \in Nat
  OBVIOUS
<1>2. ASSUME NEW x \in Entries PROVE With(x) \in Entries /\ With(x).path = x.path
  BY EntryOfIsEntry
<1>3. ASSUME NEW x \in Entries, x.path \in paths
      PROVE  [x EXCEPT !.observed = Observed[new[x.path]]] = EntryOf(new, x.path)
  <2>1. x = [path |-> x.path, observed |-> x.observed]
    BY DEF Entries
  <2> QED BY <2>1 DEF EntryOf
<1>4. r = [i \in 1..Len(s) |-> With(s[i])]
  <2>1. ASSUME NEW i \in 1..Len(s)
        PROVE  (IF s[i].path \in paths THEN [s[i] EXCEPT !.observed = Observed[new[s[i].path]]]
                ELSE s[i]) = With(s[i])
    BY <1>1, <1>3
  <2> HIDE DEF With
  <2> QED BY <2>1 DEF Replaced
<1> HIDE DEF With, r
<1>5. r \in Seq(Entries) /\ Len(r) = Len(s)
  <2>1. \A i \in 1..Len(s) : With(s[i]) \in Entries
    BY <1>1, <1>2
  <2> QED BY <1>4, <2>1
<1>6. Sorted(r)
  <2>1. SUFFICES ASSUME NEW i \in 1..Len(s), NEW j \in 1..Len(s), i < j PROVE r[i].path < r[j].path
    BY <1>5 DEF Sorted
  <2>2. r[i].path = s[i].path /\ r[j].path = s[j].path
    BY <1>1, <1>2, <1>4
  <2> QED BY <2>1, <2>2 DEF Sorted
<1>7. Held(r) = {With(x) : x \in Held(s)}
  <2>1. \A i \in 1..Len(s) : r[i] = With(s[i])
    BY <1>4
  <2> QED BY <1>5, <2>1 DEF Held
<1> QED BY <1>5, <1>6, <1>7 DEF r, With

----------------------------------------------------------------------------
(* The store after a diff.                                                                     *)

LEMMA HasEntryHeld == ASSUME NEW s, NEW p PROVE HasEntry(s, p) <=> \E x \in Held(s) : x.path = p
BY DEF HasEntry, Held

\* The entries of a store are those of an inventory, in path order.
Current(s, inv) ==
    /\ s \in Seq(Entries)
    /\ Sorted(s)
    /\ \A x \in Held(s) : inv[x.path] # Absent /\ x = EntryOf(inv, x.path)

\* What apply_diff does to the entries, one path at a time.
LEMMA DiffApplied ==
    ASSUME NEW s, NEW old \in Inventories, NEW new \in Inventories, NEW given, Current(s, old)
    PROVE  /\ Current(ApplyDiff(s, old, new, given), new)
           /\ \A p \in Added(old, new) \cap given : HasEntry(ApplyDiff(s, old, new, given), p)
           /\ \A p \in Paths : HasEntry(s, p) /\ p \notin Deleted(old, new) \cup (Changed(old, new) \ given)
                => HasEntry(ApplyDiff(s, old, new, given), p)
<1> DEFINE gone == Deleted(old, new) \cup (Changed(old, new) \ given)
           changed == Changed(old, new) \cap given
           added == Added(old, new) \cap given
           kept == Without(s, gone)
           replaced == Replaced(kept, new, changed)
           result == AddAll(replaced, new, added)
<1>1. ApplyDiff(s, old, new, given) = result
  BY DEF ApplyDiff
<1>2. s \in Seq(Entries) /\ Sorted(s) /\ \A x \in Held(s) : old[x.path] # Absent /\ x = EntryOf(old, x.path)
  BY DEF Current
<1>3. /\ changed \in SUBSET Paths /\ \A p \in changed : new[p] # Absent
      /\ added \in SUBSET Paths /\ \A p \in added : new[p] # Absent /\ old[p] = Absent
  BY DEF Changed, Added
<1>4. ASSUME NEW p \in Paths, old[p] # Absent, p \notin gone, p \notin changed
      PROVE  new[p] = old[p]
  BY <1>4 DEF Deleted, Changed
<1>5. ASSUME NEW p \in Paths, old[p] # Absent, p \notin gone PROVE new[p] # Absent
  BY <1>5 DEF Deleted
<1> HIDE DEF gone, changed, added, kept, replaced, result
<1>6. kept \in Seq(Entries) /\ Sorted(kept) /\ Held(kept) = {x \in Held(s) : x.path \notin gone}
  BY <1>2, WithoutSorted DEF kept
<1>7. /\ replaced \in Seq(Entries) /\ Sorted(replaced)
      /\ Held(replaced) = {IF x.path \in changed THEN EntryOf(new, x.path) ELSE x : x \in Held(kept)}
  BY <1>3, <1>6, ReplacedSorted DEF replaced
<1>8. Held(s) \subseteq Entries
  BY <1>2 DEF Held
<1>9. ASSUME NEW y \in Held(replaced)
      PROVE  \E x \in Held(s) : x.path \notin gone /\ y.path = x.path /\ y = EntryOf(new, x.path)
  <2>1. PICK x \in Held(kept) : y = IF x.path \in changed THEN EntryOf(new, x.path) ELSE x
    BY <1>7
  <2>2. x \in Held(s) /\ x.path \notin gone /\ x.path \in Paths
    BY <1>6, <1>8, EntryPath
  <2>3. new[x.path] # Absent
    BY <1>2, <1>5, <2>2
  <2>4. y = EntryOf(new, x.path)
    <3>1. CASE x.path \in changed
      BY <2>1, <3>1
    <3>2. CASE x.path \notin changed
      <4>1. new[x.path] = old[x.path]
        BY <1>2, <1>4, <2>2, <3>2
      <4>2. EntryOf(new, x.path) = EntryOf(old, x.path)
        BY <4>1 DEF EntryOf
      <4> QED BY <1>2, <2>1, <2>2, <3>2, <4>2
    <3> QED BY <3>1, <3>2
  <2>5. y.path = x.path
    BY <2>2, <2>3, <2>4, EntryOfIsEntry
  <2> QED BY <2>2, <2>4, <2>5
<1>10. ASSUME NEW p \in added PROVE ~HasEntry(replaced, p)
  <2>1. SUFFICES ASSUME NEW y \in Held(replaced), y.path = p PROVE FALSE
    BY HasEntryHeld
  <2>2. PICK x \in Held(s) : y.path = x.path
    BY <1>9
  <2> QED BY <1>2, <1>3, <2>1, <2>2
<1>11. /\ result \in Seq(Entries) /\ Sorted(result)
       /\ Held(result) = Held(replaced) \cup {EntryOf(new, p) : p \in added}
  <2>1. \A p \in added : new[p] # Absent /\ ~HasEntry(replaced, p)
    BY <1>3, <1>10
  <2> QED BY <1>3, <1>7, <2>1, AddAllSorted DEF result
<1>12. ASSUME NEW y \in Held(result) PROVE new[y.path] # Absent /\ y = EntryOf(new, y.path)
  <2>1. CASE y \in Held(replaced)
    <3>1. PICK x \in Held(s) : x.path \notin gone /\ y.path = x.path /\ y = EntryOf(new, x.path)
      BY <1>9, <2>1
    <3>2. x.path \in Paths /\ old[x.path] # Absent
      BY <1>2, <1>8, EntryPath
    <3> QED BY <1>5, <3>1, <3>2
  <2>2. CASE y \in {EntryOf(new, p) : p \in added}
    <3>1. PICK p \in added : y = EntryOf(new, p)
      BY <2>2
    <3>2. y.path = p /\ new[p] # Absent
      BY <1>3, <3>1, EntryOfIsEntry
    <3> QED BY <3>1, <3>2
  <2> QED BY <1>11, <2>1, <2>2
<1>13. Current(result, new)
  BY <1>11, <1>12 DEF Current
<1>14. ASSUME NEW p \in added PROVE HasEntry(result, p)
  <2>1. EntryOf(new, p) \in Held(result) /\ EntryOf(new, p).path = p
    BY <1>3, <1>11, EntryOfIsEntry
  <2> QED BY <2>1, HasEntryHeld
<1>15. ASSUME NEW p \in Paths, HasEntry(s, p), p \notin gone PROVE HasEntry(result, p)
  <2>1. PICK x \in Held(s) : x.path = p
    BY <1>15, HasEntryHeld
  <2>2. x \in Held(kept)
    BY <1>6, <1>15, <2>1
  <2> DEFINE y == IF x.path \in changed THEN EntryOf(new, x.path) ELSE x
  <2>3. y \in Held(result)
    <3>1. y \in Held(replaced)
      BY <1>7, <2>2
    <3> HIDE DEF y
    <3> QED BY <1>11, <3>1
  <2>4. y.path = p
    <3>1. x.path \in changed => EntryOf(new, x.path).path = x.path
      BY <1>3, EntryOfIsEntry
    <3> QED BY <2>1, <3>1
  <2> HIDE DEF y
  <2> QED BY <2>3, <2>4, HasEntryHeld
<1> QED BY <1>1, <1>13, <1>14, <1>15 DEF gone, added

LEMMA Learned ==
    ASSUME NEW new \in Inventories PROVE Current(AddAll(<<>>, new, Observable(new)), new)
<1> DEFINE none == <<>>
           result == AddAll(none, new, Observable(new))
<1>1. none \in Seq(Entries) /\ Sorted(none) /\ Held(none) = {} /\ \A p : ~HasEntry(none, p)
  BY DEF Sorted, Held, HasEntry
<1>2. Observable(new) \in SUBSET Paths /\ \A p \in Observable(new) : new[p] # Absent
  BY DEF Observable
<1> HIDE DEF none
<1>3. /\ result \in Seq(Entries) /\ Sorted(result)
      /\ Held(result) = Held(none) \cup {EntryOf(new, p) : p \in Observable(new)}
  BY <1>1, <1>2, AddAllSorted
<1>4. ASSUME NEW y \in Held(result) PROVE new[y.path] # Absent /\ y = EntryOf(new, y.path)
  <2>1. PICK p \in Observable(new) : y = EntryOf(new, p)
    BY <1>1, <1>3
  <2> QED BY <1>2, <2>1, EntryOfIsEntry
<1>5. Current(result, new)
  BY <1>3, <1>4 DEF Current
<1> QED BY <1>5 DEF none

\* The store is current at every state, and while an analysis is under way it is still that of
\* the inventory it started from.
StoreInv == TypeOK /\ Current(store, inventory)

LEMMA StoreInit == Init => StoreInv
<1> SUFFICES ASSUME Init PROVE StoreInv
  OBVIOUS
<1>1. TypeOK
  BY DEF Init, TypeOK, Inventories
<1>2. store = <<>> /\ <<>> \in Seq(Entries)
  BY DEF Init
<1>3. Sorted(<<>>) /\ Held(<<>>) = {}
  BY DEF Sorted, Held
<1>4. Current(store, inventory)
  BY <1>2, <1>3 DEF Current
<1> QED BY <1>1, <1>4 DEF StoreInv

LEMMA StoreStep == StoreInv /\ [Next]_vars => StoreInv'
<1> SUFFICES ASSUME StoreInv, [Next]_vars PROVE StoreInv'
  OBVIOUS
<1>1. TypeOK /\ Current(store, inventory)
  BY DEF StoreInv
<1>2. TypeOK'
  BY <1>1, TypeStep
<1>3. Current(store', inventory')
  <2>1. ASSUME NEW new \in Inventories, Learn(new) PROVE Current(store', inventory')
    BY <2>1, Learned DEF Learn
  <2>2. ASSUME NEW new \in Inventories, NEW g \in Graphs, Compare(new, g) PROVE Current(store', inventory')
    BY <1>1, <2>2 DEF Compare
  <2>3. ASSUME NEW p \in Paths, Process(p) PROVE Current(store', inventory')
    BY <1>1, <2>3 DEF Process
  <2>4. CASE Update
    <3>1. PICK given : store' = ApplyDiff(store, inventory, next, given) /\ inventory' = next
      BY <2>4 DEF Update
    <3>2. inventory \in Inventories /\ next \in Inventories
      BY <1>1 DEF TypeOK
    <3>3. Current(ApplyDiff(store, inventory, next, given), next)
      BY <1>1, <3>2, DiffApplied
    <3> QED BY <3>1, <3>3
  <2>5. CASE UNCHANGED vars
    BY <1>1, <2>5 DEF vars
  <2> QED BY <2>1, <2>2, <2>3, <2>4, <2>5 DEF Next
<1>4. Current(store, inventory)'
  BY <1>3 DEF Current, Held, Sorted, EntryOf
<1> QED BY <1>2, <1>4 DEF StoreInv

LEMMA CurrentStore == StoreInv => StoreIsCurrent
<1> SUFFICES ASSUME StoreInv PROVE StoreIsCurrent
  OBVIOUS
<1>1. Current(store, inventory)
  BY DEF StoreInv
<1>2. ASSUME NEW i \in 1..Len(store)
      PROVE  inventory[store[i].path] # Absent /\ store[i].observed = Observed[inventory[store[i].path]]
  <2>1. store[i] \in Held(store)
    BY DEF Held
  <2>2. inventory[store[i].path] # Absent /\ store[i] = EntryOf(inventory, store[i].path)
    BY <1>1, <2>1 DEF Current
  <2> QED BY <2>2 DEF EntryOf
<1> QED BY <1>1, <1>2 DEF StoreIsCurrent, Current, Sorted

\* After any sequence of full and incremental runs each entry of the store is what its file has,
\* once, in path order (observations.py:97, 114).
THEOREM StoreCorrect == Spec => []StoreIsCurrent
BY StoreInit, StoreStep, CurrentStore, PTL DEF Spec

LEMMA KeepsUpStep == StoreInv /\ [Next]_vars =>
    (Update => \A p \in Observable(next) :
         HasEntry(store, p) \/ inventory[p] = Absent => HasEntry(store', p))
<1> SUFFICES ASSUME StoreInv, Update, NEW p \in Observable(next),
                    HasEntry(store, p) \/ inventory[p] = Absent
             PROVE  HasEntry(store', p)
  OBVIOUS
<1> DEFINE Unobserved == {q \in Recompute : next[q] # Absent /\ Observed[next[q]] = Nothing}
<1>1. PICK unobserved \in SUBSET Unobserved :
        store' = ApplyDiff(store, inventory, next, (Recompute \cap Observable(next)) \cup unobserved)
  BY DEF Update
<1> DEFINE given == (Recompute \cap Observable(next)) \cup unobserved
<1>2. inventory \in Inventories /\ next \in Inventories /\ Current(store, inventory)
  BY DEF StoreInv, TypeOK
<1>3. p \in Paths /\ next[p] # Absent
  BY DEF Observable
<1>4. inventory[p] # next[p] => p \in given
  BY <1>3 DEF Recompute, Differing
<1> HIDE DEF given
<1>5. /\ \A q \in Added(inventory, next) \cap given : HasEntry(ApplyDiff(store, inventory, next, given), q)
      /\ \A q \in Paths :
           HasEntry(store, q) /\ q \notin Deleted(inventory, next) \cup (Changed(inventory, next) \ given)
             => HasEntry(ApplyDiff(store, inventory, next, given), q)
  BY <1>2, DiffApplied
<1>6. store' = ApplyDiff(store, inventory, next, given)
  BY <1>1 DEF given
<1>7. CASE inventory[p] = Absent
  <2>1. p \in Added(inventory, next) \cap given
    BY <1>3, <1>4, <1>7 DEF Added
  <2> QED BY <1>5, <1>6, <2>1
<1>8. CASE HasEntry(store, p)
  <2>1. p \notin Deleted(inventory, next) \cup (Changed(inventory, next) \ given)
    BY <1>3, <1>4 DEF Deleted, Changed
  <2> QED BY <1>3, <1>5, <1>6, <1>8, <2>1
<1> QED BY <1>7, <1>8

\* An update keeps every file that has an entry or is new, and in which something is observed
\* (observations.py:119).
THEOREM UpdatesKeepUp == Spec => UpdateKeepsUp
<1>1. StoreInv /\ [Next]_vars => [Update => \A p \in Observable(next) :
         HasEntry(store, p) \/ inventory[p] = Absent => HasEntry(store', p)]_vars
  BY KeepsUpStep
<1> QED BY <1>1, StoreInit, StoreStep, PTL DEF Spec, UpdateKeepsUp
=============================================================================
