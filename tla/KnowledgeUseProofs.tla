------------------------- MODULE KnowledgeUseProofs -------------------------
(***************************************************************************)
(* What a learner saves agrees with the repository, the rules it saves are *)
(* ones enough of the repository bears out, code that passes the gate      *)
(* keeps to the context it was asked for, and published code teaches the   *)
(* rules it was made from: for any repository, edits and versions of the   *)
(* learner, whatever runs beside it.                                       *)
(***************************************************************************)
EXTENDS KnowledgeUse, FiniteSetTheorems, WellFoundedInduction, TLAPS

\* A set of paths that is not empty has a first one, the file that is opened next.
LEMMA FirstFile == ASSUME NEW S, S \subseteq Nat, S # {} PROVE Min(S) \in S
<1> DEFINE Below == {ss \in Nat \X Nat : ss[1] < ss[2]}
<1>1. IsWellFoundedOn(Below, Nat)
  BY NatLessThanWellFounded DEF OpToRel
<1>2. PICK x \in S : \A y \in S : <<y, x>> \notin Below
  <2> HIDE DEF Below
  <2> QED BY <1>1, WFMin
<1>3. \A y \in S : x =< y
  <2>1. SUFFICES ASSUME NEW y \in S PROVE ~(y < x)
    BY <1>2
  <2>2. y < x => <<y, x>> \in Below
    BY <1>2
  <2> QED BY <1>2, <2>2
<1> QED BY <1>3 DEF Min

-----------------------------------------------------------------------------
(* The invariant: what a learner at work has read is what it scanned, as far as it has come,   *)
(* and if nobody has edited since, both are what the repository holds.                         *)

IsMap(f) == f = [x \in DOMAIN f |-> f[x]]

Steady ==
    /\ phase # "idle" /\ steady =>
        /\ scanned = Inventory(repository)
        /\ \A f \in DOMAIN read : read[f] = repository[f]
    /\ phase = "saving" /\ steady => inferred = RulesOf(repository)

Coherent ==
    /\ IsMap(read) /\ DOMAIN read \subseteq DOMAIN scanned
    /\ phase = "idle" => read = Nothing
    /\ Steady

IInv == TypeOK /\ Coherent

LEMMA NothingIsMap == IsMap(Nothing) /\ DOMAIN Nothing = {}
BY DEF IsMap, Nothing

LEMMA InitInv == Init => IInv
<1> SUFFICES ASSUME Init PROVE IInv
  OBVIOUS
<1>1. DOMAIN repository = Files
  BY RepositoriesAssumption DEF Init, LearningInit
<1>2. scanned = Nothing /\ read = Nothing /\ phase = "idle"
  BY DEF Init, LearningInit
<1>3. task \in Tasks
  BY RunsAssumption DEF Init
<1>4. TypeOK
  BY <1>1, <1>2, <1>3, NothingIsMap, BoundsAssumption, RunsAssumption
  DEF Init, LearningInit, TypeOK
<1>5. Coherent
  BY <1>2, NothingIsMap DEF Coherent, Steady
<1> QED BY <1>4, <1>5 DEF IInv

\* The file that is opened next is in the inventory and has not been read.
LEMMA OpenedFile == ASSUME TypeOK, Pending # {} PROVE Min(Pending) \in DOMAIN scanned \ DOMAIN read
<1>1. Pending \subseteq Nat
  BY FilesAssumption, LearnableAssumption DEF TypeOK, Pending
<1> QED BY <1>1, FirstFile DEF Pending

\* A pass that has opened every file has read the repository.
LEMMA PassComplete ==
    ASSUME Coherent, phase # "idle", steady, Pending = {}
    PROVE  read = Inventory(repository)
<1>1. scanned = Inventory(repository) /\ DOMAIN read = DOMAIN scanned
  BY DEF Coherent, Steady, Pending
<1>2. \A f \in DOMAIN read : read[f] = Inventory(repository)[f]
  BY <1>1 DEF Coherent, Steady, Inventory
<1>3. Inventory(repository) = [f \in DOMAIN read |-> Inventory(repository)[f]]
  BY <1>1 DEF Inventory
<1> QED BY <1>2, <1>3 DEF Coherent, IsMap

\* The end of a call leaves nothing to be coherent with.
LEMMA LeaveInv == ASSUME IInv, Leave, UNCHANGED runVars PROVE IInv'
<1>1. phase' = "idle" /\ scanned' = Nothing /\ read' = Nothing
  BY DEF Leave
<1>2. TypeOK'
  BY <1>1, NothingIsMap DEF IInv, TypeOK, Leave, runVars
<1>3. Coherent'
  BY <1>1, NothingIsMap DEF Coherent, Steady, IsMap
<1> QED BY <1>2, <1>3 DEF IInv

\* A step that leaves the learner and the repository alone.
LEMMA ElsewhereInv ==
    ASSUME IInv, TypeOK', UNCHANGED <<repository, learnerVars, steady>>
    PROVE  IInv'
BY DEF IInv, Coherent, Steady, IsMap, learnerVars, Inventory, RulesOf

LEMMA StepInv == IInv /\ [Next]_vars => IInv'
<1> SUFFICES ASSUME IInv, [Next]_vars PROVE IInv'
  OBVIOUS
<1>1. ASSUME NEW p \in ParserVersions, NEW s \in BOOLEAN, BeginLearn(p, s), UNCHANGED runVars
      PROVE  IInv'
  <2>1. read' = Nothing /\ scanned' = Inventory(repository) /\ phase' = "parsing"
        /\ repository' = repository
    BY <1>1 DEF BeginLearn, IInv, Coherent
  <2>2. DOMAIN scanned' \subseteq Learnable
    BY <2>1 DEF Inventory
  <2>3. TypeOK'
    BY <1>1, <2>1, <2>2, NothingIsMap, BoundsAssumption DEF BeginLearn, runVars, IInv, TypeOK
  <2>4. Coherent'
    BY <2>1, NothingIsMap DEF Coherent, Steady, IsMap, Inventory
  <2> QED BY <2>3, <2>4 DEF IInv
<1>2. CASE ParseFile /\ UNCHANGED runVars
  <2> DEFINE f == Min(Pending)
  <2>1. f \in DOMAIN scanned \ DOMAIN read
    BY <1>2, OpenedFile DEF ParseFile, IInv
  <2>2. read' = [g \in DOMAIN read \cup {f} |-> IF g = f THEN repository[f] ELSE read[g]]
    BY <1>2 DEF ParseFile
  <2>3. UNCHANGED <<repository, phase, scanned, inferred, steady, learns, edits, runVars>>
        /\ phase # "idle"
    BY <1>2 DEF ParseFile
  <2> HIDE DEF f
  <2>4. IsMap(read') /\ DOMAIN read' = DOMAIN read \cup {f}
    BY <2>2 DEF IsMap
  <2>5. TypeOK'
    BY <2>1, <2>3, <2>4 DEF IInv, TypeOK, runVars
  <2>6. Steady'
    BY <2>1, <2>2, <2>3, <2>4 DEF IInv, Coherent, Steady, Inventory, RulesOf
  <2> QED BY <2>1, <2>3, <2>4, <2>5, <2>6 DEF IInv, Coherent
<1>3. CASE (ParseFails \/ SaveState \/ ReplaceRules) /\ UNCHANGED runVars
  BY <1>3, LeaveInv DEF ParseFails, SaveState, ReplaceRules
<1>4. CASE Infer /\ UNCHANGED runVars
  <2>1. /\ phase = "parsing" /\ phase' = "saving" /\ read' = Nothing /\ Pending = {}
        /\ inferred' = LearnedRules(read)
        /\ UNCHANGED <<repository, scanned, learns, edits, steady, runVars>>
    BY <1>4 DEF Infer
  <2>2. TypeOK'
    BY <2>1, NothingIsMap DEF IInv, TypeOK, runVars
  <2>3. steady => inferred' = RulesOf(repository)
    BY <2>1, PassComplete DEF IInv, RulesOf
  <2>4. Coherent'
    BY <2>1, <2>3, NothingIsMap DEF IInv, Coherent, Steady, IsMap, Inventory, RulesOf
  <2> QED BY <2>2, <2>4 DEF IInv
<1>5. ASSUME NEW e \in Edits, Edit(e[1], e[2]), UNCHANGED runVars PROVE IInv'
  <2>1. TypeOK'
    BY <1>5, BoundsAssumption DEF Edit, learnerVars, runVars, IInv, TypeOK
  <2>2. Coherent'
    BY <1>5 DEF Edit, learnerVars, IInv, Coherent, Steady, IsMap
  <2> QED BY <2>1, <2>2 DEF IInv
<1>6. ASSUME NEW t \in Tasks, Retrieve(t) PROVE IInv'
  BY <1>6, ElsewhereInv, RunsAssumption DEF Retrieve, learnerVars, IInv, TypeOK
<1>7. CASE Generate
  BY <1>7, ElsewhereInv DEF Generate, learnerVars, IInv, TypeOK
<1>8. CASE Comply \/ ComplianceFails
  BY <1>8, ElsewhereInv DEF Comply, ComplianceFails, EndRun, learnerVars, IInv, TypeOK
<1>9. CASE Publish
  <2>1. TypeOK'
    BY <1>9 DEF Publish, EndRun, learnerVars, IInv, TypeOK
  <2>2. CASE repository[Target] = Absent /\ repository[Beside] = Absent
    <3>1. steady' = (phase = "idle") /\ UNCHANGED <<phase, read, scanned, inferred>>
      BY <1>9, <2>2 DEF Publish, learnerVars
    <3>2. phase' # "idle" => ~steady'
      BY <3>1
    <3>3. Steady'
      BY <3>1, <3>2 DEF Steady
    <3>4. Coherent'
      BY <3>1, <3>3 DEF IInv, Coherent, IsMap
    <3> QED BY <2>1, <3>4 DEF IInv
  <2>3. CASE ~(repository[Target] = Absent /\ repository[Beside] = Absent)
    BY <1>9, <2>1, <2>3, ElsewhereInv DEF Publish, learnerVars
  <2> QED BY <2>1, <2>2, <2>3 DEF IInv
<1>10. CASE UNCHANGED vars
  BY <1>10, ElsewhereInv DEF vars, learnerVars, runVars, IInv, TypeOK
<1> QED
  BY <1>1, <1>2, <1>3, <1>4, <1>5, <1>6, <1>7, <1>8, <1>9, <1>10 DEF Next, LearnerStep

\* The variables keep their types, whatever the bounds, the files and the edits are.
THEOREM TypeCorrect == Spec => []TypeOK
<1>1. IInv => TypeOK
  BY DEF IInv
<1> QED BY InitInv, StepInv, <1>1, PTL DEF Spec

\* One step that changes the saved state saves what a learner would make of the repository.
LEMMA SavedState ==
    ASSUME IInv, [Next]_vars, saved' # saved, steady
    PROVE  saved' = LearningState(RulesOf(repository), Inventory(repository), version,
                                  Inventory(repository))
<1>1. SaveState
  BY DEF Next, LearnerStep, BeginLearn, ParseFile, ParseFails, Leave, Infer, ReplaceRules, Edit,
         Retrieve, Generate, Comply, ComplianceFails, Publish, learnerVars, vars
<1>2. phase = "saving" /\ Pending = {} /\ saved' = LearningState(inferred, scanned, version, read)
  BY <1>1 DEF SaveState
<1>3. read = Inventory(repository)
  BY <1>2, PassComplete DEF IInv
<1>4. inferred = RulesOf(repository) /\ scanned = Inventory(repository)
  BY <1>2 DEF IInv, Coherent, Steady
<1> QED BY <1>2, <1>3, <1>4

\* What learn saves after its second pass agrees with the repository, unless it was edited
\* while learn was at work (learner.py:212).
THEOREM SavedStateAgrees == Spec => SavedAgrees
<1>1. IInv /\ [Next]_vars =>
        [(saved' # saved /\ steady) =>
            saved' = LearningState(RulesOf(repository), Inventory(repository), version,
                                   Inventory(repository))]_vars
  BY SavedState
<1> QED BY InitInv, StepInv, <1>1, PTL DEF Spec, SavedAgrees

-----------------------------------------------------------------------------
(* The compliance gate and the context, which read the rules each in its own way               *)

\* Rules a service can be generated from.
Usable(rules) ==
    LET context == CodingContext(rules, "service") IN
    /\ \A kind \in StructureKinds : Selectable(rules, <<"service", kind>>)
    /\ NoImport \notin {context.base.imported, context.decorator.imported}
    /\ \A d \in context.dependencies : \A v \in d.required : Supported(v)

LEMMA RetrievedIsUsable ==
    ASSUME NEW rules, NEW t, NEW sources, t.family = "service",
           RetrievalOutcome(rules, t, sources) = "framework_retrieved"
    PROVE  Usable(rules)
BY DEF RetrievalOutcome, Usable

\* A kind that select_rule selects from has a rule.
LEMMA SelectableHasRule ==
    ASSUME NEW rules, NEW kind, Selectable(rules, kind) PROVE OfKind(rules, kind) # {}
<1>1. ASSUME OfKind(rules, kind) = {} PROVE FALSE
  <2>1. Best(rules, kind) = {}
    BY <1>1 DEF Best
  <2> QED BY <2>1, FS_EmptySet DEF Selectable
<1> QED BY <1>1

\* A structural rule of a file without findings.
LEMMA StructureHonoured ==
    ASSUME NEW file, NEW class, NEW rules, NEW kind \in StructureKinds, Usable(rules),
           StructureFindings(file, class, rules, "service") = {}
    PROVE  LET rule == Selected(rules, <<"service", kind>>) IN
           /\ rule.value \in Range(Nodes(class, kind))
           /\ Provenance(file, rule.value, rule.imported)
<1>1. OfKind(rules, <<"service", kind>>) # {}
  BY SelectableHasRule DEF Usable
<1> QED BY <1>1 DEF StructureFindings

\* The first service class of a file the gate lets through has what the context demands,
\* whoever wrote the file.
LEMMA GateHonoursContext ==
    ASSUME NEW file, NEW rules, Usable(rules), ValidateService(file, rules)
    PROVE  Honours(file, file.classes[Min(OfFamily(file, "service"))], CodingContext(rules, "service"))
<1> DEFINE class == file.classes[Min(OfFamily(file, "service"))]
           context == CodingContext(rules, "service")
<1>1. /\ StructureFindings(file, class, rules, "service") = {}
      /\ \A r \in Dependencies(rules) : DependencyComplies(file, class, r)
  BY DEF ValidateService, ValidateArtifact
<1>2. /\ context.base = Selected(rules, <<"service", "base_class">>)
      /\ context.decorator = Selected(rules, <<"service", "required_decorator">>)
      /\ context.dependencies = {DependencyContext(r) : r \in Dependencies(rules)}
  BY DEF CodingContext
<1>3. NoImport \notin {context.base.imported, context.decorator.imported}
  BY DEF Usable
<1> HIDE DEF class, context
<1>4. /\ context.base.value \in Range(class.bases)
      /\ Imported(file, context.base.value) = context.base.imported
  BY <1>1, <1>2, <1>3, StructureHonoured DEF StructureKinds, Nodes, Provenance
<1>5. /\ context.decorator.value \in Range(class.decorators)
      /\ Imported(file, context.decorator.value) = context.decorator.imported
  BY <1>1, <1>2, <1>3, StructureHonoured DEF StructureKinds, Nodes, Provenance
<1>6. ASSUME NEW d \in context.dependencies
      PROVE  /\ d.attribute \in DOMAIN Assigned(class)
             /\ Assigned(class)[d.attribute].type = d.type
             /\ Constructed(Assigned(class)[d.attribute].arguments) = d.arguments
             /\ \A m \in Operations(class), v \in d.required :
                   v \in InvocationsIn(class, {m}, d.attribute)
             /\ d.imported # NoImport => Imported(file, d.type) = d.imported
  <2>1. PICK r \in Dependencies(rules) : d = DependencyContext(r)
    BY <1>2, <1>6
  <2>2. DependencyComplies(file, class, r)
    BY <1>1, <2>1
  <2>3. /\ d.attribute = r.value /\ d.type = TypeOf(r) /\ d.arguments = r.arguments
        /\ d.required = r.required
        /\ d.imported = IF Cardinality(r.modules) = 1 THEN r.concrete[TypeOf(r)] ELSE NoImport
    BY <2>1 DEF DependencyContext
  <2>4. d.imported # NoImport => r.modules # {}
    BY <2>3, FS_EmptySet
  <2> QED BY <2>2, <2>3, <2>4 DEF DependencyComplies, Provenance
<1>7. ASSUME NEW i \in ImportsOf(context) PROVE Imported(file, i[1]) = i[2]
  BY <1>4, <1>5, <1>6, <1>7 DEF ImportsOf
<1> QED BY <1>4, <1>5, <1>6, <1>7 DEF Honours, class, context

\* What every class proposed for a task is like, whatever slip was made: nothing in it that the
\* context does not give.
ClassShaped(class, t, context) ==
    /\ class.family = t.family
    /\ class.bases \in {<<>>, <<context.base.value>>}
    /\ class.decorators \in {<<>>, <<context.decorator.value>>}
    /\ DOMAIN class.fields \subseteq {d.attribute : d \in context.dependencies}
    /\ DOMAIN class.calls = t.operations \cup {"__init__"}
    /\ \A m \in DOMAIN class.calls : class.calls[m] \subseteq RenderedCalls(context)

\* A file proposed for a task has one such class or none, and no imports but those of the context.
Shaped(file, t, context) ==
    /\ DOMAIN file.classes \subseteq {1}
    /\ \A i \in DOMAIN file.classes : ClassShaped(file.classes[i], t, context)
    /\ DOMAIN file.imports \subseteq {i[1] : i \in ImportsOf(context)}

\* A development run keeps the rules it has retrieved, with an operation to make the required
\* calls in; its draft is shaped for its task, and what was judged is what is published.
GateInv ==
    /\ stage # "idle" /\ task.family = "service" =>
         /\ Usable(used)
         /\ (\E d \in Context.dependencies : d.required # {}) => task.operations # {}
    /\ stage \in {"drafted", "complied"} =>
         /\ Shaped(draft, task, Context)
         /\ companion = TestFile \/ (Shaped(companion, task, Context) /\ companion.imports = draft.imports)
    /\ stage = "complied" => ValidateService(draft, used)

LEMMA GeneratedIsShaped ==
    ASSUME NEW t, NEW context PROVE ClassShaped(GeneratedClass(t, context), t, context)
<1> DEFINE class == GeneratedClass(t, context)
           calls == [m \in t.operations \cup {"__init__"} |->
                       IF m = "__init__" THEN {} ELSE RenderedCalls(context)]
<1>1. /\ class.family = t.family /\ class.bases = <<context.base.value>>
      /\ class.decorators = <<context.decorator.value>>
      /\ DOMAIN class.fields = {d.attribute : d \in context.dependencies}
  BY DEF GeneratedClass
<1>2. class.calls = calls
  BY DEF GeneratedClass
<1>3. DOMAIN calls = t.operations \cup {"__init__"} /\ \A m \in DOMAIN calls : calls[m] \subseteq RenderedCalls(context)
  OBVIOUS
<1> HIDE DEF class, calls
<1>4. ClassShaped(class, t, context)
  BY <1>1, <1>2, <1>3 DEF ClassShaped
<1> QED BY <1>4 DEF class

LEMMA SlipsAreShaped ==
    ASSUME NEW t, NEW context, NEW class \in ClassSlips(GeneratedClass(t, context))
    PROVE  ClassShaped(class, t, context)
<1> DEFINE generated == GeneratedClass(t, context)
<1>1. /\ generated = [family |-> t.family, bases |-> generated.bases, decorators |-> generated.decorators,
                      fields |-> generated.fields, others |-> generated.others, calls |-> generated.calls]
  BY DEF GeneratedClass
<1>2. ClassShaped(generated, t, context)
  BY GeneratedIsShaped
<1> HIDE DEF generated
<1>3. \/ class = [generated EXCEPT !.bases = <<>>]
      \/ class = [generated EXCEPT !.decorators = <<>>]
      \/ \E lost : class = [generated EXCEPT !.fields = Without(generated, lost)]
      \/ \E moved, others : class = [generated EXCEPT !.fields = Without(generated, moved), !.others = others]
      \/ \E a : class = [generated EXCEPT !.fields[a].arguments = <<>>]
      \/ \E a, others : class = [generated EXCEPT !.fields[a].arguments = <<>>, !.others = others]
      \/ \E m : class = [generated EXCEPT !.calls[m] = {}]
  BY Zenon DEF ClassSlips, generated
<1>4. CASE class = [generated EXCEPT !.bases = <<>>]
  <2>1. /\ class.bases = <<>> /\ class.family = generated.family /\ class.decorators = generated.decorators
        /\ class.fields = generated.fields /\ class.calls = generated.calls
    BY <1>1, <1>4
  <2> QED BY <1>2, <2>1 DEF ClassShaped
<1>5. CASE class = [generated EXCEPT !.decorators = <<>>]
  <2>1. /\ class.decorators = <<>> /\ class.family = generated.family /\ class.bases = generated.bases
        /\ class.fields = generated.fields /\ class.calls = generated.calls
    BY <1>1, <1>5
  <2> QED BY <1>2, <2>1 DEF ClassShaped
<1>6. ASSUME NEW lost, NEW others,
             \/ class = [generated EXCEPT !.fields = Without(generated, lost)]
             \/ class = [generated EXCEPT !.fields = Without(generated, lost), !.others = others]
      PROVE  ClassShaped(class, t, context)
  <2>1. /\ class.fields = Without(generated, lost)
        /\ class.family = generated.family /\ class.bases = generated.bases
        /\ class.decorators = generated.decorators /\ class.calls = generated.calls
    BY <1>1, <1>6
  <2>2. DOMAIN class.fields = DOMAIN generated.fields \ {lost}
    BY <2>1 DEF Without
  <2> QED BY <1>2, <2>1, <2>2 DEF ClassShaped
<1>7. ASSUME NEW a, NEW others,
             \/ class = [generated EXCEPT !.fields[a].arguments = <<>>]
             \/ class = [generated EXCEPT !.fields[a].arguments = <<>>, !.others = others]
      PROVE  ClassShaped(class, t, context)
  <2> DEFINE fields == [generated.fields EXCEPT ![a].arguments = <<>>]
  <2>1. \/ class = [generated EXCEPT !.fields = fields]
        \/ class = [generated EXCEPT !.fields = fields, !.others = others]
    BY <1>7, <1>1
  <2>2. DOMAIN fields = DOMAIN generated.fields
    OBVIOUS
  <2> HIDE DEF fields
  <2>3. /\ class.fields = fields
        /\ class.family = generated.family /\ class.bases = generated.bases
        /\ class.decorators = generated.decorators /\ class.calls = generated.calls
    BY <1>1, <2>1
  <2> QED BY <1>2, <2>2, <2>3 DEF ClassShaped
<1>8. ASSUME NEW m, class = [generated EXCEPT !.calls[m] = {}]
      PROVE  ClassShaped(class, t, context)
  <2>1. /\ class.calls = [generated.calls EXCEPT ![m] = {}] /\ class.fields = generated.fields
        /\ class.family = generated.family /\ class.bases = generated.bases
        /\ class.decorators = generated.decorators
    BY <1>1, <1>8
  <2>2. /\ DOMAIN class.calls = DOMAIN generated.calls
        /\ \A n \in DOMAIN class.calls : class.calls[n] = generated.calls[n] \/ class.calls[n] = {}
    BY <2>1
  <2> QED BY <1>2, <2>1, <2>2 DEF ClassShaped
<1> QED BY <1>3, <1>4, <1>5, <1>6, <1>7, <1>8, Zenon

LEMMA DraftIsShaped ==
    ASSUME NEW t, NEW context, NEW file \in {GeneratedFile(t, context)} \cup Slips(GeneratedFile(t, context))
    PROVE  Shaped(file, t, context)
<1> DEFINE generated == GeneratedFile(t, context)
           names == {i[1] : i \in ImportsOf(context)}
           class == GeneratedClass(t, context)
<1>1. /\ generated = [imports |-> generated.imports, classes |-> <<class>>]
      /\ DOMAIN generated.imports = names
  BY DEF GeneratedFile, RenderedImports
<1>2. ClassShaped(class, t, context)
  BY GeneratedIsShaped
<1>3. \A c \in ClassSlips(class) : ClassShaped(c, t, context)
  BY SlipsAreShaped
<1>4. \/ file = generated
      \/ file = [generated EXCEPT !.classes = <<>>]
      \/ \E lost : file = [generated EXCEPT !.imports =
                               [n \in DOMAIN generated.imports \ {lost} |-> generated.imports[n]]]
      \/ \E n, m : file = [generated EXCEPT !.imports[n] = m]
      \/ \E c \in ClassSlips(generated.classes[1]) : file = [generated EXCEPT !.classes = <<c>>]
  BY Zenon DEF Slips
<1>5. generated.classes[1] = class
  BY <1>1
<1> HIDE DEF generated, class, names
<1>6. /\ DOMAIN generated.classes = {1} /\ generated.classes[1] = class
  BY <1>1
<1>7. CASE file = generated
  BY <1>1, <1>2, <1>6, <1>7 DEF Shaped, names
<1>8. CASE file = [generated EXCEPT !.classes = <<>>]
  <2>1. DOMAIN file.classes = {} /\ file.imports = generated.imports
    BY <1>1, <1>8
  <2> QED BY <2>1, <1>1 DEF Shaped, names
<1>9. ASSUME NEW lost, file = [generated EXCEPT !.imports =
                                 [n \in DOMAIN generated.imports \ {lost} |-> generated.imports[n]]]
      PROVE  Shaped(file, t, context)
  <2>1. file.classes = generated.classes /\ DOMAIN file.imports = DOMAIN generated.imports \ {lost}
    BY <1>1, <1>9
  <2> QED BY <2>1, <1>1, <1>2, <1>6 DEF Shaped, names
<1>10. ASSUME NEW n, NEW m, file = [generated EXCEPT !.imports[n] = m]
       PROVE  Shaped(file, t, context)
  <2>1. file.classes = generated.classes /\ DOMAIN file.imports = DOMAIN generated.imports
    BY <1>1, <1>10
  <2> QED BY <2>1, <1>1, <1>2, <1>6 DEF Shaped, names
<1>11. ASSUME NEW c, ClassShaped(c, t, context), file = [generated EXCEPT !.classes = <<c>>]
       PROVE  Shaped(file, t, context)
  <2>1. file.classes = <<c>> /\ file.imports = generated.imports
    BY <1>1, <1>11
  <2> QED BY <2>1, <1>1, <1>11 DEF Shaped, names
<1> QED BY <1>3, <1>4, <1>5, <1>7, <1>8, <1>9, <1>10, <1>11, Zenon

LEMMA CompanionIsShaped ==
    ASSUME NEW t, NEW context, NEW file \in Companions(GeneratedFile(t, context))
    PROVE  Shaped(file, t, context) /\ file.imports = GeneratedFile(t, context).imports
<1> DEFINE generated == GeneratedFile(t, context)
           class == GeneratedClass(t, context)
           bare == [class EXCEPT !.decorators = <<>>]
<1>1. generated = [imports |-> generated.imports, classes |-> <<class>>]
  BY DEF GeneratedFile
<1>2. CASE file = generated
  BY <1>2, DraftIsShaped
<1>3. CASE file = [generated EXCEPT !.classes[1].decorators = <<>>]
  <2>1. bare \in ClassSlips(class)
    BY DEF ClassSlips
  <2>2. generated.classes[1] = class
    BY <1>1
  <2> HIDE DEF generated, class, bare
  <2>3. [generated EXCEPT !.classes = <<bare>>] \in Slips(generated)
    BY <2>1, <2>2, Zenon DEF Slips
  <2>4. file = [generated EXCEPT !.classes = <<bare>>]
    BY <1>1, <1>3 DEF bare
  <2>5. file.imports = generated.imports
    BY <1>1, <2>4
  <2> QED BY <2>3, <2>4, <2>5, DraftIsShaped DEF generated
<1> QED BY <1>2, <1>3 DEF Companions

LEMMA GateStep == GateInv /\ [Next]_vars => GateInv'
<1> SUFFICES ASSUME GateInv, [Next]_vars PROVE GateInv'
  OBVIOUS
<1>1. ASSUME UNCHANGED runVars PROVE GateInv'
  BY <1>1 DEF GateInv, runVars, Context
<1>2. ASSUME NEW t \in Tasks, Retrieve(t) PROVE GateInv'
  <2>1. t.family = "service" => Usable(used')
    BY <1>2, RetrievedIsUsable DEF Retrieve
  <2>2. (\E d \in Context'.dependencies : d.required # {}) => t.operations # {}
    <3>1. RetrievalOutcome(used', t, repository) = "framework_retrieved" /\ task' = t
      BY <1>2 DEF Retrieve
    <3>2. ~(t.operations = {} /\ UNION {d.required : d \in CodingContext(used', t.family).dependencies} # {})
      BY <3>1, Zenon DEF RetrievalOutcome
    <3>3. Context' = CodingContext(used', t.family)
      BY <3>1 DEF Context
    <3> QED BY <3>2, <3>3
  <2> QED BY <1>2, <2>1, <2>2 DEF Retrieve, GateInv
<1>3. CASE Generate
  <2> DEFINE file == GeneratedFile(task, Context)
  <2>1. \/ draft' \in {file} \cup Slips(file) /\ companion' = TestFile
        \/ draft' = file /\ companion' \in Companions(file)
    BY <1>3 DEF Generate
  <2>2. Shaped(draft', task, Context)
    BY <2>1, DraftIsShaped
  <2>3. companion' = TestFile \/ (Shaped(companion', task, Context) /\ companion'.imports = draft'.imports)
    BY <2>1, CompanionIsShaped
  <2> HIDE DEF file
  <2> QED BY <1>3, <2>2, <2>3 DEF Generate, GateInv, Context
<1>4. CASE Comply
  BY <1>4 DEF Comply, GateInv, Context
<1>5. CASE ComplianceFails \/ Publish
  BY <1>5 DEF ComplianceFails, Publish, EndRun, GateInv
<1>6. CASE UNCHANGED vars
  BY <1>1, <1>6 DEF vars
<1> QED BY <1>1, <1>2, <1>3, <1>4, <1>5, <1>6 DEF Next

LEMMA GateSuffices == GateInv => ComplianceEnforcesContext
<1> SUFFICES ASSUME GateInv, stage = "complied", task.family = "service"
             PROVE  Honours(draft, draft.classes[1], Context)
  BY DEF ComplianceEnforcesContext
<1>1. Usable(used) /\ ValidateService(draft, used) /\ DOMAIN draft.classes \subseteq {1}
  BY DEF GateInv, Shaped
<1>2. OfFamily(draft, "service") = {1}
  BY <1>1 DEF ValidateService, ValidateArtifact, OfFamily
<1>3. Min({1}) = 1
  BY DEF Min
<1> QED BY <1>1, <1>2, <1>3, GateHonoursContext DEF Context

\* The judged class of a published service has everything the context it was asked for demands,
\* whatever rules were learned and whatever the coding model proposed, its attributes being what
\* it assigns to them last (compliance.py:63, compliance.py:142, context.py:155).
THEOREM ComplianceHolds == Spec => []ComplianceEnforcesContext
<1>1. Init => GateInv
  BY DEF Init, GateInv
<1> QED BY <1>1, GateStep, GateSuffices, PTL DEF Spec
-----------------------------------------------------------------------------
(* What the learner knows of the rules it infers: sources are well formed, so imports have     *)
(* modules, constructor arguments are in the form the validator compares, and every            *)
(* dependency has one rule.                                                                    *)

Imports == {NoImport} \cup DOMAIN ModuleOf

RequirementForm(v) == v = [method |-> v.method, shapes |-> [i \in DOMAIN v.shapes |-> v.shapes[i]]]

SoundDependency(r) ==
    /\ IsFiniteSet(r.modules)
    /\ \A t \in r.types : r.concrete[t] \in Imports
    /\ r.arguments = Constructed(r.arguments)
    /\ \A v \in r.required : RequirementForm(v)

Sound(rules) ==
    /\ \A r \in rules : r.kind # Dependency => r.imported \in Imports
    /\ \A r \in OfKind(rules, Dependency) : SoundDependency(r)
    /\ \A r, s \in OfKind(rules, Dependency) : r.value = s.value => r = s

\* Files that were parsed, each of them well formed.
Readable(tree) ==
    /\ DOMAIN tree \subseteq Files
    /\ \A f \in DOMAIN tree : WellFormed(tree[f]) /\ Parsable(tree[f])

\* A finite set of numbers that is not empty has a largest one.
LEMMA LargestNumber ==
    ASSUME NEW S, S \subseteq Nat, S # {}, IsFiniteSet(S)
    PROVE  \E x \in S : \A y \in S : y <= x
<1> DEFINE Unbounded(T) == T \subseteq Nat /\ T # {} /\ IsFiniteSet(T) /\ \A x \in T : \E y \in T : y > x
           bad == {n \in Nat : \E T : Unbounded(T) /\ Cardinality(T) = n}
           Below == {ss \in Nat \X Nat : ss[1] < ss[2]}
<1>1. SUFFICES ASSUME Unbounded(S) PROVE FALSE
  <2>1. PICK y \in S : TRUE
    OBVIOUS
  <2> QED BY <1>1
<1>2. Cardinality(S) \in bad
  BY <1>1, FS_CardinalityType
<1>3. IsWellFoundedOn(Below, Nat)
  BY NatLessThanWellFounded DEF OpToRel
<1>4. PICK n \in bad : \A m \in bad : <<m, n>> \notin Below
  <2> HIDE DEF Below, Unbounded
  <2> QED BY <1>2, <1>3, WFMin
<1>5. PICK T : Unbounded(T) /\ Cardinality(T) = n
  BY <1>4
<1>6. PICK x \in T : TRUE
  BY <1>5
<1> DEFINE U == T \ {x}
<1>7. IsFiniteSet(U) /\ Cardinality(U) = n - 1
  BY <1>5, <1>6, FS_RemoveElement
<1>8. Unbounded(U)
  <2>1. PICK y \in T : y > x
    BY <1>5, <1>6
  <2>2. y \in U /\ U \subseteq Nat
    BY <1>5, <1>6, <2>1
  <2>3. ASSUME NEW z \in U PROVE \E w \in U : w > z
    <3>1. PICK w \in T : w > z
      BY <1>5, <2>3
    <3>2. CASE w = x
      BY <3>1, <3>2, <2>1, <2>2, <1>5, <1>6, <2>3
    <3> QED BY <3>1, <3>2
  <2> QED BY <2>2, <2>3, <1>7
<1>9. n - 1 \in bad /\ n - 1 < n /\ n \in Nat
  <2>1. Cardinality(U) \in Nat
    BY <1>7, FS_CardinalityType
  <2> QED BY <1>7, <1>8, <2>1, <1>4
<1> QED BY <1>4, <1>9

LEMMA ImportedIsNumbered ==
    ASSUME NEW source, WellFormed(source), Parsable(source), NEW name
    PROVE  Imported(source, name) \in Imports
BY DEF WellFormed, Imported, Imports

LEMMA ConstructedTwice == ASSUME NEW a PROVE Constructed(Constructed(a)) = Constructed(a)
BY DEF Constructed, ConstructorArgument

\* An observation of a dependency is made of one class of one of the files read, and there is
\* one of each attribute of the class.
DependencyAt(tree, f, i, a) ==
    LET class == tree[f].classes[i] IN
    [value |-> a, type |-> class.fields[a].type,
     imported |-> Imported(tree[f], class.fields[a].type),
     arguments |-> Constructed(class.fields[a].arguments),
     invocations |-> InvocationsIn(class, DOMAIN class.calls, a),
     at |-> <<f, i>>]

LEMMA DependencyObservations ==
    ASSUME NEW tree, NEW o \in Batch(tree, "service").dependencies
    PROVE  \E f \in DOMAIN tree : \E i \in Subjects(tree[f], "service") :
             /\ Parsable(tree[f])
             /\ o.value \in DOMAIN tree[f].classes[i].fields
             /\ o = DependencyAt(tree, f, i, o.value)
<1>1. PICK f \in DOMAIN tree : Parsable(tree[f]) /\ o \in DependenciesOf(f, tree[f])
  BY DEF Batch
<1>2. PICK i \in Subjects(tree[f], "service") :
        \E a \in DOMAIN tree[f].classes[i].fields : o = DependencyAt(tree, f, i, a)
  BY <1>1 DEF DependenciesOf, DependencyAt
<1>3. PICK a \in DOMAIN tree[f].classes[i].fields : o = DependencyAt(tree, f, i, a)
  BY <1>2
<1>4. o.value = a
  BY <1>3 DEF DependencyAt
<1> QED BY <1>1, <1>3, <1>4

LEMMA DependencyFacts ==
    ASSUME NEW tree, Readable(tree), NEW o \in Batch(tree, "service").dependencies
    PROVE  /\ \E f \in DOMAIN tree : \E i \in DOMAIN tree[f].classes : o.at = <<f, i>>
           /\ o.imported \in Imports
           /\ o.arguments = Constructed(o.arguments)
           /\ \A v \in o.invocations : RequirementForm(v)
<1>a. PICK f \in DOMAIN tree : \E i \in Subjects(tree[f], "service") : o = DependencyAt(tree, f, i, o.value)
  BY DependencyObservations
<1>1. PICK i \in Subjects(tree[f], "service") : o = DependencyAt(tree, f, i, o.value)
  BY <1>a
<1>2. i \in DOMAIN tree[f].classes
  BY DEF Subjects
<1> DEFINE class == tree[f].classes[i]
<1>3. /\ o.imported = Imported(tree[f], class.fields[o.value].type)
      /\ o.arguments = Constructed(class.fields[o.value].arguments)
      /\ o.invocations = InvocationsIn(class, DOMAIN class.calls, o.value)
      /\ o.at = <<f, i>>
  BY <1>1 DEF DependencyAt
<1>4. o.imported \in Imports
  BY <1>3, ImportedIsNumbered DEF Readable
<1>5. o.arguments = Constructed(o.arguments)
  BY <1>3, ConstructedTwice
<1>6. ASSUME NEW v \in o.invocations PROVE RequirementForm(v)
  <2>1. PICK call : v = Invocation(call)
    BY <1>3, <1>6 DEF InvocationsIn
  <2> QED BY <2>1 DEF Invocation, Shapes, RequirementForm
<1> QED BY <1>2, <1>3, <1>4, <1>5, <1>6

\* Observations of one attribute that lie at one place are one.
LEMMA DependencyByPlace ==
    ASSUME NEW tree, NEW o \in Batch(tree, "service").dependencies,
           NEW p \in Batch(tree, "service").dependencies, o.value = p.value, o.at = p.at
    PROVE  o = p
<1>a. PICK f \in DOMAIN tree : \E i \in Subjects(tree[f], "service") : o = DependencyAt(tree, f, i, o.value)
  BY DependencyObservations
<1>1. PICK i \in Subjects(tree[f], "service") : o = DependencyAt(tree, f, i, o.value)
  BY <1>a
<1>b. PICK g \in DOMAIN tree : \E j \in Subjects(tree[g], "service") : p = DependencyAt(tree, g, j, p.value)
  BY DependencyObservations
<1>2. PICK j \in Subjects(tree[g], "service") : p = DependencyAt(tree, g, j, p.value)
  BY <1>b
<1>3. o.at = <<f, i>> /\ p.at = <<g, j>>
  BY <1>1, <1>2 DEF DependencyAt
<1>4. <<f, i>> = <<g, j>>
  BY <1>3
<1>5. f = g /\ i = j
  BY <1>4, Zenon
<1> QED BY <1>1, <1>2, <1>5

\* Of the observations of one attribute there is a latest one.
LEMMA LatestObservation ==
    ASSUME NEW tree, Readable(tree), NEW bound \in SUBSET Batch(tree, "service").dependencies,
           bound # {}, NEW a, \A o \in bound : o.value = a
    PROVE  \E o \in bound : \A p \in bound \ {o} : After(o.at, p.at)
<1>1. \A o \in bound : /\ o.at = <<o.at[1], o.at[2]>> /\ o.at[1] \in DOMAIN tree
                       /\ o.at[2] \in DOMAIN tree[o.at[1]].classes
  BY DependencyFacts
<1> DEFINE files == {o.at[1] : o \in bound}
<1>2. files \subseteq Nat /\ files # {} /\ IsFiniteSet(files)
  <2>1. files \in SUBSET Files
    BY <1>1 DEF Readable
  <2>2. files # {}
    OBVIOUS
  <2> HIDE DEF files
  <2> QED BY <2>1, <2>2, FilesAssumption, FS_Subset
<1>3. PICK f \in files : \A g \in files : g <= f
  <2> HIDE DEF files
  <2> QED BY <1>2, LargestNumber
<1> DEFINE places == {o.at[2] : o \in {p \in bound : p.at[1] = f}}
<1>4. places \subseteq Nat /\ places # {} /\ IsFiniteSet(places)
  <2>1. f \in DOMAIN tree /\ \E o \in bound : o.at[1] = f
    BY <1>1
  <2>2. places \in SUBSET DOMAIN tree[f].classes
    BY <1>1
  <2>3. DOMAIN tree[f].classes \subseteq Nat /\ IsFiniteSet(DOMAIN tree[f].classes)
    BY <2>1 DEF Readable, WellFormed
  <2>4. places # {}
    BY <2>1
  <2> HIDE DEF places
  <2> QED BY <2>2, <2>3, <2>4, FS_Subset
<1>5. PICK i \in places : \A j \in places : j <= i
  <2> HIDE DEF places
  <2> QED BY <1>4, LargestNumber
<1>6. PICK o \in bound : o.at[1] = f /\ o.at[2] = i
  BY <1>5
<1>7. ASSUME NEW p \in bound \ {o} PROVE After(o.at, p.at)
  <2>1. p.at[1] \in files /\ p.at[1] <= f /\ f \in Nat /\ p.at[1] \in Nat
    BY <1>2, <1>3
  <2>2. CASE p.at[1] = f
    <3>1. p.at[2] \in places
      BY <2>2
    <3>2. p.at[2] <= i /\ i \in Nat /\ p.at[2] \in Nat
      BY <1>4, <1>5, <3>1
    <3>3. p.at[2] # i
      BY <1>1, <1>6, <2>2, DependencyByPlace
    <3> QED BY <1>6, <2>2, <3>2, <3>3 DEF After
  <2> QED BY <1>6, <2>1, <2>2 DEF After
<1> QED BY <1>7

-----------------------------------------------------------------------------
(* Inferred rules are sound                                                                    *)

LEMMA ConcreteIsImport ==
    ASSUME NEW tree, Readable(tree), NEW entries \in SUBSET Batch(tree, "service").dependencies,
           NEW a, \A o \in entries : o.value = a, NEW type
    PROVE  ConcreteImport(entries, type) \in Imports
<1> DEFINE bound == {o \in entries : o.type = type /\ o.imported # NoImport}
           latest == CHOOSE o \in bound : \A p \in bound \ {o} : After(o.at, p.at)
<1>1. CASE bound = {}
  BY <1>1 DEF ConcreteImport, Imports
<1>2. CASE bound # {}
  <2>1. latest \in bound
    <3>1. \E o \in bound : \A p \in bound \ {o} : After(o.at, p.at)
      <4>1. bound \in SUBSET Batch(tree, "service").dependencies /\ \A o \in bound : o.value = a
        OBVIOUS
      <4> HIDE DEF bound
      <4> QED BY <1>2, <4>1, LatestObservation
    <3> HIDE DEF bound
    <3> QED BY <3>1
  <2>2. ConcreteImport(entries, type) = latest.imported
    BY <1>2 DEF ConcreteImport
  <2>3. latest \in Batch(tree, "service").dependencies
    BY <2>1
  <2> HIDE DEF latest
  <2> QED BY <2>2, <2>3, DependencyFacts
<1> QED BY <1>1, <1>2

\* The fields of an inferred rule.
EntriesOf(a, batch) == {o \in batch.dependencies : o.value = a}

ArgumentsOf(entries) == {o.arguments : o \in entries}

LEMMA DependencyRuleKind ==
    ASSUME NEW a, NEW batch, NEW rule, rule = DependencyRule(a, batch)
    PROVE  rule.kind = Dependency /\ rule.value = a
<1>1. rule.kind = Dependency
  BY DEF DependencyRule, WithCounts
<1>2. rule.value = a
  BY DEF DependencyRule, WithCounts
<1> QED BY <1>1, <1>2

LEMMA DependencyRuleFields ==
    ASSUME NEW a, NEW batch, NEW rule, rule = DependencyRule(a, batch)
    PROVE  LET entries == EntriesOf(a, batch) IN
           /\ rule.types = {o.type : o \in entries}
           /\ rule.modules = {ModuleOf[o.imported] : o \in {e \in entries : e.imported # NoImport}}
           /\ rule.concrete = [t \in {o.type : o \in entries} |-> ConcreteImport(entries, t)]
           /\ rule.arguments = IF Cardinality(ArgumentsOf(entries)) = 1
                               THEN CHOOSE s \in ArgumentsOf(entries) : TRUE ELSE <<>>
           /\ rule.required = RequiredInvocations(entries, batch)
           /\ rule.active = Established(Cardinality(entries), Cardinality(batch.subjects))
<1> DEFINE entries == EntriesOf(a, batch)
           types == {o.type : o \in entries}
           modules == {ModuleOf[o.imported] : o \in {e \in entries : e.imported # NoImport}}
           concrete == [t \in types |-> ConcreteImport(entries, t)]
           arguments == IF Cardinality(ArgumentsOf(entries)) = 1
                        THEN CHOOSE s \in ArgumentsOf(entries) : TRUE ELSE <<>>
           required == RequiredInvocations(entries, batch)
<1>1. rule = WithCounts([kind |-> Dependency, value |-> a, types |-> types, modules |-> modules,
                         concrete |-> concrete, arguments |-> arguments, required |-> required],
                        entries, batch)
  BY Zenon DEF DependencyRule, EntriesOf, ArgumentsOf
<1> HIDE DEF types, modules, concrete, arguments, required
<1>2. rule.types = types /\ rule.modules = modules
  BY <1>1 DEF WithCounts
<1>3. rule.concrete = concrete /\ rule.arguments = arguments
  BY <1>1 DEF WithCounts
<1>4. rule.required = required
  BY <1>1 DEF WithCounts
<1>5. rule.active = Established(Cardinality(entries), Cardinality(batch.subjects))
  BY <1>1 DEF WithCounts
<1> QED BY <1>2, <1>3, <1>4, <1>5 DEF types, modules, concrete, arguments, required

\* A dependency rule is active when the learner has established it.
LEMMA DependencyRuleActive ==
    ASSUME NEW a, NEW batch, NEW rule, rule = DependencyRule(a, batch)
    PROVE  rule.active = Established(Cardinality(EntriesOf(a, batch)), Cardinality(batch.subjects))
<1> DEFINE entries == EntriesOf(a, batch)
           types == {o.type : o \in entries}
           modules == {ModuleOf[o.imported] : o \in {e \in entries : e.imported # NoImport}}
           concrete == [t \in types |-> ConcreteImport(entries, t)]
           arguments == IF Cardinality(ArgumentsOf(entries)) = 1
                        THEN CHOOSE s \in ArgumentsOf(entries) : TRUE ELSE <<>>
           required == RequiredInvocations(entries, batch)
<1>1. rule = WithCounts([kind |-> Dependency, value |-> a, types |-> types, modules |-> modules,
                         concrete |-> concrete, arguments |-> arguments, required |-> required],
                        entries, batch)
  BY Zenon DEF DependencyRule, EntriesOf, ArgumentsOf
<1> HIDE DEF types, modules, concrete, arguments, required
<1> QED BY <1>1 DEF WithCounts

LEMMA StructureRuleFields ==
    ASSUME NEW batch, NEW r \in StructureRules(batch)
    PROVE  LET entries == {o \in batch.structure :
                             o.kind = r.kind /\ o.value = r.value /\ o.imported = r.imported}
           IN  /\ entries # {}
               /\ r.active = Established(Cardinality(entries), Cardinality(batch.subjects))
<1>1. PICK o \in batch.structure :
        r = WithCounts([kind |-> o.kind, value |-> o.value, imported |-> o.imported],
                       {p \in batch.structure : [kind |-> p.kind, value |-> p.value, imported |-> p.imported]
                          = [kind |-> o.kind, value |-> o.value, imported |-> o.imported]}, batch)
  BY DEF StructureRules
<1>2. r.kind = o.kind /\ r.value = o.value /\ r.imported = o.imported
  BY <1>1 DEF WithCounts
<1>3. {p \in batch.structure : [kind |-> p.kind, value |-> p.value, imported |-> p.imported]
                          = [kind |-> o.kind, value |-> o.value, imported |-> o.imported]} =
      {p \in batch.structure : p.kind = r.kind /\ p.value = r.value /\ p.imported = r.imported}
  BY <1>2
<1>4. r.active = Established(Cardinality({p \in batch.structure :
             p.kind = r.kind /\ p.value = r.value /\ p.imported = r.imported}), Cardinality(batch.subjects))
  BY <1>1, <1>3 DEF WithCounts
<1> QED BY <1>2, <1>4

\* The image of a finite set is finite.
LEMMA ImageIsFinite == ASSUME NEW S, IsFiniteSet(S), NEW f PROVE IsFiniteSet({f[x] : x \in S})
<1> DEFINE g == [x \in S |-> f[x]]
<1>1. g \in Surjection(S, {f[x] : x \in S})
  BY DEF Surjection
<1> HIDE DEF g
<1> QED BY <1>1, FS_Surjection

LEMMA DependencyRuleSound ==
    ASSUME NEW tree, Readable(tree), NEW a
    PROVE  SoundDependency(DependencyRule(a, Batch(tree, "service")))
<1> DEFINE batch == Batch(tree, "service")
           entries == EntriesOf(a, batch)
           shapes == ArgumentsOf(entries)
           rule == DependencyRule(a, batch)
<1>1. entries \in SUBSET batch.dependencies /\ \A o \in entries : o.value = a
  BY DEF EntriesOf
<1>2. \A o \in entries : /\ o.imported \in Imports
                         /\ o.arguments = Constructed(o.arguments)
                         /\ \A v \in o.invocations : RequirementForm(v)
  BY <1>1, DependencyFacts
<1>3. /\ rule.types = {o.type : o \in entries}
      /\ rule.modules = {ModuleOf[o.imported] : o \in {e \in entries : e.imported # NoImport}}
      /\ rule.concrete = [t \in {o.type : o \in entries} |-> ConcreteImport(entries, t)]
      /\ rule.arguments = IF Cardinality(shapes) = 1 THEN CHOOSE s \in shapes : TRUE ELSE <<>>
      /\ rule.required = RequiredInvocations(entries, batch)
  BY DependencyRuleFields
<1>4. IsFiniteSet(rule.modules)
  <2>1. IsFiniteSet({ModuleOf[n] : n \in DOMAIN ModuleOf})
    BY ImportsAssumption, ImageIsFinite
  <2>2. rule.modules \in SUBSET {ModuleOf[n] : n \in DOMAIN ModuleOf}
    BY <1>2, <1>3 DEF Imports
  <2> QED BY <2>1, <2>2, FS_Subset
<1>5. \A t \in rule.types : rule.concrete[t] \in Imports
  <2> HIDE DEF entries, rule, batch
  <2>1. \A t \in rule.types : rule.concrete[t] = ConcreteImport(entries, t)
    BY <1>3
  <2> QED BY <2>1, <1>1, ConcreteIsImport DEF batch
<1>6. rule.arguments = Constructed(rule.arguments)
  <2>1. CASE Cardinality(shapes) = 1
    <3>1. shapes # {}
      <4> HIDE DEF shapes
      <4> QED BY <2>1, FS_EmptySet
    <3>2. \A s \in shapes : s = Constructed(s)
      BY <1>2 DEF ArgumentsOf
    <3> HIDE DEF shapes, rule
    <3> QED BY <1>3, <2>1, <3>1, <3>2
  <2>2. CASE Cardinality(shapes) # 1
    <3>1. rule.arguments = <<>>
      BY <1>3, <2>2
    <3>2. Constructed(<<>>) = <<>>
      BY DEF Constructed
    <3> QED BY <3>1, <3>2
  <2> QED BY <2>1, <2>2
<1>7. \A v \in rule.required : RequirementForm(v)
  BY <1>2, <1>3 DEF RequiredInvocations
<1> HIDE DEF rule
<1> QED BY <1>4, <1>5, <1>6, <1>7 DEF SoundDependency, rule

\* An observation of a base or a decorator is made of one node of one class.
StructureAt(tree, family, f, i, kind, j) ==
    LET nodes == Nodes(tree[f].classes[i], kind) IN
    [kind |-> <<family, kind>>, value |-> nodes[j], imported |-> Imported(tree[f], nodes[j]),
     at |-> <<f, i, j>>]

LEMMA StructureObservations ==
    ASSUME NEW tree, NEW family, NEW o \in Batch(tree, family).structure
    PROVE  \E f \in DOMAIN tree : \E i \in Subjects(tree[f], family) : \E kind \in StructureKinds :
             \E j \in DOMAIN Nodes(tree[f].classes[i], kind) :
               Parsable(tree[f]) /\ o = StructureAt(tree, family, f, i, kind, j)
<1>1. PICK f \in DOMAIN tree : Parsable(tree[f]) /\ o \in StructureOf(f, tree[f], family)
  BY DEF Batch
<1> QED BY <1>1 DEF StructureOf, StructureAt

LEMMA StructureRuleSound ==
    ASSUME NEW tree, Readable(tree), NEW family \in {"service", "controller"},
           NEW r \in StructureRules(Batch(tree, family))
    PROVE  r.imported \in Imports /\ r.kind # Dependency /\ r.kind[1] = family
<1>1. PICK o \in Batch(tree, family).structure : o.kind = r.kind /\ o.imported = r.imported
  BY StructureRuleFields
<1>2. PICK f \in DOMAIN tree : \E i \in Subjects(tree[f], family) : \E kind \in StructureKinds :
             \E j \in DOMAIN Nodes(tree[f].classes[i], kind) :
               Parsable(tree[f]) /\ o = StructureAt(tree, family, f, i, kind, j)
  BY StructureObservations
<1>3. PICK i, kind, j : o = StructureAt(tree, family, f, i, kind, j)
  BY <1>2
<1>4. o.kind = <<family, kind>> /\ o.imported = Imported(tree[f], Nodes(tree[f].classes[i], kind)[j])
  BY <1>3 DEF StructureAt
<1>5. o.imported \in Imports
  BY <1>4, ImportedIsNumbered DEF Readable
<1>6. <<family, kind>> # <<"dependency", "constructor">> /\ <<family, kind>>[1] = family
  OBVIOUS
<1> QED BY <1>1, <1>4, <1>5, <1>6 DEF Dependency

LEMMA LearnedRulesAre ==
    ASSUME NEW tree, NEW r \in LearnedRules(tree)
    PROVE  \/ \E family \in {"service", "controller"} : r \in StructureRules(Batch(tree, family))
           \/ \E a : r = DependencyRule(a, Batch(tree, "service"))
<1>1. Batch(tree, "controller").dependencies = {}
  BY DEF Batch
<1> QED BY <1>1 DEF LearnedRules, Aggregated

LEMMA LearnedSound == ASSUME NEW tree, Readable(tree) PROVE Sound(LearnedRules(tree))
<1>1. ASSUME NEW r \in LearnedRules(tree), r.kind # Dependency PROVE r.imported \in Imports
  <2>1. \A a : r # DependencyRule(a, Batch(tree, "service"))
    BY <1>1, DependencyRuleKind
  <2> QED BY <2>1, <1>1, LearnedRulesAre, StructureRuleSound
<1>2. ASSUME NEW r \in LearnedRules(tree), r.kind = Dependency
      PROVE  r = DependencyRule(r.value, Batch(tree, "service"))
  <2>1. PICK a : r = DependencyRule(a, Batch(tree, "service"))
    BY <1>2, LearnedRulesAre, StructureRuleSound
  <2> QED BY <2>1, DependencyRuleKind
<1>3. \A r \in OfKind(LearnedRules(tree), Dependency) : SoundDependency(r)
  BY <1>2, DependencyRuleSound DEF OfKind
<1>4. \A r, s \in OfKind(LearnedRules(tree), Dependency) : r.value = s.value => r = s
  BY <1>2 DEF OfKind
<1> QED BY <1>1, <1>3, <1>4 DEF Sound

LEMMA SoundSubset == ASSUME NEW S, Sound(S), NEW T \in SUBSET S PROVE Sound(T)
BY DEF Sound, OfKind

-----------------------------------------------------------------------------
(* Every source is well formed and every rule in use is sound, also once what a development    *)
(* run made is a source itself.                                                                *)

LEMMA SelectedIsRule ==
    ASSUME NEW rules, NEW kind, Selectable(rules, kind)
    PROVE  Selected(rules, kind) \in OfKind(rules, kind)
<1>1. Best(rules, kind) # {}
  BY FS_EmptySet DEF Selectable
<1>2. Selected(rules, kind) \in Best(rules, kind)
  BY <1>1 DEF Selected
<1> QED BY <1>2 DEF Best

LEMMA TypeOfIsType == ASSUME NEW r, Resolved(r) PROVE TypeOf(r) \in r.types
<1>1. r.types # {}
  BY FS_EmptySet DEF Resolved
<1> QED BY <1>1 DEF TypeOf

\* What the context says is imported has a number.
LEMMA ContextImports ==
    ASSUME NEW rules, Sound(rules), Usable(rules), NEW i \in ImportsOf(CodingContext(rules, "service"))
    PROVE  i[2] \in DOMAIN ModuleOf
<1> DEFINE context == CodingContext(rules, "service")
<1>1. /\ context.base = Selected(rules, <<"service", "base_class">>)
      /\ context.decorator = Selected(rules, <<"service", "required_decorator">>)
      /\ context.dependencies = {DependencyContext(r) : r \in Dependencies(rules)}
  BY DEF CodingContext
<1>2. NoImport \notin {context.base.imported, context.decorator.imported}
  BY DEF Usable
<1>3. \A kind \in StructureKinds : Selected(rules, <<"service", kind>>) \in OfKind(rules, <<"service", kind>>)
  BY SelectedIsRule DEF Usable
<1>4. \A kind \in StructureKinds : Selected(rules, <<"service", kind>>).imported \in Imports
  <2>1. \A kind : <<"service", kind>> # Dependency
    BY DEF Dependency
  <2> QED BY <1>3, <2>1 DEF Sound, OfKind
<1> HIDE DEF context
<1>5. context.base.imported \in DOMAIN ModuleOf /\ context.decorator.imported \in DOMAIN ModuleOf
  BY <1>1, <1>2, <1>4 DEF StructureKinds, Imports
<1>6. ASSUME NEW d \in context.dependencies, d.imported # NoImport PROVE d.imported \in DOMAIN ModuleOf
  <2>1. PICK r \in Dependencies(rules) : d = DependencyContext(r)
    BY <1>1, <1>6
  <2>2. d.imported = r.concrete[TypeOf(r)]
    BY <1>6, <2>1 DEF DependencyContext
  <2>3. TypeOf(r) \in r.types /\ SoundDependency(r)
    BY TypeOfIsType DEF Dependencies, Sound
  <2> QED BY <1>6, <2>2, <2>3 DEF SoundDependency, Imports
<1>7. i \in ImportsOf(context)
  BY DEF context
<1> QED BY <1>5, <1>6, <1>7 DEF ImportsOf

Sourced ==
    /\ \A f \in Files : WellFormed(repository[f])
    /\ \A f \in DOMAIN read : WellFormed(read[f]) /\ Parsable(read[f])
    /\ Sound(knowledge) /\ Sound(used)

SourceInv == IInv /\ GateInv /\ Sourced

LEMMA NothingSound == Sound({})
BY DEF Sound, OfKind

\* A shaped file whose imports are those of the context is a well-formed source.
LEMMA ShapedWellFormed ==
    ASSUME NEW file, Shaped(file, task, Context),
           \A name \in DOMAIN file.imports : file.imports[name] \in DOMAIN ModuleOf
    PROVE  WellFormed(file)
<1>7. DOMAIN file.classes \in SUBSET {1} /\ DOMAIN file.classes \subseteq Nat
  BY DEF Shaped
<1>8. IsFiniteSet(DOMAIN file.classes)
  BY <1>7, FS_Singleton, FS_Subset
<1>9. ASSUME NEW i \in DOMAIN file.classes
      PROVE  IsFiniteSet(DOMAIN file.classes[i].bases) /\ IsFiniteSet(DOMAIN file.classes[i].decorators)
  <2>1. /\ file.classes[i].bases \in {<<>>, <<Context.base.value>>}
        /\ file.classes[i].decorators \in {<<>>, <<Context.decorator.value>>}
    BY DEF Shaped, ClassShaped
  <2>2. \A s : \A x : s \in {<<>>, <<x>>} => DOMAIN s = {} \/ DOMAIN s = {1}
    OBVIOUS
  <2>3. IsFiniteSet({}) /\ IsFiniteSet({1})
    BY FS_Singleton, FS_EmptySet
  <2>4. DOMAIN file.classes[i].bases = {} \/ DOMAIN file.classes[i].bases = {1}
    BY <2>1, <2>2
  <2>5. DOMAIN file.classes[i].decorators = {} \/ DOMAIN file.classes[i].decorators = {1}
    BY <2>1, <2>2
  <2> QED BY <2>3, <2>4, <2>5, Zenon
<1> QED BY <1>7, <1>8, <1>9 DEF WellFormed

\* A change of which a file passed the gate consists of well-formed sources.
LEMMA DraftWellFormed ==
    ASSUME GateInv, Sourced, stage = "complied" PROVE WellFormed(draft) /\ WellFormed(companion)
<1>1. ValidateService(draft, used) /\ Shaped(draft, task, Context)
  BY DEF GateInv
<1>2. \E i \in DOMAIN draft.classes : draft.classes[i].family = "service"
  BY <1>1 DEF ValidateService, ValidateArtifact, OfFamily
<1>3. task.family = "service"
  BY <1>1, <1>2 DEF Shaped, ClassShaped
<1>4. Usable(used) /\ Context = CodingContext(used, "service")
  BY <1>3 DEF GateInv, Context
<1>5. Honours(draft, draft.classes[1], Context)
  BY <1>3, GateSuffices DEF ComplianceEnforcesContext
<1>6. ASSUME NEW name \in DOMAIN draft.imports PROVE draft.imports[name] \in DOMAIN ModuleOf
  <2>1. PICK i \in ImportsOf(Context) : i[1] = name
    BY <1>1, <1>6 DEF Shaped
  <2>2. Imported(draft, i[1]) = i[2]
    BY <1>5 DEF Honours
  <2>3. i[2] \in DOMAIN ModuleOf
    BY <1>4, ContextImports DEF Sourced
  <2> QED BY <1>6, <2>1, <2>2, <2>3 DEF Imported
<1>7. WellFormed(draft)
  BY <1>1, <1>6, ShapedWellFormed
<1>8. WellFormed(TestFile)
  <2>1. DOMAIN TestFile.classes = {} /\ DOMAIN TestFile.imports = {}
    BY DEF TestFile
  <2> QED BY <2>1, FS_EmptySet DEF WellFormed
<1>9. companion = TestFile \/ (Shaped(companion, task, Context) /\ companion.imports = draft.imports)
  BY DEF GateInv
<1>10. WellFormed(companion)
  BY <1>6, <1>8, <1>9, ShapedWellFormed
<1> QED BY <1>7, <1>10

LEMMA ReadIsReadable == ASSUME IInv, Sourced PROVE Readable(read)
BY LearnableAssumption DEF IInv, TypeOK, Sourced, Readable

LEMMA SourcedStep == IInv /\ GateInv /\ Sourced /\ [Next]_vars => Sourced'
<1> SUFFICES ASSUME IInv, GateInv, Sourced, [Next]_vars PROVE Sourced'
  OBVIOUS
<1>1. ASSUME UNCHANGED <<repository, read, knowledge, used>> PROVE Sourced'
  BY <1>1 DEF Sourced
<1>2. ASSUME NEW p \in ParserVersions, NEW s \in BOOLEAN, BeginLearn(p, s), UNCHANGED runVars
      PROVE  Sourced'
  BY <1>1, <1>2 DEF BeginLearn, runVars
<1>3. CASE ParseFile /\ UNCHANGED runVars
  <2> DEFINE f == Min(Pending)
  <2>1. f \in DOMAIN scanned \ DOMAIN read
    BY <1>3, OpenedFile DEF ParseFile, IInv
  <2>2. /\ read' = [g \in DOMAIN read \cup {f} |-> IF g = f THEN repository[f] ELSE read[g]]
        /\ Parsable(repository[f])
        /\ UNCHANGED <<repository, knowledge, used>>
    BY <1>3 DEF ParseFile, runVars
  <2>3. f \in Files
    BY <2>1, LearnableAssumption DEF IInv, TypeOK
  <2> HIDE DEF f
  <2> QED BY <2>2, <2>3 DEF Sourced
<1>4. CASE (ParseFails \/ SaveState \/ Infer) /\ UNCHANGED runVars
  <2>1. read' = Nothing /\ UNCHANGED <<repository, knowledge, used>>
    BY <1>4 DEF ParseFails, SaveState, Infer, Leave, runVars
  <2> QED BY <2>1, NothingIsMap DEF Sourced
<1>5. CASE ReplaceRules /\ UNCHANGED runVars
  <2>1. read' = Nothing /\ knowledge' = LearnedRules(read) /\ UNCHANGED <<repository, used>>
    BY <1>5 DEF ReplaceRules, Leave, runVars
  <2>2. Sound(knowledge')
    BY <2>1, ReadIsReadable, LearnedSound
  <2> QED BY <2>1, <2>2, NothingIsMap DEF Sourced
<1>6. ASSUME NEW e \in Edits, Edit(e[1], e[2]), UNCHANGED runVars PROVE Sourced'
  <2>1. /\ repository' = [repository EXCEPT ![e[1]] = e[2]]
        /\ UNCHANGED <<read, knowledge, used>>
    BY <1>6 DEF Edit, learnerVars, runVars
  <2>2. WellFormed(e[2])
    BY <1>6, SourcesAssumption
  <2>3. \A f \in Files : repository'[f] = IF f = e[1] THEN e[2] ELSE repository[f]
    BY <2>1 DEF IInv, TypeOK
  <2> QED BY <2>1, <2>2, <2>3 DEF Sourced
<1>7. ASSUME NEW t \in Tasks, Retrieve(t) PROVE Sourced'
  <2>1. used' = ActiveRules(knowledge) /\ UNCHANGED <<repository, read, knowledge>>
    BY <1>7 DEF Retrieve, learnerVars
  <2>2. Sound(used')
    BY <2>1, SoundSubset DEF Sourced, ActiveRules
  <2> QED BY <2>1, <2>2 DEF Sourced
<1>8. CASE Generate \/ Comply
  BY <1>1, <1>8 DEF Generate, Comply, learnerVars
<1>9. CASE ComplianceFails
  BY <1>9, NothingSound DEF ComplianceFails, EndRun, learnerVars, Sourced
<1>10. CASE Publish
  <2>1. used' = {} /\ UNCHANGED <<read, knowledge>>
    BY <1>10 DEF Publish, EndRun, learnerVars
  <2>2. \A f \in Files : repository'[f] \in {repository[f], draft, companion}
    BY <1>10 DEF Publish, IInv, TypeOK
  <2>3. WellFormed(draft) /\ WellFormed(companion)
    BY <1>10, DraftWellFormed DEF Publish
  <2> QED BY <2>1, <2>2, <2>3, NothingSound DEF Sourced
<1>11. CASE UNCHANGED vars
  BY <1>1, <1>11 DEF vars, learnerVars, runVars
<1> QED
  BY <1>2, <1>3, <1>4, <1>5, <1>6, <1>7, <1>8, <1>9, <1>10, <1>11 DEF Next, LearnerStep

LEMMA SourceInit == Init => SourceInv
<1> SUFFICES ASSUME Init PROVE SourceInv
  OBVIOUS
<1>1. \A f \in Files : WellFormed(repository[f])
  BY SourcesAssumption DEF Init, LearningInit
<1>2. read = Nothing /\ knowledge = {} /\ used = {}
  BY DEF Init, LearningInit
<1>3. Sourced
  BY <1>1, <1>2, NothingIsMap, NothingSound DEF Sourced
<1>4. GateInv
  BY DEF Init, GateInv
<1> QED BY <1>3, <1>4, InitInv DEF SourceInv

LEMMA SourceStep == SourceInv /\ [Next]_vars => SourceInv'
BY StepInv, GateStep, SourcedStep DEF SourceInv

-----------------------------------------------------------------------------
(* The file the deterministic model writes from a context passes the gate                      *)

LEMMA OnlyOne == \A x \in Int : Max({x}) = x /\ Min({x}) = x
BY DEF Max, Min

\* An argument of a supported shape has that shape once it is rendered.
LEMMA RenderedShape == \A s \in SupportedShapes : InvocationShape(RenderedArgument[s]) = s
<1> SUFFICES ASSUME NEW s \in SupportedShapes PROVE InvocationShape(RenderedArgument[s]) = s
  OBVIOUS
<1>1. s \in {"string_literal", "integer_literal", "float_literal", "boolean_literal", "none_literal",
             "empty_mapping", "empty_sequence"}
  BY DEF SupportedShapes, ArgumentShapes
<1>2. /\ InvocationShape("string") = "string_literal" /\ InvocationShape("integer") = "integer_literal"
      /\ InvocationShape("float") = "float_literal" /\ InvocationShape("boolean") = "boolean_literal"
      /\ InvocationShape("none") = "none_literal" /\ InvocationShape("mapping") = "empty_mapping"
      /\ InvocationShape("list") = "empty_sequence"
  BY DEF InvocationShape, ArgumentShapes
<1> QED BY <1>1, <1>2 DEF RenderedArgument

\* A required invocation is what the rendered call for it is observed as.
LEMMA RenderedCallIsObserved ==
    ASSUME NEW v, RequirementForm(v), Supported(v), NEW a
    PROVE  Invocation([attribute |-> a, method |-> v.method,
                       arguments |-> [i \in DOMAIN v.shapes |-> RenderedArgument[v.shapes[i]]]]) = v
<1>1. \A i \in DOMAIN v.shapes : InvocationShape(RenderedArgument[v.shapes[i]]) = v.shapes[i]
  BY RenderedShape DEF Supported, Range
<1>2. Shapes([i \in DOMAIN v.shapes |-> RenderedArgument[v.shapes[i]]]) = [i \in DOMAIN v.shapes |-> v.shapes[i]]
  BY <1>1 DEF Shapes
<1> QED BY <1>2 DEF Invocation, RequirementForm

\* Where no name is bound twice, a rendered import is the import of the context.
LEMMA RenderedImport ==
    ASSUME NEW context, IsInjective([i \in ImportsOf(context) |-> i[1]]), NEW t,
           NEW i \in ImportsOf(context), i[2] \in Int
    PROVE  Imported(GeneratedFile(t, context), i[1]) = i[2]
<1> DEFINE same == {j \in ImportsOf(context) : j[1] = i[1]}
<1>1. same = {i}
  BY DEF IsInjective
<1>2. {j[2] : j \in same} = {i[2]}
  BY <1>1
<1>3. Max({i[2]}) = i[2]
  BY OnlyOne
<1>4. RenderedImports(context)[i[1]] = Max({j[2] : j \in same}) /\ i[1] \in DOMAIN RenderedImports(context)
  BY DEF RenderedImports
<1>5. GeneratedFile(t, context).imports = RenderedImports(context)
  BY DEF GeneratedFile
<1> QED BY <1>2, <1>3, <1>4, <1>5 DEF Imported

\* The class that is generated for a service.
LEMMA GeneratedForService ==
    ASSUME NEW t, t.family = "service", NEW context
    PROVE  LET file == GeneratedFile(t, context) IN
           /\ Parsable(file)
           /\ OfFamily(file, "service") = {1} /\ Min({1}) = 1
           /\ file.classes[1] = GeneratedClass(t, context)
<1> DEFINE file == GeneratedFile(t, context)
<1>1. file = [imports |-> RenderedImports(context), classes |-> <<GeneratedClass(t, context)>>]
  BY DEF GeneratedFile
<1>2. GeneratedClass(t, context).family = "service"
  BY DEF GeneratedClass
<1> HIDE DEF file
<1>3. Parsable(file)
  <2>1. "imports" \in DOMAIN file /\ "imports" \notin DOMAIN Absent /\ "imports" \notin DOMAIN Broken
    BY <1>1 DEF Absent, Broken
  <2> QED BY <2>1 DEF Parsable
<1>4. DOMAIN file.classes = {1} /\ file.classes[1] = GeneratedClass(t, context)
  BY <1>1
<1>5. OfFamily(file, "service") = {1}
  BY <1>2, <1>4 DEF OfFamily
<1> QED BY <1>3, <1>4, <1>5, OnlyOne DEF file

\* Generated code has the structure its context names.
LEMMA GeneratedStructure ==
    ASSUME NEW t, NEW rules, Sound(rules), Usable(rules),
           IsInjective([i \in ImportsOf(CodingContext(rules, "service")) |-> i[1]])
    PROVE  LET context == CodingContext(rules, "service") IN
           StructureFindings(GeneratedFile(t, context), GeneratedClass(t, context), rules, "service") = {}
<1> DEFINE context == CodingContext(rules, "service")
           file == GeneratedFile(t, context)
           class == GeneratedClass(t, context)
<1>1. /\ context.base = Selected(rules, <<"service", "base_class">>)
      /\ context.decorator = Selected(rules, <<"service", "required_decorator">>)
  BY DEF CodingContext
<1>2. class.bases = <<context.base.value>> /\ class.decorators = <<context.decorator.value>>
  BY DEF GeneratedClass
<1>3. \A i \in ImportsOf(context) : Imported(file, i[1]) = i[2]
  BY ContextImports, RenderedImport, ImportsAssumption
<1> HIDE DEF context, file, class
<1>4. /\ <<context.base.value, context.base.imported>> \in ImportsOf(context)
      /\ <<context.decorator.value, context.decorator.imported>> \in ImportsOf(context)
  BY DEF ImportsOf
<1>5. /\ Imported(file, context.base.value) = context.base.imported
      /\ Imported(file, context.decorator.value) = context.decorator.imported
  BY <1>3, <1>4
<1>6. \A x : x \in Range(<<x>>)
  BY DEF Range
<1>7. ASSUME NEW kind \in StructureKinds
      PROVE  LET rule == Selected(rules, <<"service", kind>>) IN
             rule.value \in Range(Nodes(class, kind)) /\ Provenance(file, rule.value, rule.imported)
  BY <1>1, <1>2, <1>5, <1>6 DEF StructureKinds, Nodes, Provenance
<1> QED BY <1>7 DEF StructureFindings, context, file, class

\* Generated code complies with a dependency of one type that comes from one module at most.
LEMMA GeneratedDependency ==
    ASSUME NEW t, NEW rules, Sound(rules), Usable(rules),
           IsInjective([i \in ImportsOf(CodingContext(rules, "service")) |-> i[1]]),
           NEW r \in Dependencies(rules), Cardinality(r.modules) <= 1
    PROVE  LET context == CodingContext(rules, "service") IN
           DependencyComplies(GeneratedFile(t, context), GeneratedClass(t, context), r)
<1> DEFINE context == CodingContext(rules, "service")
           file == GeneratedFile(t, context)
           class == GeneratedClass(t, context)
           d == DependencyContext(r)
<1>1. context.dependencies = {DependencyContext(s) : s \in Dependencies(rules)}
  BY DEF CodingContext
<1>2. /\ d.attribute = r.value /\ d.type = TypeOf(r) /\ d.arguments = r.arguments /\ d.required = r.required
      /\ d.imported = IF Cardinality(r.modules) = 1 THEN r.concrete[TypeOf(r)] ELSE NoImport
  BY DEF DependencyContext
<1>3. d \in context.dependencies /\ SoundDependency(r) /\ TypeOf(r) \in r.types
  BY <1>1, TypeOfIsType DEF Dependencies, Sound
<1>4. \A e \in context.dependencies : e.attribute = r.value => e = d
  <2> SUFFICES ASSUME NEW e \in context.dependencies, e.attribute = r.value PROVE e = d
    OBVIOUS
  <2>1. PICK s \in Dependencies(rules) : e = DependencyContext(s)
    BY <1>1
  <2>2. s.value = r.value
    BY <2>1 DEF DependencyContext
  <2>3. s = r
    BY <2>2 DEF Dependencies, Sound
  <2> QED BY <2>1, <2>3
<1>5. /\ DOMAIN class.fields = {e.attribute : e \in context.dependencies}
      /\ \A a \in DOMAIN class.fields : class.fields[a] =
           LET e == CHOOSE e \in context.dependencies : e.attribute = a
           IN  [type |-> e.type, arguments |-> e.arguments]
      /\ DOMAIN class.calls = t.operations \cup {"__init__"}
      /\ \A m \in DOMAIN class.calls \ {"__init__"} : class.calls[m] = RenderedCalls(context)
      /\ DOMAIN class.others = {}
  BY DEF GeneratedClass
<1>6. \A i \in ImportsOf(context) : Imported(file, i[1]) = i[2]
  BY ContextImports, RenderedImport, ImportsAssumption
<1>7. \A e \in context.dependencies : \A v \in e.required : Supported(v)
  BY DEF Usable
<1> HIDE DEF context, file, class, d
<1>8. r.value \in DOMAIN class.fields
  BY <1>2, <1>3, <1>5
<1>13. r.value \in DOMAIN Assigned(class) /\ Assigned(class)[r.value] = class.fields[r.value]
  BY <1>5, <1>8 DEF Assigned
<1>9. class.fields[r.value].type = d.type /\ class.fields[r.value].arguments = d.arguments
  <2>1. (CHOOSE e \in context.dependencies : e.attribute = r.value) = d
    BY <1>2, <1>3, <1>4
  <2>2. class.fields[r.value] = [type |-> d.type, arguments |-> d.arguments]
    BY <1>5, <1>8, <2>1
  <2> QED BY <2>2
<1>10. r.modules = {} \/ Provenance(file, TypeOf(r), r.concrete[TypeOf(r)])
  <2>1. Cardinality(r.modules) \in {0, 1}
    BY <1>3, FS_CardinalityType DEF SoundDependency
  <2>2. CASE Cardinality(r.modules) = 0
    BY <1>3, <2>2, FS_EmptySet DEF SoundDependency
  <2>3. CASE Cardinality(r.modules) = 1
    <3>1. CASE d.imported = NoImport
      BY <1>2, <2>3, <3>1 DEF Provenance
    <3>2. CASE d.imported # NoImport
      <4>1. <<d.type, d.imported>> \in ImportsOf(context)
        BY <1>3, <3>2 DEF ImportsOf
      <4>2. Imported(file, d.type) = d.imported
        BY <1>6, <4>1
      <4> QED BY <1>2, <2>3, <4>2 DEF Provenance
    <3> QED BY <3>1, <3>2
  <2> QED BY <2>1, <2>2, <2>3
<1>11. Constructed(class.fields[r.value].arguments) = r.arguments
  BY <1>2, <1>3, <1>9 DEF SoundDependency
<1>12. ASSUME NEW v \in r.required
       PROVE  Supported(v) /\ \A m \in Operations(class) : v \in InvocationsIn(class, {m}, r.value)
  <2>1. v \in d.required /\ Supported(v) /\ RequirementForm(v)
    BY <1>2, <1>3, <1>7, <1>12 DEF SoundDependency
  <2> DEFINE call == [attribute |-> d.attribute, method |-> v.method,
                      arguments |-> [i \in DOMAIN v.shapes |-> RenderedArgument[v.shapes[i]]]]
  <2>2. call \in RenderedCalls(context)
    <3>1. call \in {[attribute |-> d.attribute, method |-> w.method,
                     arguments |-> [i \in DOMAIN w.shapes |-> RenderedArgument[w.shapes[i]]]]
                    : w \in d.required}
      BY <2>1
    <3> HIDE DEF call
    <3> QED BY <1>3, <3>1, Zenon DEF RenderedCalls
  <2>3. Invocation(call) = v /\ call.attribute = r.value
    BY <1>2, <2>1, RenderedCallIsObserved
  <2> HIDE DEF call
  <2>4. ASSUME NEW m \in Operations(class) PROVE v \in InvocationsIn(class, {m}, r.value)
    <3>1. call \in UNION {class.calls[n] : n \in {m}}
      BY <1>5, <2>2, <2>4 DEF Operations
    <3> QED BY <2>3, <3>1 DEF InvocationsIn
  <2> QED BY <2>1, <2>4
<1> QED BY <1>2, <1>8, <1>9, <1>10, <1>11, <1>12, <1>13 DEF DependencyComplies, context, file, class

LEMMA SourceSuffices == SourceInv => GeneratedComplies
<1> SUFFICES ASSUME SourceInv, stage = "retrieved", task.family = "service", OneModuleEach, NamesBoundOnce
             PROVE  ValidateService(GeneratedFile(task, Context), used)
  BY DEF GeneratedComplies
<1>1. Sound(used) /\ Usable(used) /\ Context = CodingContext(used, "service")
  BY DEF SourceInv, Sourced, GateInv, Context
<1>2. IsInjective([i \in ImportsOf(Context) |-> i[1]])
  BY DEF NamesBoundOnce
<1>3. StructureFindings(GeneratedFile(task, Context), GeneratedClass(task, Context), used, "service") = {}
  BY <1>1, <1>2, GeneratedStructure
<1>4. \A r \in Dependencies(used) :
        DependencyComplies(GeneratedFile(task, Context), GeneratedClass(task, Context), r)
  BY <1>1, <1>2, GeneratedDependency DEF OneModuleEach
<1> QED BY <1>3, <1>4, GeneratedForService DEF ValidateService, ValidateArtifact

\* What the deterministic model makes of the retrieved context passes the compliance gate, which
\* reads the rules and not the context, where every dependency comes from one module and no
\* name is bound twice (gateway.py:57, compliance.py:63).
THEOREM GeneratedPasses == Spec => []GeneratedComplies
BY SourceInit, SourceStep, SourceSuffices, PTL DEF Spec

-----------------------------------------------------------------------------
(* Active rules are conventions of the repository                                              *)

\* The classes a rule is counted against: finitely many, those of its family.
LEMMA PopulationIsSubjects ==
    ASSUME NEW tree, Readable(tree), NEW r, NEW family,
           family = IF r.kind = Dependency THEN "service" ELSE r.kind[1]
    PROVE  /\ Population(tree, r) = Batch(tree, family).subjects
           /\ IsFiniteSet(Population(tree, r))
           /\ \A f \in DOMAIN tree : \A i \in Subjects(tree[f], family) : <<f, i>> \in Population(tree, r)
<1> DEFINE classes == [f \in DOMAIN tree |-> {<<f, i>> : i \in Subjects(tree[f], family)}]
           all == {classes[f] : f \in DOMAIN tree}
<1>1. Population(tree, r) = UNION all
  BY DEF Population
<1>2. {f \in DOMAIN tree : Parsable(tree[f])} = DOMAIN tree
  BY DEF Readable
<1>3. Batch(tree, family).subjects = UNION all
  BY <1>2 DEF Batch
<1>4. IsFiniteSet(DOMAIN tree)
  BY FilesAssumption, FS_Subset DEF Readable
<1>5. ASSUME NEW f \in DOMAIN tree PROVE IsFiniteSet(classes[f])
  <2> DEFINE S == Subjects(tree[f], family)
             pair == [i \in S |-> <<f, i>>]
  <2>1. S \in SUBSET DOMAIN tree[f].classes /\ IsFiniteSet(DOMAIN tree[f].classes)
    BY DEF Subjects, Readable, WellFormed
  <2>2. IsFiniteSet(S)
    <3> HIDE DEF S
    <3> QED BY <2>1, FS_Subset
  <2>3. classes[f] = {pair[i] : i \in S}
    OBVIOUS
  <2> HIDE DEF pair, S, classes
  <2> QED BY <2>2, <2>3, ImageIsFinite
<1>6. IsFiniteSet(UNION all)
  <2>1. \A C \in all : IsFiniteSet(C)
    BY <1>5
  <2>2. IsFiniteSet(all)
    <3> HIDE DEF classes
    <3> QED BY <1>4, ImageIsFinite
  <2> HIDE DEF all
  <2> QED BY <2>1, <2>2, FS_UNION
<1> QED BY <1>1, <1>3, <1>6

\* Support counted by observations that lie in different classes is support of classes.
LEMMA EnoughCarriers ==
    ASSUME NEW entries, NEW carriers, IsFiniteSet(carriers), NEW place \in Injection(entries, carriers),
           NEW population, IsFiniteSet(population), Established(Cardinality(entries), Cardinality(population))
    PROVE  Cardinality(carriers) >= MinimumEvidence /\ 5 * Cardinality(carriers) >= 4 * Cardinality(population)
<1>1. IsFiniteSet(entries) /\ Cardinality(entries) <= Cardinality(carriers)
  BY FS_Injection
<1>2. Cardinality(entries) \in Nat /\ Cardinality(carriers) \in Nat /\ Cardinality(population) \in Nat
  BY <1>1, FS_CardinalityType
<1> QED BY <1>1, <1>2, EvidenceAssumption DEF Established

\* A structural rule: where no class names one base or decorator twice, each observation is of
\* a class of its own.
LEMMA StructureIsShared ==
    ASSUME NEW tree, Readable(tree), NamesOnce(tree), NEW family \in {"service", "controller"},
           NEW r \in StructureRules(Batch(tree, family)), r.active
    PROVE  /\ Cardinality(Carriers(tree, r)) >= MinimumEvidence
           /\ 5 * Cardinality(Carriers(tree, r)) >= 4 * Cardinality(Population(tree, r))
<1> DEFINE entries == {o \in Batch(tree, family).structure :
                         o.kind = r.kind /\ o.value = r.value /\ o.imported = r.imported}
           place == [o \in entries |-> <<o.at[1], o.at[2]>>]
<1>1. Established(Cardinality(entries), Cardinality(Batch(tree, family).subjects))
  BY StructureRuleFields
<1>2. r.kind # Dependency /\ r.kind[1] = family
  BY StructureRuleSound
<1>3. /\ Population(tree, r) = Batch(tree, family).subjects
      /\ IsFiniteSet(Population(tree, r))
      /\ \A f \in DOMAIN tree : \A i \in Subjects(tree[f], family) : <<f, i>> \in Population(tree, r)
  BY <1>2, PopulationIsSubjects
<1>4. Carriers(tree, r) \in SUBSET Population(tree, r)
  BY DEF Carriers
<1>5. IsFiniteSet(Carriers(tree, r))
  BY <1>3, <1>4, FS_Subset
<1>6. ASSUME NEW o \in entries
      PROVE  \E f \in DOMAIN tree : \E i \in Subjects(tree[f], family) : \E kind \in StructureKinds :
               \E j \in DOMAIN Nodes(tree[f].classes[i], kind) :
                 /\ Parsable(tree[f]) /\ o = StructureAt(tree, family, f, i, kind, j)
                 /\ o.at = <<f, i, j>> /\ r.kind = <<family, kind>>
                 /\ Nodes(tree[f].classes[i], kind)[j] = r.value
                 /\ Imported(tree[f], r.value) = r.imported
  <2>1. PICK f \in DOMAIN tree : \E i \in Subjects(tree[f], family) : \E kind \in StructureKinds :
             \E j \in DOMAIN Nodes(tree[f].classes[i], kind) :
               Parsable(tree[f]) /\ o = StructureAt(tree, family, f, i, kind, j)
    BY StructureObservations
  <2>2. PICK i \in Subjects(tree[f], family) : \E kind \in StructureKinds :
             \E j \in DOMAIN Nodes(tree[f].classes[i], kind) :
               Parsable(tree[f]) /\ o = StructureAt(tree, family, f, i, kind, j)
    BY <2>1
  <2>3. PICK kind \in StructureKinds : \E j \in DOMAIN Nodes(tree[f].classes[i], kind) :
               Parsable(tree[f]) /\ o = StructureAt(tree, family, f, i, kind, j)
    BY <2>2
  <2>4. PICK j \in DOMAIN Nodes(tree[f].classes[i], kind) :
               Parsable(tree[f]) /\ o = StructureAt(tree, family, f, i, kind, j)
    BY <2>3
  <2>5. /\ o.at = <<f, i, j>> /\ o.kind = <<family, kind>>
        /\ o.value = Nodes(tree[f].classes[i], kind)[j]
        /\ o.imported = Imported(tree[f], Nodes(tree[f].classes[i], kind)[j])
    BY <2>4 DEF StructureAt
  <2>6. o.kind = r.kind /\ o.value = r.value /\ o.imported = r.imported
    OBVIOUS
  <2> QED BY <2>4, <2>5, <2>6
<1>7. ASSUME NEW o \in entries PROVE place[o] \in Carriers(tree, r)
  <2>1. PICK f \in DOMAIN tree : \E i \in Subjects(tree[f], family) : \E kind \in StructureKinds :
               \E j \in DOMAIN Nodes(tree[f].classes[i], kind) :
                 /\ o.at = <<f, i, j>> /\ r.kind = <<family, kind>>
                 /\ Nodes(tree[f].classes[i], kind)[j] = r.value
                 /\ Imported(tree[f], r.value) = r.imported
    BY <1>6
  <2>2. PICK i \in Subjects(tree[f], family) : \E kind \in StructureKinds :
               \E j \in DOMAIN Nodes(tree[f].classes[i], kind) :
                 /\ o.at = <<f, i, j>> /\ r.kind = <<family, kind>>
                 /\ Nodes(tree[f].classes[i], kind)[j] = r.value
                 /\ Imported(tree[f], r.value) = r.imported
    BY <2>1
  <2>3. PICK kind, j : /\ j \in DOMAIN Nodes(tree[f].classes[i], kind)
                       /\ o.at = <<f, i, j>> /\ r.kind = <<family, kind>>
                       /\ Nodes(tree[f].classes[i], kind)[j] = r.value
                       /\ Imported(tree[f], r.value) = r.imported
    BY <2>2
  <2>4. place[o] = <<f, i>> /\ r.kind[2] = kind
    BY <2>3
  <2>5. r.value \in Range(Nodes(tree[f].classes[i], r.kind[2]))
    BY <2>3, <2>4 DEF Range
  <2>6. BearsOut(tree[f], tree[f].classes[i], r)
    BY <1>2, <2>3, <2>5 DEF BearsOut
  <2>7. place[o] \in Population(tree, r) /\ place[o][1] = f /\ place[o][2] = i
    BY <1>3, <2>4
  <2> HIDE DEF place
  <2> QED BY <2>6, <2>7 DEF Carriers
<1>8. ASSUME NEW o \in entries, NEW p \in entries, place[o] = place[p] PROVE o = p
  <2>1. PICK f, i, kind, j :
          /\ f \in DOMAIN tree /\ i \in DOMAIN tree[f].classes /\ kind \in StructureKinds
          /\ j \in DOMAIN Nodes(tree[f].classes[i], kind)
          /\ Parsable(tree[f]) /\ o = StructureAt(tree, family, f, i, kind, j)
          /\ o.at = <<f, i, j>> /\ r.kind = <<family, kind>>
          /\ Nodes(tree[f].classes[i], kind)[j] = r.value
    BY <1>6 DEF Subjects
  <2>2. PICK g, k, other, l :
          /\ l \in DOMAIN Nodes(tree[g].classes[k], other)
          /\ p = StructureAt(tree, family, g, k, other, l)
          /\ p.at = <<g, k, l>> /\ r.kind = <<family, other>>
          /\ Nodes(tree[g].classes[k], other)[l] = r.value
    BY <1>6
  <2>3. place[o] = <<f, i>> /\ place[p] = <<g, k>>
    BY <2>1, <2>2
  <2>4. f = g /\ i = k
    <3>1. <<f, i>> = <<g, k>>
      BY <1>8, <2>3
    <3> QED BY <3>1, Zenon
  <2>5. kind = other
    <3>1. <<family, kind>> = <<family, other>>
      BY <2>1, <2>2
    <3> QED BY <3>1, Zenon
  <2>6. IsInjective(Nodes(tree[f].classes[i], kind))
    BY <2>1 DEF NamesOnce
  <2>7. j = l
    BY <2>1, <2>2, <2>4, <2>5, <2>6 DEF IsInjective
  <2> QED BY <2>1, <2>2, <2>4, <2>5, <2>7
<1>9. place \in Injection(entries, Carriers(tree, r))
  <2>1. place \in [entries -> Carriers(tree, r)]
    BY <1>7
  <2> HIDE DEF place
  <2> QED BY <1>8, <2>1 DEF Injection, IsInjective
<1> HIDE DEF entries, place
<1> QED BY <1>1, <1>3, <1>5, <1>9, EnoughCarriers

\* A rule of a dependency: the attributes of a class have one observation each.
LEMMA DependencyIsShared ==
    ASSUME NEW tree, Readable(tree), NEW a, NEW r, r = DependencyRule(a, Batch(tree, "service")), r.active
    PROVE  /\ Cardinality(Carriers(tree, r)) >= MinimumEvidence
           /\ 5 * Cardinality(Carriers(tree, r)) >= 4 * Cardinality(Population(tree, r))
<1> DEFINE entries == EntriesOf(a, Batch(tree, "service"))
           place == [o \in entries |-> o.at]
<1>1. Established(Cardinality(entries), Cardinality(Batch(tree, "service").subjects))
  BY DependencyRuleActive
<1>2. r.kind = Dependency /\ r.value = a
  BY DependencyRuleKind
<1>3. /\ Population(tree, r) = Batch(tree, "service").subjects
      /\ IsFiniteSet(Population(tree, r))
      /\ \A f \in DOMAIN tree : \A i \in Subjects(tree[f], "service") : <<f, i>> \in Population(tree, r)
  BY <1>2, PopulationIsSubjects
<1>4. Carriers(tree, r) \in SUBSET Population(tree, r)
  BY DEF Carriers
<1>5. IsFiniteSet(Carriers(tree, r))
  BY <1>3, <1>4, FS_Subset
<1>6. ASSUME NEW o \in entries PROVE o.at \in Carriers(tree, r)
  <2>1. o \in Batch(tree, "service").dependencies /\ o.value = a
    BY DEF EntriesOf
  <2>2. PICK f \in DOMAIN tree : \E i \in Subjects(tree[f], "service") :
             /\ o.value \in DOMAIN tree[f].classes[i].fields
             /\ o = DependencyAt(tree, f, i, o.value)
    BY <2>1, DependencyObservations
  <2>3. PICK i \in Subjects(tree[f], "service") :
             /\ o.value \in DOMAIN tree[f].classes[i].fields
             /\ o = DependencyAt(tree, f, i, o.value)
    BY <2>2
  <2>4. o.at = <<f, i>>
    BY <2>3 DEF DependencyAt
  <2>5. BearsOut(tree[f], tree[f].classes[i], r)
    BY <1>2, <2>1, <2>3 DEF BearsOut
  <2>6. o.at \in Population(tree, r) /\ o.at[1] = f /\ o.at[2] = i
    BY <1>3, <2>4
  <2> QED BY <2>5, <2>6 DEF Carriers
<1>7. ASSUME NEW o \in entries, NEW p \in entries, o.at = p.at PROVE o = p
  <2>1. /\ o \in Batch(tree, "service").dependencies /\ o.value = a
        /\ p \in Batch(tree, "service").dependencies /\ p.value = a
    BY DEF EntriesOf
  <2> QED BY <1>7, <2>1, DependencyByPlace
<1>8. place \in Injection(entries, Carriers(tree, r))
  <2> HIDE DEF entries
  <2>1. place \in [entries -> Carriers(tree, r)]
    BY <1>6
  <2> QED BY <1>7, <2>1 DEF Injection, IsInjective
<1> HIDE DEF entries, place
<1> QED BY <1>1, <1>3, <1>5, <1>8, EnoughCarriers

\* One step that changes the rule database leaves rules in it that the repository bears out.
LEMMA ReplacedAreShared ==
    ASSUME SourceInv, [Next]_vars, knowledge' # knowledge, steady, NamesOnce(Inventory(repository)),
           NEW r \in ActiveRules(knowledge')
    PROVE  LET tree == Inventory(repository) IN
           /\ Cardinality(Carriers(tree, r)) >= MinimumEvidence
           /\ 5 * Cardinality(Carriers(tree, r)) >= 4 * Cardinality(Population(tree, r))
<1>1. ReplaceRules
  BY DEF Next, LearnerStep, BeginLearn, ParseFile, ParseFails, Leave, Infer, SaveState, Edit,
         Retrieve, Generate, Comply, ComplianceFails, Publish, learnerVars, vars
<1>2. phase = "parsing" /\ Pending = {} /\ knowledge' = LearnedRules(read)
  BY <1>1 DEF ReplaceRules
<1>3. read = Inventory(repository)
  BY <1>2, PassComplete DEF SourceInv, IInv
<1>4. Readable(read)
  BY ReadIsReadable DEF SourceInv
<1>5. r \in LearnedRules(read) /\ r.active
  BY <1>2 DEF ActiveRules
<1> QED BY <1>3, <1>4, <1>5, LearnedRulesAre, StructureIsShared, DependencyIsShared

\* Rules that learning makes active are borne out by minimum_evidence and by four in five of
\* the classes they speak of, if the repository was not edited meanwhile (aggregation.py:146).
THEOREM ActiveRulesAreShared == Spec => ActiveIsShared
<1>1. SourceInv /\ [Next]_vars =>
        [(knowledge' # knowledge /\ steady /\ NamesOnce(Inventory(repository))) =>
        \A r \in ActiveRules(knowledge') :
            LET tree == Inventory(repository) IN
            /\ Cardinality(Carriers(tree, r)) >= MinimumEvidence
            /\ 5 * Cardinality(Carriers(tree, r)) >= 4 * Cardinality(Population(tree, r))]_vars
  BY ReplacedAreShared
<1> QED BY <1>1, SourceInit, SourceStep, PTL DEF Spec, ActiveIsShared

-----------------------------------------------------------------------------
(* What publishing a file adds to what learning observes.                                      *)

\* Learning looks at the files of an inventory that can be parsed.
Parsed(tree) == [f \in {g \in DOMAIN tree : Parsable(tree[g])} |-> tree[f]]

LEMMA ParsedBatch == ASSUME NEW tree, NEW family PROVE Batch(tree, family) = Batch(Parsed(tree), family)
<1> DEFINE files == {f \in DOMAIN tree : Parsable(tree[f])}
           again == {f \in DOMAIN Parsed(tree) : Parsable(Parsed(tree)[f])}
<1>1. again = files /\ \A f \in files : Parsed(tree)[f] = tree[f]
  BY DEF Parsed
<1> HIDE DEF files, again
<1>2. /\ {{<<f, i>> : i \in Subjects(tree[f], family)} : f \in files}
         = {{<<f, i>> : i \in Subjects(Parsed(tree)[f], family)} : f \in again}
  BY <1>1
<1>3. {StructureOf(f, tree[f], family) : f \in files} = {StructureOf(f, Parsed(tree)[f], family) : f \in again}
  BY <1>1
<1>4. {DependenciesOf(f, tree[f]) : f \in files} = {DependenciesOf(f, Parsed(tree)[f]) : f \in again}
  BY <1>1
<1>5. Batch(tree, family) =
        [subjects |-> UNION {{<<f, i>> : i \in Subjects(tree[f], family)} : f \in files},
         structure |-> UNION {StructureOf(f, tree[f], family) : f \in files},
         dependencies |-> IF family = "service" THEN UNION {DependenciesOf(f, tree[f]) : f \in files} ELSE {}]
  BY Zenon DEF Batch, files
<1>6. Batch(Parsed(tree), family) =
        [subjects |-> UNION {{<<f, i>> : i \in Subjects(Parsed(tree)[f], family)} : f \in again},
         structure |-> UNION {StructureOf(f, Parsed(tree)[f], family) : f \in again},
         dependencies |-> IF family = "service"
                          THEN UNION {DependenciesOf(f, Parsed(tree)[f]) : f \in again} ELSE {}]
  BY Zenon DEF Batch, again
<1>7. /\ UNION {{<<f, i>> : i \in Subjects(tree[f], family)} : f \in files}
         = UNION {{<<f, i>> : i \in Subjects(Parsed(tree)[f], family)} : f \in again}
      /\ UNION {StructureOf(f, tree[f], family) : f \in files}
         = UNION {StructureOf(f, Parsed(tree)[f], family) : f \in again}
      /\ UNION {DependenciesOf(f, tree[f]) : f \in files}
         = UNION {DependenciesOf(f, Parsed(tree)[f]) : f \in again}
  BY <1>2, <1>3, <1>4
<1> DEFINE s1 == UNION {{<<f, i>> : i \in Subjects(tree[f], family)} : f \in files}
           s2 == UNION {StructureOf(f, tree[f], family) : f \in files}
           s3 == UNION {DependenciesOf(f, tree[f]) : f \in files}
           p1 == UNION {{<<f, i>> : i \in Subjects(Parsed(tree)[f], family)} : f \in again}
           p2 == UNION {StructureOf(f, Parsed(tree)[f], family) : f \in again}
           p3 == UNION {DependenciesOf(f, Parsed(tree)[f]) : f \in again}
<1>8. /\ Batch(tree, family) = [subjects |-> s1, structure |-> s2,
                                dependencies |-> IF family = "service" THEN s3 ELSE {}]
      /\ Batch(Parsed(tree), family) = [subjects |-> p1, structure |-> p2,
                                        dependencies |-> IF family = "service" THEN p3 ELSE {}]
  BY <1>5, <1>6
<1>9. s1 = p1 /\ s2 = p2 /\ s3 = p3
  BY <1>7
<1> HIDE DEF s1, s2, s3, p1, p2, p3
<1> QED BY <1>8, <1>9, Zenon

LEMMA ParsedRules == ASSUME NEW tree PROVE LearnedRules(tree) = LearnedRules(Parsed(tree))
BY ParsedBatch, Zenon DEF LearnedRules

LEMMA UnionGrows ==
    ASSUME NEW S, NEW f, NEW A, NEW B, \A g \in S : B[g] = A[g]
    PROVE  UNION {B[g] : g \in S \cup {f}} = (UNION {A[g] : g \in S}) \cup B[f]
<1>1. \A x : x \in UNION {B[g] : g \in S \cup {f}} <=> (\E g \in S : x \in B[g]) \/ x \in B[f]
  OBVIOUS
<1>2. \A x : x \in (UNION {A[g] : g \in S}) \cup B[f] <=> (\E g \in S : x \in A[g]) \/ x \in B[f]
  OBVIOUS
<1> QED BY <1>1, <1>2

\* A tree with one more file in it.
With(tree, f, source) == [g \in DOMAIN tree \cup {f} |-> IF g = f THEN source ELSE tree[g]]

LEMMA BatchGrows ==
    ASSUME NEW tree, \A g \in DOMAIN tree : Parsable(tree[g]), NEW f, f \notin DOMAIN tree,
           NEW source, Parsable(source)
    PROVE  LET batch == Batch(tree, "service")
               grown == Batch(With(tree, f, source), "service")
           IN  /\ grown.subjects = batch.subjects \cup {<<f, i>> : i \in Subjects(source, "service")}
               /\ grown.structure = batch.structure \cup StructureOf(f, source, "service")
               /\ grown.dependencies = batch.dependencies \cup DependenciesOf(f, source)
<1> DEFINE old == DOMAIN tree
           new == With(tree, f, source)
           files == {g \in DOMAIN tree : Parsable(tree[g])}
           all == {g \in DOMAIN new : Parsable(new[g])}
<1>1. files = old
  OBVIOUS
<1>2. /\ DOMAIN new = old \cup {f} /\ new[f] = source
      /\ \A g \in old : new[g] = tree[g]
  BY DEF With
<1> HIDE DEF new, old
<1>3. all = old \cup {f}
  BY <1>1, <1>2
<1>4. Batch(tree, "service") =
        [subjects |-> UNION {{<<g, i>> : i \in Subjects(tree[g], "service")} : g \in files},
         structure |-> UNION {StructureOf(g, tree[g], "service") : g \in files},
         dependencies |-> UNION {DependenciesOf(g, tree[g]) : g \in files}]
  BY Zenon DEF Batch, files
<1>5. Batch(new, "service") =
        [subjects |-> UNION {{<<g, i>> : i \in Subjects(new[g], "service")} : g \in all},
         structure |-> UNION {StructureOf(g, new[g], "service") : g \in all},
         dependencies |-> UNION {DependenciesOf(g, new[g]) : g \in all}]
  BY Zenon DEF Batch, all
<1> HIDE DEF files, all
<1>6. UNION {{<<g, i>> : i \in Subjects(new[g], "service")} : g \in all}
        = (UNION {{<<g, i>> : i \in Subjects(tree[g], "service")} : g \in files})
          \cup {<<f, i>> : i \in Subjects(source, "service")}
  <2> DEFINE A == [g \in files |-> {<<g, i>> : i \in Subjects(tree[g], "service")}]
             B == [g \in all |-> {<<g, i>> : i \in Subjects(new[g], "service")}]
  <2>1. /\ \A g \in files : A[g] = {<<g, i>> : i \in Subjects(tree[g], "service")}
        /\ \A g \in all : B[g] = {<<g, i>> : i \in Subjects(new[g], "service")}
    OBVIOUS
  <2>2. \A g \in files : B[g] = A[g]
    BY <1>1, <1>2, <1>3, <2>1
  <2>3. B[f] = {<<f, i>> : i \in Subjects(source, "service")}
    BY <1>2, <1>3, <2>1
  <2> HIDE DEF A, B
  <2>4. UNION {B[g] : g \in files \cup {f}} = (UNION {A[g] : g \in files}) \cup B[f]
    BY <2>2, UnionGrows
  <2>5. files \cup {f} = all
    BY <1>1, <1>3
  <2>6. {A[g] : g \in files} = {{<<g, i>> : i \in Subjects(tree[g], "service")} : g \in files}
    <3> DEFINE At(g) == {<<g, i>> : i \in Subjects(tree[g], "service")}
    <3>1. \A g \in files : A[g] = At(g)
      BY <2>1
    <3> HIDE DEF At
    <3>2. {A[g] : g \in files} = {At(g) : g \in files}
      BY <3>1
    <3> QED BY <3>2 DEF At
  <2>7. {B[g] : g \in all} = {{<<g, i>> : i \in Subjects(new[g], "service")} : g \in all}
    BY <2>1
  <2>8. UNION {B[g] : g \in all} = (UNION {A[g] : g \in files}) \cup B[f]
    BY <2>4, <2>5, Zenon
  <2> QED BY <2>3, <2>6, <2>7, <2>8, Zenon
<1>7. UNION {StructureOf(g, new[g], "service") : g \in all}
        = (UNION {StructureOf(g, tree[g], "service") : g \in files}) \cup StructureOf(f, source, "service")
  <2> DEFINE A == [g \in files |-> StructureOf(g, tree[g], "service")]
             B == [g \in all |-> StructureOf(g, new[g], "service")]
  <2>1. /\ \A g \in files : A[g] = StructureOf(g, tree[g], "service")
        /\ \A g \in all : B[g] = StructureOf(g, new[g], "service")
    OBVIOUS
  <2>2. \A g \in files : B[g] = A[g]
    BY <1>1, <1>2, <1>3, <2>1
  <2>3. B[f] = StructureOf(f, source, "service")
    BY <1>2, <1>3, <2>1
  <2> HIDE DEF A, B
  <2>4. UNION {B[g] : g \in files \cup {f}} = (UNION {A[g] : g \in files}) \cup B[f]
    BY <2>2, UnionGrows
  <2>5. files \cup {f} = all
    BY <1>1, <1>3
  <2>6. {A[g] : g \in files} = {StructureOf(g, tree[g], "service") : g \in files}
    BY <2>1
  <2>7. {B[g] : g \in all} = {StructureOf(g, new[g], "service") : g \in all}
    BY <2>1
  <2>8. UNION {B[g] : g \in all} = (UNION {A[g] : g \in files}) \cup B[f]
    BY <2>4, <2>5, Zenon
  <2> QED BY <2>3, <2>6, <2>7, <2>8, Zenon
<1>8. UNION {DependenciesOf(g, new[g]) : g \in all}
        = (UNION {DependenciesOf(g, tree[g]) : g \in files}) \cup DependenciesOf(f, source)
  <2> DEFINE A == [g \in files |-> DependenciesOf(g, tree[g])]
             B == [g \in all |-> DependenciesOf(g, new[g])]
  <2>1. /\ \A g \in files : A[g] = DependenciesOf(g, tree[g])
        /\ \A g \in all : B[g] = DependenciesOf(g, new[g])
    OBVIOUS
  <2>2. \A g \in files : B[g] = A[g]
    BY <1>1, <1>2, <1>3, <2>1
  <2>3. B[f] = DependenciesOf(f, source)
    BY <1>2, <1>3, <2>1
  <2> HIDE DEF A, B
  <2>4. UNION {B[g] : g \in files \cup {f}} = (UNION {A[g] : g \in files}) \cup B[f]
    BY <2>2, UnionGrows
  <2>5. files \cup {f} = all
    BY <1>1, <1>3
  <2>6. {A[g] : g \in files} = {DependenciesOf(g, tree[g]) : g \in files}
    BY <2>1
  <2>7. {B[g] : g \in all} = {DependenciesOf(g, new[g]) : g \in all}
    BY <2>1
  <2>8. UNION {B[g] : g \in all} = (UNION {A[g] : g \in files}) \cup B[f]
    BY <2>4, <2>5, Zenon
  <2> QED BY <2>3, <2>6, <2>7, <2>8, Zenon
<1>9. /\ Batch(new, "service").subjects = Batch(tree, "service").subjects \cup {<<f, i>> : i \in Subjects(source, "service")}
      /\ Batch(new, "service").structure = Batch(tree, "service").structure \cup StructureOf(f, source, "service")
      /\ Batch(new, "service").dependencies = Batch(tree, "service").dependencies \cup DependenciesOf(f, source)
  <2> DEFINE s1 == UNION {{<<g, i>> : i \in Subjects(tree[g], "service")} : g \in files}
             s2 == UNION {StructureOf(g, tree[g], "service") : g \in files}
             s3 == UNION {DependenciesOf(g, tree[g]) : g \in files}
             n1 == UNION {{<<g, i>> : i \in Subjects(new[g], "service")} : g \in all}
             n2 == UNION {StructureOf(g, new[g], "service") : g \in all}
             n3 == UNION {DependenciesOf(g, new[g]) : g \in all}
  <2>1. /\ Batch(tree, "service") = [subjects |-> s1, structure |-> s2, dependencies |-> s3]
        /\ Batch(new, "service") = [subjects |-> n1, structure |-> n2, dependencies |-> n3]
    BY <1>4, <1>5
  <2>2. /\ n1 = s1 \cup {<<f, i>> : i \in Subjects(source, "service")}
        /\ n2 = s2 \cup StructureOf(f, source, "service")
        /\ n3 = s3 \cup DependenciesOf(f, source)
    BY <1>6, <1>7, <1>8
  <2> HIDE DEF s1, s2, s3, n1, n2, n3
  <2> QED BY <2>1, <2>2
<1> QED BY <1>9 DEF new

\* What the published file of a service is to the rules of structure it was made from.
WellBuilt(file, rules) ==
    LET class == file.classes[1]
        context == CodingContext(rules, "service")
    IN  /\ Parsable(file) /\ DOMAIN file.classes = {1}
        /\ class.family = "service"
        /\ class.bases = <<context.base.value>> /\ class.decorators = <<context.decorator.value>>
        /\ Imported(file, context.base.value) = context.base.imported
        /\ Imported(file, context.decorator.value) = context.decorator.imported

\* What it is to all of them, if the learner takes its attributes for what the gate does.
Faithful(file, rules) ==
    LET class == file.classes[1]
    IN  /\ WellBuilt(file, rules)
        /\ DOMAIN class.fields = {r.value : r \in Dependencies(rules)}
        /\ \A r \in Dependencies(rules) :
             /\ class.fields[r.value].type = TypeOf(r)
             /\ Constructed(class.fields[r.value].arguments) = r.arguments
             /\ InvocationsIn(class, DOMAIN class.calls, r.value) = r.required
             /\ IF r.modules = {} THEN Imported(file, TypeOf(r)) = NoImport
                ELSE Provenance(file, TypeOf(r), r.concrete[TypeOf(r)])

\* The calls of a class that makes the rendered calls only, and in each operation the required
\* ones, are those a dependency requires.
LEMMA RequiredAreMade ==
    ASSUME NEW rules, Sound(rules), Usable(rules), NEW class,
           \A m \in DOMAIN class.calls : class.calls[m] \subseteq RenderedCalls(CodingContext(rules, "service")),
           NEW r \in Dependencies(rules),
           \A m \in Operations(class), v \in r.required : v \in InvocationsIn(class, {m}, r.value),
           r.required # {} => Operations(class) # {}
    PROVE  InvocationsIn(class, DOMAIN class.calls, r.value) = r.required
<1> DEFINE context == CodingContext(rules, "service")
<1>1. context.dependencies = {DependencyContext(q) : q \in Dependencies(rules)}
  BY DEF CodingContext
<1>2. \A d \in context.dependencies : \A v \in d.required : Supported(v)
  BY DEF Usable
<1>3. ASSUME NEW v \in r.required PROVE v \in InvocationsIn(class, DOMAIN class.calls, r.value)
  <2>1. PICK m \in Operations(class) : TRUE
    BY <1>3
  <2>2. v \in InvocationsIn(class, {m}, r.value) /\ m \in DOMAIN class.calls
    BY <2>1 DEF Operations
  <2>3. PICK c \in class.calls[m] : c.attribute = r.value /\ v = Invocation(c)
    BY <2>2 DEF InvocationsIn
  <2> QED BY <2>2, <2>3 DEF InvocationsIn
<1>4. ASSUME NEW v \in InvocationsIn(class, DOMAIN class.calls, r.value) PROVE v \in r.required
  <2>1. PICK m \in DOMAIN class.calls : \E c \in class.calls[m] : c.attribute = r.value /\ v = Invocation(c)
    BY DEF InvocationsIn
  <2>2. PICK c \in class.calls[m] : c.attribute = r.value /\ v = Invocation(c)
    BY <2>1
  <2>3. c \in RenderedCalls(context)
    BY <2>2
  <2>4. PICK d \in context.dependencies : \E w \in d.required :
          c = [attribute |-> d.attribute, method |-> w.method,
               arguments |-> [i \in DOMAIN w.shapes |-> RenderedArgument[w.shapes[i]]]]
    BY <2>3 DEF RenderedCalls
  <2>5. PICK w \in d.required :
          c = [attribute |-> d.attribute, method |-> w.method,
               arguments |-> [i \in DOMAIN w.shapes |-> RenderedArgument[w.shapes[i]]]]
    BY <2>4
  <2>6. PICK q \in Dependencies(rules) : d = DependencyContext(q)
    BY <1>1, <2>4
  <2>7. d.attribute = q.value /\ d.required = q.required
    BY <2>6 DEF DependencyContext
  <2>8. c.attribute = d.attribute
    BY <2>5
  <2>9. q \in OfKind(rules, Dependency) /\ r \in OfKind(rules, Dependency) /\ q.value = r.value
    BY <2>2, <2>7, <2>8 DEF Dependencies
  <2>10. q = r /\ SoundDependency(r)
    BY <2>9 DEF Sound
  <2>11. w \in r.required /\ RequirementForm(w) /\ Supported(w)
    BY <1>2, <2>4, <2>5, <2>7, <2>10 DEF SoundDependency
  <2>12. Invocation(c) = w
    BY <2>5, <2>11, RenderedCallIsObserved
  <2> QED BY <2>2, <2>11, <2>12
<1> QED BY <1>3, <1>4

\* Every file that reaches publication is well built, whatever slips the coding model made before.
LEMMA CompliedIsWellBuilt ==
    ASSUME SourceInv, stage = "complied", task.family = "service" PROVE WellBuilt(draft, used)
<1> DEFINE class == draft.classes[1]
<1>1. /\ Usable(used) /\ Context = CodingContext(used, "service")
      /\ ValidateService(draft, used) /\ Shaped(draft, task, Context)
  BY DEF SourceInv, GateInv, Context
<1>2. Honours(draft, class, Context)
  BY GateSuffices DEF SourceInv, ComplianceEnforcesContext
<1>3. OfFamily(draft, "service") # {} /\ Parsable(draft)
  BY <1>1 DEF ValidateService, ValidateArtifact
<1>4. DOMAIN draft.classes = {1} /\ ClassShaped(class, task, Context)
  BY <1>1, <1>3 DEF Shaped, OfFamily
<1>5. class.bases = <<Context.base.value>> /\ class.decorators = <<Context.decorator.value>>
  <2>1. class.bases # <<>> /\ class.decorators # <<>>
    BY <1>2 DEF Honours, Range
  <2> QED BY <1>4, <2>1 DEF ClassShaped
<1>6. /\ Imported(draft, Context.base.value) = Context.base.imported
      /\ Imported(draft, Context.decorator.value) = Context.decorator.imported
  <2>1. /\ <<Context.base.value, Context.base.imported>> \in ImportsOf(Context)
        /\ <<Context.decorator.value, Context.decorator.imported>> \in ImportsOf(Context)
    BY DEF ImportsOf
  <2> QED BY <1>2, <2>1 DEF Honours
<1>7. class.family = "service"
  BY <1>4 DEF ClassShaped
<1> HIDE DEF class
<1> QED BY <1>1, <1>3, <1>4, <1>5, <1>6, <1>7, Zenon DEF WellBuilt, class

\* And faithful, where the learner takes its attributes for what the gate does.
LEMMA CompliedIsFaithful ==
    ASSUME SourceInv, stage = "complied", task.family = "service", NamesLeftAlone, AssignedInInit
    PROVE  Faithful(draft, used)
<1> DEFINE class == draft.classes[1]
<1>1. /\ Usable(used) /\ Sound(used) /\ Context = CodingContext(used, "service")
      /\ (\E d \in Context.dependencies : d.required # {}) => task.operations # {}
      /\ ValidateService(draft, used) /\ Shaped(draft, task, Context)
      /\ task \in Tasks
  BY DEF SourceInv, GateInv, Sourced, IInv, TypeOK, Context
<1>2. Honours(draft, class, Context)
  BY GateSuffices DEF SourceInv, ComplianceEnforcesContext
<1>3. OfFamily(draft, "service") # {} /\ Parsable(draft)
  BY <1>1 DEF ValidateService, ValidateArtifact
<1>4. DOMAIN draft.classes = {1} /\ ClassShaped(class, task, Context)
  BY <1>1, <1>3 DEF Shaped, OfFamily
<1>5. WellBuilt(draft, used)
  BY CompliedIsWellBuilt
<1>6. \A r \in Dependencies(used) : r.value \in DOMAIN Assigned(class) =>
         r.value \in DOMAIN class.fields /\ Assigned(class)[r.value] = class.fields[r.value]
  BY DEF AssignedInInit, Assigned
<1>7. Context.dependencies = {DependencyContext(r) : r \in Dependencies(used)}
  BY <1>1 DEF CodingContext
<1>8. ASSUME NEW r \in Dependencies(used)
      PROVE  /\ r.value \in DOMAIN class.fields
             /\ class.fields[r.value].type = TypeOf(r)
             /\ Constructed(class.fields[r.value].arguments) = r.arguments
             /\ \A m \in Operations(class), v \in r.required : v \in InvocationsIn(class, {m}, r.value)
             /\ DependencyContext(r) \in Context.dependencies
             /\ DependencyContext(r).attribute = r.value /\ DependencyContext(r).required = r.required
  <2> DEFINE d == DependencyContext(r)
  <2>1. /\ d.attribute = r.value /\ d.type = TypeOf(r) /\ d.arguments = r.arguments /\ d.required = r.required
    BY DEF DependencyContext
  <2>2. d \in Context.dependencies
    BY <1>7
  <2> HIDE DEF d
  <2>3. /\ d.attribute \in DOMAIN Assigned(class)
        /\ Assigned(class)[d.attribute].type = d.type
        /\ Constructed(Assigned(class)[d.attribute].arguments) = d.arguments
        /\ \A m \in Operations(class), v \in d.required : v \in InvocationsIn(class, {m}, d.attribute)
    BY <1>2, <2>2 DEF Honours
  <2> HIDE DEF class
  <2> QED BY <1>6, <2>1, <2>2, <2>3 DEF d
<1>9. DOMAIN class.fields = {r.value : r \in Dependencies(used)}
  <2>1. DOMAIN class.fields \subseteq {d.attribute : d \in Context.dependencies}
    BY <1>4 DEF ClassShaped
  <2>2. ASSUME NEW a \in DOMAIN class.fields PROVE \E r \in Dependencies(used) : a = r.value
    <3>1. PICK d \in Context.dependencies : a = d.attribute
      BY <2>1
    <3>2. PICK r \in Dependencies(used) : d = DependencyContext(r)
      BY <1>7, <3>1
    <3> QED BY <1>8, <3>1, <3>2
  <2> QED BY <1>8, <2>2
<1>10. ASSUME NEW r \in Dependencies(used)
       PROVE  InvocationsIn(class, DOMAIN class.calls, r.value) = r.required
  <2>1. r.required # {} => Operations(class) # {}
    <3>1. SUFFICES ASSUME r.required # {} PROVE Operations(class) # {}
      OBVIOUS
    <3>2. task.operations # {}
      BY <1>1, <1>8, <3>1
    <3>3. DOMAIN class.calls = task.operations \cup {"__init__"} /\ "__init__" \notin task.operations
      BY <1>1, <1>4, OperationsAssumption DEF ClassShaped
    <3> QED BY <3>2, <3>3 DEF Operations
  <2>2. \A m \in DOMAIN class.calls : class.calls[m] \subseteq RenderedCalls(CodingContext(used, "service"))
    BY <1>1, <1>4 DEF ClassShaped
  <2>3. \A m \in Operations(class), v \in r.required : v \in InvocationsIn(class, {m}, r.value)
    BY <1>8
  <2> HIDE DEF class
  <2> QED BY <1>1, <2>1, <2>2, <2>3, RequiredAreMade
<1>11. ASSUME NEW r \in Dependencies(used)
       PROVE  IF r.modules = {} THEN Imported(draft, TypeOf(r)) = NoImport
              ELSE Provenance(draft, TypeOf(r), r.concrete[TypeOf(r)])
  <2>1. CASE r.modules = {}
    <3>1. \A i \in ImportsOf(Context) : i[1] # TypeOf(r)
      BY <2>1 DEF NamesLeftAlone
    <3>2. DOMAIN draft.imports \subseteq {i[1] : i \in ImportsOf(Context)}
      BY <1>1 DEF Shaped
    <3>3. TypeOf(r) \notin DOMAIN draft.imports
      BY <3>1, <3>2
    <3> QED BY <2>1, <3>3 DEF Imported
  <2>2. CASE r.modules # {}
    <3>1. DependencyComplies(draft, draft.classes[Min(OfFamily(draft, "service"))], r)
      BY <1>1 DEF ValidateService, ValidateArtifact
    <3> QED BY <2>2, <3>1 DEF DependencyComplies
  <2> QED BY <2>1, <2>2
<1> HIDE DEF class
<1>13. \A r \in Dependencies(used) :
             /\ class.fields[r.value].type = TypeOf(r)
             /\ Constructed(class.fields[r.value].arguments) = r.arguments
             /\ InvocationsIn(class, DOMAIN class.calls, r.value) = r.required
             /\ IF r.modules = {} THEN Imported(draft, TypeOf(r)) = NoImport
                ELSE Provenance(draft, TypeOf(r), r.concrete[TypeOf(r)])
  BY <1>8, <1>10, <1>11
<1> QED BY <1>5, <1>9, <1>13, Zenon DEF Faithful, class


-----------------------------------------------------------------------------
(* The rules of structure, once a faithful file is observed as well                            *)

LEMMA OneMoreOfEach ==
    ASSUME NEW s \in Nat, NEW n \in Nat
    PROVE  /\ Established(s, n) => Established(s + 1, n + 1)
           /\ Established(s, n + 1) => Established(s, n)
BY EvidenceAssumption DEF Established

KeyOf(o) == [kind |-> o.kind, value |-> o.value, imported |-> o.imported]

Bearing(key, batch) == {o \in batch.structure : KeyOf(o) = key}

StructureRule(key, batch) == WithCounts(key, Bearing(key, batch), batch)

LEMMA StructureRulesAre ==
    ASSUME NEW batch PROVE StructureRules(batch) = {StructureRule(KeyOf(o), batch) : o \in batch.structure}
<1>1. \A r : r \in StructureRules(batch) <=> \E o \in batch.structure : r = StructureRule(KeyOf(o), batch)
  BY DEF StructureRules, StructureRule, Bearing, KeyOf
<1>2. \A r : r \in {StructureRule(KeyOf(o), batch) : o \in batch.structure}
               <=> \E o \in batch.structure : r = StructureRule(KeyOf(o), batch)
  OBVIOUS
<1> QED BY <1>1, <1>2

LEMMA StructureRuleIs ==
    ASSUME NEW o, NEW batch, NEW rule, rule = StructureRule(KeyOf(o), batch)
    PROVE  /\ rule.kind = o.kind /\ KeyOf(rule) = KeyOf(o)
           /\ rule.support = Cardinality(Bearing(KeyOf(o), batch))
           /\ rule.subjects = Cardinality(batch.subjects)
           /\ rule.active = Established(Cardinality(Bearing(KeyOf(o), batch)), Cardinality(batch.subjects))
<1> DEFINE key == KeyOf(o)
           entries == Bearing(key, batch)
<1>1. rule = WithCounts(key, entries, batch)
  BY DEF StructureRule
<1>2. key = [kind |-> o.kind, value |-> o.value, imported |-> o.imported]
  BY DEF KeyOf
<1> HIDE DEF key, entries
<1>3. rule.kind = o.kind /\ rule.value = o.value /\ rule.imported = o.imported
  BY <1>1, <1>2 DEF WithCounts
<1>4. /\ rule.support = Cardinality(entries)
      /\ rule.subjects = Cardinality(batch.subjects)
  BY <1>1, <1>2 DEF WithCounts
<1>5. rule.active = Established(Cardinality(entries), Cardinality(batch.subjects))
  BY <1>1, <1>2 DEF WithCounts
<1>6. KeyOf(rule) = KeyOf(o)
  BY <1>3 DEF KeyOf
<1> QED BY <1>3, <1>4, <1>5, <1>6 DEF key, entries

LEMMA MoreSupport ==
    ASSUME NEW a \in Nat, NEW b \in Nat, NEW n \in Nat
    PROVE  (a * n > b * n \/ (a * n = b * n /\ a > b)) <=> a > b
<1>1. CASE a > b
  <2>1. (a - b) * n >= 0 /\ a * n = b * n + (a - b) * n
    BY <1>1
  <2> QED BY <1>1, <2>1
<1>2. CASE a <= b
  <2>1. (b - a) * n >= 0 /\ b * n = a * n + (b - a) * n
    BY <1>2
  <2> QED BY <1>2, <2>1
<1> QED BY <1>1, <1>2

ActiveStructure(batch, kind) == {r \in StructureRules(batch) : r.active /\ r.kind = kind}

LEMMA BearingIsCounted ==
    ASSUME NEW batch, IsFiniteSet(batch.structure), NEW key
    PROVE  IsFiniteSet(Bearing(key, batch)) /\ Cardinality(Bearing(key, batch)) \in Nat
<1>1. Bearing(key, batch) \in SUBSET batch.structure
  BY DEF Bearing
<1> QED BY <1>1, FS_Subset, FS_CardinalityType

LEMMA OutranksIsSupport ==
    ASSUME NEW batch, IsFiniteSet(batch.structure), IsFiniteSet(batch.subjects),
           NEW r \in StructureRules(batch), NEW s \in StructureRules(batch)
    PROVE  /\ Outranks(r, s) <=> r.support > s.support
           /\ r.support \in Nat /\ s.support \in Nat
           /\ KeyOf(r) = KeyOf(s) => r = s
<1>1. PICK o : r = StructureRule(KeyOf(o), batch)
  BY StructureRulesAre
<1>2. PICK p : s = StructureRule(KeyOf(p), batch)
  BY StructureRulesAre
<1>3. /\ r.support = Cardinality(Bearing(KeyOf(o), batch)) /\ s.support = Cardinality(Bearing(KeyOf(p), batch))
      /\ r.subjects = Cardinality(batch.subjects) /\ s.subjects = Cardinality(batch.subjects)
      /\ KeyOf(r) = KeyOf(o) /\ KeyOf(s) = KeyOf(p)
  BY <1>1, <1>2, StructureRuleIs
<1>4. r.support \in Nat /\ s.support \in Nat /\ Cardinality(batch.subjects) \in Nat
  BY <1>3, BearingIsCounted, FS_CardinalityType
<1>5. Outranks(r, s) <=> r.support > s.support
  BY <1>3, <1>4, MoreSupport DEF Outranks
<1>6. KeyOf(r) = KeyOf(s) => r = s
  BY <1>1, <1>2, <1>3
<1> QED BY <1>4, <1>5, <1>6

\* One more class that has what the selected rule of a kind asks for, and nothing else of the
\* kind, leaves that rule the only best one.
LEMMA SelectionKept ==
    ASSUME NEW before, IsFiniteSet(before.structure), IsFiniteSet(before.subjects),
           NEW after, IsFiniteSet(after.structure), IsFiniteSet(after.subjects),
           Cardinality(after.subjects) = Cardinality(before.subjects) + 1,
           NEW kind, NEW rules, OfKind(rules, kind) = ActiveStructure(before, kind),
           NEW learned, OfKind(learned, kind) = ActiveStructure(after, kind),
           Selectable(rules, kind),
           NEW new, new.kind = kind, new \notin before.structure,
           KeyOf(new) = KeyOf(Selected(rules, kind)),
           \A o : o.kind = kind => (o \in after.structure <=> o \in before.structure \/ o = new)
    PROVE  Selectable(learned, kind) /\ KeyOf(Selected(learned, kind)) = KeyOf(Selected(rules, kind))
<1> DEFINE best == Selected(rules, kind)
           again == StructureRule(KeyOf(new), after)
<1>1. PICK x : Best(rules, kind) = {x}
  <2> DEFINE rule == [o \in before.structure |-> StructureRule(KeyOf(o), before)]
  <2>1. StructureRules(before) = {rule[o] : o \in before.structure}
    BY StructureRulesAre
  <2> HIDE DEF rule
  <2>2. IsFiniteSet(StructureRules(before))
    BY <2>1, ImageIsFinite
  <2>3. Best(rules, kind) \in SUBSET StructureRules(before)
    BY DEF Best, ActiveStructure
  <2>4. IsFiniteSet(Best(rules, kind))
    BY <2>2, <2>3, FS_Subset
  <2> QED BY <2>4, FS_Singleton DEF Selectable
<1>2. best = x
  BY <1>1 DEF Selected
<1>3. best \in ActiveStructure(before, kind) /\ \A s \in ActiveStructure(before, kind) : ~Outranks(s, best)
  BY <1>1, <1>2 DEF Best
<1>4. best \in StructureRules(before) /\ best.active /\ best.kind = kind
  BY <1>3 DEF ActiveStructure
<1>5. ASSUME NEW s \in ActiveStructure(before, kind), s # best PROVE s.support < best.support
  <2>1. s \in StructureRules(before)
    BY DEF ActiveStructure
  <2>2. /\ Outranks(s, best) <=> s.support > best.support
        /\ s.support \in Nat /\ best.support \in Nat
    BY <1>4, <2>1, OutranksIsSupport
  <2>3. s.support <= best.support
    BY <1>3, <2>2
  <2>4. CASE s.support = best.support
    <3>1. \A t \in ActiveStructure(before, kind) : ~Outranks(t, s)
      <4>1. SUFFICES ASSUME NEW t \in ActiveStructure(before, kind) PROVE ~Outranks(t, s)
        OBVIOUS
      <4>2. t \in StructureRules(before)
        BY DEF ActiveStructure
      <4>3. /\ Outranks(t, best) <=> t.support > best.support
            /\ Outranks(t, s) <=> t.support > s.support
        BY <1>4, <2>1, <4>2, OutranksIsSupport
      <4> QED BY <1>3, <2>4, <4>3
    <3>2. s \in Best(rules, kind)
      BY <3>1 DEF Best
    <3> QED BY <1>1, <1>2, <1>5, <3>2
  <2> QED BY <2>2, <2>3, <2>4
<1>6. ASSUME NEW o, o.kind = kind
      PROVE  /\ KeyOf(o) # KeyOf(new) => Bearing(KeyOf(o), after) = Bearing(KeyOf(o), before)
             /\ Bearing(KeyOf(new), after) = Bearing(KeyOf(new), before) \cup {new}
  <2>1. \A key, p : KeyOf(p) = key => p.kind = key.kind
    BY DEF KeyOf
  <2>2. KeyOf(o).kind = kind /\ KeyOf(new).kind = kind
    BY <1>6 DEF KeyOf
  <2>3. \A p : p \in Bearing(KeyOf(o), after) <=> p \in after.structure /\ KeyOf(p) = KeyOf(o)
    BY DEF Bearing
  <2>4. \A p : p \in Bearing(KeyOf(o), before) <=> p \in before.structure /\ KeyOf(p) = KeyOf(o)
    BY DEF Bearing
  <2>5. KeyOf(o) # KeyOf(new) => Bearing(KeyOf(o), after) = Bearing(KeyOf(o), before)
    BY <2>1, <2>2, <2>3, <2>4
  <2>6. \A p : p \in Bearing(KeyOf(new), after) <=> p \in after.structure /\ KeyOf(p) = KeyOf(new)
    BY DEF Bearing
  <2>7. \A p : p \in Bearing(KeyOf(new), before) <=> p \in before.structure /\ KeyOf(p) = KeyOf(new)
    BY DEF Bearing
  <2>8. Bearing(KeyOf(new), after) = Bearing(KeyOf(new), before) \cup {new}
    BY <2>1, <2>2, <2>6, <2>7
  <2> QED BY <2>5, <2>8
<1>7. PICK o \in before.structure : best = StructureRule(KeyOf(o), before)
  BY <1>4, StructureRulesAre
<1>8. KeyOf(o) = KeyOf(new) /\ best.support = Cardinality(Bearing(KeyOf(new), before))
      /\ Established(best.support, Cardinality(before.subjects))
  BY <1>4, <1>7, StructureRuleIs
<1>9. Cardinality(Bearing(KeyOf(new), after)) = best.support + 1 /\ best.support \in Nat
  <2>1. new \notin Bearing(KeyOf(new), before)
    BY DEF Bearing
  <2>2. IsFiniteSet(Bearing(KeyOf(new), before)) /\ Cardinality(Bearing(KeyOf(new), before)) \in Nat
    BY BearingIsCounted
  <2>3. Bearing(KeyOf(new), after) = Bearing(KeyOf(new), before) \cup {new}
    BY <1>6
  <2>4. Cardinality(Bearing(KeyOf(new), before) \cup {new}) = Cardinality(Bearing(KeyOf(new), before)) + 1
    BY <2>1, <2>2, FS_AddElement
  <2> QED BY <1>8, <2>2, <2>3, <2>4, Zenon
<1>10. /\ again.kind = kind /\ KeyOf(again) = KeyOf(new) /\ again.support = best.support + 1
       /\ again.active = Established(best.support + 1, Cardinality(after.subjects))
  BY <1>9, StructureRuleIs
<1>11. again \in StructureRules(after)
  <2>1. new \in after.structure
    OBVIOUS
  <2> QED BY <2>1, StructureRulesAre
<1>12. Cardinality(before.subjects) \in Nat
  BY FS_CardinalityType
<1>13. again \in ActiveStructure(after, kind)
  <2>1. again.active
    BY <1>8, <1>9, <1>10, <1>12, OneMoreOfEach
  <2> QED BY <1>10, <1>11, <2>1 DEF ActiveStructure
<1> HIDE DEF best, again
<1>14. ASSUME NEW s \in ActiveStructure(after, kind), s # again PROVE s.support < again.support /\ s.support \in Nat
  <2>1. s \in StructureRules(after) /\ s.active /\ s.kind = kind
    BY DEF ActiveStructure
  <2>2. PICK p \in after.structure : s = StructureRule(KeyOf(p), after)
    BY <2>1, StructureRulesAre
  <2>3. /\ KeyOf(s) = KeyOf(p) /\ s.kind = p.kind
        /\ s.support = Cardinality(Bearing(KeyOf(p), after))
        /\ s.active = Established(Cardinality(Bearing(KeyOf(p), after)), Cardinality(after.subjects))
    BY <2>2, StructureRuleIs
  <2>4. KeyOf(p) # KeyOf(new)
    BY <1>10, <1>11, <1>14, <2>1, <2>3, OutranksIsSupport
  <2>5. Bearing(KeyOf(p), after) = Bearing(KeyOf(p), before) /\ p \in before.structure
    BY <1>6, <2>1, <2>3, <2>4
  <2> DEFINE was == StructureRule(KeyOf(p), before)
  <2>6. /\ was.kind = p.kind /\ KeyOf(was) = KeyOf(p)
        /\ was.support = Cardinality(Bearing(KeyOf(p), before))
        /\ was.active = Established(Cardinality(Bearing(KeyOf(p), before)), Cardinality(before.subjects))
    BY StructureRuleIs
  <2>7. was \in StructureRules(before)
    BY <2>5, StructureRulesAre
  <2> HIDE DEF was
  <2>8. was.support = s.support /\ s.support \in Nat
    BY <2>3, <2>5, <2>6, BearingIsCounted
  <2>9. Established(s.support, Cardinality(before.subjects) + 1)
    BY <2>1, <2>3
  <2>10. was.active
    BY <1>12, <2>6, <2>8, <2>9, OneMoreOfEach
  <2>11. was \in ActiveStructure(before, kind)
    BY <2>1, <2>3, <2>6, <2>7, <2>10 DEF ActiveStructure
  <2>12. was # best
    BY <1>7, <1>8, <2>4, <2>6, StructureRuleIs
  <2>13. was.support < best.support
    BY <1>5, <2>11, <2>12
  <2> QED BY <1>9, <1>10, <2>8, <2>13
<1>15. ASSUME NEW s \in ActiveStructure(after, kind) PROVE s \in StructureRules(after)
  BY DEF ActiveStructure
<1>16. Best(learned, kind) = {again}
  <2>1. ASSUME NEW s \in ActiveStructure(after, kind) PROVE ~Outranks(s, again)
    <3>1. Outranks(s, again) <=> s.support > again.support
      BY <1>11, <1>15, OutranksIsSupport
    <3> QED BY <1>9, <1>10, <1>14, <3>1
  <2>2. ASSUME NEW s \in ActiveStructure(after, kind), s # again PROVE Outranks(again, s)
    <3>1. Outranks(again, s) <=> again.support > s.support
      BY <1>11, <1>15, OutranksIsSupport
    <3> QED BY <1>9, <1>10, <1>14, <2>2, <3>1
  <2> QED BY <1>13, <2>1, <2>2 DEF Best
<1>17. Selectable(learned, kind) /\ Selected(learned, kind) = again
  BY <1>16, FS_Singleton DEF Selectable, Selected
<1> QED BY <1>10, <1>17 DEF best

LEMMA UnionIsFinite ==
    ASSUME NEW S, IsFiniteSet(S), NEW F, \A x \in S : IsFiniteSet(F[x])
    PROVE  IsFiniteSet(UNION {F[x] : x \in S})
<1> DEFINE all == {F[x] : x \in S}
<1>1. IsFiniteSet(all)
  BY ImageIsFinite
<1>2. \A T \in all : IsFiniteSet(T)
  OBVIOUS
<1> HIDE DEF all
<1>3. IsFiniteSet(UNION all)
  BY <1>1, <1>2, FS_UNION
<1> QED BY <1>3 DEF all

\* What is observed of one kind of structure of a class.
NodesOf(f, source, family, i, kind) ==
    LET nodes == Nodes(source.classes[i], kind) IN
    {[kind |-> <<family, kind>>, value |-> nodes[j], imported |-> Imported(source, nodes[j]),
      at |-> <<f, i, j>>] : j \in {n \in DOMAIN nodes : nodes[n] # NoName}}

LEMMA StructureOfIs ==
    ASSUME NEW f, NEW source, NEW family
    PROVE  StructureOf(f, source, family) =
             UNION {UNION {NodesOf(f, source, family, i, kind) : kind \in StructureKinds}
                      : i \in Subjects(source, family)}
BY Zenon DEF StructureOf, NodesOf

LEMMA StructureIsFinite ==
    ASSUME NEW f, NEW source, WellFormed(source), Parsable(source), NEW family
    PROVE  IsFiniteSet(StructureOf(f, source, family))
<1> DEFINE S == Subjects(source, family)
           at == [i \in S |-> [kind \in StructureKinds |-> NodesOf(f, source, family, i, kind)]]
           of == [i \in S |-> UNION {at[i][kind] : kind \in StructureKinds}]
<1>1. IsFiniteSet(S)
  <2>1. S \in SUBSET DOMAIN source.classes /\ IsFiniteSet(DOMAIN source.classes)
    BY DEF Subjects, WellFormed
  <2> HIDE DEF S
  <2> QED BY <2>1, FS_Subset
<1>2. IsFiniteSet(StructureKinds)
  <2>1. IsFiniteSet({"base_class"})
    BY FS_Singleton
  <2>2. IsFiniteSet({"base_class"} \cup {"required_decorator"})
    BY <2>1, FS_AddElement
  <2>3. {"base_class"} \cup {"required_decorator"} = StructureKinds
    BY DEF StructureKinds
  <2> QED BY <2>2, <2>3, Zenon
<1>3. ASSUME NEW i \in S, NEW kind \in StructureKinds PROVE IsFiniteSet(NodesOf(f, source, family, i, kind))
  <2> DEFINE nodes == Nodes(source.classes[i], kind)
             named == {n \in DOMAIN nodes : nodes[n] # NoName}
             record == [j \in named |-> [kind |-> <<family, kind>>, value |-> nodes[j],
                                         imported |-> Imported(source, nodes[j]), at |-> <<f, i, j>>]]
  <2>1. IsFiniteSet(DOMAIN nodes)
    BY DEF Subjects, WellFormed, Nodes
  <2>2. IsFiniteSet(named)
    <3>1. named \in SUBSET DOMAIN nodes
      OBVIOUS
    <3> HIDE DEF nodes, named
    <3> QED BY <2>1, <3>1, FS_Subset
  <2>3. NodesOf(f, source, family, i, kind) = {record[j] : j \in named}
    BY DEF NodesOf
  <2> HIDE DEF record, named
  <2> QED BY <2>2, <2>3, ImageIsFinite
<1>4. ASSUME NEW i \in S PROVE IsFiniteSet(of[i])
  <2>1. \A kind \in StructureKinds : IsFiniteSet(at[i][kind])
    BY <1>3
  <2>2. of[i] = UNION {at[i][kind] : kind \in StructureKinds}
    OBVIOUS
  <2> HIDE DEF at, of
  <2> QED BY <1>2, <2>1, <2>2, UnionIsFinite
<1>5. StructureOf(f, source, family) = UNION {of[i] : i \in S}
  <2>1. \A i \in S : of[i] = UNION {NodesOf(f, source, family, i, kind) : kind \in StructureKinds}
    OBVIOUS
  <2> HIDE DEF of
  <2>2. \A x : x \in UNION {of[i] : i \in S}
               <=> \E i \in S : x \in UNION {NodesOf(f, source, family, i, kind) : kind \in StructureKinds}
    BY <2>1
  <2> QED BY <2>2, StructureOfIs
<1> HIDE DEF of, S
<1> QED BY <1>1, <1>4, <1>5, UnionIsFinite

\* There is something to count: what is observed in files that were parsed is finite.
LEMMA BatchIsFinite ==
    ASSUME NEW tree, Readable(tree), NEW family
    PROVE  IsFiniteSet(Batch(tree, family).subjects) /\ IsFiniteSet(Batch(tree, family).structure)
<1> DEFINE r == [kind |-> IF family = "service" THEN Dependency ELSE <<family, "base_class">>]
           of == [f \in DOMAIN tree |-> StructureOf(f, tree[f], family)]
<1>1. IsFiniteSet(Batch(tree, family).subjects)
  <2>1. family = IF r.kind = Dependency THEN "service" ELSE r.kind[1]
    BY DEF Dependency
  <2> HIDE DEF r
  <2>2. Population(tree, r) = Batch(tree, family).subjects /\ IsFiniteSet(Population(tree, r))
    BY <2>1, PopulationIsSubjects
  <2> QED BY <2>2
<1>2. IsFiniteSet(DOMAIN tree)
  BY FilesAssumption, FS_Subset DEF Readable
<1>3. \A f \in DOMAIN tree : IsFiniteSet(of[f])
  BY StructureIsFinite DEF Readable
<1>4. Batch(tree, family).structure = UNION {of[f] : f \in DOMAIN tree}
  <2>1. {f \in DOMAIN tree : Parsable(tree[f])} = DOMAIN tree
    BY DEF Readable
  <2>2. Batch(tree, family).structure = UNION {StructureOf(f, tree[f], family) : f \in DOMAIN tree}
    BY <2>1 DEF Batch
  <2> QED BY <2>2
<1> HIDE DEF of
<1> QED BY <1>1, <1>2, <1>3, <1>4, UnionIsFinite

\* The structural rules of services are inferred from services alone.
LEMMA ActiveStructureIs ==
    ASSUME NEW tree, Readable(tree), NEW kind
    PROVE  OfKind(ActiveRules(LearnedRules(tree)), <<"service", kind>>)
             = ActiveStructure(Batch(tree, "service"), <<"service", kind>>)
<1>1. <<"service", kind>> # Dependency /\ <<"service", kind>>[1] = "service"
  BY DEF Dependency
<1>2. ASSUME NEW r \in LearnedRules(tree), r.kind = <<"service", kind>>
      PROVE  r \in StructureRules(Batch(tree, "service"))
  <2>1. \A a : r # DependencyRule(a, Batch(tree, "service"))
    <3>1. r.kind # Dependency
      BY <1>1, <1>2
    <3> QED BY <3>1, DependencyRuleKind
  <2>2. PICK family \in {"service", "controller"} : r \in StructureRules(Batch(tree, family))
    BY <2>1, LearnedRulesAre
  <2>3. r.kind[1] = family
    BY <2>2, StructureRuleSound
  <2> QED BY <1>1, <1>2, <2>2, <2>3
<1>3. StructureRules(Batch(tree, "service")) \subseteq LearnedRules(tree)
  BY DEF LearnedRules, Aggregated
<1> QED BY <1>2, <1>3 DEF OfKind, ActiveRules, ActiveStructure

\* Only expressions that have a name are observed.
LEMMA ObservedHasName ==
    ASSUME NEW tree, NEW family, NEW o \in Batch(tree, family).structure PROVE o.value # NoName
<1>1. PICK f \in DOMAIN tree : o \in StructureOf(f, tree[f], family)
  BY DEF Batch
<1>2. PICK i \in Subjects(tree[f], family) : \E kind \in StructureKinds : o \in NodesOf(f, tree[f], family, i, kind)
  BY <1>1, StructureOfIs
<1>3. PICK kind \in StructureKinds : o \in NodesOf(f, tree[f], family, i, kind)
  BY <1>2
<1> QED BY <1>3 DEF NodesOf

\* The observations of a service that has the base and the decorator of its context.
StructureAdded(f, rules) ==
    {[kind |-> <<"service", kind>>, value |-> Selected(rules, <<"service", kind>>).value,
      imported |-> Selected(rules, <<"service", kind>>).imported, at |-> <<f, 1, 1>>]
        : kind \in StructureKinds}

\* What a file adds to the observations: its one class is a subject, with the base and the
\* decorator of the context.
LEMMA FaithfulStructure ==
    ASSUME NEW f, NEW file, NEW rules, WellBuilt(file, rules),
           \A kind \in StructureKinds : Selected(rules, <<"service", kind>>).value # NoName
    PROVE  /\ Subjects(file, "service") = {1}
           /\ StructureOf(f, file, "service") = StructureAdded(f, rules)
<1> DEFINE rule(kind) == Selected(rules, <<"service", kind>>)
           new(kind) == [kind |-> <<"service", kind>>, value |-> rule(kind).value,
                         imported |-> rule(kind).imported, at |-> <<f, 1, 1>>]
<1>1. /\ CodingContext(rules, "service").base = rule("base_class")
      /\ CodingContext(rules, "service").decorator = rule("required_decorator")
  BY DEF CodingContext
<1>2. /\ DOMAIN file.classes = {1} /\ file.classes[1].family = "service"
      /\ file.classes[1].bases = <<rule("base_class").value>>
      /\ file.classes[1].decorators = <<rule("required_decorator").value>>
      /\ Imported(file, rule("base_class").value) = rule("base_class").imported
      /\ Imported(file, rule("required_decorator").value) = rule("required_decorator").imported
  BY <1>1 DEF WellBuilt
<1> HIDE DEF rule
<1>3. Subjects(file, "service") = {1}
  BY <1>2 DEF Subjects
<1>4. ASSUME NEW kind \in StructureKinds
      PROVE  /\ Nodes(file.classes[1], kind) = <<rule(kind).value>>
             /\ Imported(file, rule(kind).value) = rule(kind).imported
             /\ rule(kind).value # NoName
  BY <1>2 DEF Nodes, StructureKinds, rule
<1>5. ASSUME NEW kind \in StructureKinds PROVE NodesOf(f, file, "service", 1, kind) = {new(kind)}
  <2> DEFINE nodes == Nodes(file.classes[1], kind)
             record(j) == [kind |-> <<"service", kind>>, value |-> nodes[j],
                           imported |-> Imported(file, nodes[j]), at |-> <<f, 1, j>>]
  <2>1. nodes = <<rule(kind).value>> /\ rule(kind).value # NoName
    BY <1>4
  <2>2. {n \in DOMAIN nodes : nodes[n] # NoName} = {1} /\ nodes[1] = rule(kind).value
    BY <2>1
  <2>3. NodesOf(f, file, "service", 1, kind) = {record(j) : j \in {1}}
    BY <2>2 DEF NodesOf
  <2>4. record(1) = new(kind)
    BY <1>4, <2>2
  <2> HIDE DEF record, new
  <2>5. {record(j) : j \in {1}} = {record(1)}
    OBVIOUS
  <2> QED BY <2>3, <2>4, <2>5
<1> HIDE DEF new
<1>6. \A x : x \in StructureOf(f, file, "service") <=> \E kind \in StructureKinds : x \in NodesOf(f, file, "service", 1, kind)
  BY <1>3, StructureOfIs
<1>7. StructureOf(f, file, "service") = {new(kind) : kind \in StructureKinds}
  BY <1>5, <1>6
<1> QED BY <1>3, <1>7 DEF new, rule, StructureAdded

\* What the tree is to learning once the file is in it, and what it was before.
LEMMA StructureGrows ==
    ASSUME NEW tree, Readable(tree), NEW f, f \notin DOMAIN tree, NEW file, NEW rules,
           rules = ActiveRules(LearnedRules(tree)), Usable(rules), WellBuilt(file, rules),
           Readable(With(tree, f, file))
    PROVE  LET before == Batch(tree, "service")
               after == Batch(With(tree, f, file), "service")
           IN  /\ Cardinality(after.subjects) = Cardinality(before.subjects) + 1
               /\ \A kind \in StructureKinds :
                    /\ Selectable(ActiveRules(LearnedRules(With(tree, f, file))), <<"service", kind>>)
                    /\ KeyOf(Selected(ActiveRules(LearnedRules(With(tree, f, file))), <<"service", kind>>))
                         = KeyOf(Selected(rules, <<"service", kind>>))
<1> DEFINE before == Batch(tree, "service")
           grown == With(tree, f, file)
           after == Batch(grown, "service")
           learned == ActiveRules(LearnedRules(grown))
           best(kind) == Selected(rules, <<"service", kind>>)
           new(kind) == [kind |-> <<"service", kind>>, value |-> best(kind).value,
                         imported |-> best(kind).imported, at |-> <<f, 1, 1>>]
<1>1. ASSUME NEW kind \in StructureKinds
      PROVE  /\ Selectable(rules, <<"service", kind>>)
             /\ best(kind) \in StructureRules(before) /\ best(kind).kind = <<"service", kind>>
             /\ best(kind).value # NoName
  <2>1. Selectable(rules, <<"service", kind>>)
    BY DEF Usable
  <2>2. best(kind) \in ActiveStructure(before, <<"service", kind>>)
    BY <2>1, SelectedIsRule, ActiveStructureIs
  <2>3. best(kind) \in StructureRules(before) /\ best(kind).kind = <<"service", kind>>
    BY <2>2 DEF ActiveStructure
  <2>4. PICK o \in before.structure : best(kind) = StructureRule(KeyOf(o), before)
    BY <2>3, StructureRulesAre
  <2>5. KeyOf(best(kind)) = KeyOf(o)
    BY <2>4, StructureRuleIs
  <2>6. best(kind).value = o.value
    BY <2>5 DEF KeyOf
  <2>7. o.value # NoName
    BY <2>4, ObservedHasName
  <2> QED BY <2>1, <2>3, <2>6, <2>7
<1>2. /\ Subjects(file, "service") = {1}
      /\ StructureOf(f, file, "service") = {new(kind) : kind \in StructureKinds}
  <2>1. \A kind \in StructureKinds : Selected(rules, <<"service", kind>>).value # NoName
    BY <1>1
  <2>2. Subjects(file, "service") = {1} /\ StructureOf(f, file, "service") = StructureAdded(f, rules)
    BY <2>1, FaithfulStructure
  <2> QED BY <2>2 DEF StructureAdded
<1>3. /\ after.subjects = before.subjects \cup {<<f, i>> : i \in Subjects(file, "service")}
      /\ after.structure = before.structure \cup StructureOf(f, file, "service")
  BY BatchGrows DEF WellBuilt, Readable
<1>4. /\ IsFiniteSet(before.subjects) /\ IsFiniteSet(before.structure)
      /\ IsFiniteSet(after.subjects) /\ IsFiniteSet(after.structure)
  BY BatchIsFinite
<1>5. Cardinality(after.subjects) = Cardinality(before.subjects) + 1
  <2>1. after.subjects = before.subjects \cup {<<f, 1>>}
    BY <1>2, <1>3
  <2>2. <<f, 1>> \notin before.subjects
    <3>1. \A s \in before.subjects : \E g \in DOMAIN tree : \E i : s = <<g, i>>
      BY DEF Batch
    <3> QED BY <3>1
  <2> QED BY <1>4, <2>1, <2>2, FS_AddElement
<1>6. ASSUME NEW o \in before.structure PROVE o.at # <<f, 1, 1>>
  <2>1. PICK g \in DOMAIN tree : \E i \in Subjects(tree[g], "service") : \E kind \in StructureKinds :
             \E j \in DOMAIN Nodes(tree[g].classes[i], kind) :
               Parsable(tree[g]) /\ o = StructureAt(tree, "service", g, i, kind, j)
    BY StructureObservations
  <2>2. PICK i, kind, j : o = StructureAt(tree, "service", g, i, kind, j)
    BY <2>1
  <2>3. o.at = <<g, i, j>>
    BY <2>2 DEF StructureAt
  <2> QED BY <2>3
<1>7. ASSUME NEW kind \in StructureKinds
      PROVE  /\ Selectable(learned, <<"service", kind>>)
             /\ KeyOf(Selected(learned, <<"service", kind>>)) = KeyOf(best(kind))
  <2> DEFINE k == <<"service", kind>>
             o == new(kind)
  <2>1. /\ OfKind(rules, k) = ActiveStructure(before, k)
        /\ OfKind(learned, k) = ActiveStructure(after, k)
    BY ActiveStructureIs
  <2>2. o.kind = k /\ o \notin before.structure
    BY <1>6
  <2>3. KeyOf(o) = KeyOf(best(kind))
    BY <1>1 DEF KeyOf
  <2>4. ASSUME NEW p, p.kind = k PROVE p \in after.structure <=> p \in before.structure \/ p = o
    <3>1. \A other \in StructureKinds : new(other).kind = <<"service", other>>
      OBVIOUS
    <3>2. o \in StructureOf(f, file, "service")
      BY <1>2
    <3>3. ASSUME p \in StructureOf(f, file, "service") PROVE p = o
      <4>1. PICK other \in StructureKinds : p = new(other)
        BY <1>2, <3>3
      <4>2. <<"service", other>> = <<"service", kind>>
        BY <2>4, <3>1, <4>1
      <4>3. other = kind
        BY <4>2
      <4> QED BY <4>1, <4>3
    <3> QED BY <1>3, <3>2, <3>3
  <2>5. Selectable(rules, k) /\ best(kind) = Selected(rules, k)
    BY <1>1
  <2> HIDE DEF before, after, learned, k, o, best
  <2>6. KeyOf(o) = KeyOf(Selected(rules, k))
    BY <2>3, <2>5
  <2>7. Selectable(learned, k) /\ KeyOf(Selected(learned, k)) = KeyOf(Selected(rules, k))
    BY <1>4, <1>5, <2>1, <2>2, <2>4, <2>5, <2>6, SelectionKept
  <2> QED BY <2>5, <2>7 DEF k
<1> QED BY <1>5, <1>7

-----------------------------------------------------------------------------
(* The rules of dependencies, once a faithful file is observed as well                         *)

LEMMA EntriesAreFinite ==
    ASSUME NEW tree, Readable(tree), NEW a
    PROVE  IsFiniteSet(EntriesOf(a, Batch(tree, "service")))
<1> DEFINE entries == EntriesOf(a, Batch(tree, "service"))
           place == [o \in entries |-> o.at]
           subjects == Batch(tree, "service").subjects
<1>1. IsFiniteSet(subjects)
  BY BatchIsFinite
<1>2. ASSUME NEW o \in entries PROVE o.at \in subjects
  <2>1. o \in Batch(tree, "service").dependencies
    BY DEF EntriesOf
  <2>2. PICK f \in DOMAIN tree : \E i \in Subjects(tree[f], "service") :
             Parsable(tree[f]) /\ o = DependencyAt(tree, f, i, o.value)
    BY <2>1, DependencyObservations
  <2>3. PICK i \in Subjects(tree[f], "service") : Parsable(tree[f]) /\ o = DependencyAt(tree, f, i, o.value)
    BY <2>2
  <2>4. o.at = <<f, i>>
    BY <2>3 DEF DependencyAt
  <2> QED BY <2>3, <2>4 DEF Batch
<1>3. ASSUME NEW o \in entries, NEW p \in entries, o.at = p.at PROVE o = p
  <2>1. /\ o \in Batch(tree, "service").dependencies /\ o.value = a
        /\ p \in Batch(tree, "service").dependencies /\ p.value = a
    BY DEF EntriesOf
  <2> QED BY <1>3, <2>1, DependencyByPlace
<1>4. place \in Injection(entries, subjects)
  <2> HIDE DEF entries, subjects
  <2>1. place \in [entries -> subjects]
    BY <1>2
  <2> QED BY <1>3, <2>1 DEF Injection, IsInjective
<1> HIDE DEF entries, place, subjects
<1>5. IsFiniteSet(entries)
  BY <1>1, <1>4, FS_Injection
<1> QED BY <1>5 DEF entries

\* The observations of one type that say where it is imported from, and the latest of some.
Importing(entries, type) == {o \in entries : o.type = type /\ o.imported # NoImport}

ModulesOf(bound) == {ModuleOf[o.imported] : o \in bound}

IsLatest(o, bound) == o \in bound /\ \A p \in bound \ {o} : After(o.at, p.at)

LEMMA LatestDecides ==
    ASSUME NEW tree, Readable(tree), NEW entries \in SUBSET Batch(tree, "service").dependencies,
           NEW type, NEW o, IsLatest(o, Importing(entries, type))
    PROVE  ConcreteImport(entries, type) = o.imported
<1> DEFINE bound == Importing(entries, type)
<1>1. \A p \in bound : /\ p.at[1] \in Int /\ p.at[2] \in Int
  <2>1. SUFFICES ASSUME NEW p \in bound PROVE p.at[1] \in Int /\ p.at[2] \in Int
    OBVIOUS
  <2>2. p \in Batch(tree, "service").dependencies
    BY DEF Importing
  <2>3. PICK f \in DOMAIN tree : \E i \in DOMAIN tree[f].classes : p.at = <<f, i>>
    BY <2>2, DependencyFacts
  <2>4. PICK i \in DOMAIN tree[f].classes : p.at = <<f, i>>
    BY <2>3
  <2>5. f \in Int /\ i \in Int
    <3>1. f \in Files /\ WellFormed(tree[f]) /\ Parsable(tree[f])
      BY DEF Readable
    <3>2. DOMAIN tree[f].classes \subseteq Nat
      BY <3>1 DEF WellFormed
    <3> QED BY <3>1, <3>2, FilesAssumption
  <2>6. p.at[1] = f /\ p.at[2] = i
    BY <2>4
  <2> QED BY <2>5, <2>6
<1>2. \A p \in bound : IsLatest(p, bound) => p = o
  BY <1>1 DEF IsLatest, After
<1>3. ConcreteImport(entries, type) =
        (IF bound = {} THEN NoImport
         ELSE (CHOOSE x \in bound : \A p \in bound \ {x} : After(x.at, p.at)).imported)
  BY Zenon DEF ConcreteImport, Importing
<1>4. o \in bound /\ \A p \in bound \ {o} : After(o.at, p.at)
  BY DEF IsLatest
<1>5. \A x \in bound : (\A p \in bound \ {x} : After(x.at, p.at)) => x = o
  BY <1>2 DEF IsLatest
<1> HIDE DEF bound
<1>6. (CHOOSE x \in bound : \A p \in bound \ {x} : After(x.at, p.at)) = o
  BY <1>4, <1>5
<1> QED BY <1>3, <1>4, <1>6

LEMMA SomeIsLatest ==
    ASSUME NEW tree, Readable(tree), NEW entries \in SUBSET Batch(tree, "service").dependencies,
           NEW a, \A o \in entries : o.value = a, NEW type, Importing(entries, type) # {}
    PROVE  \E o : IsLatest(o, Importing(entries, type))
<1>1. /\ Importing(entries, type) \in SUBSET Batch(tree, "service").dependencies
      /\ \A o \in Importing(entries, type) : o.value = a
  BY DEF Importing
<1>2. \E o \in Importing(entries, type) : \A p \in Importing(entries, type) \ {o} : After(o.at, p.at)
  BY <1>1, LatestObservation
<1> QED BY <1>2 DEF IsLatest

\* One more observation that takes a type from where the latest took it changes neither its
\* import nor its modules.
LEMMA ProvenanceKept ==
    ASSUME NEW tree, Readable(tree), NEW entries \in SUBSET Batch(tree, "service").dependencies,
           NEW a, \A o \in entries : o.value = a, NEW type, \A o \in entries : o.type = type,
           NEW new \in Batch(tree, "service").dependencies, new.value = a, new.type = type,
           NEW more, more = entries \cup {new},
           IF Importing(entries, type) = {} THEN new.imported = NoImport
           ELSE ConcreteImport(entries, type) \in {NoImport, new.imported}
    PROVE  /\ ConcreteImport(more, type) = ConcreteImport(entries, type)
           /\ ModulesOf(Importing(more, type)) = ModulesOf(Importing(entries, type))
<1>1. CASE Importing(entries, type) = {}
  <2>1. Importing(more, type) = {}
    BY <1>1 DEF Importing
  <2>2. ConcreteImport(more, type) = NoImport
    BY <2>1 DEF ConcreteImport, Importing
  <2>3. ConcreteImport(entries, type) = NoImport
    BY <1>1 DEF ConcreteImport, Importing
  <2> QED BY <1>1, <2>1, <2>2, <2>3
<1>2. CASE Importing(entries, type) # {}
  <2>1. PICK o : IsLatest(o, Importing(entries, type))
    BY <1>2, SomeIsLatest
  <2>2. ConcreteImport(entries, type) = o.imported /\ o \in Importing(entries, type) /\ o.imported # NoImport
    BY <2>1, LatestDecides DEF IsLatest, Importing
  <2>3. new.imported = o.imported /\ new \in Importing(more, type)
    BY <1>2, <2>2 DEF Importing
  <2>4. Importing(more, type) = Importing(entries, type) \cup {new}
    BY <2>3 DEF Importing
  <2>5. more \in SUBSET Batch(tree, "service").dependencies /\ \A p \in more : p.value = a
    OBVIOUS
  <2>6. PICK p : IsLatest(p, Importing(more, type))
    BY <2>3, <2>5, SomeIsLatest
  <2>7. ConcreteImport(more, type) = p.imported
    BY <2>5, <2>6, LatestDecides
  <2>8. p.imported = o.imported
    <3>1. CASE p = new
      BY <2>3, <3>1
    <3>2. CASE p # new
      <4>1. IsLatest(p, Importing(entries, type))
        BY <2>4, <2>6, <3>2 DEF IsLatest
      <4>2. ConcreteImport(entries, type) = p.imported
        BY <4>1, LatestDecides
      <4> QED BY <2>2, <4>2
    <3> QED BY <3>1, <3>2
  <2>9. ModulesOf(Importing(more, type)) = ModulesOf(Importing(entries, type))
    BY <2>2, <2>3, <2>4 DEF ModulesOf
  <2> QED BY <2>2, <2>7, <2>8, <2>9
<1> QED BY <1>1, <1>2

Agreed(entries) ==
    IF Cardinality(ArgumentsOf(entries)) = 1 THEN CHOOSE s \in ArgumentsOf(entries) : TRUE ELSE <<>>

LEMMA ArgumentsKept ==
    ASSUME NEW entries, IsFiniteSet(entries), entries # {}, NEW new, new.arguments = Agreed(entries),
           NEW more, more = entries \cup {new}
    PROVE  Agreed(more) = Agreed(entries)
<1> DEFINE were == ArgumentsOf(entries)
           are == ArgumentsOf(more)
           arguments == [o \in entries |-> o.arguments]
<1>1. IsFiniteSet(were)
  <2>1. were = {arguments[o] : o \in entries}
    BY DEF ArgumentsOf
  <2> HIDE DEF were, arguments
  <2> QED BY <2>1, ImageIsFinite
<1>2. are = were \cup {new.arguments} /\ were # {}
  BY DEF ArgumentsOf
<1>3. IsFiniteSet(are)
  <2> HIDE DEF are, were
  <2> QED BY <1>1, <1>2, FS_AddElement
<1> HIDE DEF are, were
<1>4. /\ Agreed(entries) = IF Cardinality(were) = 1 THEN CHOOSE s \in were : TRUE ELSE <<>>
      /\ Agreed(more) = IF Cardinality(are) = 1 THEN CHOOSE s \in are : TRUE ELSE <<>>
  BY DEF Agreed, were, are
<1>5. CASE Cardinality(were) = 1
  <2>1. PICK s : were = {s}
    BY <1>1, <1>5, FS_Singleton
  <2>2. Agreed(entries) = s
    BY <1>4, <1>5, <2>1
  <2>3. are = were
    BY <1>2, <2>1, <2>2
  <2> QED BY <1>4, <2>3
<1>6. CASE Cardinality(were) # 1
  <2>1. \A s : were # {s}
    BY <1>1, <1>6, FS_Singleton
  <2>2. \A s : are # {s}
    BY <1>2, <2>1
  <2>3. Cardinality(are) # 1
    BY <1>3, <2>2, FS_Singleton
  <2> QED BY <1>4, <1>6, <2>3
<1> QED BY <1>5, <1>6

LEMMA RequiredIs ==
    ASSUME NEW entries, NEW batch, NEW v
    PROVE  v \in RequiredInvocations(entries, batch) <=>
             /\ \E o \in entries : v \in o.invocations
             /\ Established(Cardinality({o \in entries : v \in o.invocations}), Cardinality(batch.subjects))
BY DEF RequiredInvocations

LEMMA RequiredKept ==
    ASSUME NEW entries, IsFiniteSet(entries), NEW before, NEW after, Cardinality(before.subjects) \in Nat,
           Cardinality(after.subjects) = Cardinality(before.subjects) + 1,
           NEW new, new \notin entries, new.invocations = RequiredInvocations(entries, before),
           NEW more, more = entries \cup {new}
    PROVE  RequiredInvocations(more, after) = RequiredInvocations(entries, before)
<1> DEFINE n == Cardinality(before.subjects)
           Making(v) == {o \in entries : v \in o.invocations}
           Now(v) == {o \in more : v \in o.invocations}
<1>1. ASSUME NEW v PROVE IsFiniteSet(Making(v)) /\ Cardinality(Making(v)) \in Nat
  <2>1. Making(v) \in SUBSET entries
    OBVIOUS
  <2> HIDE DEF Making
  <2> QED BY <2>1, FS_Subset, FS_CardinalityType
<1>2. ASSUME NEW v \in RequiredInvocations(entries, before) PROVE v \in RequiredInvocations(more, after)
  <2>1. Now(v) = Making(v) \cup {new} /\ new \notin Making(v)
    OBVIOUS
  <2>2. Established(Cardinality(Making(v)), n) /\ \E o \in entries : v \in o.invocations
    BY RequiredIs
  <2> HIDE DEF Now, Making, n
  <2>3. Cardinality(Now(v)) = Cardinality(Making(v)) + 1
    BY <1>1, <2>1, FS_AddElement
  <2>4. Established(Cardinality(Now(v)), n + 1)
    BY <1>1, <2>2, <2>3, OneMoreOfEach DEF n
  <2> QED BY <2>2, <2>4, RequiredIs DEF Now, n
<1>3. ASSUME NEW v \in RequiredInvocations(more, after), v \notin RequiredInvocations(entries, before) PROVE FALSE
  <2>1. Now(v) = Making(v)
    BY <1>3
  <2>2. Established(Cardinality(Now(v)), n + 1) /\ \E o \in more : v \in o.invocations
    BY RequiredIs
  <2>3. \E o \in entries : v \in o.invocations
    BY <1>3, <2>2
  <2>4. Established(Cardinality(Making(v)), n)
    <3> HIDE DEF Now, Making, n
    <3> QED BY <1>1, <2>1, <2>2, OneMoreOfEach DEF n
  <2> QED BY <1>3, <2>3, <2>4, RequiredIs
<1> QED BY <1>2, <1>3

TypesOf(entries) == {o.type : o \in entries}

WithImport(entries) == {e \in entries : e.imported # NoImport}

Describes(rule, a, entries, batch) ==
    /\ rule.kind = Dependency /\ rule.value = a
    /\ rule.types = TypesOf(entries)
    /\ rule.modules = ModulesOf(WithImport(entries))
    /\ \A t \in rule.types : rule.concrete[t] = ConcreteImport(entries, t)
    /\ rule.arguments = Agreed(entries)
    /\ rule.required = RequiredInvocations(entries, batch)
    /\ rule.active = Established(Cardinality(entries), Cardinality(batch.subjects))

LEMMA DependencyRuleIs ==
    ASSUME NEW a, NEW batch, NEW rule, rule = DependencyRule(a, batch), NEW entries, entries = EntriesOf(a, batch)
    PROVE  Describes(rule, a, entries, batch)
<1>1. rule.kind = Dependency /\ rule.value = a
  BY DependencyRuleKind
<1>2. LET all == EntriesOf(a, batch) IN
      /\ rule.types = {o.type : o \in all}
      /\ rule.modules = {ModuleOf[o.imported] : o \in {e \in all : e.imported # NoImport}}
      /\ rule.concrete = [t \in {o.type : o \in all} |-> ConcreteImport(all, t)]
      /\ rule.arguments = IF Cardinality(ArgumentsOf(all)) = 1
                          THEN CHOOSE s \in ArgumentsOf(all) : TRUE ELSE <<>>
      /\ rule.required = RequiredInvocations(all, batch)
      /\ rule.active = Established(Cardinality(all), Cardinality(batch.subjects))
  BY DependencyRuleFields
<1>3. rule.types = TypesOf(entries) /\ rule.modules = ModulesOf(WithImport(entries))
  BY <1>2, Zenon DEF TypesOf, ModulesOf, WithImport
<1>4. \A t \in rule.types : rule.concrete[t] = ConcreteImport(entries, t)
  BY <1>2
<1>5. rule.arguments = Agreed(entries)
  BY <1>2, Zenon DEF Agreed
<1>6. /\ rule.required = RequiredInvocations(entries, batch)
      /\ rule.active = Established(Cardinality(entries), Cardinality(batch.subjects))
  BY <1>2, Zenon
<1> QED BY <1>1, <1>3, <1>4, <1>5, <1>6 DEF Describes

LEMMA NoModules == ASSUME NEW bound PROVE ModulesOf(bound) = {} <=> bound = {}
BY DEF ModulesOf

\* What is learned of a dependency, in the parts a context takes from it.
SameDependency(q, r) ==
    /\ q.kind = r.kind /\ q.value = r.value /\ q.types = r.types /\ q.modules = r.modules
    /\ q.concrete[TypeOf(q)] = r.concrete[TypeOf(r)]
    /\ q.arguments = r.arguments /\ q.required = r.required

LEMMA DependencyKept ==
    ASSUME NEW tree, Readable(tree), NEW before, NEW after, after = Batch(tree, "service"),
           Cardinality(before.subjects) \in Nat,
           Cardinality(after.subjects) = Cardinality(before.subjects) + 1,
           NEW r, NEW a, r = DependencyRule(a, before), r.active, Resolved(r),
           NEW q, q = DependencyRule(a, after), IsFiniteSet(EntriesOf(a, before)),
           NEW new, new \notin before.dependencies, EntriesOf(a, after) = EntriesOf(a, before) \cup {new},
           new.type = TypeOf(r), new.arguments = r.arguments, new.invocations = r.required,
           IF r.modules = {} THEN new.imported = NoImport
           ELSE r.concrete[TypeOf(r)] \in {NoImport, new.imported}
    PROVE  q.active /\ SameDependency(q, r)
<1> DEFINE entries == EntriesOf(a, before)
           more == EntriesOf(a, after)
           type == TypeOf(r)
<1>1. /\ r.kind = Dependency /\ r.value = a /\ r.types = TypesOf(entries)
      /\ r.modules = ModulesOf(WithImport(entries))
      /\ \A t \in r.types : r.concrete[t] = ConcreteImport(entries, t)
      /\ r.arguments = Agreed(entries) /\ r.required = RequiredInvocations(entries, before)
      /\ r.active = Established(Cardinality(entries), Cardinality(before.subjects))
  <2>1. Describes(r, a, entries, before)
    BY DependencyRuleIs
  <2> HIDE DEF entries
  <2> QED BY <2>1 DEF Describes
<1>2. /\ q.kind = Dependency /\ q.value = a /\ q.types = TypesOf(more)
      /\ q.modules = ModulesOf(WithImport(more))
      /\ \A t \in q.types : q.concrete[t] = ConcreteImport(more, t)
      /\ q.arguments = Agreed(more) /\ q.required = RequiredInvocations(more, after)
      /\ q.active = Established(Cardinality(more), Cardinality(after.subjects))
  <2>1. Describes(q, a, more, after)
    BY DependencyRuleIs
  <2> HIDE DEF more
  <2> QED BY <2>1 DEF Describes
<1>4. more = entries \cup {new} /\ new \notin entries
  BY DEF EntriesOf
<1>5. new \in Batch(tree, "service").dependencies /\ new.value = a
  BY <1>4 DEF EntriesOf
<1>6. entries \in SUBSET Batch(tree, "service").dependencies /\ \A o \in entries : o.value = a
  BY <1>4 DEF EntriesOf
<1> HIDE DEF entries, more
<1>7. type \in r.types
  BY TypeOfIsType
<1>8. PICK t : r.types = {t}
  <2> DEFINE typeOf == [o \in entries |-> o.type]
  <2>1. r.types = {typeOf[o] : o \in entries}
    BY <1>1 DEF TypesOf
  <2> HIDE DEF typeOf
  <2>2. IsFiniteSet(r.types)
    BY <2>1, ImageIsFinite DEF entries
  <2> QED BY <2>2, FS_Singleton DEF Resolved
<1>9. r.types = {type}
  BY <1>7, <1>8
<1>10. entries # {} /\ \A o \in entries : o.type = type
  BY <1>1, <1>9 DEF TypesOf
<1>11. q.types = {type} /\ TypeOf(q) = type
  <2>1. q.types = {type}
    BY <1>2, <1>4, <1>10 DEF TypesOf
  <2> HIDE DEF type
  <2>2. TypeOf(q) = type
    BY <2>1 DEF TypeOf
  <2> QED BY <2>1, <2>2
<1>12. r.concrete[type] = ConcreteImport(entries, type) /\ q.concrete[type] = ConcreteImport(more, type)
  <2> HIDE DEF type
  <2> QED BY <1>1, <1>2, <1>9, <1>11
<1> HIDE DEF type
<1>13. Importing(entries, type) = WithImport(entries) /\ Importing(more, type) = WithImport(more)
  <2>1. new.type = type
    BY DEF type
  <2> QED BY <1>4, <1>10, <2>1 DEF Importing, WithImport
<1>14. r.modules = ModulesOf(Importing(entries, type)) /\ q.modules = ModulesOf(Importing(more, type))
  BY <1>1, <1>2, <1>13
<1>15. IF Importing(entries, type) = {} THEN new.imported = NoImport
       ELSE ConcreteImport(entries, type) \in {NoImport, new.imported}
  <2>1. r.modules = {} <=> Importing(entries, type) = {}
    BY <1>14, NoModules
  <2> QED BY <1>12, <2>1 DEF type
<1>16. /\ ConcreteImport(more, type) = ConcreteImport(entries, type)
       /\ ModulesOf(Importing(more, type)) = ModulesOf(Importing(entries, type))
  <2>1. new.type = type
    BY DEF type
  <2> QED BY <1>4, <1>5, <1>6, <1>10, <1>15, <2>1, ProvenanceKept
<1>17. q.modules = r.modules /\ q.concrete[type] = r.concrete[type]
  BY <1>12, <1>14, <1>16, Zenon
<1>18. IsFiniteSet(entries)
  BY DEF entries
<1>19. q.arguments = r.arguments
  BY <1>1, <1>2, <1>4, <1>10, <1>18, ArgumentsKept
<1>20. q.required = r.required
  BY <1>1, <1>2, <1>4, <1>18, RequiredKept
<1>21. q.active
  <2>1. Cardinality(more) = Cardinality(entries) + 1 /\ Cardinality(entries) \in Nat
    BY <1>4, <1>18, FS_AddElement, FS_CardinalityType
  <2> QED BY <1>1, <1>2, <2>1, OneMoreOfEach
<1>22. q.types = r.types /\ TypeOf(q) = TypeOf(r)
  BY <1>9, <1>11 DEF type
<1> QED BY <1>1, <1>2, <1>17, <1>19, <1>20, <1>21, <1>22 DEF SameDependency, type

LEMMA DependencyRulesAre ==
    ASSUME NEW tree, Readable(tree)
    PROVE  /\ \A r \in LearnedRules(tree) :
                r.kind = Dependency => r = DependencyRule(r.value, Batch(tree, "service"))
           /\ \A o \in Batch(tree, "service").dependencies :
                DependencyRule(o.value, Batch(tree, "service")) \in LearnedRules(tree)
<1>1. ASSUME NEW r \in LearnedRules(tree), r.kind = Dependency
      PROVE  r = DependencyRule(r.value, Batch(tree, "service"))
  <2>1. PICK a : r = DependencyRule(a, Batch(tree, "service"))
    BY <1>1, LearnedRulesAre, StructureRuleSound
  <2> QED BY <2>1, DependencyRuleKind
<1>2. ASSUME NEW o \in Batch(tree, "service").dependencies
      PROVE  DependencyRule(o.value, Batch(tree, "service")) \in LearnedRules(tree)
  BY DEF LearnedRules, Aggregated
<1> QED BY <1>1, <1>2

\* The observation a published file makes of one of its dependencies.
DependencyAdded(f, file, a) ==
    LET class == file.classes[1] IN
    [value |-> a, type |-> class.fields[a].type,
     imported |-> Imported(file, class.fields[a].type),
     arguments |-> Constructed(class.fields[a].arguments),
     invocations |-> InvocationsIn(class, DOMAIN class.calls, a),
     at |-> <<f, 1>>]

LEMMA FaithfulDependencies ==
    ASSUME NEW f, NEW file, Subjects(file, "service") = {1}
    PROVE  DependenciesOf(f, file) = {DependencyAdded(f, file, a) : a \in DOMAIN file.classes[1].fields}
<1>1. \A o : o \in DependenciesOf(f, file)
               <=> \E a \in DOMAIN file.classes[1].fields : o = DependencyAdded(f, file, a)
  BY DEF DependenciesOf, DependencyAdded
<1>2. \A o : o \in {DependencyAdded(f, file, a) : a \in DOMAIN file.classes[1].fields}
               <=> \E a \in DOMAIN file.classes[1].fields : o = DependencyAdded(f, file, a)
  OBVIOUS
<1> QED BY <1>1, <1>2

LEMMA SameContext ==
    ASSUME NEW q, NEW r, SameDependency(q, r) PROVE DependencyContext(q) = DependencyContext(r)
<1>1. TypeOf(q) = TypeOf(r)
  BY DEF SameDependency, TypeOf
<1> QED BY <1>1 DEF SameDependency, DependencyContext

\* The dependencies of the context are what they were.
LEMMA DependenciesStay ==
    ASSUME NEW tree, Readable(tree), NEW f, f \notin DOMAIN tree, NEW file, NEW rules,
           rules = ActiveRules(LearnedRules(tree)), Faithful(file, rules),
           Subjects(file, "service") = {1}, Readable(With(tree, f, file)),
           Cardinality(Batch(With(tree, f, file), "service").subjects)
             = Cardinality(Batch(tree, "service").subjects) + 1
    PROVE  {DependencyContext(q) : q \in Dependencies(ActiveRules(LearnedRules(With(tree, f, file))))}
             = {DependencyContext(r) : r \in Dependencies(rules)}
<1> DEFINE before == Batch(tree, "service")
           grown == With(tree, f, file)
           after == Batch(grown, "service")
           learned == ActiveRules(LearnedRules(grown))
           values == {r.value : r \in Dependencies(rules)}
           new(a) == DependencyAdded(f, file, a)
<1>1. after.dependencies = before.dependencies \cup {new(a) : a \in values}
  <2>1. after.dependencies = before.dependencies \cup DependenciesOf(f, file)
    BY BatchGrows DEF Faithful, WellBuilt, Readable
  <2>2. DOMAIN file.classes[1].fields = values
    BY DEF Faithful
  <2> QED BY <2>1, <2>2, FaithfulDependencies
<1>2. \A a : new(a).value = a /\ new(a).at = <<f, 1>>
  BY DEF DependencyAdded
<1>3. \A a : new(a) \notin before.dependencies
  <2>1. \A o \in before.dependencies : \E g \in DOMAIN tree : \E i \in DOMAIN tree[g].classes : o.at = <<g, i>>
    BY DependencyFacts
  <2> HIDE DEF new, before
  <2> QED BY <1>2, <2>1
<1>4. \A a : /\ a \in values => EntriesOf(a, after) = EntriesOf(a, before) \cup {new(a)}
             /\ a \notin values => EntriesOf(a, after) = EntriesOf(a, before)
  <2> HIDE DEF new, before, after, values
  <2> QED BY <1>1, <1>2 DEF EntriesOf
<1>5. Cardinality(before.subjects) \in Nat /\ Cardinality(after.subjects) = Cardinality(before.subjects) + 1
  BY BatchIsFinite, FS_CardinalityType
<1>6. ASSUME NEW r \in Dependencies(rules) PROVE r = DependencyRule(r.value, before) /\ r.active /\ Resolved(r)
  <2>1. r \in LearnedRules(tree) /\ r.kind = Dependency /\ r.active /\ Resolved(r)
    BY DEF Dependencies, OfKind, ActiveRules
  <2> QED BY <2>1, DependencyRulesAre
<1>7. ASSUME NEW r \in Dependencies(rules)
      PROVE  LET q == DependencyRule(r.value, after) IN
             q \in Dependencies(learned) /\ SameDependency(q, r)
  <2> DEFINE a == r.value
             q == DependencyRule(a, after)
             o == new(a)
  <2>1. /\ o.type = TypeOf(r) /\ o.arguments = r.arguments /\ o.invocations = r.required
        /\ IF r.modules = {} THEN o.imported = NoImport
           ELSE r.concrete[TypeOf(r)] \in {NoImport, o.imported}
    BY DEF DependencyAdded, Faithful, Provenance
  <2>2. o \notin before.dependencies /\ EntriesOf(a, after) = EntriesOf(a, before) \cup {o}
    BY <1>3, <1>4
  <2>3. IsFiniteSet(EntriesOf(a, before))
    BY EntriesAreFinite
  <2>4. r = DependencyRule(a, before) /\ r.active /\ Resolved(r)
    BY <1>6
  <2>5. after = Batch(grown, "service") /\ Readable(grown)
    OBVIOUS
  <2>6. q = DependencyRule(a, after)
    OBVIOUS
  <2> HIDE DEF before, grown, after, o, q
  <2>7. q.active /\ SameDependency(q, r)
    BY <1>5, <2>1, <2>2, <2>3, <2>4, <2>5, <2>6, DependencyKept
  <2>8. o \in after.dependencies /\ o.value = a
    BY <2>2 DEF EntriesOf
  <2>9. q \in LearnedRules(grown)
    BY <2>5, <2>6, <2>8, DependencyRulesAre
  <2>10. q.kind = Dependency /\ q.types = r.types
    BY <2>7 DEF SameDependency, Dependencies, OfKind
  <2>11. q \in Dependencies(learned)
    BY <2>4, <2>7, <2>9, <2>10 DEF Dependencies, OfKind, ActiveRules, Resolved
  <2> QED BY <2>7, <2>11 DEF q
<1>8. ASSUME NEW q \in Dependencies(learned) PROVE q.value \in values /\ q = DependencyRule(q.value, after)
  <2> DEFINE a == q.value
             r == DependencyRule(a, before)
  <2>1. q \in LearnedRules(grown) /\ q.kind = Dependency /\ q.active /\ Resolved(q)
    BY DEF Dependencies, OfKind, ActiveRules
  <2>2. q = DependencyRule(a, after)
    BY <2>1, DependencyRulesAre
  <2>3. SUFFICES ASSUME a \notin values PROVE FALSE
    BY <2>2
  <2>4. EntriesOf(a, after) = EntriesOf(a, before)
    BY <1>4, <2>3
  <2>5. Describes(q, a, EntriesOf(a, after), after) /\ Describes(r, a, EntriesOf(a, before), before)
    BY <2>2, DependencyRuleIs
  <2> HIDE DEF before, after, grown, learned
  <2>6. r.types = q.types /\ r.kind = Dependency /\ r.value = a
    BY <2>4, <2>5 DEF Describes
  <2>7. r.active
    <3>1. Established(Cardinality(EntriesOf(a, before)), Cardinality(before.subjects) + 1)
      BY <1>5, <2>1, <2>4, <2>5 DEF Describes
    <3>2. Cardinality(EntriesOf(a, before)) \in Nat
      BY EntriesAreFinite, FS_CardinalityType DEF before
    <3> QED BY <1>5, <2>5, <3>1, <3>2, OneMoreOfEach DEF Describes
  <2>8. PICK o \in EntriesOf(a, before) : TRUE
    <3>1. TypeOf(q) \in q.types
      BY <2>1, TypeOfIsType
    <3> QED BY <2>4, <2>5, <3>1 DEF Describes, TypesOf
  <2>9. r \in LearnedRules(tree)
    BY <2>8, DependencyRulesAre DEF EntriesOf, before
  <2>10. r \in Dependencies(rules)
    BY <2>1, <2>6, <2>7, <2>9 DEF Dependencies, OfKind, ActiveRules, Resolved
  <2> QED BY <2>3, <2>6, <2>10
<1> HIDE DEF before, grown, after
<1>9. ASSUME NEW q \in Dependencies(learned)
      PROVE  \E r \in Dependencies(rules) : DependencyContext(q) = DependencyContext(r)
  <2>1. PICK r \in Dependencies(rules) : q.value = r.value
    BY <1>8
  <2>2. SameDependency(q, r)
    BY <1>7, <1>8, <2>1
  <2> QED BY <2>2, SameContext
<1>10. ASSUME NEW r \in Dependencies(rules)
       PROVE  \E q \in Dependencies(learned) : DependencyContext(q) = DependencyContext(r)
  BY <1>7, SameContext
<1> HIDE DEF learned
<1>11. {DependencyContext(q) : q \in Dependencies(learned)} = {DependencyContext(r) : r \in Dependencies(rules)}
  BY <1>9, <1>10
<1> QED BY <1>11 DEF learned, grown

-----------------------------------------------------------------------------
(* A published file teaches what it was made from                                              *)

SameStructure(learned, rules) ==
    \A kind \in StructureKinds :
        /\ Selectable(learned, <<"service", kind>>)
        /\ KeyOf(Selected(learned, <<"service", kind>>)) = KeyOf(Selected(rules, <<"service", kind>>))

LEMMA RulesStay ==
    ASSUME NEW tree, Readable(tree), NEW f, f \notin DOMAIN tree, NEW file, NEW rules,
           rules = ActiveRules(LearnedRules(tree)), Usable(rules), WellBuilt(file, rules),
           Readable(With(tree, f, file)),
           NEW after, after = ActiveRules(LearnedRules(With(tree, f, file)))
    PROVE  /\ SameStructure(after, rules)
           /\ Faithful(file, rules) =>
              {DependencyContext(q) : q \in Dependencies(after)} = {DependencyContext(r) : r \in Dependencies(rules)}
<1>1. /\ Cardinality(Batch(With(tree, f, file), "service").subjects)
           = Cardinality(Batch(tree, "service").subjects) + 1
      /\ SameStructure(after, rules)
  BY StructureGrows DEF SameStructure
<1>2. Subjects(file, "service") = {1}
  <2>1. file.classes[1].bases # <<>>
    BY DEF WellBuilt
  <2> QED BY <2>1 DEF WellBuilt, Subjects
<1>3. ASSUME Faithful(file, rules) PROVE {DependencyContext(q) : q \in Dependencies(after)} = {DependencyContext(r) : r \in Dependencies(rules)}
  BY <1>1, <1>2, <1>3, DependenciesStay
<1> QED BY <1>1, <1>3

Put(tree, path, file) == [tree EXCEPT ![path] = file]

LEMMA InventoryGrows ==
    ASSUME NEW path, NEW tree, NEW file, path \in Learnable, DOMAIN tree = Files, tree[path] = Absent,
           Parsable(file)
    PROVE  /\ path \notin DOMAIN Parsed(Inventory(tree))
           /\ Parsed(Inventory(Put(tree, path, file))) = With(Parsed(Inventory(tree)), path, file)
<1> DEFINE next == Put(tree, path, file)
<1>1. path \in Learnable /\ path \in Files
  BY LearnableAssumption
<1>2. /\ next[path] = file /\ \A f \in Files \ {path} : next[f] = tree[f]
  BY <1>1 DEF Put
<1> HIDE DEF next
<1>3. Parsable(file) /\ file # Absent /\ ~Parsable(Absent)
  BY DEF Parsable
<1>4. \A t : DOMAIN Parsed(Inventory(t)) = {f \in Learnable : t[f] # Absent /\ Parsable(t[f])}
  BY DEF Parsed, Inventory
<1>5. \A t : \A f \in DOMAIN Parsed(Inventory(t)) : Parsed(Inventory(t))[f] = t[f]
  BY DEF Parsed, Inventory
<1> DEFINE was == Parsed(Inventory(tree))
           is == Parsed(Inventory(next))
<1>6. /\ \A f : f \in DOMAIN was <=> f \in Learnable /\ tree[f] # Absent /\ Parsable(tree[f])
      /\ \A f : f \in DOMAIN is <=> f \in Learnable /\ next[f] # Absent /\ Parsable(next[f])
      /\ \A f \in DOMAIN was : was[f] = tree[f]
      /\ \A f \in DOMAIN is : is[f] = next[f]
  BY <1>4, <1>5
<1> HIDE DEF was, is
<1>7. DOMAIN is = DOMAIN was \cup {path}
  <2>1. \A f : f \in Learnable /\ f # path => next[f] = tree[f]
    BY <1>2, LearnableAssumption
  <2>2. path \in DOMAIN is
    BY <1>1, <1>2, <1>3, <1>6
  <2>3. \A f : f # path => (f \in DOMAIN is <=> f \in DOMAIN was)
    BY <1>6, <2>1
  <2> QED BY <2>2, <2>3
<1>8. \A f \in DOMAIN is : is[f] = IF f = path THEN file ELSE was[f]
  <2>1. \A f : f \in Learnable /\ f # path => next[f] = tree[f]
    BY <1>2, LearnableAssumption
  <2> QED BY <1>2, <1>7, <1>6, <2>1
<1>9. path \notin DOMAIN Parsed(Inventory(tree))
  BY <1>4
<1>10. is = [f \in DOMAIN is |-> is[f]]
  BY DEF Parsed, is
<1>11. is = With(was, path, file)
  BY <1>7, <1>8, <1>10 DEF With
<1> QED BY <1>9, <1>11 DEF is, was, next

\* A file without a class adds nothing to what learning observes.
LEMMA TestFileBatch ==
    ASSUME NEW tree, NEW f, f \notin DOMAIN tree, NEW family
    PROVE  Batch(With(tree, f, TestFile), family) = Batch(tree, family)
<1> DEFINE new == With(tree, f, TestFile)
           files == {g \in DOMAIN tree : Parsable(tree[g])}
           all == {g \in DOMAIN new : Parsable(new[g])}
           s1 == UNION {{<<g, i>> : i \in Subjects(tree[g], family)} : g \in files}
           s2 == UNION {StructureOf(g, tree[g], family) : g \in files}
           s3 == UNION {DependenciesOf(g, tree[g]) : g \in files}
           n1 == UNION {{<<g, i>> : i \in Subjects(new[g], family)} : g \in all}
           n2 == UNION {StructureOf(g, new[g], family) : g \in all}
           n3 == UNION {DependenciesOf(g, new[g]) : g \in all}
<1>1. /\ DOMAIN new = DOMAIN tree \cup {f} /\ new[f] = TestFile
      /\ \A g \in DOMAIN tree : new[g] = tree[g]
  BY DEF With
<1>2. \A any : Subjects(TestFile, any) = {}
  BY DEF TestFile, Subjects
<1>3. StructureOf(f, TestFile, family) = {} /\ DependenciesOf(f, TestFile) = {}
  BY <1>2 DEF StructureOf, DependenciesOf
<1>4. Batch(tree, family) = [subjects |-> s1, structure |-> s2,
                             dependencies |-> IF family = "service" THEN s3 ELSE {}]
  BY Zenon DEF Batch
<1>5. Batch(new, family) = [subjects |-> n1, structure |-> n2,
                            dependencies |-> IF family = "service" THEN n3 ELSE {}]
  BY Zenon DEF Batch
<1> HIDE DEF new
<1>6. files \subseteq all /\ all \subseteq files \cup {f} /\ \A g \in files : new[g] = tree[g]
  BY <1>1
<1> HIDE DEF files, all
<1>7. n1 = s1
  <2>1. \A x : x \in n1 <=> \E g \in all : x \in {<<g, i>> : i \in Subjects(new[g], family)}
    OBVIOUS
  <2>2. \A x : x \in s1 <=> \E g \in files : x \in {<<g, i>> : i \in Subjects(tree[g], family)}
    OBVIOUS
  <2>3. {<<f, i>> : i \in Subjects(new[f], family)} = {}
    BY <1>1, <1>2
  <2> HIDE DEF n1, s1
  <2> QED BY <1>6, <2>1, <2>2, <2>3
<1>8. n2 = s2
  <2>1. \A x : x \in n2 <=> \E g \in all : x \in StructureOf(g, new[g], family)
    OBVIOUS
  <2>2. \A x : x \in s2 <=> \E g \in files : x \in StructureOf(g, tree[g], family)
    OBVIOUS
  <2>3. StructureOf(f, new[f], family) = {}
    BY <1>1, <1>3
  <2> HIDE DEF n2, s2
  <2> QED BY <1>6, <2>1, <2>2, <2>3
<1>9. n3 = s3
  <2>1. \A x : x \in n3 <=> \E g \in all : x \in DependenciesOf(g, new[g])
    OBVIOUS
  <2>2. \A x : x \in s3 <=> \E g \in files : x \in DependenciesOf(g, tree[g])
    OBVIOUS
  <2>3. DependenciesOf(f, new[f]) = {}
    BY <1>1, <1>3
  <2> HIDE DEF n3, s3
  <2> QED BY <1>6, <2>1, <2>2, <2>3
<1> HIDE DEF s1, s2, s3, n1, n2, n3
<1>10. Batch(new, family) = Batch(tree, family)
  BY <1>4, <1>5, <1>7, <1>8, <1>9, Zenon
<1> QED BY <1>10 DEF new

LEMMA TestFileRules ==
    ASSUME NEW tree, NEW f, f \notin DOMAIN tree
    PROVE  LearnedRules(With(tree, f, TestFile)) = LearnedRules(tree)
BY TestFileBatch, Zenon DEF LearnedRules

\* Learning from the published change is learning from its service.
LEMMA PublishedRules ==
    ASSUME DOMAIN repository = Files, repository[Target] = Absent, repository[Beside] = Absent,
           Parsable(draft),
           NEW next, next = [repository EXCEPT ![Target] = draft, ![Beside] = TestFile]
    PROVE  LET tree == Parsed(Inventory(repository)) IN
           /\ Target \notin DOMAIN tree
           /\ RulesOf(next) = LearnedRules(With(tree, Target, draft))
<1> DEFINE half == Put(repository, Target, draft)
           tree == Parsed(Inventory(repository))
<1>1. Target \in Learnable /\ Beside \in Learnable /\ Beside # Target
  BY TargetAssumption
<1>3. DOMAIN half = Files /\ half[Beside] = Absent /\ next = Put(half, Beside, TestFile)
  BY <1>1 DEF Put
<1>4. Parsable(TestFile)
  <2>1. "imports" \in DOMAIN TestFile /\ "imports" \notin DOMAIN Absent /\ "imports" \notin DOMAIN Broken
    BY DEF TestFile, Absent, Broken
  <2> QED BY <2>1 DEF Parsable
<1>2. Target \notin DOMAIN tree /\ Parsed(Inventory(half)) = With(tree, Target, draft)
  BY <1>1, InventoryGrows
<1> HIDE DEF half, tree
<1>5. /\ Beside \notin DOMAIN Parsed(Inventory(half))
      /\ Parsed(Inventory(next)) = With(Parsed(Inventory(half)), Beside, TestFile)
  <2> DEFINE all == Put(half, Beside, TestFile)
  <2>1. DOMAIN half = Files /\ half[Beside] = Absent
    BY <1>3
  <2>2. /\ Beside \notin DOMAIN Parsed(Inventory(half))
        /\ Parsed(Inventory(all)) = With(Parsed(Inventory(half)), Beside, TestFile)
    BY <1>1, <1>4, <2>1, InventoryGrows
  <2>3. next = all
    BY <1>3
  <2> HIDE DEF all
  <2> QED BY <2>2, <2>3
<1>6. LearnedRules(Parsed(Inventory(next))) = LearnedRules(Parsed(Inventory(half)))
  BY <1>5, TestFileRules
<1>8. RulesOf(next) = LearnedRules(With(tree, Target, draft))
  BY <1>2, <1>6, ParsedRules DEF RulesOf
<1> QED BY <1>2, <1>8 DEF tree

LEMMA PublishedKeeps ==
    ASSUME SourceInv, stage = "complied", task.family = "service",
           used = ActiveRules(RulesOf(repository)),
           repository[Target] = Absent, repository[Beside] = Absent,
           NEW next, next = [repository EXCEPT ![Target] = draft, ![Beside] = TestFile]
    PROVE  /\ KeepsStructure(next, used, "service")
           /\ (AssignedInInit /\ NamesLeftAlone) => KeepsDependencies(next, used, "service")
<1> DEFINE tree == Parsed(Inventory(repository))
           grown == With(tree, Target, draft)
           after == ActiveRules(RulesOf(next))
           before == CodingContext(used, "service")
           now == CodingContext(after, "service")
<1>1. WellBuilt(draft, used) /\ Parsable(draft)
  BY CompliedIsWellBuilt DEF WellBuilt
<1>2. DOMAIN repository = Files
  BY DEF SourceInv, IInv, TypeOK
<1>3. Target \notin DOMAIN tree /\ after = ActiveRules(LearnedRules(grown))
  BY <1>1, <1>2, PublishedRules
<1>4. Readable(tree)
  BY LearnableAssumption DEF Readable, Parsed, Inventory, SourceInv, Sourced
<1>5. Readable(grown)
  <2>1. WellFormed(draft)
    BY DraftWellFormed DEF SourceInv
  <2>2. Target \in Files
    BY TargetAssumption, LearnableAssumption
  <2> HIDE DEF tree
  <2> QED BY <1>1, <1>4, <2>1, <2>2 DEF Readable, With
<1>6. used = ActiveRules(LearnedRules(tree))
  BY ParsedRules DEF RulesOf
<1>7. Usable(used)
  BY DEF SourceInv, GateInv
<1> HIDE DEF tree, grown, after
<1>8. /\ SameStructure(after, used)
      /\ Faithful(draft, used) =>
         {DependencyContext(q) : q \in Dependencies(after)} = {DependencyContext(r) : r \in Dependencies(used)}
  BY <1>1, <1>3, <1>4, <1>5, <1>6, <1>7, RulesStay DEF grown
<1>9. /\ now.base = Selected(after, <<"service", "base_class">>)
      /\ now.decorator = Selected(after, <<"service", "required_decorator">>)
      /\ now.dependencies = {DependencyContext(q) : q \in Dependencies(after)}
      /\ before.base = Selected(used, <<"service", "base_class">>)
      /\ before.decorator = Selected(used, <<"service", "required_decorator">>)
      /\ before.dependencies = {DependencyContext(r) : r \in Dependencies(used)}
  BY DEF CodingContext
<1>10. ASSUME AssignedInInit, NamesLeftAlone PROVE now.dependencies = before.dependencies
  <2>1. Faithful(draft, used)
    BY <1>10, CompliedIsFaithful
  <2>2. {DependencyContext(q) : q \in Dependencies(after)} = {DependencyContext(r) : r \in Dependencies(used)}
    BY <1>8, <2>1
  <2> QED BY <1>9, <2>2, Zenon
<1> HIDE DEF now, before
<1>11. KeyOf(now.base) = KeyOf(before.base) /\ KeyOf(now.decorator) = KeyOf(before.decorator)
  BY <1>8, <1>9 DEF SameStructure, StructureKinds
<1>12. /\ now.base.value = before.base.value /\ now.base.imported = before.base.imported
       /\ now.decorator.value = before.decorator.value /\ now.decorator.imported = before.decorator.imported
  BY <1>11 DEF KeyOf
<1>13. KeepsStructure(next, used, "service")
  BY <1>8, <1>12 DEF SameStructure, KeepsStructure, now, before, after
<1>14. (AssignedInInit /\ NamesLeftAlone) => KeepsDependencies(next, used, "service")
  BY <1>10 DEF KeepsDependencies, now, before, after
<1> QED BY <1>13, <1>14

\* Once published, a service teaches the rules of structure it was made from, whatever passed
\* the gate, and its dependencies where the learner and the gate take its attributes for the
\* same thing: what the platform writes does not wear down what it has learned (graph.py:767,
\* learner.py:212).
THEOREM PublishedRulesStay == Spec => PublishingKeepsRules
<1>1. SourceInv /\ [Next]_vars =>
        [(stage = "complied" /\ repository' # repository /\ UNCHANGED edits /\ companion = TestFile
          /\ task.family = "service" /\ used = ActiveRules(RulesOf(repository))) =>
            /\ KeepsStructure(repository', used, task.family)
            /\ (AssignedInInit /\ NamesLeftAlone) =>
                    KeepsDependencies(repository', used, task.family)]_vars
  <2>1. SUFFICES ASSUME SourceInv, [Next]_vars, stage = "complied", repository' # repository, UNCHANGED edits,
                        companion = TestFile, task.family = "service", used = ActiveRules(RulesOf(repository))
                 PROVE  /\ KeepsStructure(repository', used, task.family)
                        /\ (AssignedInInit /\ NamesLeftAlone) => KeepsDependencies(repository', used, task.family)
    BY Zenon
  <2>2. Publish
    <3>1. edits \in Nat
      BY <2>1, BoundsAssumption DEF SourceInv, IInv, TypeOK
    <3> QED BY <2>1, <3>1 DEF Next, LearnerStep, BeginLearn, ParseFile, ParseFails, Leave, Infer, SaveState,
              ReplaceRules, Edit, Retrieve, Generate, Comply, ComplianceFails, runVars, learnerVars, vars
  <2>3. /\ repository[Target] = Absent /\ repository[Beside] = Absent
        /\ repository' = [repository EXCEPT ![Target] = draft, ![Beside] = TestFile]
    BY <2>1, <2>2 DEF Publish
  <2> DEFINE next == repository'
  <2>4. next = [repository EXCEPT ![Target] = draft, ![Beside] = TestFile]
    BY <2>3
  <2> HIDE DEF next
  <2>5. /\ KeepsStructure(next, used, "service")
        /\ (AssignedInInit /\ NamesLeftAlone) => KeepsDependencies(next, used, "service")
    BY <2>1, <2>3, <2>4, PublishedKeeps
  <2> QED BY <2>1, <2>5 DEF next
<1> QED BY <1>1, SourceInit, SourceStep, PTL DEF Spec, PublishingKeepsRules
=============================================================================
