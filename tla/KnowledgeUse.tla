---------------------------- MODULE KnowledgeUse ----------------------------
(***************************************************************************)
(* The knowledge loop of the platform: a repository is learned from, the   *)
(* rules shape a change for a task, the change is judged by the rules it   *)
(* was made from, and the published file is one of the sources of the next *)
(* learning run.  Edits and learning runs may come between any two steps   *)
(* of a development run, which keeps the rules it retrieved.  Its other    *)
(* gates, its retries and its staging are the subject of DevelopmentRun.   *)
(***************************************************************************)
EXTENDS FrameworkLearning, FrameworkContext

CONSTANTS Tasks,     \* [family, operations]
          Target,    \* path of the file a task generates
          Beside,    \* path of the other file of its change
          MaxRuns

ASSUME TargetAssumption == Target \in Learnable /\ Beside \in Learnable \ {Target}
ASSUME RunsAssumption == MaxRuns \in Nat /\ Tasks # {}
\* The grammar of tasks has operations begin with a small letter (parser.py:16).
ASSUME OperationsAssumption == \A t \in Tasks : "__init__" \notin t.operations

VARIABLES stage,     \* "idle", "retrieved", "drafted" or "complied"
          task, used,  \* the task, and the rules retrieved for it
          draft,     \* the first file of the change the model proposed, the one that is judged
          companion, \* the other file of the change
          runs

runVars == <<stage, task, used, draft, companion, runs>>
vars == <<repository, learnerVars, edits, steady, runVars>>

Init ==
    /\ LearningInit
    /\ stage = "idle" /\ task = (CHOOSE t \in Tasks : TRUE) /\ used = {}
    /\ draft = Absent /\ companion = Absent /\ runs = 0

Context == CodingContext(used, task.family)

-----------------------------------------------------------------------------
(* The steps of a development run *)

\* _retrieve.  A refused retrieval, and one that raises, end the run before it has changed
\* anything.
Retrieve(t) ==
    /\ stage = "idle" /\ runs < MaxRuns
    /\ RetrievalOutcome(ActiveRules(knowledge), t, repository) = "framework_retrieved"
    /\ stage' = "retrieved" /\ task' = t /\ used' = ActiveRules(knowledge)
    /\ runs' = runs + 1
    /\ UNCHANGED <<repository, learnerVars, edits, steady, draft, companion>>

\* The test the deterministic model writes; it has no class, so what it imports teaches nothing.
TestFile == [imports |-> <<>>, classes |-> <<>>]

\* The class without an assignment of its __init__.
Without(class, attribute) == [a \in DOMAIN class.fields \ {attribute} |-> class.fields[a]]

\* What another coding model may propose: the deterministic file with one part of its class, or
\* one part of the file, missing or changed.
ClassSlips(class) ==
    {[class EXCEPT !.bases = <<>>], [class EXCEPT !.decorators = <<>>]}
    \cup {[class EXCEPT !.fields = Without(class, lost)] : lost \in DOMAIN class.fields}
    \cup {[class EXCEPT !.fields = Without(class, moved), !.others = [a \in {moved} |-> class.fields[a]]]
            : moved \in DOMAIN class.fields}
    \cup {[class EXCEPT !.fields[a].arguments = <<>>] : a \in DOMAIN class.fields}
    \cup {[class EXCEPT !.fields[a].arguments = <<>>, !.others = [b \in {a} |-> class.fields[b]]]
            : a \in DOMAIN class.fields}
    \cup {[class EXCEPT !.calls[m] = {}] : m \in Operations(class)}

Slips(file) ==
    {[file EXCEPT !.classes = <<>>]}
    \cup {[file EXCEPT !.imports = [n \in DOMAIN file.imports \ {lost} |-> file.imports[n]]]
            : lost \in DOMAIN file.imports}
    \cup {[file EXCEPT !.imports[n] = Max(DOMAIN ModuleOf)] : n \in DOMAIN file.imports}
    \cup {[file EXCEPT !.classes = <<class>>] : class \in ClassSlips(file.classes[1])}

\* Or a second service where the test should be, as it should be or without its decorator.
Companions(file) == {file, [file EXCEPT !.classes[1].decorators = <<>>]}

\* The coding model; the change is written to the stage.
Generate ==
    /\ stage = "retrieved"
    /\ LET file == GeneratedFile(task, Context) IN
        \/ draft' \in {file} \cup Slips(file) /\ companion' = TestFile
        \/ draft' = file /\ companion' \in Companions(file)
    /\ stage' = "drafted"
    /\ UNCHANGED <<repository, learnerVars, edits, steady, task, used, runs>>

EndRun ==
    /\ stage' = "idle" /\ used' = {} /\ draft' = Absent /\ companion' = Absent
    /\ UNCHANGED <<task, runs>>

\* _compliance, with the validator DevelopmentService has unless it is given another: it is
\* given the first file of the change.
Comply ==
    /\ stage = "drafted"
    /\ ValidateService(draft, used)
    /\ stage' = "complied"
    /\ UNCHANGED <<repository, learnerVars, edits, steady, task, used, draft, companion, runs>>

\* The run fails at this gate once its retries are used up.
ComplianceFails ==
    /\ stage = "drafted"
    /\ ~ValidateService(draft, used)
    /\ EndRun
    /\ UNCHANGED <<repository, learnerVars, edits, steady>>

\* apply_change writes every file of the change, if none of them exists.  A write that fails
\* half-way is the subject of DevelopmentRun.
Publish ==
    /\ stage = "complied"
    /\ EndRun
    /\ IF repository[Target] = Absent /\ repository[Beside] = Absent
       THEN /\ repository' = [repository EXCEPT ![Target] = draft, ![Beside] = companion]
            /\ steady' = (phase = "idle")
       ELSE UNCHANGED <<repository, steady>>
    /\ UNCHANGED <<learnerVars, edits>>

Next ==
    \/ \E p \in ParserVersions, s \in BOOLEAN : BeginLearn(p, s) /\ UNCHANGED runVars
    \/ LearnerStep /\ UNCHANGED runVars
    \/ \E e \in Edits : Edit(e[1], e[2]) /\ UNCHANGED runVars
    \/ \E t \in Tasks : Retrieve(t)
    \/ Generate \/ Comply \/ ComplianceFails \/ Publish

Spec == Init /\ [][Next]_vars

-----------------------------------------------------------------------------
(* Properties *)

TypeOK ==
    /\ DOMAIN repository = Files
    /\ phase \in {"idle", "parsing", "saving"}
    /\ stage \in {"idle", "retrieved", "drafted", "complied"}
    /\ DOMAIN scanned \subseteq Learnable /\ DOMAIN read \subseteq DOMAIN scanned
    /\ task \in Tasks
    /\ learns \in 0 .. MaxLearns /\ edits \in 0 .. MaxEdits /\ runs \in 0 .. MaxRuns

NamesOnce(tree) ==
    \A f \in DOMAIN tree : Parsable(tree[f]) =>
        \A i \in DOMAIN tree[f].classes, kind \in StructureKinds :
            IsInjective(Nodes(tree[f].classes[i], kind))

\* The classes, as <<file, position>>, a rule is counted against, and those that bear it out.
Population(tree, rule) ==
    UNION {{<<f, i>> : i \in Subjects(tree[f], IF rule.kind = Dependency THEN "service" ELSE rule.kind[1])}
            : f \in DOMAIN tree}

BearsOut(source, class, rule) ==
    IF rule.kind = Dependency THEN rule.value \in DOMAIN class.fields
    ELSE /\ rule.value \in Range(Nodes(class, rule.kind[2]))
         /\ Imported(source, rule.value) = rule.imported

Carriers(tree, rule) ==
    {s \in Population(tree, rule) : BearsOut(tree[s[1]], tree[s[1]].classes[s[2]], rule)}

(* An active rule is a convention of the repository: at least minimum_evidence of its classes  *)
(* and four in five of them bear it out, if nobody edits while it is learned and no class      *)
(* names one decorator twice (support counts names, the population counts classes).            *)
ActiveIsShared ==
    [][(knowledge' # knowledge /\ steady /\ NamesOnce(Inventory(repository))) =>
        \A r \in ActiveRules(knowledge') :
            LET tree == Inventory(repository) IN
            /\ Cardinality(Carriers(tree, r)) >= MinimumEvidence
            /\ 5 * Cardinality(Carriers(tree, r)) >= 4 * Cardinality(Population(tree, r))]_vars

(* What learn saves at the end of its second pass is what a learner would make of the tree     *)
(* from nothing: revision, snapshot and observations agree, whatever an earlier version of the *)
(* learner had saved, if nobody edits meanwhile.                                               *)
SavedAgrees ==
    [][(saved' # saved /\ steady) =>
        saved' = LearningState(RulesOf(repository), Inventory(repository), version,
                               Inventory(repository))]_vars

OneModuleEach == \A r \in Dependencies(used) : Cardinality(r.modules) <= 1

NamesBoundOnce == IsInjective([i \in ImportsOf(Context) |-> i[1]])

(* The change the deterministic model makes for a service passes the compliance gate, although *)
(* one reads the retrieved context and the other the rules: for dependencies that come from    *)
(* one module.                                                                                 *)
GeneratedComplies ==
    (stage = "retrieved" /\ task.family = "service" /\ OneModuleEach /\ NamesBoundOnce) =>
        ValidateService(GeneratedFile(task, Context), used)

Honours(file, class, context) ==
    /\ context.base.value \in Range(class.bases)
    /\ context.decorator.value \in Range(class.decorators)
    /\ \A i \in ImportsOf(context) : Imported(file, i[1]) = i[2]
    /\ \A d \in context.dependencies :
        /\ d.attribute \in DOMAIN Assigned(class)
        /\ Assigned(class)[d.attribute].type = d.type
        /\ Constructed(Assigned(class)[d.attribute].arguments) = d.arguments
        /\ \A m \in Operations(class), v \in d.required : v \in InvocationsIn(class, {m}, d.attribute)

(* Whatever the coding model proposes, the first class of the first file of a change for a     *)
(* service that passes the gate has everything the context it was asked for demands; an        *)
(* attribute counts as what the class assigns to it last, in whatever method and however the   *)
(* type is named.                                                                              *)
ComplianceEnforcesContext ==
    (stage = "complied" /\ task.family = "service") => Honours(draft, draft.classes[1], Context)

KeepsStructure(tree, rules, family) ==
    LET after == ActiveRules(RulesOf(tree))
        before == CodingContext(rules, family)
    IN  /\ \A kind \in StructureKinds : Selectable(after, <<family, kind>>)
        /\ LET now == CodingContext(after, family) IN
            /\ now.base.value = before.base.value /\ now.base.imported = before.base.imported
            /\ now.decorator.value = before.decorator.value
            /\ now.decorator.imported = before.decorator.imported

KeepsDependencies(tree, rules, family) ==
    CodingContext(ActiveRules(RulesOf(tree)), family).dependencies
        = CodingContext(rules, family).dependencies

\* No import of the context binds the name of a type that no source imports.
NamesLeftAlone ==
    \A r \in Dependencies(used), i \in ImportsOf(Context) : r.modules = {} => i[1] # TypeOf(r)

\* The gate and the learner take an attribute for the same thing.
AssignedInInit == \A r \in Dependencies(used) : r.value \notin DOMAIN draft.classes[1].others

(* The published service is a source of the next learning run, and it teaches what it was made *)
(* from, whatever passed the gate beside a test: the rules of structure that shaped it stay    *)
(* active and selected, and so do its dependencies, with their imports, arguments and required *)
(* calls, where __init__ assigns them by a plain name, which the gate does not ask for.  No    *)
(* import may bind the name of a dependency that no source imports, or it would get one.       *)
PublishingKeepsRules ==
    [][(stage = "complied" /\ repository' # repository /\ UNCHANGED edits /\ companion = TestFile
        /\ task.family = "service" /\ used = ActiveRules(RulesOf(repository))) =>
            /\ KeepsStructure(repository', used, task.family)
            /\ (AssignedInInit /\ NamesLeftAlone) =>
                    KeepsDependencies(repository', used, task.family)]_vars

=============================================================================
