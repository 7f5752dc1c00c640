------------------------- MODULE FrameworkLearning -------------------------
(***************************************************************************)
(* FrameworkLearner.learn over a repository that is edited meanwhile.  The *)
(* inventory is taken first; the files in it are then opened one after the *)
(* other, as they are by then, and once more if a KnowledgeStore is given, *)
(* for the observation store that is saved.  FrameworkLearningService      *)
(* gives no store and replaces the rules of the rule database instead.     *)
(***************************************************************************)
EXTENDS FrameworkRules

CONSTANTS Learnable,       \* files outside the directories the scanner leaves out
          Repositories,    \* what a repository can hold when the behaviour starts
          Edits,           \* pairs of a file and what an edit makes of it
          ParserVersions,
          MaxLearns, MaxEdits,
          NoState          \* no row in learning_state

ASSUME LearnableAssumption == Learnable \subseteq Files
ASSUME EditsAssumption == \A e \in Edits : e[1] \in Files
ASSUME BoundsAssumption == MaxLearns \in Nat /\ MaxEdits \in Nat
ASSUME RepositoriesAssumption == \A r \in Repositories : DOMAIN r = Files
ASSUME SourcesAssumption ==
    /\ \A r \in Repositories, f \in Files : WellFormed(r[f])
    /\ \A e \in Edits : WellFormed(e[2])

VARIABLES repository,   \* file -> source
          phase,        \* "idle", "parsing", or "saving" once the rules are inferred
          version,      \* parser_version of the learner at work
          storing,      \* a KnowledgeStore was given
          rebuild,      \* LearnResult.is_full_rebuild
          scanned,      \* the inventory: file -> the content it had
          read,         \* what the pass under way has read: file -> content
          inferred,     \* the rules of the call under way
          saved,        \* the row of learning_state
          knowledge,    \* the unscoped rules of the rule database
          learns, edits,
          steady        \* no edit since the inventory of the call under way was taken

learnerVars == <<phase, version, storing, rebuild, scanned, read, inferred, saved, knowledge, learns>>

Nothing == [f \in {} |-> Absent]

Inventory(tree) == [f \in {g \in Learnable : tree[g] # Absent} |-> tree[f]]

\* Learn what the files of a tree say, all read at one moment.
RulesOf(tree) == LearnedRules(Inventory(tree))

ObservationsIn(f, source) ==
    StructureOf(f, source, "service") \cup DependenciesOf(f, source)
    \cup StructureOf(f, source, "controller")

\* Files without an observation are not in the observation store.
ObservationStore(sources) ==
    [f \in {g \in DOMAIN sources : ObservationsIn(g, sources[g]) # {}} |-> ObservationsIn(f, sources[f])]

\* Neither evidence nor metadata nor status of a rule is part of the snapshot's identity.
Digest(rule) == <<rule.kind, rule.value, rule.support, rule.subjects - rule.support>>

SnapshotIdentity(rules, revision, parser) ==
    [revision |-> revision, parser |-> parser,
     rules |-> [d \in {Digest(r) : r \in rules} |-> Cardinality({r \in rules : Digest(r) = d})]]

LearningState(rules, revision, parser, sources) ==
    [revision |-> revision, parser |-> parser,
     identity |-> SnapshotIdentity(rules, revision, parser),
     observations |-> ObservationStore(sources)]

-----------------------------------------------------------------------------
LearningInit ==
    /\ repository \in Repositories
    /\ phase = "idle" /\ version = (CHOOSE v \in ParserVersions : TRUE)
    /\ storing = FALSE /\ rebuild = TRUE
    /\ scanned = Nothing /\ read = Nothing /\ inferred = {}
    /\ saved = NoState /\ knowledge = {}
    /\ learns = 0 /\ edits = 0 /\ steady = TRUE

ShouldFullRebuild(previous, parser) ==
    previous = NoState \/ previous.parser # parser

BeginLearn(parser, store) ==
    /\ phase = "idle" /\ learns < MaxLearns
    /\ phase' = "parsing" /\ version' = parser /\ storing' = store
    /\ rebuild' = ShouldFullRebuild(IF store THEN saved ELSE NoState, parser)
    /\ scanned' = Inventory(repository)
    /\ learns' = learns + 1
    /\ UNCHANGED <<repository, read, inferred, saved, knowledge, edits, steady>>

\* Mutant of Pending: an incremental learn skips the files whose hash has not changed.
Pending_Changed ==
    {f \in DOMAIN scanned \ DOMAIN read :
        \/ phase = "saving" \/ rebuild \/ f \notin DOMAIN saved.revision
        \/ saved.revision[f] # scanned[f]}

\* The files the pass still has to open: all of them, whether the learn is full or incremental.
Pending == DOMAIN scanned \ DOMAIN read

\* parser.parse of the next file of the inventory.
ParseFile ==
    /\ phase # "idle" /\ Pending # {}
    /\ LET f == Min(Pending) IN
        /\ Parsable(repository[f])
        /\ read' = [g \in DOMAIN read \cup {f} |-> IF g = f THEN repository[f] ELSE read[g]]
    /\ UNCHANGED <<repository, phase, version, storing, rebuild, scanned, inferred, saved,
                   knowledge, learns, edits, steady>>

\* learn returns or raises: its locals are gone.
Leave ==
    /\ phase' = "idle" /\ scanned' = Nothing /\ read' = Nothing /\ inferred' = {}
    /\ rebuild' = TRUE /\ storing' = FALSE /\ steady' = TRUE
    /\ UNCHANGED <<repository, version, learns, edits>>

\* FileNotFoundError or SourceParseError ends the call; nothing is saved or replaced.
ParseFails ==
    /\ phase # "idle" /\ Pending # {}
    /\ ~Parsable(repository[Min(Pending)])
    /\ Leave
    /\ UNCHANGED <<saved, knowledge>>

\* Aggregation for the snapshot, then the second pass.
Infer ==
    /\ phase = "parsing" /\ storing /\ Pending = {}
    /\ inferred' = LearnedRules(read)
    /\ phase' = "saving" /\ read' = Nothing
    /\ UNCHANGED <<repository, version, storing, rebuild, scanned, saved, knowledge, learns,
                   edits, steady>>

SaveState ==
    /\ phase = "saving" /\ Pending = {}
    /\ saved' = LearningState(inferred, scanned, version, read)
    /\ Leave
    /\ UNCHANGED knowledge

\* Without a store: FrameworkLearningService replaces the rules of the rule database.
ReplaceRules ==
    /\ phase = "parsing" /\ ~storing /\ Pending = {}
    /\ knowledge' = LearnedRules(read)
    /\ Leave
    /\ UNCHANGED saved

Edit(f, source) ==
    /\ edits < MaxEdits /\ source # repository[f]
    /\ repository' = [repository EXCEPT ![f] = source]
    /\ edits' = edits + 1 /\ steady' = (phase = "idle")
    /\ UNCHANGED learnerVars

LearnerStep == ParseFile \/ ParseFails \/ Infer \/ SaveState \/ ReplaceRules
=============================================================================
