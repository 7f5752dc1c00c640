-------------------------- MODULE SqliteRuleStore --------------------------
(***************************************************************************)
(* SQLiteKnowledgeStore under several connections to one database file     *)
(* (framework_knowledge/sqlite_store.py), and the retrieval that reads it  *)
(* (orchestration/graph.py, retrieval/context.py).                         *)
(*                                                                         *)
(* A step is what SQLite does at once: a transaction that begins with its  *)
(* first write, or a single SELECT.  Python's sqlite3 opens no transaction *)
(* for a SELECT, so the SELECT and the UPDATE of transition_rule_status    *)
(* are two steps although one "with connection" encloses them.             *)
(***************************************************************************)
EXTENDS RuleLifecycle, Functions, FiniteSetsExt

CONSTANTS
    Repositories,
    NoRepository,     \* no learning run has recorded a fingerprint yet
    RepositoryOf,     \* the repository each learning run reads
    DependencyRules,  \* the rules whose kind is dependency.*; the others are service.*
    Deciders,         \* connections that decide about rules and record reviews
    Learners,         \* connections that run a learning
    Readers           \* connections that retrieve rules for a development run

Connections == Deciders \cup Learners \cup Readers

VARIABLES
    table,        \* framework_rule
    fingerprint,  \* the single row of framework_knowledge_metadata
    unpaired,     \* history: the fingerprint and the unscoped rules may be of two learning runs
    reviews,      \* rule_review
    learns,       \* learning runs so far
    events,       \* review records so far
    call          \* what each connection is in the middle of

vars == <<table, fingerprint, unpaired, reviews, learns, events, call>>

ASSUME RepositoryAssumption ==
    /\ RepositoryOf \in [Learns -> Repositories]
    /\ NoRepository \notin Repositories

----------------------------------------------------------------------------

\* A row of framework_rule under its INTEGER PRIMARY KEY.
Entries == [id: Nat \ {0}, rule: Rows]

Ready == [phase |-> "ready"]

\* "since" and "unpaired" are history: how many learning runs there had been,
\* and what was unpaired, when the call read what it goes on to use.
Calls ==
    {Ready}
    \cup [phase: {"selected"}, entry: Entries, target: Statuses, since: 0..MaxLearns]
    \cup [phase: {"checked"}, repository: Repositories, since: 0..MaxLearns, unpaired: BOOLEAN]
    \cup [phase: {"half", "retrieved"}, repository: Repositories, since: 0..MaxLearns,
           unpaired: BOOLEAN, rules: SUBSET Rows]

TypeOK ==
    /\ table \subseteq Entries
    /\ fingerprint \in Repositories \cup {NoRepository}
    /\ unpaired \in BOOLEAN
    /\ reviews \subseteq Reviews
    /\ learns \in 0..MaxLearns
    /\ events \in 0..MaxReviews
    /\ call \in [Connections -> Calls]

Init ==
    /\ table = {}
    /\ fingerprint = NoRepository
    /\ unpaired = FALSE
    /\ reviews = {}
    /\ learns = 0
    /\ events = 0
    /\ call = [c \in Connections |-> Ready]

StoredRules == {e.rule : e \in table}

\* The highest id in use: without AUTOINCREMENT the next row takes the one
\* after it, so the ids of deleted rows are given out again.
TopId(entries) == Max({e.id : e \in entries} \cup {0})

\* replace_rules in one transaction: DELETE the scope's rows, then insert the
\* new ones, whose ids follow the highest that is left.
Inserted(scope, learn, drafts, kept) ==
    LET new == Stamp(scope, learn, drafts)
        ids == (TopId(kept) + 1)..(TopId(kept) + Cardinality(new))
    IN  {{[id |-> number[r], rule |-> r] : r \in new} : number \in Bijection(new, ids)}

\* The fingerprint is compared before unscoped rules are used.  A replacement
\* of these that passes an identity pairs the two; one that passes none, or an
\* identity passed with a scope, leaves them of two learning runs.
Unpairs(scope, named) ==
    IF named <=> scope = Unscoped THEN unpaired /\ ~ named ELSE TRUE

\* Mutant of Replace: the DELETE is forgotten.
Replace_Adds(c, scope, named) ==
    /\ call[c] = Ready
    /\ learns < MaxLearns
    /\ learns' = learns + 1
    /\ \E drafts \in Learned :
         \E new \in Inserted(scope, learns + 1, drafts, table) : table' = table \cup new
    /\ fingerprint' = IF named THEN RepositoryOf[learns + 1] ELSE fingerprint
    /\ unpaired' = Unpairs(scope, named)
    /\ UNCHANGED <<reviews, events, call>>

\* Mutant of Replace: the fingerprint is inserted once and never replaced.
Replace_InsertOrIgnore(c, scope, named) ==
    /\ call[c] = Ready
    /\ learns < MaxLearns
    /\ learns' = learns + 1
    /\ \E drafts \in Learned :
         LET kept == {e \in table : e.rule.scope # scope}
         IN  \E new \in Inserted(scope, learns + 1, drafts, kept) : table' = kept \cup new
    /\ fingerprint' = IF named /\ fingerprint = NoRepository
                      THEN RepositoryOf[learns + 1] ELSE fingerprint
    /\ unpaired' = Unpairs(scope, named)
    /\ UNCHANGED <<reviews, events, call>>

\* "named" tells whether repository_identity is passed, which any scope may
\* go with: the metadata row takes it whatever rules are replaced.  (The
\* local learning service passes it without a scope, the tests of this
\* adapter pass neither or a scope alone, production passes both.)
Replace(c, scope, named) ==
    /\ call[c] = Ready
    /\ learns < MaxLearns
    /\ learns' = learns + 1
    /\ \E drafts \in Learned :
         LET kept == {e \in table : e.rule.scope # scope}
         IN  \E new \in Inserted(scope, learns + 1, drafts, kept) : table' = kept \cup new
    /\ fingerprint' = IF named THEN RepositoryOf[learns + 1] ELSE fingerprint
    /\ unpaired' = Unpairs(scope, named)
    /\ UNCHANGED <<reviews, events, call>>

AppendReview(c, scope, rule) ==
    /\ call[c] = Ready
    /\ events < MaxReviews
    /\ events' = events + 1
    /\ reviews' = reviews \cup {[event |-> events + 1, scope |-> scope, rule |-> rule]}
    /\ UNCHANGED <<table, fingerprint, unpaired, learns, call>>

----------------------------------------------------------------------------

\* Mutant of Select: the first of several rows is taken.
Select_First(c, entry, target) ==
    /\ call[c] = Ready
    /\ entry.rule.scope # Unscoped
    /\ Follows(entry.rule.status, target)
    /\ call' = [call EXCEPT ![c] = [phase |-> "selected", entry |-> entry, target |-> target,
                                     since |-> learns]]
    /\ UNCHANGED <<table, fingerprint, unpaired, reviews, learns, events>>

\* transition_rule_status up to its UPDATE: the rule is read, found unique
\* and the move found legal.  A rule that is missing, ambiguous or in a
\* status the move does not follow raises and changes nothing.
Select(c, entry, target) ==
    /\ call[c] = Ready
    /\ entry.rule.scope # Unscoped
    /\ IsOnlyMatch(entry.rule, StoredRules)
    /\ Follows(entry.rule.status, target)
    /\ call' = [call EXCEPT ![c] = [phase |-> "selected", entry |-> entry, target |-> target,
                                     since |-> learns]]
    /\ UNCHANGED <<table, fingerprint, unpaired, reviews, learns, events>>

\* Mutant of Update: UPDATE ... WHERE kind = ? AND expected_value = ?
Update_ByIdentity(c) ==
    /\ call[c].phase = "selected"
    /\ table' = {IF e.rule.rule = call[c].entry.rule.rule
                 THEN [e EXCEPT !.rule.status = call[c].target] ELSE e : e \in table}
    /\ call' = [call EXCEPT ![c] = Ready]
    /\ UNCHANGED <<fingerprint, unpaired, reviews, learns, events>>

\* Its UPDATE ... WHERE id = ?, a transaction of its own: whatever row has
\* the id now takes the status, and no row at all is no error.
Update(c) ==
    /\ call[c].phase = "selected"
    /\ table' = {IF e.id = call[c].entry.id THEN [e EXCEPT !.rule.status = call[c].target]
                                            ELSE e : e \in table}
    /\ call' = [call EXCEPT ![c] = Ready]
    /\ UNCHANGED <<fingerprint, unpaired, reviews, learns, events>>

\* The write lock is not had in time, or the process dies, between the two.
Abandon(c) ==
    /\ call[c].phase = "selected"
    /\ call' = [call EXCEPT ![c] = Ready]
    /\ UNCHANGED <<table, fingerprint, unpaired, reviews, learns, events>>

----------------------------------------------------------------------------

\* active_rules_for one family of kinds, without a scope.
ActiveUnscoped(rules) ==
    {r \in StoredRules : r.scope = Unscoped /\ r.status = "active" /\ r.rule \in rules}

\* Mutant of CheckFingerprint: the fingerprint is not compared.
CheckFingerprint_Trusts(c, repository) ==
    /\ call[c] = Ready
    /\ call' = [call EXCEPT ![c] = [phase |-> "checked", repository |-> repository,
                                     since |-> learns, unpaired |-> unpaired]]
    /\ UNCHANGED <<table, fingerprint, unpaired, reviews, learns, events>>

\* _retrieve: the fingerprint is compared, then each family of rules is read
\* by a SELECT of its own.  A mismatch ends the run.
CheckFingerprint(c, repository) ==
    /\ call[c] = Ready
    /\ fingerprint = repository
    /\ call' = [call EXCEPT ![c] = [phase |-> "checked", repository |-> repository,
                                     since |-> learns, unpaired |-> unpaired]]
    /\ UNCHANGED <<table, fingerprint, unpaired, reviews, learns, events>>

ReadServiceRules(c) ==
    /\ call[c].phase = "checked"
    /\ call' = [call EXCEPT ![c] =
           [phase |-> "half", repository |-> call[c].repository,
            since |-> call[c].since, unpaired |-> call[c].unpaired,
            rules |-> ActiveUnscoped(Rules \ DependencyRules)]]
    /\ UNCHANGED <<table, fingerprint, unpaired, reviews, learns, events>>

ReadDependencyRules(c) ==
    /\ call[c].phase = "half"
    /\ call' = [call EXCEPT ![c] =
           [phase |-> "retrieved", repository |-> call[c].repository,
            since |-> call[c].since, unpaired |-> call[c].unpaired,
            rules |-> call[c].rules \cup ActiveUnscoped(DependencyRules)]]
    /\ UNCHANGED <<table, fingerprint, unpaired, reviews, learns, events>>

\* The development run has used what it retrieved, or failed for want of a
\* structural rule.
FinishRun(c) ==
    /\ call[c].phase = "retrieved"
    /\ call' = [call EXCEPT ![c] = Ready]
    /\ UNCHANGED <<table, fingerprint, unpaired, reviews, learns, events>>

Next ==
    \/ \E c \in Learners, scope \in Scopes, named \in BOOLEAN : Replace(c, scope, named)
    \/ \E c \in Deciders :
         \/ \E scope \in Scopes \ {Unscoped}, rule \in Rules : AppendReview(c, scope, rule)
         \/ \E entry \in table, target \in Statuses : Select(c, entry, target)
         \/ Update(c)
         \/ Abandon(c)
    \/ \E c \in Readers :
         \/ \E repository \in Repositories : CheckFingerprint(c, repository)
         \/ ReadServiceRules(c)
         \/ ReadDependencyRules(c)
         \/ FinishRun(c)

Spec == Init /\ [][Next]_vars

----------------------------------------------------------------------------

\* However the connections interleave, no row a scope shows survives from an
\* earlier learning run: the DELETE and the INSERTs of replace_rules are one
\* transaction, and a late UPDATE brings no deleted row back.
OneLearnPerScope ==
    \A e, f \in table : e.rule.scope = f.rule.scope <=> e.rule.learn = f.rule.learn

\* Once a replacement of the unscoped rules has named their repository, the
\* fingerprint names it until a replacement passes an identity with a scope,
\* or neither: comparing the fingerprint first is then enough for one SELECT.
\* The next local learning run makes good again whatever was before it.
FingerprintCoversRules ==
    ~ unpaired => \A e \in table :
        e.rule.scope = Unscoped => RepositoryOf[e.rule.learn] = fingerprint

\* Whatever is learned and decided meanwhile, an UPDATE by id changes the
\* status of the rule its SELECT found unique, or of one learned since: ids
\* given out again never lead it to another rule that was there to be read.
DecisionsHitTheirRule ==
    [][\A r \in StoredRules, q \in StoredRules' :
           SameRule(r, q) /\ r.status # q.status =>
               \E c \in Deciders :
                   /\ call[c].phase = "selected"
                   /\ call'[c] = Ready
                   /\ q.status = call[c].target
                   /\ \/ SameRule(r, call[c].entry.rule)
                      \/ r.learn > call[c].since]_vars

\* A development run whose fingerprint matched is given rules of its own
\* repository, or rules learned after it compared: no others, although they
\* are read by later SELECTs.
RetrievalIsOfItsRepository ==
    \A c \in Readers :
        call[c].phase = "retrieved" /\ ~ call[c].unpaired =>
            \A r \in call[c].rules :
                \/ RepositoryOf[r.learn] = call[c].repository
                \/ r.learn > call[c].since

\* The rows without their ids are the rules of the port's promise, which calls
\* that do not overlap keep.
Promise == INSTANCE RuleStore WITH rows <- StoredRules
KeepsPromise == Promise!Spec

\* However calls overlap, each step of the rules and the history is a call of
\* the promise, but for the UPDATE of a decision whose SELECT was overtaken, so
\* that the row it read is no longer there as it was: that is the one way in
\* which two decisions about a rule, or a decision and a learning run, take it
\* out of its lifecycle or its scope (sqlite_store.py:152, "Atomically move one
\* scoped rule through the irreversible lifecycle").
CurrentDecisionsKeepPromise ==
    /\ Promise!Init
    /\ [][\/ \E c \in Deciders : /\ call[c].phase = "selected" /\ call'[c] = Ready
                                  /\ call[c].entry \notin table
          \/ Promise!Next]_<<StoredRules, reviews>>
============================================================================
