------------------------- MODULE PostgresRuleStore -------------------------
(***************************************************************************)
(* PostgresKnowledgeStore under several sessions, each a store object on   *)
(* one psycopg connection (framework_knowledge/postgres_store.py).         *)
(*                                                                         *)
(* The server runs at READ COMMITTED.  A statement that locks rows is two  *)
(* steps: it chooses its rows in a snapshot, then waits until no other     *)
(* transaction holds one of them and works on what is left of them.  What  *)
(* follows in the same call up to its COMMIT belongs to the second step,   *)
(* since nobody else can touch those rows in between.                      *)
(*                                                                         *)
(* psycopg opens a transaction at the first statement of a connection that *)
(* has none.  A read of the store is such a statement and nothing ends its *)
(* transaction: from then on "with transaction()" only sets a savepoint,   *)
(* and close(), which rolls back, is the session's first real end.         *)
(***************************************************************************)
EXTENDS RuleLifecycle

CONSTANTS
    Deciders,   \* sessions that decide about rules
    Reviewers,  \* sessions that record reviews
    Learners,   \* sessions that run a learning
    Readers     \* sessions that may read before they do anything else

Sessions == Deciders \cup Reviewers \cup Learners \cup Readers

VARIABLES
    rows,         \* framework_rule, as committed
    fingerprint,  \* framework_knowledge_metadata, as committed: the run that set each scope's
    reviews,      \* rule_review, as committed
    learns,       \* learning runs so far
    events,       \* review records so far
    call,         \* what each session is in the middle of
    lasting,      \* the sessions inside a transaction that outlives their calls
    held          \* what that transaction has done and not committed

vars == <<rows, fingerprint, reviews, learns, events, call, lasting, held>>

----------------------------------------------------------------------------

TenantScopes == Scopes \ {Unscoped}    \* every call demands an explicit scope

Closed == [phase |-> "closed"]
Ready == [phase |-> "ready"]

Calls ==
    {Closed, Ready}
    \cup [phase: {"replacing"}, scope: TenantScopes, drafts: Learned, chosen: SUBSET Rows]
    \cup [phase: {"deciding"}, scope: TenantScopes, rule: Rules, target: Statuses,
             chosen: SUBSET Rows]

\* Uncommitted work: rows deleted or replaced by a new version, rows put in,
\* reviews put in, fingerprints set (0: not set).
Work == [gone: SUBSET Rows, put: SUBSET Rows, told: SUBSET Reviews,
         marks: [TenantScopes -> 0..MaxLearns]]

NoWork == [gone |-> {}, put |-> {}, told |-> {}, marks |-> [scope \in TenantScopes |-> 0]]

TypeOK ==
    /\ rows \subseteq Rows
    /\ fingerprint \in [TenantScopes -> 0..MaxLearns]
    /\ reviews \subseteq Reviews
    /\ learns \in 0..MaxLearns
    /\ events \in 0..MaxReviews
    /\ call \in [Sessions -> Calls]
    /\ lasting \subseteq Sessions
    /\ held \in [Sessions -> Work]

Init ==
    /\ rows = {}
    /\ fingerprint = [scope \in TenantScopes |-> 0]
    /\ reviews = {}
    /\ learns = 0
    /\ events = 0
    /\ call = [s \in Sessions |-> Closed]
    /\ lasting = {}
    /\ held = [s \in Sessions |-> NoWork]

\* What a statement of s sees: the committed rows and its own work.
View(s) == (rows \ held[s].gone) \cup held[s].put

\* Nobody else's transaction holds a lock on one of these rows, in whatever
\* version.
Free(s, chosen) ==
    \A t \in Sessions \ {s}, r \in chosen : \A q \in held[t].gone : ~ SameRule(q, r)

\* What is left of the chosen rows when the locks are had: a row changed
\* since is seen as it is now, a deleted one is skipped.
Current(s) == {r \in View(s) : \E q \in call[s].chosen : SameRule(r, q)}

\* The end of a write that deletes gone and adds put: COMMIT, or the release
\* of a savepoint when the transaction is older than the call.
Finish(s, gone, put, told, marks) ==
    IF s \in lasting
    THEN /\ held' = [held EXCEPT ![s] =
                [gone |-> @.gone \cup (gone \cap rows),
                 put |-> (@.put \ gone) \cup put,
                 told |-> @.told \cup told,
                 marks |-> [scope \in TenantScopes |->
                               IF marks[scope] = 0 THEN @.marks[scope] ELSE marks[scope]]]]
         /\ UNCHANGED <<rows, fingerprint, reviews>>
    ELSE /\ rows' = (rows \ gone) \cup put
         /\ reviews' = reviews \cup told
         /\ fingerprint' = [scope \in TenantScopes |->
                               IF marks[scope] = 0 THEN fingerprint[scope] ELSE marks[scope]]
         /\ UNCHANGED held

Enter(s, c) == call' = [call EXCEPT ![s] = c]

----------------------------------------------------------------------------

\* from_dsn: a fresh connection; creating the schema commits by itself.
Open(s) ==
    /\ call[s] = Closed
    /\ Enter(s, Ready)
    /\ UNCHANGED <<rows, fingerprint, reviews, learns, events, lasting, held>>

\* close(), in the finally of every caller, or the loss of the connection.
Close(s) ==
    /\ call[s] # Closed
    /\ Enter(s, Closed)
    /\ lasting' = lasting \ {s}
    /\ held' = [held EXCEPT ![s] = NoWork]
    /\ UNCHANGED <<rows, fingerprint, reviews, learns, events>>

\* active_rules_for or rule_review_history.
Read(s) ==
    /\ call[s] = Ready
    /\ lasting' = lasting \cup {s}
    /\ UNCHANGED <<rows, fingerprint, reviews, learns, events, call, held>>

\* replace_rules: the DELETE chooses the scope's rows ...
BeginReplace(s, scope, drafts) ==
    /\ call[s] = Ready
    /\ learns < MaxLearns
    /\ Enter(s, [phase |-> "replacing", scope |-> scope, drafts |-> drafts,
                 chosen |-> {r \in View(s) : r.scope = scope}])
    /\ UNCHANGED <<rows, fingerprint, reviews, learns, events, lasting, held>>

\* ... and removes them; the fingerprint is set, waiting for another
\* transaction that set it, and the new rules are inserted.
FinishReplace(s) ==
    /\ call[s].phase = "replacing"
    /\ learns < MaxLearns
    /\ Free(s, call[s].chosen)
    /\ \A t \in Sessions \ {s} : held[t].marks[call[s].scope] = 0
    /\ learns' = learns + 1
    /\ Finish(s, Current(s), Stamp(call[s].scope, learns + 1, call[s].drafts), {},
              [NoWork.marks EXCEPT ![call[s].scope] = learns + 1])
    /\ Enter(s, Ready)
    /\ UNCHANGED <<events, lasting>>

\* append_rule_review.
AppendReview(s, scope, rule) ==
    /\ call[s] = Ready
    /\ events < MaxReviews
    /\ events' = events + 1
    /\ Finish(s, {}, {}, {[event |-> events + 1, scope |-> scope, rule |-> rule]}, NoWork.marks)
    /\ UNCHANGED <<learns, call, lasting>>

\* transition_rule_status: SELECT ... FOR UPDATE chooses the rule's rows ...
BeginDecision(s, scope, rule, target) ==
    /\ call[s] = Ready
    /\ Enter(s, [phase |-> "deciding", scope |-> scope, rule |-> rule, target |-> target,
                 chosen |-> {r \in View(s) : r.scope = scope /\ r.rule = rule}])
    /\ UNCHANGED <<rows, fingerprint, reviews, learns, events, lasting, held>>

\* Mutant of Decide: without FOR UPDATE the move is judged by the status the
\* snapshot had; only the UPDATE waits for the row.
Decide_OnSnapshot(s) ==
    /\ call[s].phase = "deciding"
    /\ Free(s, call[s].chosen)
    /\ \E r \in call[s].chosen :
         /\ call[s].chosen = {r}
         /\ Follows(r.status, call[s].target)
         /\ Finish(s, Current(s), {[q EXCEPT !.status = call[s].target] : q \in Current(s)},
                   {}, NoWork.marks)
    /\ Enter(s, Ready)
    /\ UNCHANGED <<learns, events, lasting>>

\* Mutant of Decide: an ambiguous identity is decided for every row that has it.
Decide_All(s) ==
    /\ call[s].phase = "deciding"
    /\ Free(s, call[s].chosen)
    /\ \A r \in Current(s) : Follows(r.status, call[s].target)
    /\ Finish(s, Current(s), {[q EXCEPT !.status = call[s].target] : q \in Current(s)},
              {}, NoWork.marks)
    /\ Enter(s, Ready)
    /\ UNCHANGED <<learns, events, lasting>>

\* ... locks them, and if one is left and the move is legal, updates it.
Decide(s) ==
    /\ call[s].phase = "deciding"
    /\ Free(s, call[s].chosen)
    /\ \E r \in Current(s) :
         /\ Current(s) = {r}
         /\ Follows(r.status, call[s].target)
         /\ Finish(s, {r}, {[r EXCEPT !.status = call[s].target]}, {}, NoWork.marks)
    /\ Enter(s, Ready)
    /\ UNCHANGED <<learns, events, lasting>>

\* The call raises and its transaction, or savepoint, is rolled back: no rule
\* left, an ambiguous one, an illegal move, a deadlock the server broke.
Fail(s) ==
    /\ call[s].phase \in {"replacing", "deciding"}
    /\ Enter(s, Ready)
    /\ UNCHANGED <<rows, fingerprint, reviews, learns, events, lasting, held>>

Next ==
    \/ \E s \in Sessions : Open(s) \/ Close(s) \/ Fail(s)
    \/ \E s \in Readers : Read(s)
    \/ \E s \in Learners :
         \/ \E scope \in TenantScopes, drafts \in Learned : BeginReplace(s, scope, drafts)
         \/ FinishReplace(s)
    \/ \E s \in Reviewers, scope \in TenantScopes, rule \in Rules : AppendReview(s, scope, rule)
    \/ \E s \in Deciders :
         \/ \E scope \in TenantScopes, rule \in Rules, target \in Statuses :
                BeginDecision(s, scope, rule, target)
         \/ Decide(s)

Spec == Init /\ [][Next]_vars

----------------------------------------------------------------------------

\* A stored rule changes status only by a decision about that rule in that
\* scope ("Atomic, scope-isolated transitions", docs/ROADMAP.md:224).
DecisionsHitTheirRule ==
    [][\A r \in rows, q \in rows' :
           SameRule(r, q) /\ r.status # q.status =>
               \E s \in Deciders :
                   /\ call[s].phase = "deciding"
                   /\ call'[s] = Ready
                   /\ call[s].scope = r.scope
                   /\ call[s].rule = r.rule]_vars

\* Concurrent decisions keep the lifecycle irreversible ("PostgreSQL row
\* locking for concurrent lifecycle decisions", docs/ROADMAP.md:225).
LifecycleIsIrreversible ==
    [][\A r \in rows, q \in rows' :
           SameRule(r, q) => r.status = q.status \/ Follows(r.status, q.status)]_vars

\* The rules of a scope all come from one learning run ("Atomic scope
\* replacement and deterministic active-rule retrieval", docs/ROADMAP.md:176).
OneLearnPerScope ==
    \A r, q \in rows : r.scope = q.scope <=> r.learn = q.learn

Promise == INSTANCE RuleStore
KeepsPromise == Promise!Spec
============================================================================
