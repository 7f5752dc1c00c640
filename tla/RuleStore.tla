----------------------------- MODULE RuleStore -----------------------------
(***************************************************************************)
(* What the port RuleKnowledgeStore promises, whichever adapter serves it: *)
(* each call takes effect at once and alone.  SqliteRuleStore and          *)
(* PostgresRuleStore say how far the adapters keep the promise.            *)
(***************************************************************************)
EXTENDS RuleLifecycle

VARIABLES
    rows,      \* the stored rules
    reviews    \* the recorded human decisions

vars == <<rows, reviews>>

TypeOK ==
    /\ rows \subseteq Rows
    /\ reviews \subseteq Reviews

Init ==
    /\ rows = {}
    /\ reviews = {}

\* replace_rules: the scope's rules give way to those of one learning run.
Replace(scope, learn, drafts) ==
    /\ \A r \in rows : r.learn # learn
    /\ rows' = {r \in rows : r.scope # scope} \cup Stamp(scope, learn, drafts)
    /\ UNCHANGED reviews

\* transition_rule_status: one rule, named without ambiguity, moves on.
Transition(r, target) ==
    /\ r.scope # Unscoped
    /\ IsOnlyMatch(r, rows)
    /\ Follows(r.status, target)
    /\ rows' = (rows \ {r}) \cup {[r EXCEPT !.status = target]}
    /\ UNCHANGED reviews

\* append_rule_review: records are added, never replaced.
AppendReview(review) ==
    /\ \A e \in reviews : e.event # review.event
    /\ reviews' = reviews \cup {review}
    /\ UNCHANGED rows

Next ==
    \/ \E scope \in Scopes, learn \in Learns, drafts \in Learned : Replace(scope, learn, drafts)
    \/ \E r \in rows, target \in Statuses : Transition(r, target)
    \/ \E review \in Reviews : AppendReview(review)

Spec == Init /\ [][Next]_vars

----------------------------------------------------------------------------

\* Replacement is atomic: the rules of a scope all come from one learning run
\* (replace_rules deletes and inserts in one transaction).
OneLearnPerScope ==
    \A r, q \in rows : r.scope = q.scope <=> r.learn = q.learn

\* A learning run leaves no two rows for one group of observations, so a rule
\* has one status.
OneStatusPerRule ==
    \A r, q \in rows : SameRule(r, q) => r = q

\* The lifecycle is irreversible: a rule that stays in the store keeps its
\* status or moves along the lifecycle; what was rejected, superseded or
\* deprecated is never again candidate or active while it is stored.
Irreversible ==
    [][\A r \in rows, q \in rows' :
           SameRule(r, q) => r.status = q.status \/ Follows(r.status, q.status)]_vars

\* The review history is append-only.
HistoryGrows == [][reviews \subseteq reviews']_vars
============================================================================
