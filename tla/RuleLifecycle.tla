--------------------------- MODULE RuleLifecycle ---------------------------
(***************************************************************************)
(* The vocabulary the two rule stores share: what a learned rule is, and   *)
(* which status may follow which (domain/models.py).  No state of its own. *)
(***************************************************************************)
EXTENDS Naturals, FiniteSets

CONSTANTS
    Scopes,        \* the knowledge scopes, Unscoped among them
    Unscoped,      \* the five NULL columns of a rule learned without a scope
    Rules,         \* rule identities: a kind with an expected value
    Variants,      \* what else tells two rules of one identity apart: the import they were seen with
    Learned,       \* the rule lists a learning run may produce, as sets of drafts
    MaxLearns,     \* bound: learning runs, numbered from 1
    MaxReviews     \* bound: review records, numbered from 1

Statuses == {"candidate", "active", "rejected", "superseded", "deprecated"}

\* A decision that validate_rule_status_transition lets through.
Follows(current, target) ==
    \/ current = "candidate" /\ target \in {"active", "rejected"}
    \/ current = "active" /\ target \in {"superseded", "deprecated"}

\* The aggregator gives a rule the status active or candidate, never another.
Drafts == [rule: Rules, variant: Variants, status: {"candidate", "active"}]

Learns == 1..MaxLearns

\* A stored rule.  "learn" stands for the columns that come from the learning
\* run as a whole: evidence, counts and the time of discovery.
Rows == [scope: Scopes, learn: Learns, rule: Rules, variant: Variants, status: Statuses]

Reviews == [event: 1..MaxReviews, scope: Scopes \ {Unscoped}, rule: Rules]

\* The rows that learning run number learn writes for a list of drafts.
Stamp(scope, learn, drafts) ==
    {[scope |-> scope, learn |-> learn, rule |-> d.rule, variant |-> d.variant,
      status |-> d.status] : d \in drafts}

\* The same stored rule, whatever its status.
SameRule(r, q) ==
    /\ r.scope = q.scope
    /\ r.learn = q.learn
    /\ r.rule = q.rule
    /\ r.variant = q.variant

\* The one rule with this identity in this scope; a second one makes the
\* identity ambiguous and every decision about it fails.
IsOnlyMatch(r, rows) ==
    /\ r \in rows
    /\ \A q \in rows : q.scope = r.scope /\ q.rule = r.rule => q = r

ASSUME ScopesAssumption == Unscoped \in Scopes

\* The aggregator groups observations by identity and import, and makes one
\* rule of each group.
ASSUME LearnedAssumption ==
    /\ Learned \subseteq SUBSET Drafts
    /\ \A drafts \in Learned : \A d, e \in drafts :
           d.rule = e.rule /\ d.variant = e.variant => d = e
    /\ \A drafts \in Learned : IsFiniteSet(drafts)

ASSUME BoundsAssumption == MaxLearns \in Nat /\ MaxReviews \in Nat
============================================================================
