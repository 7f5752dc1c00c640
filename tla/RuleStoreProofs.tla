-------------------------- MODULE RuleStoreProofs --------------------------
(***************************************************************************)
(* The port's promise, for all scopes, rules and learning runs.            *)
(***************************************************************************)
EXTENDS RuleStore, TLAPS

\* What a learning run writes: rules of its scope and number, one per group.
LEMMA StampedRows ==
    ASSUME NEW scope \in Scopes, NEW learn \in Learns, NEW drafts \in Learned
    PROVE  /\ Stamp(scope, learn, drafts) \subseteq Rows
           /\ \A r \in Stamp(scope, learn, drafts) : r.scope = scope /\ r.learn = learn
           /\ \A r, q \in Stamp(scope, learn, drafts) : SameRule(r, q) => r = q
<1>1. /\ drafts \subseteq Drafts
      /\ \A d, e \in drafts : d.rule = e.rule /\ d.variant = e.variant => d = e
  BY LearnedAssumption
<1>2. Stamp(scope, learn, drafts) \subseteq Rows
  BY <1>1 DEF Stamp, Rows, Drafts, Statuses
<1>3. \A r \in Stamp(scope, learn, drafts) : r.scope = scope /\ r.learn = learn
  BY DEF Stamp
<1>4. \A r, q \in Stamp(scope, learn, drafts) : SameRule(r, q) => r = q
  BY <1>1 DEF Stamp, SameRule
<1> QED BY <1>2, <1>3, <1>4

IInv == TypeOK /\ OneLearnPerScope /\ OneStatusPerRule

LEMMA InitInv == Init => IInv
BY DEF Init, IInv, TypeOK, OneLearnPerScope, OneStatusPerRule

\* A decision changes the status of a row and nothing else of it.
LEMMA MovedRow ==
    ASSUME NEW r \in Rows, NEW target \in Statuses
    PROVE  /\ [r EXCEPT !.status = target] \in Rows
           /\ SameRule(r, [r EXCEPT !.status = target])
           /\ [r EXCEPT !.status = target].status = target
BY DEF Rows, SameRule

LEMMA NextKeepsInv == IInv /\ [Next]_vars => IInv'
<1>0. SUFFICES ASSUME IInv, [Next]_vars PROVE IInv'
  OBVIOUS
<1> USE DEF IInv, TypeOK, OneLearnPerScope, OneStatusPerRule
<1>1. ASSUME NEW scope \in Scopes, NEW learn \in Learns, NEW drafts \in Learned,
             Replace(scope, learn, drafts)
      PROVE  IInv'
  BY <1>0, <1>1, StampedRows DEF Replace, SameRule
<1>2. ASSUME NEW r \in rows, NEW target \in Statuses, Transition(r, target)
      PROVE  IInv'
  <2> DEFINE moved == [r EXCEPT !.status = target]
  <2>1. moved \in Rows /\ SameRule(r, moved)
    BY <1>0, <1>2, MovedRow
  <2>2. rows' = (rows \ {r}) \cup {moved} /\ reviews' = reviews
    BY <1>2 DEF Transition
  <2> HIDE DEF moved
  <2>3. \A p \in rows' : p = moved \/ (p \in rows /\ p # r)
    BY <2>2
  <2>4. moved.scope = r.scope /\ moved.learn = r.learn
    BY <2>1 DEF SameRule
  <2>5. TypeOK'
    BY <1>0, <2>1, <2>2
  <2>6. OneLearnPerScope'
    BY <1>0, <2>3, <2>4
  <2>7. OneStatusPerRule'
    BY <1>0, <2>1, <2>3 DEF SameRule
  <2> QED BY <2>5, <2>6, <2>7
<1>3. ASSUME NEW review \in Reviews, AppendReview(review)
      PROVE  IInv'
  BY <1>0, <1>3 DEF AppendReview
<1>4. CASE UNCHANGED vars
  BY <1>0, <1>4 DEF vars
<1> QED BY <1>0, <1>1, <1>2, <1>3, <1>4 DEF Next

LEMMA Invariance == Spec => []IInv
BY InitInv, NextKeepsInv, PTL DEF Spec

\* The rules of a scope come from one learning run.
THEOREM OneLearnPerScopeTheorem == Spec => []OneLearnPerScope
<1>1. IInv => OneLearnPerScope
  BY DEF IInv
<1> QED BY <1>1, Invariance, PTL

\* A stored rule has one status.
THEOREM OneStatusPerRuleTheorem == Spec => []OneStatusPerRule
<1>1. IInv => OneStatusPerRule
  BY DEF IInv
<1> QED BY <1>1, Invariance, PTL

\* A step moves a stored rule along the lifecycle or leaves its status.
LEMMA StepFollowsLifecycle ==
    IInv /\ [Next]_vars =>
        \A r \in rows, q \in rows' :
            SameRule(r, q) => r.status = q.status \/ Follows(r.status, q.status)
<1> SUFFICES ASSUME IInv, [Next]_vars,
                    NEW r \in rows, NEW q \in rows', SameRule(r, q)
             PROVE  r.status = q.status \/ Follows(r.status, q.status)
  OBVIOUS
<1> USE DEF IInv, TypeOK, OneStatusPerRule
<1>1. CASE q \in rows
  BY <1>1
<1>2. ASSUME NEW scope \in Scopes, NEW learn \in Learns, NEW drafts \in Learned,
             Replace(scope, learn, drafts)
      PROVE  q \in rows
  BY <1>2, StampedRows DEF Replace, SameRule
<1>3. ASSUME NEW p \in rows, NEW target \in Statuses, Transition(p, target), q \notin rows
      PROVE  Follows(r.status, q.status)
  <2>1. q = [p EXCEPT !.status = target] /\ Follows(p.status, target)
    BY <1>3 DEF Transition
  <2>2. SameRule(p, q) /\ q.status = target
    BY <2>1, MovedRow
  <2>3. r = p
    BY <2>2 DEF SameRule
  <2> QED BY <2>1, <2>2, <2>3
<1>4. ASSUME NEW review \in Reviews, AppendReview(review)
      PROVE  q \in rows
  BY <1>4 DEF AppendReview
<1>5. CASE UNCHANGED vars
  BY <1>5, <1>1 DEF vars
<1> QED BY <1>1, <1>2, <1>3, <1>4, <1>5 DEF Next

\* The lifecycle is irreversible while a rule is stored.
THEOREM IrreversibleTheorem == Spec => Irreversible
BY Invariance, StepFollowsLifecycle, PTL DEF Spec, Irreversible

\* No step removes a review.
THEOREM HistoryGrowsTheorem == Spec => HistoryGrows
<1>1. [Next]_vars => reviews \subseteq reviews'
  BY DEF Next, vars, Replace, Transition, AppendReview
<1> QED BY <1>1, PTL DEF Spec, HistoryGrows
============================================================================
