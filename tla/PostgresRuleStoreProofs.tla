---------------------- MODULE PostgresRuleStoreProofs ----------------------
(***************************************************************************)
(* What holds under any number of concurrent PostgreSQL sessions, and what *)
(* does if one of them learns or the reviewers read nothing first.         *)
(***************************************************************************)
EXTENDS PostgresRuleStore, TLAPS

\* Work that is not committed belongs to lasting transactions only; so what
\* any other session works on is what is committed.
CallsCommit == \A s \in Sessions : s \notin lasting => held[s].gone = {} /\ held[s].put = {}

\* Committed rules come from runs already counted and have one status each.
Provenance ==
    /\ learns \in Nat
    /\ rows \subseteq Rows
    /\ \A r \in rows : r.learn \in 1..learns
    /\ \A r, q \in rows : SameRule(r, q) => r = q

\* A session's record of uncommitted work can be assigned to.
HeldIsFunction ==
    /\ held = [s \in Sessions |-> held[s]]
    /\ call = [s \in Sessions |-> call[s]]

\* What a call has been given.
CallsInRange ==
    \A s \in Sessions :
        /\ call[s].phase = "replacing" => call[s].scope \in Scopes /\ call[s].drafts \in Learned
        /\ call[s].phase = "deciding" =>
              /\ call[s].target \in Statuses
              /\ \A r \in call[s].chosen : r.scope = call[s].scope /\ r.rule = call[s].rule

IInv == HeldIsFunction /\ CallsCommit /\ CallsInRange /\ Provenance

LEMMA InitInv == Init => IInv
BY DEF Init, IInv, HeldIsFunction, CallsCommit, CallsInRange, Provenance, NoWork, Closed

\* What a learning run writes: rows of its number, one per group.
LEMMA StampedRows ==
    ASSUME NEW scope \in Scopes, NEW learn \in Learns, NEW drafts \in Learned
    PROVE  /\ Stamp(scope, learn, drafts) \subseteq Rows
           /\ \A r \in Stamp(scope, learn, drafts) : r.learn = learn
           /\ \A r, q \in Stamp(scope, learn, drafts) : SameRule(r, q) => r = q
<1>1. /\ drafts \subseteq Drafts
      /\ \A d, e \in drafts : d.rule = e.rule /\ d.variant = e.variant => d = e
  BY LearnedAssumption
<1>2. Stamp(scope, learn, drafts) \subseteq Rows
  BY <1>1 DEF Stamp, Rows, Drafts, Statuses
<1>3. \A r \in Stamp(scope, learn, drafts) : r.learn = learn
  BY DEF Stamp
<1>4. \A r, q \in Stamp(scope, learn, drafts) : SameRule(r, q) => r = q
  BY <1>1 DEF Stamp, SameRule
<1> QED BY <1>2, <1>3, <1>4

\* A decision changes the status of a row and nothing else of it.
LEMMA MovedRow ==
    ASSUME NEW r \in Rows, NEW target \in Statuses
    PROVE  /\ [r EXCEPT !.status = target] \in Rows
           /\ SameRule(r, [r EXCEPT !.status = target])
           /\ [r EXCEPT !.status = target].status = target
BY DEF Rows, SameRule

\* What a step may do to the committed rules: nothing, give room to one
\* learning run's, or move one rule along the lifecycle.
Committed(gone, put) == rows' = (rows \ gone) \cup put

RowsStep ==
    \/ UNCHANGED <<rows, learns>>
    \/ /\ learns \in 0..MaxLearns /\ learns + 1 \in Learns /\ learns' = learns + 1
       /\ \/ UNCHANGED rows
          \/ \E gone : \E scope \in Scopes, drafts \in Learned :
                Committed(gone, Stamp(scope, learns + 1, drafts))
    \/ /\ UNCHANGED learns
       /\ \E r \in rows, target \in Statuses :
             Follows(r.status, target) /\ Committed({r}, {[r EXCEPT !.status = target]})

\* The end of a write commits exactly outside a lasting transaction.
LEMMA FinishedWork ==
    ASSUME IInv, NEW s \in Sessions, NEW gone, NEW put, NEW told, NEW marks,
           Finish(s, gone, put, told, marks)
    PROVE  /\ s \in lasting => UNCHANGED rows
           /\ s \notin lasting => Committed(gone, put)
           /\ held' = [t \in Sessions |-> held'[t]]
           /\ \A t \in Sessions : t \notin lasting => held'[t] = held[t]
<1>1. held = [t \in Sessions |-> held[t]]
  BY DEF IInv, HeldIsFunction
<1>2. CASE s \in lasting
  BY <1>1, <1>2 DEF Finish
<1>3. CASE s \notin lasting
  BY <1>1, <1>3 DEF Finish, Committed
<1> QED BY <1>2, <1>3

LEMMA FinishReplaceStep ==
    ASSUME IInv, NEW s \in Learners, FinishReplace(s)
    PROVE  RowsStep
<1> DEFINE put == Stamp(call[s].scope, learns + 1, call[s].drafts)
<1>1. call[s].scope \in Scopes /\ call[s].drafts \in Learned /\ s \in Sessions
  BY DEF FinishReplace, IInv, CallsInRange, Sessions
<1>2. /\ learns \in 0..MaxLearns
      /\ learns + 1 \in Learns
      /\ learns' = learns + 1
  BY BoundsAssumption DEF FinishReplace, IInv, Provenance, Learns
<1>3. \E marks : Finish(s, Current(s), put, {}, marks)
  BY DEF FinishReplace
<1>4. UNCHANGED rows \/ Committed(Current(s), put)
  BY <1>1, <1>3, FinishedWork
<1>5. CASE UNCHANGED rows
  BY <1>2, <1>5 DEF RowsStep
<1>6. CASE Committed(Current(s), put)
  <2>1. \E gone : \E scope \in Scopes, drafts \in Learned :
            Committed(gone, Stamp(scope, learns + 1, drafts))
    BY <1>1, <1>6
  <2> QED BY <1>2, <2>1 DEF RowsStep
<1> QED BY <1>4, <1>5, <1>6

LEMMA DecideStep ==
    ASSUME IInv, NEW s \in Deciders, Decide(s)
    PROVE  RowsStep
<1>1. s \in Sessions /\ call[s].target \in Statuses /\ learns' = learns
  BY DEF Decide, IInv, CallsInRange, Sessions
<1>2. PICK r \in Current(s) :
          /\ Follows(r.status, call[s].target)
          /\ Finish(s, {r}, {[r EXCEPT !.status = call[s].target]}, {}, NoWork.marks)
  BY DEF Decide
<1>3. CASE s \in lasting
  BY <1>1, <1>2, <1>3, FinishedWork DEF RowsStep
<1>4. CASE s \notin lasting
  <2>1. r \in rows
    BY <1>1, <1>4 DEF Current, View, IInv, CallsCommit
  <2>2. Committed({r}, {[r EXCEPT !.status = call[s].target]})
    BY <1>1, <1>2, <1>4, FinishedWork
  <2> QED BY <1>1, <1>2, <2>1, <2>2 DEF RowsStep
<1> QED BY <1>3, <1>4

LEMMA EveryRowsStep == IInv /\ [Next]_vars => RowsStep
<1>0. SUFFICES ASSUME IInv, [Next]_vars PROVE RowsStep
  OBVIOUS
<1>1. CASE \E s \in Learners : FinishReplace(s)
  BY <1>0, <1>1, FinishReplaceStep
<1>2. CASE \E s \in Deciders : Decide(s)
  BY <1>0, <1>2, DecideStep
<1>3. ASSUME NEW s \in Reviewers, NEW scope \in TenantScopes, NEW rule \in Rules,
             AppendReview(s, scope, rule)
      PROVE  RowsStep
  <2>1. PICK told : Finish(s, {}, {}, told, NoWork.marks)
    BY <1>3 DEF AppendReview
  <2>2. UNCHANGED rows
    BY <2>1 DEF Finish
  <2> QED BY <1>3, <2>2 DEF AppendReview, RowsStep
<1>4. CASE UNCHANGED <<rows, learns>>
  BY <1>4 DEF RowsStep
<1>5. \/ \E s \in Learners : FinishReplace(s)
      \/ \E s \in Deciders : Decide(s)
      \/ \E s \in Reviewers, scope \in TenantScopes, rule \in Rules :
            AppendReview(s, scope, rule)
      \/ UNCHANGED <<rows, learns>>
  BY <1>0 DEF Next, vars, Open, Close, Fail, Read, BeginReplace, BeginDecision
<1> QED BY <1>1, <1>2, <1>3, <1>4, <1>5

----------------------------------------------------------------------------

LEMMA ProvenanceKept == Provenance /\ RowsStep => Provenance'
<1>0. SUFFICES ASSUME Provenance, RowsStep PROVE Provenance'
  OBVIOUS
<1>1. CASE UNCHANGED <<rows, learns>>
  BY <1>0, <1>1 DEF Provenance
<1>2. ASSUME learns + 1 \in Learns, learns' = learns + 1, UNCHANGED rows
      PROVE  Provenance'
  BY <1>0, <1>2 DEF Provenance
<1>3. ASSUME learns + 1 \in Learns, learns' = learns + 1,
             NEW gone, NEW scope \in Scopes, NEW drafts \in Learned,
             Committed(gone, Stamp(scope, learns + 1, drafts))
      PROVE  Provenance'
  <2> DEFINE put == Stamp(scope, learns + 1, drafts)
  <2>1. /\ put \subseteq Rows
        /\ \A r \in put : r.learn = learns + 1
        /\ \A r, q \in put : SameRule(r, q) => r = q
    BY <1>3, StampedRows
  <2>2. \A r \in rows' : r \in rows \/ r \in put
    BY <1>3 DEF Committed
  <2> HIDE DEF put
  <2>3. \A r \in rows : r.learn # learns + 1
    BY <1>0 DEF Provenance
  <2> QED BY <1>0, <1>3, <2>1, <2>2, <2>3 DEF Provenance, SameRule
<1>4. ASSUME UNCHANGED learns, NEW r \in rows, NEW target \in Statuses,
             Committed({r}, {[r EXCEPT !.status = target]})
      PROVE  Provenance'
  <2> DEFINE moved == [r EXCEPT !.status = target]
  <2>1. moved \in Rows /\ SameRule(r, moved)
    BY <1>0, MovedRow DEF Provenance
  <2>2. \A p \in rows' : p = moved \/ (p \in rows /\ p # r)
    BY <1>4 DEF Committed
  <2> HIDE DEF moved
  <2> QED BY <1>0, <1>4, <2>1, <2>2 DEF Provenance, SameRule
<1> QED BY <1>0, <1>1, <1>2, <1>3, <1>4 DEF RowsStep

LEMMA SessionsKept ==
    IInv /\ [Next]_vars => (HeldIsFunction /\ CallsCommit /\ CallsInRange)'
<1>0. SUFFICES ASSUME IInv, [Next]_vars PROVE (HeldIsFunction /\ CallsCommit /\ CallsInRange)'
  OBVIOUS
<1> USE DEF IInv, HeldIsFunction, CallsCommit, CallsInRange
<1>1. ASSUME NEW s \in Sessions, Open(s) \/ Fail(s)
      PROVE  (HeldIsFunction /\ CallsCommit /\ CallsInRange)'
  BY <1>0, <1>1 DEF Open, Fail, Enter, Ready
<1>2. ASSUME NEW s \in Sessions, Close(s)
      PROVE  (HeldIsFunction /\ CallsCommit /\ CallsInRange)'
  BY <1>0, <1>2 DEF Close, Enter, Closed, NoWork
<1>3. ASSUME NEW s \in Readers, Read(s)
      PROVE  (HeldIsFunction /\ CallsCommit /\ CallsInRange)'
  BY <1>0, <1>3 DEF Read
<1>4. ASSUME NEW s \in Learners, NEW scope \in TenantScopes, NEW drafts \in Learned,
             BeginReplace(s, scope, drafts)
      PROVE  (HeldIsFunction /\ CallsCommit /\ CallsInRange)'
  BY <1>0, <1>4 DEF BeginReplace, Enter, TenantScopes
<1>5. ASSUME NEW s \in Learners, FinishReplace(s)
      PROVE  (HeldIsFunction /\ CallsCommit /\ CallsInRange)'
  <2>1. \E gone, put, told, marks : Finish(s, gone, put, told, marks)
    BY <1>5 DEF FinishReplace
  <2> QED BY <1>0, <1>5, <2>1, FinishedWork DEF FinishReplace, Enter, Ready, Sessions
<1>6. ASSUME NEW s \in Reviewers, NEW scope \in TenantScopes, NEW rule \in Rules,
             AppendReview(s, scope, rule)
      PROVE  (HeldIsFunction /\ CallsCommit /\ CallsInRange)'
  <2>1. \E gone, put, told, marks : Finish(s, gone, put, told, marks)
    BY <1>6 DEF AppendReview
  <2> QED BY <1>0, <1>6, <2>1, FinishedWork DEF AppendReview, Sessions
<1>7. ASSUME NEW s \in Deciders, NEW scope \in TenantScopes, NEW rule \in Rules,
             NEW target \in Statuses, BeginDecision(s, scope, rule, target)
      PROVE  (HeldIsFunction /\ CallsCommit /\ CallsInRange)'
  BY <1>0, <1>7 DEF BeginDecision, Enter
<1>8. ASSUME NEW s \in Deciders, Decide(s)
      PROVE  (HeldIsFunction /\ CallsCommit /\ CallsInRange)'
  <2>1. \E gone, put, told, marks : Finish(s, gone, put, told, marks)
    BY <1>8 DEF Decide
  <2> QED BY <1>0, <1>8, <2>1, FinishedWork DEF Decide, Enter, Ready, Sessions
<1>9. CASE UNCHANGED vars
  BY <1>0, <1>9 DEF vars
<1> QED BY <1>0, <1>1, <1>2, <1>3, <1>4, <1>5, <1>6, <1>7, <1>8, <1>9 DEF Next

LEMMA Invariance == Spec => []IInv
<1>1. IInv /\ [Next]_vars => IInv'
  BY EveryRowsStep, ProvenanceKept, SessionsKept DEF IInv
<1> QED BY <1>1, InitInv, PTL DEF Spec

\* A step of the committed rules follows the lifecycle.
LEMMA StepFollowsLifecycle ==
    Provenance /\ RowsStep =>
        \A r \in rows, q \in rows' :
            SameRule(r, q) => r.status = q.status \/ Follows(r.status, q.status)
<1>0. SUFFICES ASSUME Provenance, RowsStep, NEW r \in rows, NEW q \in rows', SameRule(r, q)
               PROVE  r.status = q.status \/ Follows(r.status, q.status)
  OBVIOUS
<1>1. CASE q \in rows
  BY <1>0, <1>1 DEF Provenance
<1>2. ASSUME learns + 1 \in Learns,
             NEW gone, NEW scope \in Scopes, NEW drafts \in Learned,
             Committed(gone, Stamp(scope, learns + 1, drafts))
      PROVE  q \in rows
  <2>1. \A p \in Stamp(scope, learns + 1, drafts) : p.learn = learns + 1
    BY <1>2, StampedRows
  <2>2. r.learn # learns + 1 /\ r.learn = q.learn
    BY <1>0 DEF Provenance, SameRule
  <2> QED BY <1>0, <1>2, <2>1, <2>2 DEF Committed
<1>3. ASSUME NEW p \in rows, NEW target \in Statuses, Follows(p.status, target),
             Committed({p}, {[p EXCEPT !.status = target]}), q \notin rows
      PROVE  Follows(r.status, q.status)
  <2>1. q = [p EXCEPT !.status = target]
    BY <1>0, <1>3 DEF Committed
  <2>2. SameRule(p, q) /\ q.status = target
    BY <1>0, <2>1, MovedRow DEF Provenance
  <2>3. r = p
    BY <1>0, <2>2 DEF Provenance, SameRule
  <2> QED BY <1>3, <2>2, <2>3
<1> QED BY <1>0, <1>1, <1>2, <1>3 DEF RowsStep

\* However many sessions decide, learn, read first, fail or are lost, the
\* lifecycle of a stored rule is irreversible: the decision is made on the
\* row as it is once it is locked.
THEOREM LifecycleHolds == Spec => LifecycleIsIrreversible
<1>1. IInv /\ [Next]_vars =>
          \A r \in rows, q \in rows' :
              SameRule(r, q) => r.status = q.status \/ Follows(r.status, q.status)
  BY EveryRowsStep, StepFollowsLifecycle DEF IInv
<1> QED BY <1>1, Invariance, PTL DEF Spec, LifecycleIsIrreversible

\* However sessions interleave, a status changes only by a decision about that
\* rule in that scope: the rows a decision works on are those it has chosen.
THEOREM DecisionsHit == Spec => DecisionsHitTheirRule
<1>1. ASSUME IInv, [Next]_vars, NEW r \in rows, NEW q \in rows',
             SameRule(r, q), r.status # q.status
      PROVE  \E s \in Deciders : /\ call[s].phase = "deciding" /\ call'[s] = Ready
                                 /\ call[s].scope = r.scope /\ call[s].rule = r.rule
  <2>1. q \notin rows
    BY <1>1 DEF IInv, Provenance
  <2>2. ASSUME NEW s \in Learners, FinishReplace(s) PROVE FALSE
    <3>1. /\ s \in Sessions /\ call[s].scope \in Scopes /\ call[s].drafts \in Learned
          /\ learns + 1 \in Learns
      BY <1>1, <2>2, BoundsAssumption
      DEF FinishReplace, IInv, CallsInRange, Sessions, Provenance, Learns
    <3>2. \A p \in Stamp(call[s].scope, learns + 1, call[s].drafts) : p.learn = learns + 1
      BY <3>1, StampedRows
    <3>3. UNCHANGED rows \/ Committed(Current(s), Stamp(call[s].scope, learns + 1, call[s].drafts))
      BY <1>1, <2>2, <3>1, FinishedWork DEF FinishReplace
    <3>4. q.learn = learns + 1
      BY <1>1, <2>1, <3>2, <3>3 DEF Committed
    <3> QED BY <1>1, <3>4 DEF IInv, Provenance, SameRule
  <2>3. ASSUME NEW s \in Reviewers, NEW scope \in TenantScopes, NEW rule \in Rules,
               AppendReview(s, scope, rule)
        PROVE  FALSE
    <3>1. PICK told : Finish(s, {}, {}, told, NoWork.marks)
      BY <2>3 DEF AppendReview
    <3> QED BY <1>1, <2>1, <3>1 DEF Finish
  <2>4. ASSUME UNCHANGED rows PROVE FALSE
    BY <1>1, <2>1, <2>4
  <2>5. ASSUME NEW s \in Deciders, Decide(s)
        PROVE  /\ call[s].phase = "deciding" /\ call'[s] = Ready
               /\ call[s].scope = r.scope /\ call[s].rule = r.rule
    <3>1. s \in Sessions /\ call[s].phase = "deciding" /\ call'[s] = Ready
      BY <1>1, <2>5 DEF Decide, Enter, Sessions, IInv, HeldIsFunction
    <3>2. PICK p \in Current(s) :
              Finish(s, {p}, {[p EXCEPT !.status = call[s].target]}, {}, NoWork.marks)
      BY <2>5 DEF Decide
    <3>3. s \notin lasting /\ Committed({p}, {[p EXCEPT !.status = call[s].target]})
      BY <1>1, <2>1, <3>1, <3>2, FinishedWork
    <3>4. p \in rows
      BY <1>1, <3>1, <3>3 DEF Current, View, IInv, CallsCommit
    <3>5. q = [p EXCEPT !.status = call[s].target]
      BY <1>1, <2>1, <3>3 DEF Committed
    <3>6. call[s].target \in Statuses
      BY <1>1, <3>1 DEF IInv, CallsInRange
    <3>7. p.scope = r.scope /\ p.rule = r.rule
      BY <1>1, <3>4, <3>5, <3>6, MovedRow DEF IInv, Provenance, SameRule
    <3>8. PICK c \in call[s].chosen : SameRule(p, c)
      BY DEF Current
    <3> QED BY <1>1, <3>1, <3>7, <3>8 DEF IInv, CallsInRange, SameRule
  <2> QED
    BY <1>1, <2>2, <2>3, <2>4, <2>5
    DEF Next, vars, Open, Close, Fail, Read, BeginReplace, BeginDecision
<1>2. IInv /\ [Next]_vars =>
          \A r \in rows, q \in rows' :
              SameRule(r, q) /\ r.status # q.status =>
                  \E s \in Deciders :
                      /\ call[s].phase = "deciding"
                      /\ call'[s] = Ready
                      /\ call[s].scope = r.scope
                      /\ call[s].rule = r.rule
  BY <1>1
<1> QED BY <1>2, Invariance, PTL DEF Spec, DecisionsHitTheirRule

----------------------------------------------------------------------------
(* The types *)

\* A session sees rows only, its own included.
LEMMA SeenRows ==
    ASSUME TypeOK, NEW s \in Sessions
    PROVE  View(s) \subseteq Rows /\ Current(s) \subseteq Rows
BY DEF TypeOK, View, Current, Work

\* The end of a write keeps the types, whether it commits or is held.
LEMMA FinishedTypes ==
    ASSUME TypeOK, NEW s \in Sessions, NEW gone, NEW put \in SUBSET Rows,
           NEW told \in SUBSET Reviews, NEW marks \in [TenantScopes -> 0..MaxLearns],
           Finish(s, gone, put, told, marks)
    PROVE  /\ rows' \subseteq Rows
           /\ fingerprint' \in [TenantScopes -> 0..MaxLearns]
           /\ reviews' \subseteq Reviews
           /\ held' \in [Sessions -> Work]
<1>1. CASE s \notin lasting
  BY <1>1 DEF Finish, TypeOK
<1>2. CASE s \in lasting
  <2> DEFINE work == [gone |-> held[s].gone \cup (gone \cap rows),
                      put |-> (held[s].put \ gone) \cup put,
                      told |-> held[s].told \cup told,
                      marks |-> [scope \in TenantScopes |->
                                    IF marks[scope] = 0 THEN held[s].marks[scope]
                                                        ELSE marks[scope]]]
  <2>1. /\ held' = [held EXCEPT ![s] = work]
        /\ UNCHANGED <<rows, fingerprint, reviews>>
    BY <1>2 DEF Finish
  <2>2. work \in Work
    <3>1. /\ held[s].gone \subseteq Rows /\ held[s].put \subseteq Rows
          /\ held[s].told \subseteq Reviews
          /\ held[s].marks \in [TenantScopes -> 0..MaxLearns]
      BY DEF TypeOK, Work
    <3>2. work.marks \in [TenantScopes -> 0..MaxLearns]
      BY <3>1
    <3> QED BY <3>1, <3>2 DEF TypeOK, Work
  <2> HIDE DEF work
  <2> QED BY <2>1, <2>2 DEF TypeOK
<1> QED BY <1>1, <1>2

\* The fingerprint a write sets, if any.
LEMMA MarksType ==
    ASSUME NEW learn \in 0..MaxLearns, NEW scope \in TenantScopes
    PROVE  /\ NoWork \in Work
           /\ NoWork.marks \in [TenantScopes -> 0..MaxLearns]
           /\ [NoWork.marks EXCEPT ![scope] = learn] \in [TenantScopes -> 0..MaxLearns]
BY BoundsAssumption DEF NoWork, Work

LEMMA TypeFinishReplace ==
    ASSUME TypeOK, NEW s \in Learners, FinishReplace(s)
    PROVE  TypeOK'
<1> DEFINE put == Stamp(call[s].scope, learns + 1, call[s].drafts)
           marks == [NoWork.marks EXCEPT ![call[s].scope] = learns + 1]
<1>1. /\ s \in Sessions
      /\ call[s].scope \in TenantScopes /\ call[s].drafts \in Learned
  BY DEF FinishReplace, TypeOK, Calls, Sessions, Closed, Ready
<1>2. learns + 1 \in Learns /\ learns' = learns + 1 /\ learns + 1 \in 0..MaxLearns
  BY BoundsAssumption DEF FinishReplace, TypeOK, Learns
<1>3. put \in SUBSET Rows
  BY <1>1, <1>2, StampedRows DEF TenantScopes
<1>4. marks \in [TenantScopes -> 0..MaxLearns]
  BY <1>1, <1>2, MarksType
<1>5. Finish(s, Current(s), put, {}, marks)
  BY DEF FinishReplace
<1> HIDE DEF put, marks
<1>6. /\ rows' \subseteq Rows /\ reviews' \subseteq Reviews
      /\ fingerprint' \in [TenantScopes -> 0..MaxLearns]
      /\ held' \in [Sessions -> Work]
  BY <1>1, <1>3, <1>4, <1>5, FinishedTypes
<1> QED BY <1>1, <1>2, <1>6 DEF FinishReplace, TypeOK, Enter, Calls

LEMMA TypeDecide ==
    ASSUME TypeOK, NEW s \in Deciders, Decide(s)
    PROVE  TypeOK'
<1>1. s \in Sessions /\ call[s].target \in Statuses
  BY DEF Decide, TypeOK, Calls, Sessions, Closed, Ready
<1>2. PICK r \in Current(s) :
          Finish(s, {r}, {[r EXCEPT !.status = call[s].target]}, {}, NoWork.marks)
  BY DEF Decide
<1>3. {[r EXCEPT !.status = call[s].target]} \in SUBSET Rows
  BY <1>1, SeenRows, MovedRow
<1>4. NoWork.marks \in [TenantScopes -> 0..MaxLearns]
  BY BoundsAssumption DEF NoWork
<1>5. /\ rows' \subseteq Rows /\ reviews' \subseteq Reviews
      /\ fingerprint' \in [TenantScopes -> 0..MaxLearns]
      /\ held' \in [Sessions -> Work]
  BY <1>1, <1>2, <1>3, <1>4, FinishedTypes
<1> QED BY <1>1, <1>5 DEF Decide, TypeOK, Enter, Calls

LEMMA TypeAppendReview ==
    ASSUME TypeOK, NEW s \in Reviewers, NEW scope \in TenantScopes, NEW rule \in Rules,
           AppendReview(s, scope, rule)
    PROVE  TypeOK'
<1> DEFINE told == {[event |-> events + 1, scope |-> scope, rule |-> rule]}
<1>1. s \in Sessions /\ events' \in 0..MaxReviews /\ events + 1 \in 1..MaxReviews
  BY BoundsAssumption DEF AppendReview, TypeOK, Sessions
<1>2. told \in SUBSET Reviews /\ NoWork.marks \in [TenantScopes -> 0..MaxLearns]
  BY <1>1, BoundsAssumption DEF Reviews, TenantScopes, NoWork
<1>3. Finish(s, {}, {}, told, NoWork.marks)
  BY DEF AppendReview
<1> HIDE DEF told
<1>4. /\ rows' \subseteq Rows /\ reviews' \subseteq Reviews
      /\ fingerprint' \in [TenantScopes -> 0..MaxLearns]
      /\ held' \in [Sessions -> Work]
  BY <1>1, <1>2, <1>3, FinishedTypes
<1> QED BY <1>1, <1>4 DEF AppendReview, TypeOK

LEMMA TypeNext == TypeOK /\ [Next]_vars => TypeOK'
<1> SUFFICES ASSUME TypeOK, [Next]_vars PROVE TypeOK'
  OBVIOUS
<1>1. ASSUME NEW s \in Sessions, Open(s) \/ Fail(s) PROVE TypeOK'
  BY <1>1 DEF Open, Fail, Enter, TypeOK, Calls
<1>2. ASSUME NEW s \in Sessions, Close(s) PROVE TypeOK'
  <2>1. NoWork \in Work
    BY BoundsAssumption DEF NoWork, Work
  <2> QED BY <1>2, <2>1 DEF Close, Enter, TypeOK, Calls
<1>3. ASSUME NEW s \in Readers, Read(s) PROVE TypeOK'
  BY <1>3 DEF Read, TypeOK, Sessions
<1>4. ASSUME NEW s \in Learners, NEW scope \in TenantScopes, NEW drafts \in Learned,
             BeginReplace(s, scope, drafts)
      PROVE  TypeOK'
  <2>1. {r \in View(s) : r.scope = scope} \in SUBSET Rows /\ s \in Sessions
    BY SeenRows DEF Sessions
  <2> QED BY <1>4, <2>1 DEF BeginReplace, Enter, TypeOK, Calls
<1>5. ASSUME NEW s \in Learners, FinishReplace(s) PROVE TypeOK'
  BY <1>5, TypeFinishReplace
<1>6. ASSUME NEW s \in Reviewers, NEW scope \in TenantScopes, NEW rule \in Rules,
             AppendReview(s, scope, rule)
      PROVE  TypeOK'
  BY <1>6, TypeAppendReview
<1>7. ASSUME NEW s \in Deciders, NEW scope \in TenantScopes, NEW rule \in Rules,
             NEW target \in Statuses, BeginDecision(s, scope, rule, target)
      PROVE  TypeOK'
  <2>1. /\ {r \in View(s) : r.scope = scope /\ r.rule = rule} \in SUBSET Rows
        /\ s \in Sessions
    BY SeenRows DEF Sessions
  <2> QED BY <1>7, <2>1 DEF BeginDecision, Enter, TypeOK, Calls
<1>8. ASSUME NEW s \in Deciders, Decide(s) PROVE TypeOK'
  BY <1>8, TypeDecide
<1>9. CASE UNCHANGED vars
  BY <1>9 DEF vars, TypeOK
<1> QED BY <1>1, <1>2, <1>3, <1>4, <1>5, <1>6, <1>7, <1>8, <1>9 DEF Next

\* What sessions commit, hold and are in the middle of keeps its type, for any
\* sessions, scopes and bounds.
THEOREM TypeCorrect == Spec => []TypeOK
<1>1. Init => TypeOK
  BY BoundsAssumption DEF Init, TypeOK, Calls, NoWork, Work
<1> QED BY <1>1, TypeNext, PTL DEF Spec

----------------------------------------------------------------------------
(* How the review history grows *)

\* Only a session that has read is in a transaction that outlives its calls.
LastingRead == lasting \subseteq Readers

\* Reviews are numbered in the order in which they were recorded.
ReviewsNumbered ==
    /\ events \in Nat
    /\ \A review \in reviews : review.event \in 1..events

LEMMA LastingReadKept == LastingRead /\ [Next]_vars => LastingRead'
BY DEF LastingRead, Next, vars, Open, Close, Fail, Read, BeginReplace, FinishReplace,
       AppendReview, BeginDecision, Decide

\* A step records one review, at once unless the session is in such a
\* transaction, or leaves the history alone.
ReviewStep ==
    \/ UNCHANGED <<reviews, events>>
    \/ \E s \in Reviewers, scope \in TenantScopes, rule \in Rules :
          /\ events < MaxReviews /\ events' = events + 1 /\ UNCHANGED rows
          /\ IF s \in lasting
             THEN UNCHANGED reviews
             ELSE reviews' = reviews \cup {[event |-> events + 1, scope |-> scope, rule |-> rule]}

\* No action records reviews in another way.
LEMMA EveryReviewStep == [Next]_vars => ReviewStep
<1> SUFFICES ASSUME [Next]_vars PROVE ReviewStep
  OBVIOUS
<1>1. ASSUME NEW s \in Reviewers, NEW scope \in TenantScopes, NEW rule \in Rules,
             AppendReview(s, scope, rule)
      PROVE  ReviewStep
  <2>1. /\ events < MaxReviews /\ events' = events + 1
        /\ Finish(s, {}, {}, {[event |-> events + 1, scope |-> scope, rule |-> rule]},
                  NoWork.marks)
    BY <1>1 DEF AppendReview
  <2>2. rows' = rows
    BY <2>1 DEF Finish
  <2>3. IF s \in lasting
        THEN UNCHANGED reviews
        ELSE reviews' = reviews \cup {[event |-> events + 1, scope |-> scope, rule |-> rule]}
    BY <2>1 DEF Finish
  <2> QED BY <2>1, <2>2, <2>3 DEF ReviewStep
<1>2. ASSUME NEW s, FinishReplace(s) \/ Decide(s) PROVE UNCHANGED <<reviews, events>>
  <2>1. \E gone, put, marks : Finish(s, gone, put, {}, marks)
    BY <1>2 DEF FinishReplace, Decide
  <2> QED BY <1>2, <2>1 DEF Finish, FinishReplace, Decide
<1> QED
  BY <1>1, <1>2
  DEF ReviewStep, Next, vars, Open, Close, Fail, Read, BeginReplace, BeginDecision

LEMMA ReviewsNumberedKept == ReviewsNumbered /\ ReviewStep => ReviewsNumbered'
BY BoundsAssumption DEF ReviewsNumbered, ReviewStep

----------------------------------------------------------------------------
(* The promise of the port, with one learner *)

\* One session runs the learnings, and it reads nothing first.
OneLearner == (\A s, t \in Learners : s = t) /\ Learners \cap Readers = {}

\* Every rule of the scope is among those the DELETE has chosen, whatever has
\* been decided about it since.
ReplacingCovers ==
    \A s \in Sessions : call[s].phase = "replacing" =>
        /\ s \in Learners
        /\ \A q \in call[s].chosen : q.scope = call[s].scope
        /\ \A r \in rows : r.scope = call[s].scope => \E q \in call[s].chosen : SameRule(r, q)

\* Every rule with the identity to be decided is among those the SELECT has
\* chosen, or of a later learning run than all of them.
DecidingCovers ==
    \A s \in Sessions : call[s].phase = "deciding" /\ s \notin lasting =>
        /\ call[s].scope \in TenantScopes
        /\ \A q \in call[s].chosen : q.learn \in 1..learns
        /\ \A r \in rows : r.scope = call[s].scope /\ r.rule = call[s].rule =>
              \/ \E q \in call[s].chosen : SameRule(r, q)
              \/ \A q \in call[s].chosen : q.learn < r.learn

PInv == OneLearnPerScope /\ ReplacingCovers /\ DecidingCovers

\* A learning run that ends has chosen all rules of its scope, and what it
\* writes is the promised replacement.
LEMMA ReplaceAsPromised ==
    ASSUME OneLearner, IInv, LastingRead, PInv, NEW s \in Learners, FinishReplace(s)
    PROVE  /\ s \in Sessions /\ s \notin lasting
           /\ learns + 1 \in Learns /\ learns' = learns + 1
           /\ call[s].scope \in Scopes /\ call[s].drafts \in Learned
           /\ rows' = {r \in rows : r.scope # call[s].scope}
                        \cup Stamp(call[s].scope, learns + 1, call[s].drafts)
           /\ reviews' = reviews
<1>1. s \in Sessions /\ s \notin lasting
  BY DEF OneLearner, LastingRead, Sessions
<1>2. /\ call[s].phase = "replacing" /\ call[s].scope \in Scopes /\ call[s].drafts \in Learned
      /\ learns + 1 \in Learns /\ learns' = learns + 1
  BY <1>1, BoundsAssumption DEF FinishReplace, IInv, CallsInRange, Provenance, Learns
<1>3. View(s) = rows
  BY <1>1 DEF View, IInv, CallsCommit
<1>4. Current(s) = {r \in rows : r.scope = call[s].scope}
  BY <1>1, <1>2, <1>3 DEF Current, PInv, ReplacingCovers, SameRule
<1>5. /\ rows' = (rows \ Current(s)) \cup Stamp(call[s].scope, learns + 1, call[s].drafts)
      /\ reviews' = reviews
  BY <1>1 DEF FinishReplace, Finish
<1> QED BY <1>1, <1>2, <1>4, <1>5

\* A decision that is committed is about the only rule of its identity.
LEMMA DecideAsPromised ==
    ASSUME IInv, PInv, NEW s \in Deciders, Decide(s), s \notin lasting
    PROVE  /\ reviews' = reviews /\ learns' = learns
           /\ \E r \in rows : /\ r.scope # Unscoped /\ IsOnlyMatch(r, rows)
                              /\ Follows(r.status, call[s].target)
                              /\ call[s].target \in Statuses
                              /\ rows' = (rows \ {r}) \cup {[r EXCEPT !.status = call[s].target]}
<1>1. /\ s \in Sessions /\ call[s].phase = "deciding" /\ learns' = learns
      /\ call[s].target \in Statuses
      /\ \A q \in call[s].chosen : q.scope = call[s].scope /\ q.rule = call[s].rule
  BY DEF Decide, IInv, CallsInRange, Sessions
<1>2. PICK r \in Current(s) :
          /\ Current(s) = {r}
          /\ Follows(r.status, call[s].target)
          /\ Finish(s, {r}, {[r EXCEPT !.status = call[s].target]}, {}, NoWork.marks)
  BY DEF Decide
<1>3. /\ rows' = (rows \ {r}) \cup {[r EXCEPT !.status = call[s].target]}
      /\ reviews' = reviews
  BY <1>2 DEF Finish
<1>4. View(s) = rows
  BY <1>1 DEF View, IInv, CallsCommit
<1>5. PICK c \in call[s].chosen : r \in rows /\ SameRule(r, c)
  BY <1>4 DEF Current
<1>6. r.scope = call[s].scope /\ r.rule = call[s].rule /\ r.scope # Unscoped
  BY <1>1, <1>5 DEF SameRule, PInv, DecidingCovers, TenantScopes
<1>7. ASSUME NEW q \in rows, q.scope = r.scope, q.rule = r.rule PROVE q = r
  <2>1. q.learn = r.learn /\ r.learn = c.learn
    BY <1>5, <1>7 DEF PInv, OneLearnPerScope, SameRule
  <2>2. c.learn \in Nat
    BY <1>1, <1>5 DEF PInv, DecidingCovers
  <2>3. \E d \in call[s].chosen : SameRule(q, d)
    BY <1>1, <1>5, <1>6, <1>7, <2>1, <2>2 DEF PInv, DecidingCovers
  <2>4. q \in Current(s)
    BY <1>4, <2>3 DEF Current
  <2> QED BY <1>2, <2>4
<1> QED BY <1>1, <1>2, <1>3, <1>5, <1>6, <1>7 DEF IsOnlyMatch

\* What a step does to rules and reviews is a call of the promise, or nothing.
LEMMA StepKeepsPromise ==
    OneLearner /\ IInv /\ LastingRead /\ ReviewsNumbered /\ PInv /\ [Next]_vars
        => [Promise!Next]_(Promise!vars)
<1> SUFFICES ASSUME OneLearner, IInv, LastingRead, ReviewsNumbered, PInv, [Next]_vars
             PROVE  Promise!Next \/ UNCHANGED <<rows, reviews>>
  BY DEF Promise!vars
<1>1. ASSUME NEW s \in Learners, FinishReplace(s) PROVE Promise!Next
  <2>1. Promise!Replace(call[s].scope, learns + 1, call[s].drafts)
    <3>1. \A r \in rows : r.learn # learns + 1
      BY DEF IInv, Provenance
    <3> QED BY <1>1, <3>1, ReplaceAsPromised DEF Promise!Replace, Promise!Stamp, Stamp
  <2>2. /\ call[s].scope \in Scopes /\ call[s].drafts \in Learned
        /\ learns + 1 \in Promise!Learns
    BY <1>1, ReplaceAsPromised DEF Promise!Learns, Learns
  <2> QED BY <2>1, <2>2 DEF Promise!Next
<1>2. ASSUME NEW s \in Deciders, Decide(s)
      PROVE  Promise!Next \/ UNCHANGED <<rows, reviews>>
  <2>1. CASE s \in lasting
    <3>1. \E gone, put, told, marks : Finish(s, gone, put, told, marks)
      BY <1>2 DEF Decide
    <3> QED BY <2>1, <3>1 DEF Finish
  <2>2. CASE s \notin lasting
    <3>1. PICK r \in rows :
              /\ r.scope # Unscoped /\ IsOnlyMatch(r, rows)
              /\ Follows(r.status, call[s].target)
              /\ call[s].target \in Statuses
              /\ rows' = (rows \ {r}) \cup {[r EXCEPT !.status = call[s].target]}
      BY <1>2, <2>2, DecideAsPromised
    <3>2. reviews' = reviews
      BY <1>2, <2>2, DecideAsPromised
    <3>3. Promise!IsOnlyMatch(r, rows) /\ Promise!Follows(r.status, call[s].target)
      BY <3>1 DEF Promise!IsOnlyMatch, IsOnlyMatch, Promise!Follows, Follows
    <3>4. Promise!Transition(r, call[s].target)
      BY <3>1, <3>2, <3>3 DEF Promise!Transition
    <3>5. call[s].target \in Promise!Statuses
      BY <3>1 DEF Promise!Statuses, Statuses
    <3> QED BY <3>4, <3>5 DEF Promise!Next
  <2> QED BY <2>1, <2>2
<1>3. ASSUME ~ UNCHANGED <<reviews, events>> PROVE Promise!Next \/ UNCHANGED <<rows, reviews>>
  <2>1. PICK s \in Reviewers, scope \in TenantScopes, rule \in Rules :
            /\ events < MaxReviews /\ events' = events + 1 /\ UNCHANGED rows
            /\ IF s \in lasting
               THEN UNCHANGED reviews
               ELSE reviews' = reviews \cup {[event |-> events + 1, scope |-> scope, rule |-> rule]}
    BY <1>3, EveryReviewStep DEF ReviewStep
  <2> DEFINE review == [event |-> events + 1, scope |-> scope, rule |-> rule]
  <2>2. review \in Reviews
    BY <2>1, BoundsAssumption DEF Reviews, TenantScopes, ReviewsNumbered
  <2>3. \A e \in reviews : e.event # review.event
    BY DEF ReviewsNumbered
  <2>4. CASE s \notin lasting
    <3>1. Promise!AppendReview(review)
      BY <2>1, <2>3, <2>4 DEF Promise!AppendReview
    <3>2. review \in Promise!Reviews
      BY <2>2 DEF Promise!Reviews, Reviews
    <3> HIDE DEF review
    <3> QED BY <3>1, <3>2 DEF Promise!Next
  <2> QED BY <2>1, <2>4
<1>4. ASSUME NEW s \in Reviewers, NEW scope \in TenantScopes, NEW rule \in Rules,
             AppendReview(s, scope, rule), UNCHANGED events
      PROVE  FALSE
  BY <1>4 DEF AppendReview, ReviewsNumbered
<1>5. \/ \E s \in Learners : FinishReplace(s)
      \/ \E s \in Deciders : Decide(s)
      \/ ~ UNCHANGED <<reviews, events>>
      \/ UNCHANGED <<rows, reviews>>
  BY <1>4 DEF Next, vars, Open, Close, Fail, Read, BeginReplace, BeginDecision
<1> QED BY <1>1, <1>2, <1>3, <1>5

\* A step either leaves the rules, moves one of them, or replaces a scope's by
\* those of a new learning run.
PromisedRows ==
    \/ UNCHANGED <<rows, learns>>
    \/ /\ learns' = learns + 1
       /\ \E s \in Learners, drafts \in Learned :
             /\ call[s].phase = "replacing" /\ call'[s] = Ready /\ call[s].scope \in Scopes
             /\ learns + 1 \in Learns
             /\ rows' = {r \in rows : r.scope # call[s].scope}
                          \cup Stamp(call[s].scope, learns + 1, drafts)
    \/ /\ learns' = learns
       /\ \E r \in rows, target \in Statuses :
             rows' = (rows \ {r}) \cup {[r EXCEPT !.status = target]}

\* With one learner, a learning run that ends is a replacement of the whole scope.
LEMMA EveryPromisedStep ==
    OneLearner /\ IInv /\ LastingRead /\ PInv /\ [Next]_vars => PromisedRows
<1> SUFFICES ASSUME OneLearner, IInv, LastingRead, PInv, [Next]_vars PROVE PromisedRows
  OBVIOUS
<1>1. ASSUME NEW s \in Learners, FinishReplace(s) PROVE PromisedRows
  <2>1. call[s].phase = "replacing" /\ call'[s] = Ready
    BY <1>1 DEF FinishReplace, Enter, IInv, HeldIsFunction, Sessions
  <2> QED BY <1>1, <2>1, ReplaceAsPromised DEF PromisedRows
<1>2. ASSUME NEW s \in Deciders, Decide(s) PROVE PromisedRows
  <2>1. CASE s \in lasting
    <3>1. \E gone, put, told, marks : Finish(s, gone, put, told, marks)
      BY <1>2 DEF Decide
    <3> QED BY <1>2, <2>1, <3>1 DEF Finish, Decide, PromisedRows
  <2>2. CASE s \notin lasting
    BY <1>2, <2>2, DecideAsPromised DEF PromisedRows
  <2> QED BY <2>1, <2>2
<1>3. \/ \E s \in Learners : FinishReplace(s)
      \/ \E s \in Deciders : Decide(s)
      \/ UNCHANGED <<rows, learns>>
  <2>1. ASSUME NEW s \in Reviewers, NEW scope \in TenantScopes, NEW rule \in Rules,
               AppendReview(s, scope, rule)
        PROVE  UNCHANGED <<rows, learns>>
    BY <2>1 DEF AppendReview, Finish
  <2> QED BY <2>1 DEF Next, vars, Open, Close, Fail, Read, BeginReplace, BeginDecision
<1> QED BY <1>1, <1>2, <1>3 DEF PromisedRows

\* A rule that is there after a step was there before, but for its status, or
\* is of the learning run the step counts.
LEMMA RowsAfter ==
    ASSUME IInv, PromisedRows, NEW r \in rows'
    PROVE  /\ learns' \in {learns, learns + 1}
           /\ \/ \E q \in rows : SameRule(r, q)
              \/ learns' = learns + 1 /\ r.learn = learns + 1
<1>1. CASE UNCHANGED <<rows, learns>>
  BY <1>1 DEF SameRule
<1>2. ASSUME NEW s \in Learners, NEW drafts \in Learned, learns' = learns + 1,
             call[s].scope \in Scopes, learns + 1 \in Learns,
             rows' = {q \in rows : q.scope # call[s].scope}
                       \cup Stamp(call[s].scope, learns + 1, drafts)
      PROVE  (\E q \in rows : SameRule(r, q)) \/ r.learn = learns + 1
  BY <1>2, StampedRows DEF SameRule
<1>3. ASSUME NEW q \in rows, NEW target \in Statuses,
             rows' = (rows \ {q}) \cup {[q EXCEPT !.status = target]}
      PROVE  \E p \in rows : SameRule(r, p)
  <2>1. SameRule(q, [q EXCEPT !.status = target])
    BY MovedRow DEF IInv, Provenance
  <2> QED BY <1>3, <2>1 DEF SameRule
<1> QED BY <1>1, <1>2, <1>3 DEF PromisedRows

\* Rules of one scope stay rules of one learning run.
LEMMA OneLearnKept ==
    ASSUME IInv, OneLearnPerScope, PromisedRows
    PROVE  OneLearnPerScope'
<1>1. CASE UNCHANGED <<rows, learns>>
  BY <1>1 DEF OneLearnPerScope
<1>2. ASSUME NEW s \in Learners, NEW drafts \in Learned,
             call[s].scope \in Scopes, learns + 1 \in Learns,
             rows' = {q \in rows : q.scope # call[s].scope}
                       \cup Stamp(call[s].scope, learns + 1, drafts)
      PROVE  OneLearnPerScope'
  <2>1. \A r \in rows' :
            \/ r \in rows /\ r.scope # call[s].scope /\ r.learn # learns + 1
            \/ r.scope = call[s].scope /\ r.learn = learns + 1
    BY <1>2 DEF Stamp, IInv, Provenance
  <2> QED BY <2>1 DEF OneLearnPerScope
<1>3. ASSUME NEW q \in rows, NEW target \in Statuses,
             rows' = (rows \ {q}) \cup {[q EXCEPT !.status = target]}
      PROVE  OneLearnPerScope'
  <2>1. SameRule(q, [q EXCEPT !.status = target])
    BY MovedRow DEF IInv, Provenance
  <2>2. \A r \in rows' : \E p \in rows : r.scope = p.scope /\ r.learn = p.learn
    BY <1>3, <2>1 DEF SameRule
  <2> QED BY <2>2 DEF OneLearnPerScope
<1> QED BY <1>1, <1>2, <1>3 DEF PromisedRows

\* What a call has chosen stays chosen until the call ends.
LEMMA CallsKept ==
    ASSUME IInv, LastingRead, [Next]_vars, NEW s \in Sessions,
           call'[s].phase \in {"replacing", "deciding"}
    PROVE  \/ call'[s] = call[s] /\ (s \notin lasting' => s \notin lasting)
           \/ /\ UNCHANGED <<rows, learns>> /\ lasting' = lasting
              /\ \/ \E scope \in TenantScopes, drafts \in Learned :
                       /\ s \in Learners
                       /\ call'[s] = [phase |-> "replacing", scope |-> scope, drafts |-> drafts,
                                      chosen |-> {r \in View(s) : r.scope = scope}]
                 \/ \E scope \in TenantScopes, rule \in Rules, target \in Statuses :
                       call'[s] = [phase |-> "deciding", scope |-> scope, rule |-> rule,
                                   target |-> target,
                                   chosen |-> {r \in View(s) : r.scope = scope /\ r.rule = rule}]
<1> USE DEF IInv, HeldIsFunction, Enter, Ready, Closed
<1>1. ASSUME NEW t \in Sessions, Open(t) \/ Close(t) \/ Fail(t) \/ Read(t)
      PROVE  call'[s] = call[s] /\ (s \notin lasting' => s \notin lasting)
  BY <1>1 DEF Open, Close, Fail, Read
<1>2. ASSUME NEW t \in Sessions, FinishReplace(t) \/ Decide(t)
      PROVE  call'[s] = call[s] /\ (s \notin lasting' => s \notin lasting)
  BY <1>2 DEF FinishReplace, Decide
<1>3. ASSUME NEW t \in Reviewers, NEW scope \in TenantScopes, NEW rule \in Rules,
             AppendReview(t, scope, rule)
      PROVE  call'[s] = call[s] /\ (s \notin lasting' => s \notin lasting)
  BY <1>3 DEF AppendReview
<1>4. ASSUME NEW t \in Learners, NEW scope \in TenantScopes, NEW drafts \in Learned,
             BeginReplace(t, scope, drafts), t = s
      PROVE  /\ UNCHANGED <<rows, learns>> /\ lasting' = lasting
             /\ call'[s] = [phase |-> "replacing", scope |-> scope, drafts |-> drafts,
                            chosen |-> {r \in View(s) : r.scope = scope}]
  BY <1>4 DEF BeginReplace
<1>5. ASSUME NEW t \in Deciders, NEW scope \in TenantScopes, NEW rule \in Rules,
             NEW target \in Statuses, BeginDecision(t, scope, rule, target), t = s
      PROVE  /\ UNCHANGED <<rows, learns>> /\ lasting' = lasting
             /\ call'[s] = [phase |-> "deciding", scope |-> scope, rule |-> rule, target |-> target,
                            chosen |-> {r \in View(s) : r.scope = scope /\ r.rule = rule}]
  BY <1>5 DEF BeginDecision
<1>6. ASSUME NEW t, t # s,
             \/ \E scope, drafts : BeginReplace(t, scope, drafts)
             \/ \E scope, rule, target : BeginDecision(t, scope, rule, target)
      PROVE  call'[s] = call[s] /\ lasting' = lasting
  BY <1>6 DEF BeginReplace, BeginDecision
<1>7. CASE UNCHANGED vars
  BY <1>7 DEF vars
<1>8. CASE \E t \in Sessions : Open(t) \/ Close(t) \/ Fail(t)
  BY <1>1, <1>8
<1>9. CASE \E t \in Readers : Read(t)
  BY <1>1, <1>9 DEF Sessions
<1>10. CASE \E t \in Learners, scope \in TenantScopes, drafts \in Learned :
                BeginReplace(t, scope, drafts)
  <2>1. PICK t \in Learners, scope \in TenantScopes, drafts \in Learned :
            BeginReplace(t, scope, drafts)
    BY <1>10
  <2>2. CASE t = s
    BY <1>4, <2>1, <2>2
  <2>3. CASE t # s
    BY <1>6, <2>1, <2>3
  <2> QED BY <2>2, <2>3
<1>11. CASE \E t \in Deciders, scope \in TenantScopes, rule \in Rules, target \in Statuses :
                BeginDecision(t, scope, rule, target)
  <2>1. PICK t \in Deciders, scope \in TenantScopes, rule \in Rules, target \in Statuses :
            BeginDecision(t, scope, rule, target)
    BY <1>11
  <2>2. CASE t = s
    <3>1. /\ UNCHANGED <<rows, learns>> /\ lasting' = lasting
          /\ call'[s] = [phase |-> "deciding", scope |-> scope, rule |-> rule,
                         target |-> target,
                         chosen |-> {r \in View(s) : r.scope = scope /\ r.rule = rule}]
      BY <1>5, <2>1, <2>2
    <3> QED BY <3>1
  <2>3. CASE t # s
    BY <1>6, <2>1, <2>3
  <2> QED BY <2>2, <2>3
<1>12. CASE \/ \E t \in Learners : FinishReplace(t)
            \/ \E t \in Deciders : Decide(t)
  BY <1>2, <1>12 DEF Sessions
<1> QED BY <1>3, <1>7, <1>8, <1>9, <1>10, <1>11, <1>12 DEF Next

\* A DELETE that begins chooses all its session sees of the scope.
LEMMA ReplacingPhase ==
    ASSUME IInv, LastingRead, [Next]_vars, NEW s \in Sessions,
           call'[s].phase = "replacing", call'[s] # call[s]
    PROVE  \E scope \in TenantScopes, drafts \in Learned :
               /\ s \in Learners /\ UNCHANGED rows
               /\ call'[s] = [phase |-> "replacing", scope |-> scope, drafts |-> drafts,
                              chosen |-> {r \in View(s) : r.scope = scope}]
<1>1. call'[s].phase \in {"replacing", "deciding"}
  OBVIOUS
<1>2. ASSUME NEW scope, NEW rule, NEW target, NEW chosen,
             call'[s] = [phase |-> "deciding", scope |-> scope, rule |-> rule,
                         target |-> target, chosen |-> chosen]
      PROVE  FALSE
  BY <1>2
<1> QED BY <1>1, <1>2, CallsKept

\* A decision that begins chooses all its session sees of the identity.
LEMMA DecidingPhase ==
    ASSUME IInv, LastingRead, [Next]_vars, NEW s \in Sessions,
           call'[s].phase = "deciding", s \notin lasting',
           ~ (call'[s] = call[s] /\ s \notin lasting)
    PROVE  \E scope \in TenantScopes, rule \in Rules, target \in Statuses :
               /\ UNCHANGED <<rows, learns>> /\ lasting' = lasting
               /\ call'[s] = [phase |-> "deciding", scope |-> scope, rule |-> rule,
                              target |-> target,
                              chosen |-> {r \in View(s) : r.scope = scope /\ r.rule = rule}]
<1>1. call'[s].phase \in {"replacing", "deciding"}
  OBVIOUS
<1>2. ASSUME NEW scope, NEW drafts, NEW chosen,
             call'[s] = [phase |-> "replacing", scope |-> scope, drafts |-> drafts,
                         chosen |-> chosen]
      PROVE  FALSE
  BY <1>2
<1> QED BY <1>1, <1>2, CallsKept

\* Until the DELETE is done, decisions change but the status of what it has chosen.
LEMMA ReplacingKept ==
    ASSUME OneLearner, IInv, LastingRead, PInv, PromisedRows, [Next]_vars
    PROVE  ReplacingCovers'
<1> SUFFICES ASSUME NEW s \in Sessions, call'[s].phase = "replacing"
             PROVE  /\ s \in Learners
                    /\ \A q \in call'[s].chosen : q.scope = call'[s].scope
                    /\ \A r \in rows' : r.scope = call'[s].scope =>
                          \E q \in call'[s].chosen : SameRule(r, q)
  BY DEF ReplacingCovers
<1>1. CASE call'[s] = call[s]
  <2>1. /\ s \in Learners
        /\ \A q \in call[s].chosen : q.scope = call[s].scope
        /\ \A r \in rows : r.scope = call[s].scope => \E q \in call[s].chosen : SameRule(r, q)
    BY <1>1 DEF PInv, ReplacingCovers
  <2>2. ASSUME NEW r \in rows' PROVE \E q \in rows : SameRule(r, q)
    <3>1. ASSUME NEW t \in Learners, call'[t] = Ready PROVE FALSE
      BY <1>1, <2>1, <3>1 DEF OneLearner, Ready
    <3>2. CASE UNCHANGED <<rows, learns>>
      BY <3>2 DEF SameRule
    <3>3. ASSUME NEW q \in rows, NEW target \in Statuses,
                 rows' = (rows \ {q}) \cup {[q EXCEPT !.status = target]}
          PROVE  \E p \in rows : SameRule(r, p)
      <4>1. SameRule(q, [q EXCEPT !.status = target])
        BY MovedRow DEF IInv, Provenance
      <4> QED BY <3>3, <4>1 DEF SameRule
    <3> QED BY <3>1, <3>2, <3>3 DEF PromisedRows
  <2> QED BY <1>1, <2>1, <2>2 DEF SameRule
<1>2. CASE call'[s] # call[s]
  <2>1. PICK scope \in TenantScopes, drafts \in Learned :
            /\ s \in Learners /\ UNCHANGED rows
            /\ call'[s] = [phase |-> "replacing", scope |-> scope, drafts |-> drafts,
                           chosen |-> {r \in View(s) : r.scope = scope}]
    BY <1>2, ReplacingPhase
  <2>2. View(s) = rows
    BY <2>1 DEF View, OneLearner, LastingRead, IInv, CallsCommit
  <2> QED BY <2>1, <2>2 DEF SameRule
<1> QED BY <1>1, <1>2

\* Until a decision is made, only a later learning run adds rules of its identity.
LEMMA DecidingKept ==
    ASSUME IInv, LastingRead, PInv, PromisedRows, [Next]_vars
    PROVE  DecidingCovers'
<1> SUFFICES ASSUME NEW s \in Sessions, call'[s].phase = "deciding", s \notin lasting'
             PROVE  /\ call'[s].scope \in TenantScopes
                    /\ \A q \in call'[s].chosen : q.learn \in 1..learns'
                    /\ \A r \in rows' : r.scope = call'[s].scope /\ r.rule = call'[s].rule =>
                          \/ \E q \in call'[s].chosen : SameRule(r, q)
                          \/ \A q \in call'[s].chosen : q.learn < r.learn
  BY DEF DecidingCovers
<1>1. learns \in Nat /\ \A r \in rows : r.learn \in 1..learns
  BY DEF IInv, Provenance
<1>2. CASE call'[s] = call[s] /\ s \notin lasting
  <2>1. /\ call[s].scope \in TenantScopes
        /\ \A q \in call[s].chosen : q.learn \in 1..learns
        /\ \A r \in rows : r.scope = call[s].scope /\ r.rule = call[s].rule =>
              \/ \E q \in call[s].chosen : SameRule(r, q)
              \/ \A q \in call[s].chosen : q.learn < r.learn
    BY <1>2 DEF PInv, DecidingCovers
  <2>2. learns' \in {learns, learns + 1}
    BY DEF PromisedRows
  <2>3. \A q \in call'[s].chosen : q.learn \in 1..learns'
    BY <1>1, <1>2, <2>1, <2>2
  <2>4. ASSUME NEW r \in rows', r.scope = call[s].scope, r.rule = call[s].rule
        PROVE  \/ \E q \in call[s].chosen : SameRule(r, q)
               \/ \A q \in call[s].chosen : q.learn < r.learn
    <3>1. CASE \E q \in rows : SameRule(r, q)
      BY <2>1, <2>4, <3>1 DEF SameRule
    <3>2. CASE r.learn = learns + 1
      BY <1>1, <2>1, <3>2
    <3> QED BY <3>1, <3>2, RowsAfter
  <2> QED BY <1>2, <2>1, <2>3, <2>4
<1>3. CASE ~ (call'[s] = call[s] /\ s \notin lasting)
  <2>1. PICK scope \in TenantScopes, rule \in Rules, target \in Statuses :
            /\ UNCHANGED <<rows, learns>> /\ lasting' = lasting
            /\ call'[s] = [phase |-> "deciding", scope |-> scope, rule |-> rule,
                           target |-> target,
                           chosen |-> {r \in View(s) : r.scope = scope /\ r.rule = rule}]
    BY <1>3, DecidingPhase
  <2>2. View(s) = rows
    BY <2>1 DEF View, IInv, CallsCommit
  <2> QED BY <1>1, <2>1, <2>2 DEF SameRule
<1> QED BY <1>2, <1>3

\* As long as one session learns, and does so in transactions of its own, rules
\* and reviews change as the port promises, however deciding and reading sessions
\* interleave with it and with each other.
THEOREM ImplementsPromise == OneLearner => (Spec => KeepsPromise)
<1>1. Init => LastingRead /\ ReviewsNumbered /\ PInv
  BY DEF Init, LastingRead, ReviewsNumbered, PInv, OneLearnPerScope, ReplacingCovers,
         DecidingCovers, Closed
<1>2. OneLearner /\ IInv /\ LastingRead /\ ReviewsNumbered /\ PInv /\ [Next]_vars
        => (LastingRead /\ ReviewsNumbered /\ PInv)'
  <2>1. OneLearner /\ IInv /\ LastingRead /\ PInv /\ [Next]_vars => PInv'
    BY EveryPromisedStep, OneLearnKept, ReplacingKept, DecidingKept DEF PInv
  <2> QED BY <2>1, LastingReadKept, EveryReviewStep, ReviewsNumberedKept
<1>3. Init => Promise!Init
  BY DEF Init, Promise!Init
<1>4. OneLearner => []OneLearner
  <2>1. OneLearner => OneLearner'
    BY DEF OneLearner
  <2> QED BY <2>1, PTL
<1> QED
  BY <1>1, <1>2, <1>3, <1>4, StepKeepsPromise, Invariance, PTL
  DEF Spec, KeepsPromise, Promise!Spec

============================================================================
