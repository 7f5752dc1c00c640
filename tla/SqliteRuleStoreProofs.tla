----------------------- MODULE SqliteRuleStoreProofs -----------------------
(***************************************************************************)
(* What concurrent connections cannot break in the SQLite adapter, what a  *)
(* call finds of what it read, and that calls which do not overlap keep    *)
(* the port's promise.                                                     *)
(***************************************************************************)
EXTENDS SqliteRuleStore, FiniteSetTheorems, WellFoundedInduction, TLAPS

\* A row is what its columns are.
WellFormed(e) ==
    e = [id |-> e.id,
         rule |-> [scope |-> e.rule.scope, learn |-> e.rule.learn, rule |-> e.rule.rule,
                   variant |-> e.rule.variant, status |-> e.rule.status]]

\* The columns of stored rules that only a learning run writes.  Learning
\* runs are numbered in order, so a new number is in no stored row.
Provenance ==
    /\ learns \in Nat
    /\ unpaired \in BOOLEAN
    /\ \A e \in table : WellFormed(e) /\ e.rule.learn \in 1..learns

IInv == Provenance /\ OneLearnPerScope /\ FingerprintCoversRules

LEMMA InitUnpaired == Init => unpaired \in BOOLEAN
BY Zenon DEF Init

LEMMA InitInv == Init => IInv
<1> SUFFICES ASSUME Init PROVE IInv
  OBVIOUS
<1>1. table = {} /\ learns = 0
  BY DEF Init
<1> QED
  BY <1>1, InitUnpaired DEF IInv, Provenance, OneLearnPerScope, FingerprintCoversRules

\* Every row an insertion adds is a stamped draft, whatever its id.
LEMMA InsertedRows ==
    ASSUME NEW scope, NEW learn, NEW drafts, NEW kept,
           NEW new \in Inserted(scope, learn, drafts, kept),
           NEW e \in new
    PROVE  WellFormed(e) /\ e.rule.scope = scope /\ e.rule.learn = learn
<1> DEFINE stamped == Stamp(scope, learn, drafts)
<1>1. PICK number : new = {[id |-> number[r], rule |-> r] : r \in stamped}
  BY DEF Inserted
<1>2. PICK r \in stamped : e = [id |-> number[r], rule |-> r]
  BY <1>1
<1>3. PICK d \in drafts : r = [scope |-> scope, learn |-> learn, rule |-> d.rule,
                              variant |-> d.variant, status |-> d.status]
  BY DEF Stamp
<1> QED BY <1>2, <1>3 DEF WellFormed

\* A replacement leaves the rows of other scopes and rows of its own run.
LEMMA ReplaceKeepsInv ==
    ASSUME IInv, NEW c \in Learners, NEW scope \in Scopes, NEW named \in BOOLEAN,
           Replace(c, scope, named)
    PROVE  IInv'
<1> DEFINE kept == {e \in table : e.rule.scope # scope}
<1>1. PICK drafts \in Learned : \E new \in Inserted(scope, learns + 1, drafts, kept) :
                                    table' = kept \cup new
  BY DEF Replace
<1>2. PICK new \in Inserted(scope, learns + 1, drafts, kept) : table' = kept \cup new
  BY <1>1
<1>3. \A e \in table' : \/ e \in table /\ e.rule.scope # scope
                        \/ e.rule.scope = scope /\ e.rule.learn = learns + 1
  BY <1>2, InsertedRows
<1>3a. \A e \in table' : WellFormed(e)
  BY <1>2, InsertedRows DEF IInv, Provenance
<1>4. /\ learns' = learns + 1
      /\ learns \in Nat
      /\ fingerprint' = IF named THEN RepositoryOf[learns + 1] ELSE fingerprint
      /\ unpaired' = Unpairs(scope, named)
  BY DEF Replace, IInv, Provenance
<1>5. \A e \in table : e.rule.learn \in 1..learns /\ e.rule.learn # learns + 1
  BY <1>4 DEF IInv, Provenance
<1>6. Provenance'
  <2>1. unpaired' \in BOOLEAN
    BY <1>4 DEF Unpairs
  <2> QED BY <1>3, <1>4, <1>5, <1>3a, <2>1 DEF Provenance
<1>7. OneLearnPerScope'
  BY <1>3, <1>5 DEF IInv, OneLearnPerScope
<1>8. FingerprintCoversRules'
  <2>1. CASE named /\ scope = Unscoped
    BY <1>3, <1>4, <2>1 DEF FingerprintCoversRules
  <2>2. CASE ~ named /\ scope # Unscoped
    <3>1. fingerprint' = fingerprint /\ (unpaired' = unpaired)
      BY <1>4, <2>2 DEF Unpairs, IInv, Provenance
    <3>2. \A e \in table' : e.rule.scope = Unscoped => e \in table
      BY <1>3, <2>2
    <3> QED BY <3>1, <3>2 DEF IInv, FingerprintCoversRules
  <2>3. CASE ~ (named <=> scope = Unscoped)
    BY <1>4, <2>3 DEF Unpairs, FingerprintCoversRules
  <2> QED BY <2>1, <2>2, <2>3
<1> QED BY <1>6, <1>7, <1>8 DEF IInv

\* Setting the status of a row leaves its other columns.
LEMMA StatusColumn ==
    ASSUME NEW f, WellFormed(f), NEW status, NEW e, e = [f EXCEPT !.rule.status = status]
    PROVE  WellFormed(e) /\ e.rule.scope = f.rule.scope /\ e.rule.learn = f.rule.learn
<1>1. e = [id |-> f.id,
           rule |-> [scope |-> f.rule.scope, learn |-> f.rule.learn, rule |-> f.rule.rule,
                     variant |-> f.rule.variant, status |-> status]]
  BY DEF WellFormed
<1> QED BY <1>1 DEF WellFormed

\* An UPDATE changes no column but the status, in whatever row it hits.
LEMMA UpdateKeepsInv ==
    ASSUME IInv, NEW c \in Deciders, Update(c)
    PROVE  IInv'
<1>1. \A e \in table' : \E f \in table :
          WellFormed(e) /\ e.rule.scope = f.rule.scope /\ e.rule.learn = f.rule.learn
  <2> SUFFICES ASSUME NEW e \in table'
               PROVE  \E f \in table : /\ WellFormed(e)
                                       /\ e.rule.scope = f.rule.scope
                                       /\ e.rule.learn = f.rule.learn
    OBVIOUS
  <2>1. PICK f \in table : \/ e = f
                           \/ e = [f EXCEPT !.rule.status = call[c].target]
    BY DEF Update
  <2>2. WellFormed(f)
    BY DEF IInv, Provenance
  <2> QED BY <2>1, <2>2, StatusColumn
<1>2. learns' = learns /\ fingerprint' = fingerprint /\ unpaired' = unpaired
  BY DEF Update
<1> QED BY <1>1, <1>2 DEF IInv, Provenance, OneLearnPerScope, FingerprintCoversRules

LEMMA NextKeepsInv == IInv /\ [Next]_vars => IInv'
<1> SUFFICES ASSUME IInv, [Next]_vars PROVE IInv'
  OBVIOUS
<1>1. CASE \E c \in Learners, scope \in Scopes, named \in BOOLEAN : Replace(c, scope, named)
  BY <1>1, ReplaceKeepsInv
<1>2. CASE \E c \in Deciders : Update(c)
  BY <1>2, UpdateKeepsInv
<1>3. CASE UNCHANGED <<table, fingerprint, unpaired, learns>>
  BY <1>3 DEF IInv, Provenance, OneLearnPerScope, FingerprintCoversRules
<1>4. \/ \E c \in Learners, scope \in Scopes, named \in BOOLEAN : Replace(c, scope, named)
      \/ \E c \in Deciders : Update(c)
      \/ UNCHANGED <<table, fingerprint, unpaired, learns>>
  BY DEF Next, vars, AppendReview, Select, Abandon, CheckFingerprint,
         ReadServiceRules, ReadDependencyRules, FinishRun
<1> QED BY <1>1, <1>2, <1>3, <1>4

LEMMA Invariance == Spec => []IInv
BY InitInv, NextKeepsInv, PTL DEF Spec

\* However connections interleave and ids return, a scope shows the rules of
\* one learning run (replace_rules is one transaction).
THEOREM ReplacementHolds == Spec => []OneLearnPerScope
<1>1. IInv => OneLearnPerScope
  BY DEF IInv
<1> QED BY <1>1, Invariance, PTL

\* From one local learning run until a replacement that unpairs them, the
\* fingerprint names the repository of the unscoped rules.
THEOREM FingerprintHolds == Spec => []FingerprintCoversRules
<1>1. IInv => FingerprintCoversRules
  BY DEF IInv
<1> QED BY <1>1, Invariance, PTL

----------------------------------------------------------------------------
(* The types, which need that ids are bounded: then there is a highest. *)

IdsBounded == \E b \in Nat : \A e \in table : e.id <= b

\* A set of natural numbers that is not empty has a least element.
LEMMA LeastNatural ==
    ASSUME NEW T \in SUBSET Nat, T # {}
    PROVE  \E m \in T : \A k \in T : m <= k
<1> DEFINE less == {ss \in Nat \X Nat : ss[1] < ss[2]}
<1>1. IsWellFoundedOn(less, Nat)
  BY NatLessThanWellFounded DEF OpToRel
<1> HIDE DEF less
<1>2. PICK m \in T : \A k \in T : ~ (<<k, m>> \in less)
  BY <1>1, WFMin
<1>3. ASSUME NEW k \in T PROVE m <= k
  <2>1. ~ (<<k, m>>[1] < <<k, m>>[2])
    BY <1>2, <1>3 DEF less
  <2> QED BY <2>1
<1> QED BY <1>3

\* TopId is the highest id when ids are bounded.
LEMMA TopIdIsHighest ==
    ASSUME NEW entries, entries \subseteq Entries, NEW b \in Nat, \A e \in entries : e.id <= b
    PROVE  /\ TopId(entries) \in Nat
           /\ \A e \in entries : e.id <= TopId(entries)
<1> DEFINE ids == {e.id : e \in entries} \cup {0}
           bounds == {n \in Nat : \A i \in ids : i <= n}
<1>1. ids \subseteq Nat /\ 0 \in ids
  BY DEF Entries
<1>2. b \in bounds
  OBVIOUS
<1> HIDE DEF ids
<1>3. PICK m \in bounds : \A n \in bounds : m <= n
  BY <1>2, LeastNatural
<1>4. m \in ids
  <2>1. CASE m = 0
    BY <1>1, <2>1
  <2>2. CASE m # 0
    <3>1. m - 1 \in Nat /\ m - 1 \notin bounds
      BY <1>3, <2>2
    <3>2. PICK i \in ids : ~ (i <= m - 1)
      BY <3>1
    <3>3. i \in Nat /\ m \in Nat /\ i <= m
      BY <1>1, <3>2
    <3>4. i = m
      BY <3>2, <3>3
    <3> QED BY <3>4
  <2> QED BY <2>1, <2>2
<1>5. \E x \in ids : \A y \in ids : x >= y
  BY <1>1, <1>3, <1>4
<1>6. Max(ids) \in ids /\ \A y \in ids : Max(ids) >= y
  BY <1>5 DEF Max
<1>7. TopId(entries) = Max(ids)
  BY DEF TopId, ids
<1> QED BY <1>1, <1>6, <1>7 DEF ids

\* A learning run's rows are finitely many, and of the type of rows.
LEMMA StampedRows ==
    ASSUME NEW scope \in Scopes, NEW learn \in Learns, NEW drafts \in Learned
    PROVE  /\ Stamp(scope, learn, drafts) \subseteq Rows
           /\ IsFiniteSet(Stamp(scope, learn, drafts))
<1> DEFINE row(d) == [scope |-> scope, learn |-> learn, rule |-> d.rule,
                      variant |-> d.variant, status |-> d.status]
           rowOf == [d \in drafts |-> row(d)]
<1>1. drafts \subseteq Drafts /\ IsFiniteSet(drafts)
  BY LearnedAssumption
<1>2. Stamp(scope, learn, drafts) \subseteq Rows
  BY <1>1 DEF Stamp, Rows, Drafts, Statuses
<1>3. rowOf \in Surjection(drafts, Stamp(scope, learn, drafts))
  BY DEF Surjection, Stamp
<1> QED BY <1>1, <1>2, <1>3, FS_Surjection

\* An insertion gives its rows the ids that follow the highest one left.
LEMMA InsertedEntries ==
    ASSUME NEW scope \in Scopes, NEW learn \in Learns, NEW drafts \in Learned,
           NEW kept, kept \subseteq table, TypeOK, IdsBounded,
           NEW new \in Inserted(scope, learn, drafts, kept)
    PROVE  /\ new \subseteq Entries
           /\ \E b \in Nat : \A e \in kept \cup new : e.id <= b
<1> DEFINE stamped == Stamp(scope, learn, drafts)
           top == TopId(kept)
           ids == (top + 1)..(top + Cardinality(stamped))
<1>1. kept \subseteq Entries /\ \E b \in Nat : \A e \in kept : e.id <= b
  BY DEF TypeOK, IdsBounded
<1>2. top \in Nat /\ \A e \in kept : e.id <= top
  BY <1>1, TopIdIsHighest
<1>3. stamped \subseteq Rows /\ Cardinality(stamped) \in Nat
  BY StampedRows, FS_CardinalityType
<1>4. PICK number \in Bijection(stamped, ids) :
          new = {[id |-> number[r], rule |-> r] : r \in stamped}
  BY DEF Inserted
<1>5. \A r \in stamped : number[r] \in ids
  BY <1>4 DEF Bijection, Injection
<1> HIDE DEF stamped, top
<1>6. ids \subseteq Nat \ {0}
  BY <1>2, <1>3
<1>7. new \subseteq Entries
  BY <1>3, <1>4, <1>5, <1>6 DEF Entries
<1>8. \A e \in kept \cup new : e.id <= top + Cardinality(stamped)
  <2>1. \A e \in new : e.id \in ids
    BY <1>4, <1>5
  <2> QED BY <1>1, <1>2, <1>3, <2>1 DEF Entries
<1> QED BY <1>2, <1>3, <1>7, <1>8

LEMMA TypeReplace ==
    ASSUME TypeOK, IdsBounded, NEW c \in Learners, NEW scope \in Scopes, NEW named \in BOOLEAN,
           Replace(c, scope, named)
    PROVE  TypeOK' /\ IdsBounded'
<1> DEFINE kept == {e \in table : e.rule.scope # scope}
<1>1. learns + 1 \in Learns /\ learns' = learns + 1
  BY BoundsAssumption DEF Replace, TypeOK, Learns
<1>2. PICK drafts \in Learned : \E new \in Inserted(scope, learns + 1, drafts, kept) :
                                    table' = kept \cup new
  BY DEF Replace
<1>3. PICK new \in Inserted(scope, learns + 1, drafts, kept) : table' = kept \cup new
  BY <1>2
<1>4. /\ new \subseteq Entries
      /\ \E b \in Nat : \A e \in kept \cup new : e.id <= b
  BY <1>1, InsertedEntries
<1>5. table' \subseteq Entries /\ IdsBounded'
  BY <1>3, <1>4 DEF TypeOK, IdsBounded
<1>6. fingerprint' \in Repositories \cup {NoRepository}
  BY <1>1, RepositoryAssumption DEF Replace, TypeOK
<1>7. unpaired' \in BOOLEAN
  BY DEF Replace, TypeOK, Unpairs
<1> QED BY <1>1, <1>5, <1>6, <1>7, BoundsAssumption DEF Replace, TypeOK, Learns

LEMMA TypeUpdate ==
    ASSUME TypeOK, IdsBounded, NEW c \in Deciders, Update(c)
    PROVE  TypeOK' /\ IdsBounded'
<1>1. /\ c \in Connections
      /\ call[c] \in [phase: {"selected"}, entry: Entries, target: Statuses, since: 0..MaxLearns]
  BY DEF Update, TypeOK, Calls, Connections, Ready
<1>2. \A e \in table : /\ [e EXCEPT !.rule.status = call[c].target] \in Entries
                       /\ [e EXCEPT !.rule.status = call[c].target].id = e.id
  BY <1>1 DEF TypeOK, Entries, Rows
<1>3. \A e \in table' : e \in Entries /\ \E f \in table : e.id = f.id
  BY <1>2 DEF Update, TypeOK
<1>4. table' \subseteq Entries /\ IdsBounded'
  BY <1>3 DEF IdsBounded
<1> QED BY <1>1, <1>4 DEF Update, TypeOK, Calls

LEMMA TypeNext == TypeOK /\ IdsBounded /\ [Next]_vars => (TypeOK /\ IdsBounded)'
<1> SUFFICES ASSUME TypeOK, IdsBounded, [Next]_vars PROVE (TypeOK /\ IdsBounded)'
  OBVIOUS
<1>1. ASSUME NEW c \in Learners, NEW scope \in Scopes, NEW named \in BOOLEAN,
             Replace(c, scope, named)
      PROVE  (TypeOK /\ IdsBounded)'
  BY <1>1, TypeReplace
<1>2. ASSUME NEW c \in Deciders, NEW scope \in Scopes \ {Unscoped}, NEW rule \in Rules,
             AppendReview(c, scope, rule)
      PROVE  (TypeOK /\ IdsBounded)'
  BY <1>2, BoundsAssumption DEF AppendReview, TypeOK, IdsBounded, Reviews
<1>3. ASSUME NEW c \in Deciders, NEW entry \in table, NEW target \in Statuses,
             Select(c, entry, target)
      PROVE  (TypeOK /\ IdsBounded)'
  BY <1>3 DEF Select, TypeOK, IdsBounded, Calls, Connections
<1>4. ASSUME NEW c \in Deciders, Update(c) PROVE (TypeOK /\ IdsBounded)'
  BY <1>4, TypeUpdate
<1>5. ASSUME NEW c \in Connections, Abandon(c) \/ FinishRun(c)
      PROVE  (TypeOK /\ IdsBounded)'
  BY <1>5 DEF Abandon, FinishRun, TypeOK, IdsBounded, Calls
<1>6. ASSUME NEW c \in Readers, NEW repository \in Repositories, CheckFingerprint(c, repository)
      PROVE  (TypeOK /\ IdsBounded)'
  BY <1>6 DEF CheckFingerprint, TypeOK, IdsBounded, Calls, Connections
<1>7. ASSUME NEW c \in Readers, ReadServiceRules(c) \/ ReadDependencyRules(c)
      PROVE  (TypeOK /\ IdsBounded)'
  <2>1. c \in Connections /\ call[c] \in Calls
    BY DEF TypeOK, Connections
  <2>2. \A rules : ActiveUnscoped(rules) \subseteq Rows
    BY DEF ActiveUnscoped, StoredRules, TypeOK, Entries
  <2>3. CASE ReadServiceRules(c)
    <3>1. /\ call[c].repository \in Repositories /\ call[c].since \in 0..MaxLearns
          /\ call[c].unpaired \in BOOLEAN
      BY <2>1, <2>3 DEF ReadServiceRules, Calls, Ready
    <3> QED BY <2>1, <2>2, <2>3, <3>1 DEF ReadServiceRules, TypeOK, IdsBounded, Calls
  <2>4. CASE ReadDependencyRules(c)
    <3>1. /\ call[c].repository \in Repositories /\ call[c].since \in 0..MaxLearns
          /\ call[c].unpaired \in BOOLEAN /\ call[c].rules \subseteq Rows
      BY <2>1, <2>4 DEF ReadDependencyRules, Calls, Ready
    <3>2. call[c].rules \cup ActiveUnscoped(DependencyRules) \in SUBSET Rows
      BY <2>2, <3>1
    <3> QED BY <2>1, <2>4, <3>1, <3>2 DEF ReadDependencyRules, TypeOK, IdsBounded, Calls
  <2> QED BY <1>7, <2>3, <2>4
<1>8. CASE UNCHANGED vars
  BY <1>8 DEF vars, TypeOK, IdsBounded
<1> QED
  BY <1>1, <1>2, <1>3, <1>4, <1>5, <1>6, <1>7, <1>8 DEF Next, Connections

LEMMA InitType == Init => TypeOK /\ IdsBounded
<1> SUFFICES ASSUME Init PROVE TypeOK /\ IdsBounded
  OBVIOUS
<1>1. /\ table = {} /\ fingerprint = NoRepository /\ reviews = {}
      /\ learns = 0 /\ events = 0
      /\ call = [c \in Connections |-> Ready]
  BY DEF Init
<1> QED BY <1>1, InitUnpaired, BoundsAssumption DEF TypeOK, IdsBounded, Calls

\* Every connection keeps the types, and every row gets an id of its own kind:
\* one above the highest, of which there always is one.
THEOREM TypeCorrect == Spec => []TypeOK
BY InitType, TypeNext, PTL DEF Spec

----------------------------------------------------------------------------
(* Any number of connections: what a call has read and what is there when it *)
(* goes on.                                                                  *)

\* Rows have ids of their own, and a learning run makes one row of each rule.
RowsApart ==
    \A e, f \in table : e.id = f.id \/ SameRule(e.rule, f.rule) => e = f

\* The row that now has the id a decision has read is of the same rule, or
\* was learned since.
SelectedOrNewer ==
    \A c \in Connections : call[c].phase = "selected" =>
        /\ call[c].since \in 0..learns
        /\ \A e \in table : e.id = call[c].entry.id =>
               SameRule(e.rule, call[c].entry.rule) \/ e.rule.learn > call[c].since

\* A rule that a call which compared the fingerprint may be given.
Fits(c, r) == RepositoryOf[r.learn] = call[c].repository \/ r.learn > call[c].since

\* What a retrieval has read and has still to read fits.
RetrievalFits ==
    \A c \in Connections :
        /\ call[c].phase \in {"checked", "half", "retrieved"} =>
              /\ call[c].since \in 0..learns
              /\ ~ call[c].unpaired =>
                    \A e \in table : e.rule.scope = Unscoped => Fits(c, e.rule)
        /\ call[c].phase \in {"half", "retrieved"} /\ ~ call[c].unpaired =>
              \A r \in call[c].rules : Fits(c, r)

CInv == RowsApart /\ SelectedOrNewer /\ RetrievalFits

\* Inserted rows have ids above those that are left, and are one per rule.
LEMMA InsertedApart ==
    ASSUME NEW scope \in Scopes, NEW learn \in Learns, NEW drafts \in Learned,
           NEW kept, kept \subseteq table, TypeOK, IdsBounded,
           NEW new \in Inserted(scope, learn, drafts, kept)
    PROVE  /\ \A e \in new, f \in kept : e.id # f.id
           /\ \A e, f \in new : e.id = f.id \/ SameRule(e.rule, f.rule) => e = f
           /\ {e.rule : e \in new} = Stamp(scope, learn, drafts)
<1> DEFINE stamped == Stamp(scope, learn, drafts)
           top == TopId(kept)
           ids == (top + 1)..(top + Cardinality(stamped))
<1>1. top \in Nat /\ \A e \in kept : e.id \in Nat /\ e.id <= top
  <2>1. kept \subseteq Entries /\ \E b \in Nat : \A e \in kept : e.id <= b
    BY DEF TypeOK, IdsBounded
  <2> QED BY <2>1, TopIdIsHighest DEF Entries
<1>2. Cardinality(stamped) \in Nat
  BY StampedRows, FS_CardinalityType
<1>3. PICK number \in Bijection(stamped, ids) :
          new = {[id |-> number[r], rule |-> r] : r \in stamped}
  BY DEF Inserted
<1>4. /\ \A r \in stamped : number[r] \in ids
      /\ \A r, q \in stamped : number[r] = number[q] => r = q
  BY <1>3 DEF Bijection, Injection, IsInjective
<1>5. \A r, q \in stamped : SameRule(r, q) => r = q
  <2>1. \A d, e \in drafts : d.rule = e.rule /\ d.variant = e.variant => d = e
    BY LearnedAssumption
  <2> QED BY <2>1 DEF Stamp, SameRule
<1> HIDE DEF stamped, top
<1>6. \A e \in new, f \in kept : e.id # f.id
  <2>1. \A e \in new : e.id \in ids
    BY <1>3, <1>4
  <2> QED BY <1>1, <1>2, <2>1
<1>7. \A e, f \in new : e.id = f.id \/ SameRule(e.rule, f.rule) => e = f
  BY <1>3, <1>4, <1>5
<1>8. {e.rule : e \in new} = stamped
  <2>1. \A r \in stamped : [id |-> number[r], rule |-> r].rule = r
    OBVIOUS
  <2>2. \A r \in stamped : \E e \in new : e.rule = r
    BY <1>3, <2>1
  <2>3. \A e \in new : e.rule \in stamped
    BY <1>3, <2>1
  <2> QED BY <2>2, <2>3
<1> QED BY <1>6, <1>7, <1>8 DEF stamped

\* A replacement is the promised one.
LEMMA ReplaceAsPromised ==
    ASSUME TypeOK, IdsBounded, IInv, RowsApart, NEW c \in Learners, NEW scope \in Scopes,
           NEW named \in BOOLEAN, Replace(c, scope, named)
    PROVE  /\ RowsApart'
           /\ learns + 1 \in Learns
           /\ \A r \in StoredRules : r.learn # learns + 1
           /\ \E drafts \in Learned :
                 StoredRules' = {r \in StoredRules : r.scope # scope}
                                  \cup Stamp(scope, learns + 1, drafts)
<1> DEFINE kept == {e \in table : e.rule.scope # scope}
<1>1. learns + 1 \in Learns
  BY BoundsAssumption DEF Replace, TypeOK, Learns
<1>2. PICK drafts \in Learned : \E new \in Inserted(scope, learns + 1, drafts, kept) :
                                    table' = kept \cup new
  BY DEF Replace
<1>3. PICK new \in Inserted(scope, learns + 1, drafts, kept) : table' = kept \cup new
  BY <1>2
<1>4. /\ \A e \in new, f \in kept : e.id # f.id
      /\ \A e, f \in new : e.id = f.id \/ SameRule(e.rule, f.rule) => e = f
      /\ {e.rule : e \in new} = Stamp(scope, learns + 1, drafts)
  BY <1>1, InsertedApart
<1>5. \A e \in new, f \in kept : e.rule.scope # f.rule.scope
  BY InsertedRows
<1>6. RowsApart'
  BY <1>3, <1>4, <1>5 DEF RowsApart, SameRule
<1>7. \A r \in StoredRules : r.learn # learns + 1
  BY DEF StoredRules, IInv, Provenance
<1>8. {e.rule : e \in kept} = {r \in StoredRules : r.scope # scope}
  BY DEF StoredRules
<1>9. StoredRules' = {e.rule : e \in kept} \cup {e.rule : e \in new}
  BY <1>3 DEF StoredRules
<1> QED BY <1>1, <1>4, <1>6, <1>7, <1>8, <1>9

\* An UPDATE leaves the ids and the rules of the rows as they are.
LEMMA UpdatedRows ==
    ASSUME TypeOK, IInv, NEW c \in Deciders, Update(c), NEW e \in table'
    PROVE  \E f \in table : /\ e.id = f.id /\ SameRule(e.rule, f.rule)
                            /\ \/ e = f
                               \/ /\ f.id = call[c].entry.id
                                  /\ e = [f EXCEPT !.rule.status = call[c].target]
<1>1. PICK f \in table : \/ e = f
                         \/ /\ f.id = call[c].entry.id
                            /\ e = [f EXCEPT !.rule.status = call[c].target]
  BY DEF Update
<1>2. f \in Entries
  BY DEF TypeOK
<1>3. e.id = f.id /\ SameRule(e.rule, f.rule)
  BY <1>1, <1>2 DEF Entries, Rows, SameRule
<1> QED BY <1>1, <1>3

LEMMA UpdateKeepsRowsApart ==
    ASSUME TypeOK, IInv, RowsApart, NEW c \in Deciders, Update(c)
    PROVE  RowsApart'
<1> DEFINE moved(f) == IF f.id = call[c].entry.id
                       THEN [f EXCEPT !.rule.status = call[c].target] ELSE f
<1>1. table' = {moved(f) : f \in table}
  BY DEF Update
<1>2. \A f \in table : moved(f).id = f.id /\ SameRule(moved(f).rule, f.rule)
  BY DEF TypeOK, Entries, Rows, SameRule
<1> HIDE DEF moved
<1> SUFFICES ASSUME NEW e \in table', NEW d \in table',
                    e.id = d.id \/ SameRule(e.rule, d.rule)
             PROVE  e = d
  BY DEF RowsApart
<1>3. PICK f \in table : e = moved(f)
  BY <1>1
<1>4. PICK g \in table : d = moved(g)
  BY <1>1
<1>5. f.id = g.id \/ SameRule(f.rule, g.rule)
  BY <1>2, <1>3, <1>4 DEF SameRule
<1>6. f = g
  BY <1>5 DEF RowsApart
<1> QED BY <1>3, <1>4, <1>6

\* A replacement leaves rows that were there and rows newer than any reading.
LEMMA ReplaceKeepsCInv ==
    ASSUME TypeOK, IdsBounded, IInv, CInv, NEW c \in Learners, NEW scope \in Scopes,
           NEW named \in BOOLEAN, Replace(c, scope, named)
    PROVE  CInv'
<1> DEFINE kept == {e \in table : e.rule.scope # scope}
<1>1. RowsApart'
  BY ReplaceAsPromised DEF CInv
<1>2. \A e \in table' : e \in table \/ e.rule.learn = learns + 1
  <2>1. PICK drafts \in Learned : \E new \in Inserted(scope, learns + 1, drafts, kept) :
                                      table' = kept \cup new
    BY DEF Replace
  <2>2. PICK new \in Inserted(scope, learns + 1, drafts, kept) : table' = kept \cup new
    BY <2>1
  <2> QED BY <2>2, InsertedRows
<1>3. learns' = learns + 1 /\ learns \in Nat /\ UNCHANGED call
  BY DEF Replace, IInv, Provenance
<1>4. SelectedOrNewer'
  <2> SUFFICES ASSUME NEW d \in Connections, call[d].phase = "selected"
               PROVE  /\ call[d].since \in 0..(learns + 1)
                      /\ \A e \in table' : e.id = call[d].entry.id =>
                            \/ SameRule(e.rule, call[d].entry.rule)
                            \/ e.rule.learn > call[d].since
    BY <1>3 DEF SelectedOrNewer
  <2>1. /\ call[d].since \in 0..learns
        /\ \A e \in table : e.id = call[d].entry.id =>
               SameRule(e.rule, call[d].entry.rule) \/ e.rule.learn > call[d].since
    BY DEF CInv, SelectedOrNewer
  <2>2. \A e \in table' \ table : e.rule.learn > call[d].since
    BY <1>2, <1>3, <2>1
  <2> QED BY <1>3, <2>1, <2>2
<1>5. RetrievalFits'
  <2> SUFFICES ASSUME NEW d \in Connections
               PROVE  /\ call[d].phase \in {"checked", "half", "retrieved"} =>
                            /\ call[d].since \in 0..(learns + 1)
                            /\ ~ call[d].unpaired =>
                                  \A e \in table' : e.rule.scope = Unscoped => Fits(d, e.rule)
                      /\ call[d].phase \in {"half", "retrieved"} /\ ~ call[d].unpaired =>
                            \A r \in call[d].rules : Fits(d, r)
    BY <1>3 DEF RetrievalFits, Fits
  <2>1. ASSUME call[d].phase \in {"checked", "half", "retrieved"}
        PROVE  \A e \in table' \ table : Fits(d, e.rule)
    <3>1. call[d].since \in 0..learns
      BY <2>1 DEF CInv, RetrievalFits
    <3> QED BY <1>2, <1>3, <3>1 DEF Fits
  <2> QED BY <1>3, <2>1 DEF CInv, RetrievalFits
<1> QED BY <1>1, <1>4, <1>5 DEF CInv

\* An UPDATE leaves every row its id and its rule, and other calls alone.
LEMMA UpdateKeepsCInv ==
    ASSUME TypeOK, IInv, CInv, NEW c \in Deciders, Update(c)
    PROVE  CInv'
<1>1. RowsApart'
  BY UpdateKeepsRowsApart DEF CInv
<1>2. \A e \in table' : \E f \in table : e.id = f.id /\ SameRule(e.rule, f.rule)
  BY UpdatedRows
<1>3. \A d \in Connections : call'[d] = call[d] \/ call'[d].phase = "ready"
  BY DEF Update, TypeOK, Ready
<1>4. learns' = learns
  BY DEF Update
<1>5. SelectedOrNewer'
  <2> SUFFICES ASSUME NEW d \in Connections, call'[d].phase = "selected", NEW e \in table'
               PROVE  /\ call'[d].since \in 0..learns
                      /\ e.id = call'[d].entry.id =>
                            \/ SameRule(e.rule, call'[d].entry.rule)
                            \/ e.rule.learn > call'[d].since
    <3>1. ASSUME NEW d \in Connections, call'[d].phase = "selected"
          PROVE  call'[d].since \in 0..learns
      BY <1>3, <3>1 DEF CInv, SelectedOrNewer
    <3> QED BY <1>4, <3>1 DEF SelectedOrNewer
  <2>1. call'[d] = call[d]
    BY <1>3
  <2>2. PICK f \in table : e.id = f.id /\ SameRule(e.rule, f.rule)
    BY <1>2
  <2> QED BY <2>1, <2>2 DEF CInv, SelectedOrNewer, SameRule
<1>6. RetrievalFits'
  <2> SUFFICES ASSUME NEW d \in Connections, call'[d].phase \in {"checked", "half", "retrieved"}
               PROVE  /\ call'[d].since \in 0..learns
                      /\ ~ call'[d].unpaired =>
                            \A e \in table' : e.rule.scope = Unscoped => Fits(d, e.rule)'
                      /\ call'[d].phase \in {"half", "retrieved"} /\ ~ call'[d].unpaired =>
                            \A r \in call'[d].rules : Fits(d, r)'
    BY <1>4 DEF RetrievalFits
  <2>1. call'[d] = call[d]
    BY <1>3
  <2>2. \A e \in table' : \E f \in table : e.rule.scope = f.rule.scope /\ e.rule.learn = f.rule.learn
    BY <1>2 DEF SameRule
  <2> QED BY <2>1, <2>2 DEF CInv, RetrievalFits, Fits
<1> QED BY <1>1, <1>5, <1>6 DEF CInv

\* A step that reads leaves the other calls as they are: what it reads is
\* there, and no later than the learning runs so far.
LEMMA ReadKeepsCInv ==
    ASSUME TypeOK, IInv, CInv, NEW c \in Connections, UNCHANGED <<table, learns>>,
           \A d \in Connections \ {c} : call'[d] = call[d],
           call'[c].phase = "selected" =>
               /\ call'[c].since = learns
               /\ call'[c].entry \in table,
           call'[c].phase \in {"checked", "half", "retrieved"} =>
               /\ call'[c].since \in 0..learns
               /\ ~ call'[c].unpaired =>
                     \A e \in table : e.rule.scope = Unscoped => Fits(c, e.rule)',
           call'[c].phase \in {"half", "retrieved"} /\ ~ call'[c].unpaired =>
               \A r \in call'[c].rules : Fits(c, r)'
    PROVE  CInv'
<1>1. RowsApart'
  BY DEF CInv, RowsApart
<1>2. learns \in Nat /\ learns' = learns /\ table' = table
  BY DEF IInv, Provenance
<1>3. SelectedOrNewer'
  <2> SUFFICES ASSUME NEW d \in Connections, call'[d].phase = "selected"
               PROVE  /\ call'[d].since \in 0..learns
                      /\ \A e \in table : e.id = call'[d].entry.id =>
                            \/ SameRule(e.rule, call'[d].entry.rule)
                            \/ e.rule.learn > call'[d].since
    BY <1>2 DEF SelectedOrNewer
  <2>1. CASE d = c
    <3>1. \A e \in table : e.id = call'[c].entry.id => e = call'[c].entry
      BY <2>1 DEF CInv, RowsApart
    <3> QED BY <1>2, <2>1, <3>1 DEF SameRule
  <2>2. CASE d # c
    BY <2>2 DEF CInv, SelectedOrNewer
  <2> QED BY <2>1, <2>2
<1>4. RetrievalFits'
  <2> SUFFICES ASSUME NEW d \in Connections, d # c
               PROVE  /\ call'[d].phase \in {"checked", "half", "retrieved"} =>
                            /\ call'[d].since \in 0..learns
                            /\ ~ call'[d].unpaired =>
                                  \A e \in table : e.rule.scope = Unscoped => Fits(d, e.rule)'
                      /\ call'[d].phase \in {"half", "retrieved"} /\ ~ call'[d].unpaired =>
                            \A r \in call'[d].rules : Fits(d, r)'
    BY <1>2 DEF RetrievalFits
  <2>1. call'[d] = call[d]
    OBVIOUS
  <2> QED BY <2>1 DEF CInv, RetrievalFits, Fits
<1> QED BY <1>1, <1>3, <1>4 DEF CInv

LEMMA NextKeepsCInv == TypeOK /\ IdsBounded /\ IInv /\ CInv /\ [Next]_vars => CInv'
<1> SUFFICES ASSUME TypeOK, IdsBounded, IInv, CInv, [Next]_vars PROVE CInv'
  OBVIOUS
<1>0. call \in [Connections -> Calls] /\ learns \in Nat
  BY DEF TypeOK, IInv, Provenance
<1>1. ASSUME NEW c \in Learners, NEW scope \in Scopes, NEW named \in BOOLEAN,
             Replace(c, scope, named)
      PROVE  CInv'
  BY <1>1, ReplaceKeepsCInv
<1>2. ASSUME NEW c \in Deciders, Update(c) PROVE CInv'
  BY <1>2, UpdateKeepsCInv
<1>3. ASSUME NEW c \in Connections, Abandon(c) \/ FinishRun(c) PROVE CInv'
  <2>1. /\ call'[c].phase = "ready" /\ UNCHANGED <<table, learns>>
        /\ \A d \in Connections \ {c} : call'[d] = call[d]
    BY <1>0, <1>3 DEF Abandon, FinishRun, Ready
  <2> QED BY <2>1, ReadKeepsCInv
<1>4. ASSUME NEW c \in Deciders, NEW entry \in table, NEW target \in Statuses,
             Select(c, entry, target)
      PROVE  CInv'
  <2>1. /\ c \in Connections /\ UNCHANGED <<table, learns>>
        /\ call'[c] = [phase |-> "selected", entry |-> entry, target |-> target, since |-> learns]
        /\ \A d \in Connections \ {c} : call'[d] = call[d]
    BY <1>0, <1>4 DEF Select, Connections
  <2> QED BY <2>1, ReadKeepsCInv
<1>5. ASSUME NEW c \in Readers, NEW repository \in Repositories, CheckFingerprint(c, repository)
      PROVE  CInv'
  <2>1. /\ c \in Connections /\ UNCHANGED <<table, learns>> /\ fingerprint = repository
        /\ call'[c] = [phase |-> "checked", repository |-> repository, since |-> learns,
                       unpaired |-> unpaired]
        /\ \A d \in Connections \ {c} : call'[d] = call[d]
    BY <1>0, <1>5 DEF CheckFingerprint, Connections
  <2>2. ~ call'[c].unpaired =>
            \A e \in table : e.rule.scope = Unscoped => Fits(c, e.rule)'
    BY <2>1 DEF IInv, FingerprintCoversRules, Fits
  <2>3. call'[c].phase = "checked" /\ call'[c].since \in 0..learns
    BY <1>0, <2>1
  <2> QED BY <2>1, <2>2, <2>3, ReadKeepsCInv
<1>6. ASSUME NEW c \in Readers, ReadServiceRules(c) \/ ReadDependencyRules(c)
      PROVE  CInv'
  <2>1. c \in Connections /\ UNCHANGED <<table, learns>>
    BY <1>6 DEF ReadServiceRules, ReadDependencyRules, Connections
  <2>2. /\ call'[c].phase \in {"half", "retrieved"}
        /\ call'[c].repository = call[c].repository /\ call'[c].since = call[c].since
        /\ call'[c].unpaired = call[c].unpaired
        /\ \A d \in Connections \ {c} : call'[d] = call[d]
    BY <1>0, <1>6, <2>1 DEF ReadServiceRules, ReadDependencyRules
  <2>3. call[c].phase \in {"checked", "half"}
    BY <1>6 DEF ReadServiceRules, ReadDependencyRules
  <2>4. /\ call[c].since \in 0..learns
        /\ ~ call[c].unpaired => \A e \in table : e.rule.scope = Unscoped => Fits(c, e.rule)
        /\ call[c].phase = "half" /\ ~ call[c].unpaired => \A r \in call[c].rules : Fits(c, r)
    BY <2>1, <2>3 DEF CInv, RetrievalFits
  <2>5. \A r \in call'[c].rules :
            \/ call[c].phase = "half" /\ r \in call[c].rules
            \/ \E e \in table : e.rule.scope = Unscoped /\ r = e.rule
    <3>1. \A rules : \A r \in ActiveUnscoped(rules) :
              \E e \in table : e.rule.scope = Unscoped /\ r = e.rule
      BY DEF ActiveUnscoped, StoredRules
    <3>2. CASE ReadServiceRules(c)
      BY <1>0, <2>1, <3>1, <3>2 DEF ReadServiceRules
    <3>3. CASE ReadDependencyRules(c)
      BY <1>0, <2>1, <3>1, <3>3 DEF ReadDependencyRules
    <3> QED BY <1>6, <3>2, <3>3
  <2>6. ~ call'[c].unpaired => \A r \in call'[c].rules : Fits(c, r)'
    BY <2>2, <2>4, <2>5 DEF Fits
  <2>7. ~ call'[c].unpaired => \A e \in table : e.rule.scope = Unscoped => Fits(c, e.rule)'
    BY <2>2, <2>4 DEF Fits
  <2>8. call'[c].since \in 0..learns
    BY <2>2, <2>4
  <2> QED BY <2>1, <2>2, <2>6, <2>7, <2>8, ReadKeepsCInv
<1>7. CASE UNCHANGED <<table, learns, call>>
  BY <1>7 DEF CInv, RowsApart, SelectedOrNewer, RetrievalFits, Fits
<1>8. \/ \E c \in Learners, scope \in Scopes, named \in BOOLEAN : Replace(c, scope, named)
      \/ \E c \in Deciders : Update(c)
      \/ \E c \in Connections : Abandon(c) \/ FinishRun(c)
      \/ \E c \in Deciders, entry \in table, target \in Statuses : Select(c, entry, target)
      \/ \E c \in Readers, repository \in Repositories : CheckFingerprint(c, repository)
      \/ \E c \in Readers : ReadServiceRules(c) \/ ReadDependencyRules(c)
      \/ UNCHANGED <<table, learns, call>>
  BY DEF Next, vars, AppendReview, Connections
<1> QED BY <1>1, <1>2, <1>3, <1>4, <1>5, <1>6, <1>7, <1>8

\* What holds of any number of connections, at every moment.
ConcurrentInv == TypeOK /\ IdsBounded /\ IInv /\ CInv

LEMMA ConcurrentInvariance == Spec => []ConcurrentInv
<1>1. Init => ConcurrentInv
  <2>1. Init => table = {} /\ call = [c \in Connections |-> Ready]
    BY DEF Init
  <2>2. Init => CInv
    BY <2>1 DEF CInv, RowsApart, SelectedOrNewer, RetrievalFits, Ready
  <2> QED BY <2>2, InitType, InitInv DEF ConcurrentInv
<1>2. ConcurrentInv /\ [Next]_vars => ConcurrentInv'
  BY TypeNext, NextKeepsInv, NextKeepsCInv DEF ConcurrentInv
<1> QED BY <1>1, <1>2, PTL DEF Spec

\* A status changes only by a decision about that rule, or about one whose id
\* has since been given to a newly learned rule, whatever runs in between.
THEOREM DecisionsHit == Spec => DecisionsHitTheirRule
<1>1. ASSUME ConcurrentInv, [Next]_vars, NEW r \in StoredRules, NEW q \in StoredRules',
             SameRule(r, q), r.status # q.status
      PROVE  \E c \in Deciders : /\ call[c].phase = "selected" /\ call'[c] = Ready
                                 /\ q.status = call[c].target
                                 /\ \/ SameRule(r, call[c].entry.rule)
                                    \/ r.learn > call[c].since
  <2> USE <1>1 DEF ConcurrentInv, CInv
  <2>1. q \notin StoredRules
    BY DEF StoredRules, RowsApart, SameRule
  <2>2. ASSUME NEW c \in Learners, NEW scope \in Scopes, NEW named \in BOOLEAN,
               Replace(c, scope, named)
        PROVE  FALSE
    <3>1. PICK drafts \in Learned :
              StoredRules' = {p \in StoredRules : p.scope # scope}
                               \cup Stamp(scope, learns + 1, drafts)
      BY <2>2, ReplaceAsPromised
    <3>2. q.learn = learns + 1
      BY <2>1, <3>1 DEF Stamp
    <3> QED BY <2>2, <3>2, ReplaceAsPromised DEF SameRule
  <2>3. ASSUME NEW c \in Deciders, Update(c)
        PROVE  /\ call[c].phase = "selected" /\ call'[c] = Ready
               /\ q.status = call[c].target
               /\ SameRule(r, call[c].entry.rule) \/ r.learn > call[c].since
    <3>1. c \in Connections /\ call[c].phase = "selected" /\ call'[c] = Ready
      BY <2>3 DEF Update, TypeOK, Connections
    <3>2. PICK e \in table' : q = e.rule
      BY DEF StoredRules
    <3>3. PICK f \in table : /\ SameRule(e.rule, f.rule)
                             /\ \/ e = f
                                \/ /\ f.id = call[c].entry.id
                                   /\ e = [f EXCEPT !.rule.status = call[c].target]
      BY <2>3, UpdatedRows
    <3>4. /\ f.id = call[c].entry.id
          /\ e = [f EXCEPT !.rule.status = call[c].target]
      BY <2>1, <3>2, <3>3 DEF StoredRules
    <3>5. q.status = call[c].target
      BY <3>2, <3>4 DEF TypeOK, Entries, Rows
    <3>6. SameRule(f.rule, call[c].entry.rule) \/ f.rule.learn > call[c].since
      BY <3>1, <3>4 DEF SelectedOrNewer
    <3>7. SameRule(r, f.rule)
      BY <3>2, <3>3 DEF SameRule
    <3> QED BY <3>1, <3>5, <3>6, <3>7 DEF SameRule
  <2>4. ASSUME UNCHANGED table PROVE FALSE
    BY <2>1, <2>4 DEF StoredRules
  <2> QED
    BY <2>2, <2>3, <2>4
    DEF Next, vars, AppendReview, Select, Abandon, CheckFingerprint, ReadServiceRules,
        ReadDependencyRules, FinishRun
<1>2. ConcurrentInv /\ [Next]_vars =>
          \A r \in StoredRules, q \in StoredRules' :
              SameRule(r, q) /\ r.status # q.status =>
                  \E c \in Deciders :
                      /\ call[c].phase = "selected"
                      /\ call'[c] = Ready
                      /\ q.status = call[c].target
                      /\ \/ SameRule(r, call[c].entry.rule)
                         \/ r.learn > call[c].since
  BY <1>1
<1> QED BY <1>2, ConcurrentInvariance, PTL DEF Spec, DecisionsHitTheirRule

\* A development run whose fingerprint matched is given rules of its own
\* repository, or rules learned after it compared.
THEOREM RetrievalHolds == Spec => []RetrievalIsOfItsRepository
<1>1. ConcurrentInv => RetrievalIsOfItsRepository
  BY DEF ConcurrentInv, CInv, RetrievalFits, Fits, RetrievalIsOfItsRepository, Connections
<1> QED BY <1>1, ConcurrentInvariance, PTL

----------------------------------------------------------------------------
(* One connection: no call begins before the last one has ended. *)

Alone == \A c, d \in Connections : c = d

\* What a decision has read may be moved as it asks.
SelectedIsLegal ==
    \A c \in Connections : call[c].phase = "selected" =>
        /\ call[c].entry.rule.scope # Unscoped
        /\ Follows(call[c].entry.rule.status, call[c].target)

\* No other row is of the identity and the learning run a decision has read, so
\* the row stays unambiguous as long as it is there.
SelectionIsUnique(entry) ==
    /\ entry.rule.learn \in 1..learns
    /\ \A e \in table :
           /\ e.rule.scope = entry.rule.scope
           /\ e.rule.rule = entry.rule.rule
           /\ e.rule.learn = entry.rule.learn
           => e.id = entry.id

SelectedIsUnique ==
    \A c \in Connections : call[c].phase = "selected" => SelectionIsUnique(call[c].entry)

\* What a decision has read is still so when it writes.
SelectedIsCurrent ==
    \A c \in Connections : call[c].phase = "selected" => call[c].entry \in table

ReviewsNumbered ==
    /\ events \in Nat
    /\ \A review \in reviews : review.event \in 1..events

PromiseInv == SelectedIsLegal /\ SelectedIsUnique /\ ReviewsNumbered

\* A decision that was not overtaken hits the row it has read, and moves its rule as promised.
LEMMA UpdateAsPromised ==
    ASSUME TypeOK, IInv, RowsApart, SelectedIsLegal, SelectedIsUnique,
           NEW c \in Deciders, Update(c), call[c].entry \in table
    PROVE  LET r == call[c].entry.rule
           IN  /\ RowsApart'
               /\ r \in StoredRules /\ r.scope # Unscoped /\ IsOnlyMatch(r, StoredRules)
               /\ call[c].target \in Statuses /\ Follows(r.status, call[c].target)
               /\ r \in Rows
               /\ StoredRules' = (StoredRules \ {r}) \cup {[r EXCEPT !.status = call[c].target]}
<1> DEFINE entry == call[c].entry
           target == call[c].target
           moved == [entry EXCEPT !.rule.status = target]
<1>1. /\ c \in Connections /\ call[c].phase = "selected"
      /\ target \in Statuses /\ entry \in Entries
  BY DEF Update, TypeOK, Calls, Connections, Ready
<1>2. /\ entry \in table /\ entry.rule.scope # Unscoped
      /\ IsOnlyMatch(entry.rule, StoredRules)
      /\ Follows(entry.rule.status, target)
  <2>1. \A e \in table : e.rule.scope = entry.rule.scope /\ e.rule.rule = entry.rule.rule
                             => e.id = entry.id
    BY <1>1 DEF SelectedIsUnique, SelectionIsUnique, IInv, OneLearnPerScope
  <2>2. \A e \in table : e.rule.scope = entry.rule.scope /\ e.rule.rule = entry.rule.rule
                             => e = entry
    BY <2>1 DEF RowsApart
  <2>3. IsOnlyMatch(entry.rule, StoredRules)
    BY <2>2 DEF IsOnlyMatch, StoredRules
  <2> QED BY <1>1, <2>3 DEF SelectedIsLegal
<1>3. table' = {IF e.id = entry.id THEN [e EXCEPT !.rule.status = target] ELSE e : e \in table}
  BY DEF Update
<1>4. \A e \in table : e.id = entry.id <=> e = entry
  BY <1>2 DEF RowsApart
<1>5. table' = (table \ {entry}) \cup {moved}
  <2> DEFINE after(e) == IF e.id = entry.id THEN [e EXCEPT !.rule.status = target] ELSE e
  <2>1. after(entry) = moved /\ \A e \in table \ {entry} : after(e) = e
    BY <1>4
  <2>2. table' = {after(e) : e \in table}
    BY <1>3
  <2> HIDE DEF after, moved
  <2> QED BY <1>2, <2>1, <2>2
<1>6. /\ moved.id = entry.id
      /\ moved.rule = [entry.rule EXCEPT !.status = target]
      /\ SameRule(entry.rule, moved.rule)
  BY <1>1 DEF Entries, Rows, SameRule
<1> HIDE DEF entry, target, moved
<1>7. RowsApart'
  <2>1. \A f \in table : \/ f.id = moved.id \/ moved.id = f.id
                        \/ SameRule(f.rule, moved.rule) \/ SameRule(moved.rule, f.rule)
                           => f = entry
    <3>1. moved.id = entry.id /\ SameRule(entry.rule, moved.rule)
      BY <1>6
    <3> QED BY <1>2, <3>1 DEF RowsApart, SameRule
  <2>2. \A e \in table' : e = moved \/ (e \in table /\ e # entry)
    BY <1>5
  <2> QED BY <2>1, <2>2 DEF RowsApart
<1>8. \A e \in table : e.rule = entry.rule => e = entry
  BY <1>2 DEF RowsApart, SameRule
<1>9. StoredRules' = (StoredRules \ {entry.rule}) \cup {moved.rule}
  BY <1>2, <1>5, <1>8 DEF StoredRules
<1>10. entry.rule \in StoredRules /\ entry.rule \in Rows
  BY <1>1, <1>2 DEF StoredRules, Entries
<1> QED BY <1>1, <1>2, <1>6, <1>7, <1>9, <1>10 DEF entry, target

\* A selection is made of a rule that is current and may be moved so, and
\* kept; while it is, the rows change by what other connections do.
SelectionStep ==
    \A d \in Connections : call'[d].phase = "selected" =>
        \/ /\ call'[d] = call[d]
           /\ UNCHANGED table \/ \E c \in Connections : c # d
        \/ /\ UNCHANGED table
           /\ call'[d].entry \in table
           /\ call'[d].entry.rule.scope # Unscoped
           /\ IsOnlyMatch(call'[d].entry.rule, StoredRules)
           /\ Follows(call'[d].entry.rule.status, call'[d].target)

LEMMA EverySelectionStep == TypeOK /\ [Next]_vars => SelectionStep
<1> SUFFICES ASSUME TypeOK, [Next]_vars, NEW d \in Connections, call'[d].phase = "selected"
             PROVE  \/ /\ call'[d] = call[d]
                       /\ UNCHANGED table \/ \E c \in Connections : c # d
                    \/ /\ UNCHANGED table
                       /\ call'[d].entry \in table
                       /\ call'[d].entry.rule.scope # Unscoped
                       /\ IsOnlyMatch(call'[d].entry.rule, StoredRules)
                       /\ Follows(call'[d].entry.rule.status, call'[d].target)
  BY DEF SelectionStep
<1>1. call \in [Connections -> Calls] /\ Deciders \cup Learners \cup Readers \subseteq Connections
  BY DEF TypeOK, Connections
<1>2. ASSUME NEW c \in Learners, NEW scope \in Scopes, NEW named \in BOOLEAN,
             Replace(c, scope, named)
      PROVE  call'[d] = call[d] /\ \E b \in Connections : b # d
  BY <1>1, <1>2 DEF Replace, Ready
<1>3. ASSUME NEW c \in Deciders, Update(c)
      PROVE  call'[d] = call[d] /\ \E b \in Connections : b # d
  BY <1>1, <1>3 DEF Update, Ready
<1>4. ASSUME NEW c \in Deciders, NEW entry \in table, NEW target \in Statuses,
             Select(c, entry, target)
      PROVE  /\ UNCHANGED table
             /\ \/ call'[d] = call[d]
                \/ /\ call'[d].entry \in table
                   /\ call'[d].entry.rule.scope # Unscoped
                   /\ IsOnlyMatch(call'[d].entry.rule, StoredRules)
                   /\ Follows(call'[d].entry.rule.status, call'[d].target)
  <2>1. UNCHANGED table /\ (d # c => call'[d] = call[d])
    BY <1>1, <1>4 DEF Select
  <2>2. d = c => call'[d].entry = entry /\ call'[d].target = target
    BY <1>1, <1>4 DEF Select
  <2>3. entry.rule.scope # Unscoped /\ IsOnlyMatch(entry.rule, StoredRules)
        /\ Follows(entry.rule.status, target)
    BY <1>4 DEF Select
  <2> QED BY <2>1, <2>2, <2>3
<1>5. ASSUME NEW c \in Connections,
             \/ Abandon(c) \/ FinishRun(c)
             \/ \E repository \in Repositories : CheckFingerprint(c, repository)
             \/ ReadServiceRules(c) \/ ReadDependencyRules(c)
      PROVE  UNCHANGED table /\ call'[d] = call[d]
  <2>1. UNCHANGED table /\ (d # c => call'[d] = call[d])
    BY <1>1, <1>5
    DEF Abandon, FinishRun, CheckFingerprint, ReadServiceRules, ReadDependencyRules
  <2>2. call'[c].phase # "selected"
    BY <1>1, <1>5
    DEF Abandon, FinishRun, CheckFingerprint, ReadServiceRules, ReadDependencyRules, Ready
  <2> QED BY <2>1, <2>2
<1>6. ASSUME \/ \E c \in Deciders, scope \in Scopes \ {Unscoped}, rule \in Rules :
                    AppendReview(c, scope, rule)
             \/ UNCHANGED vars
      PROVE  UNCHANGED table /\ call'[d] = call[d]
  BY <1>6 DEF AppendReview, vars
<1>7. \/ \E c \in Learners, scope \in Scopes, named \in BOOLEAN : Replace(c, scope, named)
      \/ \E c \in Deciders : Update(c)
      \/ \E c \in Deciders, entry \in table, target \in Statuses : Select(c, entry, target)
      \/ \E c \in Connections :
             \/ Abandon(c) \/ FinishRun(c)
             \/ \E repository \in Repositories : CheckFingerprint(c, repository)
             \/ ReadServiceRules(c) \/ ReadDependencyRules(c)
      \/ \E c \in Deciders, scope \in Scopes \ {Unscoped}, rule \in Rules :
             AppendReview(c, scope, rule)
      \/ UNCHANGED vars
  BY <1>1 DEF Next
<1> QED BY <1>2, <1>3, <1>4, <1>5, <1>6, <1>7

LEMMA ReviewsNumberedKept == ReviewsNumbered /\ [Next]_vars => ReviewsNumbered'
<1> SUFFICES ASSUME ReviewsNumbered, [Next]_vars PROVE ReviewsNumbered'
  OBVIOUS
<1>1. ASSUME NEW c \in Deciders, NEW scope \in Scopes \ {Unscoped}, NEW rule \in Rules,
             AppendReview(c, scope, rule)
      PROVE  ReviewsNumbered'
  BY <1>1, BoundsAssumption DEF AppendReview, ReviewsNumbered
<1>2. CASE UNCHANGED <<reviews, events>>
  BY <1>2 DEF ReviewsNumbered
<1> QED
  BY <1>1, <1>2
  DEF Next, vars, Replace, Update, Select, Abandon, CheckFingerprint, ReadServiceRules,
      ReadDependencyRules, FinishRun

\* A row there is after a step was learned by it, or has an id and a rule it had before.
LEMMA RowsStep ==
    ASSUME ConcurrentInv, [Next]_vars
    PROVE  \A e \in table' : \/ e.rule.learn = learns + 1
                             \/ \E f \in table : e.id = f.id /\ SameRule(e.rule, f.rule)
<1> USE DEF ConcurrentInv
<1>1. ASSUME NEW c \in Learners, NEW scope \in Scopes, NEW named \in BOOLEAN,
             Replace(c, scope, named)
      PROVE  \A e \in table' : e \in table \/ e.rule.learn = learns + 1
  <2> DEFINE kept == {e \in table : e.rule.scope # scope}
  <2>1. PICK drafts \in Learned : \E new \in Inserted(scope, learns + 1, drafts, kept) :
                                      table' = kept \cup new
    BY <1>1 DEF Replace
  <2>2. PICK new \in Inserted(scope, learns + 1, drafts, kept) : table' = kept \cup new
    BY <2>1
  <2> QED BY <2>2, InsertedRows
<1>2. ASSUME NEW c \in Deciders, Update(c)
      PROVE  \A e \in table' : \E f \in table : e.id = f.id /\ SameRule(e.rule, f.rule)
  BY <1>2, UpdatedRows
<1>3. CASE UNCHANGED table
  BY <1>3 DEF SameRule
<1>4. \/ \E c \in Learners, scope \in Scopes, named \in BOOLEAN : Replace(c, scope, named)
      \/ \E c \in Deciders : Update(c)
      \/ UNCHANGED table
  BY DEF Next, vars, AppendReview, Select, Abandon, CheckFingerprint, ReadServiceRules,
         ReadDependencyRules, FinishRun
<1>5. CASE \E c \in Learners, scope \in Scopes, named \in BOOLEAN : Replace(c, scope, named)
  BY <1>1, <1>5 DEF SameRule
<1> QED BY <1>2, <1>3, <1>4, <1>5

LEMMA LearnsStep == [Next]_vars => learns' \in {learns, learns + 1}
BY DEF Next, vars, Replace, AppendReview, Select, Update, Abandon, CheckFingerprint,
       ReadServiceRules, ReadDependencyRules, FinishRun

\* Whatever other connections do, a decision keeps what it has read.
LEMMA PromiseInvariance == Spec => [](ConcurrentInv /\ PromiseInv)
<1>1. Init => PromiseInv
  BY BoundsAssumption
  DEF Init, PromiseInv, SelectedIsLegal, SelectedIsUnique, ReviewsNumbered, Ready
<1>2. ConcurrentInv /\ PromiseInv /\ [Next]_vars => PromiseInv'
  <2> SUFFICES ASSUME ConcurrentInv, PromiseInv, [Next]_vars PROVE PromiseInv'
    OBVIOUS
  <2>1. SelectionStep /\ ReviewsNumbered'
    BY EverySelectionStep, ReviewsNumberedKept DEF ConcurrentInv, PromiseInv
  <2>2. SelectedIsLegal'
    BY <2>1 DEF SelectionStep, SelectedIsLegal, PromiseInv
  <2>3. SelectedIsUnique'
    <3> SUFFICES ASSUME NEW d \in Connections, call'[d].phase = "selected"
                 PROVE  SelectionIsUnique(call[d].entry)'
      BY DEF SelectedIsUnique
    <3>1. learns \in Nat /\ learns' \in {learns, learns + 1}
      BY LearnsStep DEF ConcurrentInv, IInv, Provenance
    <3>2. CASE call'[d] = call[d]
      <4>1. SelectionIsUnique(call[d].entry)
        BY <3>2 DEF PromiseInv, SelectedIsUnique
      <4>2. \A e \in table' : \/ e.rule.learn = learns + 1
                               \/ \E f \in table : e.id = f.id /\ SameRule(e.rule, f.rule)
        BY RowsStep
      <4> QED BY <3>1, <3>2, <4>1, <4>2 DEF SelectionIsUnique, SameRule
    <3>3. CASE /\ UNCHANGED table
               /\ call'[d].entry \in table
               /\ IsOnlyMatch(call'[d].entry.rule, StoredRules)
      <4>1. \A e \in table : /\ e.rule.scope = call'[d].entry.rule.scope
                             /\ e.rule.rule = call'[d].entry.rule.rule
                             => e.rule = call'[d].entry.rule
        BY <3>3 DEF IsOnlyMatch, StoredRules
      <4>2. \A e \in table : e.rule = call'[d].entry.rule => e.id = call'[d].entry.id
        BY <3>3 DEF ConcurrentInv, CInv, RowsApart, SameRule
      <4>3. call'[d].entry.rule.learn \in 1..learns
        BY <3>3 DEF ConcurrentInv, IInv, Provenance
      <4> QED BY <3>1, <3>3, <4>1, <4>2, <4>3 DEF SelectionIsUnique
    <3> QED BY <2>1, <3>2, <3>3 DEF SelectionStep
  <2> QED BY <2>1, <2>2, <2>3 DEF PromiseInv
<1> QED BY <1>1, <1>2, ConcurrentInvariance, PTL DEF Spec

\* A connection that is alone finds everything as its last step left it.
LEMMA AloneInvariance == Alone => (Spec => []SelectedIsCurrent)
<1>1. Init => SelectedIsCurrent
  BY DEF Init, SelectedIsCurrent, Ready
<1>2. Alone /\ ConcurrentInv /\ SelectedIsCurrent /\ [Next]_vars => SelectedIsCurrent'
  <2> SUFFICES ASSUME Alone, ConcurrentInv, SelectedIsCurrent, [Next]_vars,
                      NEW d \in Connections, call'[d].phase = "selected"
               PROVE  call'[d].entry \in table'
    BY DEF SelectedIsCurrent
  <2>1. SelectionStep
    BY EverySelectionStep DEF ConcurrentInv
  <2>2. UNCHANGED table
    BY <2>1 DEF SelectionStep, Alone
  <2> QED BY <2>1, <2>2 DEF SelectionStep, SelectedIsCurrent
<1>3. Alone => []Alone
  <2>1. Alone => Alone'
    BY DEF Alone
  <2> QED BY <2>1, PTL
<1> QED BY <1>1, <1>2, <1>3, ConcurrentInvariance, PTL DEF Spec

\* The UPDATE of a decision whose SELECT was overtaken.
Overtaken ==
    \E c \in Deciders : /\ call[c].phase = "selected" /\ call'[c] = Ready
                        /\ call[c].entry \notin table

\* Every other step of the rules and the history is a call of the promise.
LEMMA StepKeepsPromise ==
    ConcurrentInv /\ PromiseInv /\ [Next]_vars => [Overtaken \/ Promise!Next]_<<StoredRules, reviews>>
<1> SUFFICES ASSUME ConcurrentInv, PromiseInv, [Next]_vars, ~ Overtaken
             PROVE  Promise!Next \/ UNCHANGED <<StoredRules, reviews>>
  OBVIOUS
<1> USE DEF ConcurrentInv, CInv, PromiseInv
<1>1. ASSUME NEW c \in Learners, NEW scope \in Scopes, NEW named \in BOOLEAN,
             Replace(c, scope, named)
      PROVE  Promise!Next
  <2>1. PICK drafts \in Learned :
            StoredRules' = {r \in StoredRules : r.scope # scope}
                             \cup Stamp(scope, learns + 1, drafts)
    BY <1>1, ReplaceAsPromised
  <2>2. /\ learns + 1 \in Promise!Learns /\ reviews' = reviews
        /\ \A r \in StoredRules : r.learn # learns + 1
    BY <1>1, ReplaceAsPromised DEF Replace, Promise!Learns, Learns
  <2>3. Promise!Replace(scope, learns + 1, drafts)
    BY <2>1, <2>2 DEF Promise!Replace, Promise!Stamp, Stamp
  <2> QED BY <2>2, <2>3 DEF Promise!Next
<1>2. ASSUME NEW c \in Deciders, Update(c)
      PROVE  Promise!Next
  <2> DEFINE r == call[c].entry.rule
             target == call[c].target
  <2>1. /\ r \in StoredRules /\ r.scope # Unscoped /\ IsOnlyMatch(r, StoredRules)
        /\ target \in Statuses /\ Follows(r.status, target)
        /\ StoredRules' = (StoredRules \ {r}) \cup {[r EXCEPT !.status = target]}
    <3>1. call[c].phase = "selected" /\ call'[c] = Ready
      BY <1>2 DEF Update, TypeOK, Connections
    <3> QED BY <1>2, <3>1, UpdateAsPromised DEF Overtaken
  <2>2. reviews' = reviews
    BY <1>2 DEF Update
  <2> HIDE DEF r, target
  <2>3. /\ Promise!IsOnlyMatch(r, StoredRules) /\ Promise!Follows(r.status, target)
        /\ target \in Promise!Statuses
    BY <2>1
    DEF Promise!IsOnlyMatch, IsOnlyMatch, Promise!Follows, Follows, Promise!Statuses, Statuses
  <2>4. Promise!Transition(r, target)
    BY <2>1, <2>2, <2>3 DEF Promise!Transition
  <2> QED BY <2>1, <2>3, <2>4 DEF Promise!Next
<1>3. ASSUME NEW c \in Deciders, NEW scope \in Scopes \ {Unscoped}, NEW rule \in Rules,
             AppendReview(c, scope, rule)
      PROVE  Promise!Next
  <2> DEFINE review == [event |-> events + 1, scope |-> scope, rule |-> rule]
  <2>1. /\ reviews' = reviews \cup {review} /\ StoredRules' = StoredRules
        /\ \A e \in reviews : e.event # review.event
    BY <1>3 DEF AppendReview, StoredRules, ReviewsNumbered
  <2>2. review \in Promise!Reviews
    BY <1>3, BoundsAssumption DEF AppendReview, Promise!Reviews, ReviewsNumbered
  <2> HIDE DEF review
  <2>3. Promise!AppendReview(review)
    BY <2>1 DEF Promise!AppendReview
  <2> QED BY <2>2, <2>3 DEF Promise!Next
<1>4. CASE UNCHANGED <<table, reviews>>
  BY <1>4 DEF StoredRules
<1> QED
  BY <1>1, <1>2, <1>3, <1>4
  DEF Next, vars, Select, Abandon, CheckFingerprint, ReadServiceRules, ReadDependencyRules,
      FinishRun

\* With any number of connections, each step of the store is a call of the port's
\* promise, unless it is the UPDATE of a decision whose SELECT was overtaken.
THEOREM CurrentDecisionsKeep == Spec => CurrentDecisionsKeepPromise
<1>1. Init => Promise!Init
  BY DEF Init, Promise!Init, StoredRules
<1>2. ConcurrentInv /\ PromiseInv /\ [Next]_vars
        => [\/ \E c \in Deciders : /\ call[c].phase = "selected" /\ call'[c] = Ready
                                    /\ call[c].entry \notin table
            \/ Promise!Next]_<<StoredRules, reviews>>
  BY StepKeepsPromise DEF Overtaken
<1> QED BY <1>1, <1>2, PromiseInvariance, PTL DEF Spec, CurrentDecisionsKeepPromise

\* A single connection keeps the promise altogether, although ids are given out
\* again and transition_rule_status reads before its transaction begins.
THEOREM ImplementsPromise == Alone => (Spec => KeepsPromise)
<1>1. Init => Promise!Init
  BY DEF Init, Promise!Init, StoredRules
<1>2. ConcurrentInv /\ PromiseInv /\ SelectedIsCurrent /\ [Next]_vars
        => [Promise!Next]_(Promise!vars)
  <2>1. SelectedIsCurrent => ~ Overtaken
    BY DEF SelectedIsCurrent, Overtaken, Connections
  <2> QED BY <2>1, StepKeepsPromise DEF Promise!vars
<1> QED
  BY <1>1, <1>2, PromiseInvariance, AloneInvariance, PTL DEF Spec, KeepsPromise, Promise!Spec
============================================================================
