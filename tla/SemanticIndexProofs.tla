------------------------ MODULE SemanticIndexProofs ------------------------
(***************************************************************************)
(* What the semantic index can hold, for any number of calls of /learn,    *)
(* scopes, trees, edits and chunks per request.                            *)
(***************************************************************************)
EXTENDS SemanticIndex, FiniteSetTheorems, FunctionTheorems, TLAPS

\* Type correctness.

\* A range of a call's chunks is a set of points.
LEMMA ChunksArePoints ==
    ASSUME TypeOK, NEW n \in Learns, NEW from \in Nat, NEW to \in Nat
    PROVE  Chunks(n, from, to) \subseteq Points
<1>1. Found(n) \in Seq(Definitions)
  BY TreesAssumption DEF TypeOK, Found
<1>2. \A i \in from + 1 .. Least(to, Len(Found(n))) : Found(n)[i] \in Definitions
  BY <1>1 DEF Least
<1> QED BY <1>2 DEF TypeOK, Chunks, Chunk, Points

LEMMA TypeInit == Init => TypeOK
BY BoundsAssumption DEF Init, TypeOK, Phases

LEMMA TypeStep == TypeOK /\ [Next]_vars => TypeOK'
<1> SUFFICES ASSUME TypeOK, [Next]_vars PROVE TypeOK'
  OBVIOUS
<1> USE BoundsAssumption
<1>1. ASSUME NEW n \in Learns, FirstRequest(n) \/ NextRequest(n), Sent(n)
      PROVE  /\ points' \subseteq Points
             /\ live' \in [Scopes -> SUBSET Learns]
             /\ deleted' \in [Scopes -> SUBSET Paths]
             /\ sent' \in [Learns -> Nat]
  <2>1. Chunks(n, 0, BatchSize) \subseteq Points /\ Chunks(n, sent[n], sent[n] + BatchSize) \subseteq Points
    BY ChunksArePoints DEF TypeOK
  <2>2. {n} \cup Overlapping(n) \subseteq Learns
    BY DEF Overlapping, Others
  <2>3. points' \subseteq Points
    BY <1>1, <2>1 DEF TypeOK, FirstRequest, NextRequest
  <2>4. live' \in [Scopes -> SUBSET Learns]
    BY <1>1, <2>2 DEF TypeOK, FirstRequest, NextRequest, held
  <2>5. deleted' \in [Scopes -> SUBSET Paths]
    BY <1>1 DEF TypeOK, FirstRequest, NextRequest, held
  <2>6. sent' \in [Learns -> Nat]
    BY <1>1 DEF TypeOK, Sent
  <2> QED BY <2>3, <2>4, <2>5, <2>6
<1>2. ASSUME NEW n \in Learns, Learn(n) \/ StoreRules(n) \/ Scan(n) \/ Extract(n) PROVE TypeOK'
  <2>1. CASE Learn(n)
    BY <2>1 DEF TypeOK, Phases, Learn, Enter, repository, progress, held, retrieval
  <2>2. CASE StoreRules(n)
    BY <2>2 DEF TypeOK, Phases, StoreRules, Enter, progress, held, retrieval
  <2>3. CASE Scan(n)
    BY <2>3 DEF TypeOK, Phases, Scan, Enter, repository, progress, history, held, retrieval
  <2>4. CASE Extract(n)
    BY <2>4 DEF TypeOK, Phases, Extract, Enter, repository, progress, history, held, retrieval
  <2> QED BY <1>2, <2>1, <2>2, <2>3, <2>4
<1>3. ASSUME NEW n \in Learns, Replace(n) \/ Put(n) \/ Arrive(n) PROVE TypeOK'
  <2>1. (FirstRequest(n) \/ NextRequest(n)) /\ Sent(n)
    BY <1>3 DEF Replace, Put, Arrive
  <2>2. phase' \in [Learns -> Phases]
    BY <1>3 DEF TypeOK, Phases, Replace, Put, Arrive, Enter
  <2> QED BY <1>1, <2>1, <2>2 DEF TypeOK, Sent, repository, progress, retrieval
<1>4. ASSUME NEW n \in Learns, Succeed(n) \/ Fail(n) \/ GiveUp(n) PROVE TypeOK'
  BY <1>4 DEF TypeOK, Phases, Succeed, Fail, GiveUp, Enter, repository, progress, history, held, retrieval
<1>5. ASSUME NEW t \in Trees, Edit(t) PROVE TypeOK'
  BY <1>5 DEF TypeOK, Edit, progress, held, retrieval
<1>6. ASSUME NEW d \in Documents, UpsertDocument(d) PROVE TypeOK'
  BY <1>6, DocumentsAssumption DEF TypeOK, UpsertDocument, repository, progress, history, held, retrieval
<1>11. ASSUME NEW d \in Deletions, DeleteSource(d) PROVE TypeOK'
  <2>1. d.scope \in Scopes /\ d.path \in Paths
    BY DocumentsAssumption
  <2>2. points' \subseteq Points /\ undisturbed' \subseteq Learns
    BY <1>11 DEF TypeOK, DeleteSource
  <2>3. deleted' \in [Scopes -> SUBSET Paths]
    BY <1>11, <2>1 DEF TypeOK, DeleteSource
  <2> QED BY <1>11, <2>2, <2>3 DEF TypeOK, DeleteSource, repository, progress, retrieval
<1>7. ASSUME NEW s \in Scopes, ReadRules(s) PROVE TypeOK'
  BY <1>7 DEF TypeOK, ReadRules, repository, progress, history, held
<1>8. CASE Search
  <2>1. \A p \in points : <<p.at.path, p.at.symbol>> \in Paths \X Symbols
    BY DEF TypeOK, Points, Definitions
  <2>2. examples' \subseteq SymbolsOf(points)
    BY <1>8 DEF Search, Mined, Selected, SymbolsOf
  <2>3. examples' \subseteq Paths \X Symbols
    BY <2>1, <2>2 DEF SymbolsOf
  <2> QED BY <1>8, <2>3 DEF TypeOK, Search, repository, progress, history, held
<1>9. CASE Abandon
  BY <1>9 DEF TypeOK, Abandon, repository, progress, history, held
<1>10. CASE UNCHANGED vars
  BY <1>10 DEF TypeOK, vars, repository, progress, history, held, retrieval
<1> QED BY <1>2, <1>3, <1>4, <1>5, <1>6, <1>7, <1>8, <1>9, <1>10, <1>11 DEF Next

\* Every variable keeps its type: in particular no request stores anything but
\* whole chunks of definitions that were found.
THEOREM TypeCorrect == Spec => []TypeOK
BY TypeInit, TypeStep, PTL DEF Spec

----------------------------------------------------------------------------

\* What requests do to the source chunks of each scope.

\* A call that has sent nothing has written nothing.
LEMMA NothingWritten ==
    ASSUME TypeOK, NEW n \in Learns, sent[n] = 0
    PROVE  Written(n) = {}
<1>1. Len(Found(n)) \in Nat
  BY TreesAssumption DEF TypeOK, Found
<1> QED BY <1>1 DEF Written, Chunks, Chunk, Least

\* Two consecutive ranges of chunks make one.
LEMMA ChunksSplit ==
    ASSUME TypeOK, NEW n \in Learns, NEW j \in Nat, NEW k \in Nat, j <= k
    PROVE  Chunks(n, 0, k) = Chunks(n, 0, j) \cup Chunks(n, j, k)
<1>1. Len(Found(n)) \in Nat
  BY TreesAssumption DEF TypeOK, Found
<1>2. 0 + 1 .. Least(k, Len(Found(n))) =
        (0 + 1 .. Least(j, Len(Found(n)))) \cup (j + 1 .. Least(k, Len(Found(n))))
  BY <1>1 DEF Least
<1> QED BY <1>2 DEF Chunks

\* The filter of a delete selects the source chunks of exactly one scope.
LEMMA SelectedIsSource ==
    ASSUME TypeOK, NEW s \in Scopes
    PROVE  Selected(s) = SourceOf(s)
<1>1. \A p \in points : p.scope \in Scopes
  BY DEF TypeOK, Points
<1> QED BY <1>1, ScopesAssumption DEF Selected, Matches, SourceOf

\* Chunks are source chunks of the scope their call names.
LEMMA ChunksAreSource ==
    ASSUME NEW n \in Learns, NEW j, NEW k
    PROVE  \A p \in Chunks(n, j, k) : p.scope = scope[n] /\ p.kind = "source"
BY DEF Chunks, Chunk

\* After the first request of a call its scope has the chunks sent, alone.
LEMMA FirstRequestReplaces ==
    ASSUME TypeOK, NEW n \in Learns, FirstRequest(n), Sent(n)
    PROVE  \A s \in Scopes :
             SourceOf(s)' = IF s = scope[n] THEN Written(n)' ELSE SourceOf(s)
<1> DEFINE new == Chunks(n, 0, BatchSize)
<1>1. Written(n)' = new
  <2>1. sent'[n] = BatchSize
    BY BoundsAssumption DEF TypeOK, FirstRequest, Sent
  <2> QED BY <2>1 DEF Written, Chunks, Chunk, Found, Sent, progress
<1>2. points' = (points \ SourceOf(scope[n])) \cup new
  BY SelectedIsSource DEF TypeOK, FirstRequest
<1>3. scope' = scope
  BY DEF Sent
<1>4. \A p \in new : p.scope = scope[n] /\ p.kind = "source"
  BY ChunksAreSource
<1> HIDE DEF new
<1> QED BY <1>1, <1>2, <1>3, <1>4 DEF SourceOf

\* A later request adds the chunks that follow, to its scope only.
LEMMA NextRequestAdds ==
    ASSUME TypeOK, NEW n \in Learns, NextRequest(n), Sent(n)
    PROVE  /\ \A s \in Scopes : SourceOf(s)' =
                IF s = scope[n] THEN SourceOf(s) \cup Chunks(n, sent[n], sent[n] + BatchSize)
                ELSE SourceOf(s)
           /\ Written(n)' = Written(n) \cup Chunks(n, sent[n], sent[n] + BatchSize)
<1> DEFINE new == Chunks(n, sent[n], sent[n] + BatchSize)
<1>1. Written(n)' = Written(n) \cup new
  <2>1. sent[n] \in Nat /\ sent[n] + BatchSize \in Nat /\ sent[n] <= sent[n] + BatchSize
    BY BoundsAssumption DEF TypeOK
  <2>2. sent'[n] = sent[n] + BatchSize
    BY DEF TypeOK, Sent
  <2>3. Written(n)' = Chunks(n, 0, sent[n] + BatchSize)
    BY <2>2 DEF Written, Chunks, Chunk, Found, Sent, progress
  <2>4. Chunks(n, 0, sent[n] + BatchSize) = Chunks(n, 0, sent[n]) \cup new
    BY <2>1, ChunksSplit
  <2> QED BY <2>3, <2>4 DEF Written
<1>2. points' = points \cup new
  BY DEF NextRequest
<1>3. scope' = scope
  BY DEF Sent
<1>4. \A p \in new : p.scope = scope[n] /\ p.kind = "source"
  BY ChunksAreSource
<1> HIDE DEF new
<1>5. \A s \in Scopes : SourceOf(s)' = IF s = scope[n] THEN SourceOf(s) \cup new ELSE SourceOf(s)
  BY <1>2, <1>3, <1>4 DEF SourceOf
<1> QED BY <1>1, <1>5 DEF new

\* Neither touches what another call has written.
LEMMA OthersWritten ==
    ASSUME TypeOK, NEW n \in Learns, Sent(n), NEW m \in Learns, m # n
    PROVE  sent'[m] = sent[m] /\ Written(m)' = Written(m) /\ Remaining(m)' = Remaining(m)
<1>1. sent'[m] = sent[m]
  BY DEF TypeOK, Sent
<1> QED BY <1>1 DEF Written, Chunks, Chunk, Found, Remaining, Sent, progress

----------------------------------------------------------------------------

\* The inductive invariant behind IndexIsOfLiveCalls: a call that may still
\* write, and has begun to, is among those whose chunks its scope may hold.

SentFollowsPhase ==
    \A n \in Learns :
        /\ phase[n] \in {"new", "learned", "stored", "scanned", "extracted"} => sent[n] = 0
        /\ phase[n] = "writing" => sent[n] # 0

LiveHaveWritten ==
    \A s \in Scopes : \A n \in live[s] : scope[n] = s /\ sent[n] # 0

WritersAreLive ==
    \A n \in Learns :
        phase[n] \in {"writing", "lost"} /\ sent[n] # 0 /\ Remaining(n) => n \in live[scope[n]]

IndexInv == TypeOK /\ SentFollowsPhase /\ LiveHaveWritten /\ WritersAreLive /\ IndexIsOfLiveCalls

LEMMA IndexInit == Init => IndexInv
<1> SUFFICES ASSUME Init PROVE IndexInv
  OBVIOUS
<1>1. TypeOK
  BY TypeInit
<1>2. SentFollowsPhase /\ LiveHaveWritten /\ WritersAreLive
  BY DEF Init, SentFollowsPhase, LiveHaveWritten, WritersAreLive
<1>3. IndexIsOfLiveCalls
  BY DEF Init, IndexIsOfLiveCalls, SourceOf
<1> QED BY <1>1, <1>2, <1>3 DEF IndexInv

\* A step that changes no chunk of any scope and no call that has written.
LEMMA IndexKept ==
    ASSUME IndexInv, UNCHANGED <<scope, sent, held>>,
           \A s \in Scopes : SourceOf(s)' = SourceOf(s),
           \A n \in Learns : sent[n] # 0 => label'[n] = label[n] /\ content'[n] = content[n]
    PROVE  LiveHaveWritten' /\ IndexIsOfLiveCalls'
<1>1. LiveHaveWritten' /\ live' = live /\ deleted' = deleted
  BY DEF IndexInv, LiveHaveWritten, held
<1>2. \A s \in Scopes : \A n \in live[s] : Written(n)' = Written(n)
  BY <1>1 DEF IndexInv, TypeOK, LiveHaveWritten, Written, Chunks, Chunk, Found
<1>3. \A s \in Scopes : UNION {Written(n) : n \in live[s]} = (UNION {Written(n) : n \in live[s]})'
  BY <1>1, <1>2
<1>4. IndexIsOfLiveCalls'
  BY <1>1, <1>2, <1>3 DEF IndexInv, IndexIsOfLiveCalls
<1> QED BY <1>1, <1>4

\* Inserting a document leaves every scope's source chunks alone.
LEMMA DocumentsApart ==
    ASSUME NEW d \in Documents, UpsertDocument(d), NEW s \in Scopes
    PROVE  SourceOf(s)' = SourceOf(s)
BY DocumentsAssumption DEF UpsertDocument, SourceOf

\* A deletion takes a path from the source chunks of its own scope.
LEMMA DeletionTakesPath ==
    ASSUME TypeOK, NEW d \in Deletions, DeleteSource(d), NEW s \in Scopes
    PROVE  SourceOf(s)' = {p \in SourceOf(s) : ~ (s = d.scope /\ p.at.path = d.path)}
<1>1. d.scope \in Scopes /\ \A p \in SourceOf(s) : Matches(p, d.scope) <=> s = d.scope
  BY DocumentsAssumption, ScopesAssumption DEF Matches, SourceOf
<1> QED BY <1>1 DEF DeleteSource, SourceOf

\* Deleting whatever is at a path keeps the relation, but for that path.
LEMMA DeletionKeepsIndex ==
    ASSUME IndexInv, NEW d \in Deletions, DeleteSource(d)
    PROVE  LiveHaveWritten' /\ IndexIsOfLiveCalls'
<1>1. /\ TypeOK /\ LiveHaveWritten /\ IndexIsOfLiveCalls
      /\ UNCHANGED <<scope, sent, live, label, content>>
  BY DEF IndexInv, DeleteSource, progress
<1>2. LiveHaveWritten'
  BY <1>1 DEF LiveHaveWritten
<1>3. \A n \in Learns : Written(n)' = Written(n)
  BY <1>1 DEF Written, Chunks, Chunk, Found
<1>4. \A s \in Scopes : SourceOf(s)' = {p \in SourceOf(s) : ~ (s = d.scope /\ p.at.path = d.path)}
  BY <1>1, DeletionTakesPath
<1>5. \A s \in Scopes : deleted'[s] = IF s = d.scope THEN deleted[s] \cup {d.path} ELSE deleted[s]
  BY <1>1 DEF TypeOK, DeleteSource
<1>6. ASSUME NEW s \in Scopes
      PROVE  /\ SourceOf(s)' \subseteq UNION {Written(n)' : n \in live[s]}
             /\ \A n \in live[s] : live[s] = {n} =>
                   {p \in Written(n)' : p.at.path \notin deleted'[s]} \subseteq SourceOf(s)'
  <2>1. \A n \in live[s] : n \in Learns /\ Written(n)' = Written(n)
    BY <1>1, <1>3 DEF TypeOK
  <2>2. /\ SourceOf(s) \subseteq UNION {Written(n) : n \in live[s]}
        /\ \A n \in live[s] : live[s] = {n} =>
              {p \in Written(n) : p.at.path \notin deleted[s]} \subseteq SourceOf(s)
    BY <1>1 DEF IndexIsOfLiveCalls
  <2>3. UNION {Written(n)' : n \in live[s]} = UNION {Written(n) : n \in live[s]}
    BY <2>1
  <2>4. SourceOf(s)' \subseteq SourceOf(s)
    BY <1>4
  <2>5. ASSUME NEW n \in live[s], live[s] = {n}, NEW p \in Written(n)', p.at.path \notin deleted'[s]
        PROVE  p \in SourceOf(s)'
    <3>1. p \in Written(n) /\ p.at.path \notin deleted[s] /\ ~ (s = d.scope /\ p.at.path = d.path)
      BY <1>5, <2>1, <2>5
    <3>2. p \in SourceOf(s)
      BY <2>2, <2>5, <3>1
    <3> QED BY <1>4, <3>1, <3>2
  <2> QED BY <2>2, <2>3, <2>4, <2>5
<1> QED BY <1>1, <1>2, <1>6 DEF IndexIsOfLiveCalls

\* A first request leaves the scope with what it sent, its overlaps still live.
LEMMA FirstRequestKeepsIndex ==
    ASSUME IndexInv, NEW n \in Learns, FirstRequest(n), Sent(n)
    PROVE  LiveHaveWritten' /\ IndexIsOfLiveCalls'
<1> DEFINE s == scope[n]
<1>1. TypeOK /\ LiveHaveWritten /\ IndexIsOfLiveCalls /\ scope' = scope /\ s \in Scopes
  BY DEF IndexInv, TypeOK, Sent
<1>2. sent'[n] # 0
  BY BoundsAssumption DEF IndexInv, TypeOK, FirstRequest, Sent
<1>3. /\ live'[s] = {n} \cup Overlapping(n)
      /\ \A t \in Scopes : t # s => live'[t] = live[t] /\ deleted'[t] = deleted[t]
  BY <1>1 DEF TypeOK, FirstRequest
<1>4. \A m \in Overlapping(n) : m \in Learns /\ m # n /\ scope[m] = s /\ sent[m] # 0
  BY DEF Overlapping, Others
<1>5. \A m \in Learns : m # n => sent'[m] = sent[m] /\ Written(m)' = Written(m)
  BY <1>1, OthersWritten
<1>6. \A t \in Scopes : t # s => \A m \in live[t] : m \in Learns /\ m # n
  BY <1>1 DEF TypeOK, LiveHaveWritten
<1>7. LiveHaveWritten'
  BY <1>1, <1>2, <1>3, <1>4, <1>5, <1>6 DEF LiveHaveWritten
<1>8. \A t \in Scopes : SourceOf(t)' = IF t = s THEN Written(n)' ELSE SourceOf(t)
  BY <1>1, FirstRequestReplaces
<1>9. ASSUME NEW t \in Scopes
      PROVE  /\ SourceOf(t)' \subseteq UNION {Written(m)' : m \in live'[t]}
             /\ \A m \in live'[t] : live'[t] = {m} =>
                   {p \in Written(m)' : p.at.path \notin deleted'[t]} \subseteq SourceOf(t)'
  <2>1. CASE t = s
    <3>1. n \in live'[t] /\ \A m \in live'[t] : live'[t] = {m} => m = n
      BY <2>1, <1>3
    <3>2. Written(n)' \subseteq UNION {Written(m)' : m \in live'[t]}
      BY <3>1
    <3> QED BY <2>1, <3>1, <3>2, <1>8
  <2>2. CASE t # s
    <3>1. SourceOf(t)' = SourceOf(t) /\ live'[t] = live[t] /\ deleted'[t] = deleted[t]
      BY <2>2, <1>3, <1>8
    <3>2. \A m \in live[t] : Written(m)' = Written(m)
      BY <2>2, <1>5, <1>6
    <3> QED BY <3>1, <3>2, <1>1 DEF IndexIsOfLiveCalls
  <2> QED BY <2>1, <2>2
<1> QED BY <1>1, <1>7, <1>9 DEF IndexIsOfLiveCalls

\* A later request is of a live call, and adds what that call has written now.
LEMMA NextRequestKeepsIndex ==
    ASSUME IndexInv, NEW n \in Learns, phase[n] \in {"writing", "lost"}, NextRequest(n), Sent(n)
    PROVE  LiveHaveWritten' /\ IndexIsOfLiveCalls'
<1> DEFINE s == scope[n]
<1>1. /\ TypeOK /\ LiveHaveWritten /\ IndexIsOfLiveCalls
      /\ scope' = scope /\ live' = live /\ deleted' = deleted /\ s \in Scopes
  BY DEF IndexInv, TypeOK, Sent, NextRequest, held
<1>2. n \in live[s]
  BY DEF IndexInv, WritersAreLive, NextRequest
<1>3. sent'[n] # 0
  BY BoundsAssumption DEF IndexInv, TypeOK, Sent
<1>4. \A m \in Learns : m # n => sent'[m] = sent[m] /\ Written(m)' = Written(m)
  BY <1>1, OthersWritten
<1>5. LiveHaveWritten'
  BY <1>1, <1>3, <1>4 DEF TypeOK, LiveHaveWritten
<1>6. PICK new : /\ \A t \in Scopes :
                      SourceOf(t)' = IF t = s THEN SourceOf(t) \cup new ELSE SourceOf(t)
                 /\ Written(n)' = Written(n) \cup new
  BY <1>1, NextRequestAdds
<1>7. \A t \in Scopes : \A m \in live[t] : m \in Learns /\ Written(m) \subseteq Written(m)'
  BY <1>1, <1>4, <1>6 DEF TypeOK
<1>8. ASSUME NEW t \in Scopes
      PROVE  /\ SourceOf(t)' \subseteq UNION {Written(m)' : m \in live[t]}
             /\ \A m \in live[t] : live[t] = {m} =>
                   {p \in Written(m)' : p.at.path \notin deleted[t]} \subseteq SourceOf(t)'
  <2>1. SourceOf(t) \subseteq UNION {Written(m)' : m \in live[t]}
    BY <1>1, <1>7 DEF IndexIsOfLiveCalls
  <2>2. \A m \in live[t] : live[t] = {m} =>
            {p \in Written(m) : p.at.path \notin deleted[t]} \subseteq SourceOf(t)
    BY <1>1 DEF IndexIsOfLiveCalls
  <2>3. CASE t = s
    <3>1. \A m \in live[t] : live[t] = {m} => m = n
      BY <2>3, <1>2
    <3>2. Written(n)' \subseteq UNION {Written(m)' : m \in live[t]}
      BY <2>3, <1>2
    <3>3. new \subseteq Written(n)'
      BY <1>6
    <3>4. live[t] = {n} => {p \in Written(n)' : p.at.path \notin deleted[t]} \subseteq SourceOf(t) \cup new
      BY <1>2, <1>6, <2>2, <2>3
    <3> QED BY <2>1, <2>3, <3>1, <3>2, <3>3, <3>4, <1>6
  <2>4. CASE t # s
    <3>1. \A m \in live[t] : m # n
      BY <2>4, <1>1 DEF LiveHaveWritten
    <3> QED BY <2>1, <2>2, <2>4, <3>1, <1>4, <1>6, <1>7
  <2> QED BY <2>3, <2>4
<1> QED BY <1>1, <1>5, <1>8 DEF IndexIsOfLiveCalls

\* Requests keep the whole relation.
LEMMA RequestKeepsInv ==
    ASSUME IndexInv, NEW n \in Learns, Replace(n) \/ Put(n) \/ Arrive(n), TypeOK'
    PROVE  IndexInv'
<1>1. Sent(n) /\ (FirstRequest(n) \/ (NextRequest(n) /\ phase[n] \in {"writing", "lost"}))
  BY DEF Replace, Put, Arrive
<1>2. LiveHaveWritten' /\ IndexIsOfLiveCalls'
  BY <1>1, FirstRequestKeepsIndex, NextRequestKeepsIndex
<1>3. /\ phase'[n] \in {"writing", "failed"}
      /\ \A m \in Learns : m # n => phase'[m] = phase[m] /\ sent'[m] = sent[m] /\ Remaining(m)' = Remaining(m)
  <2>1. phase'[n] \in {"writing", "failed"} /\ \A m \in Learns : m # n => phase'[m] = phase[m]
    BY DEF IndexInv, TypeOK, Replace, Put, Arrive, Enter
  <2> QED BY <2>1, <1>1, OthersWritten DEF IndexInv
<1>4. sent'[n] # 0
  BY <1>1, BoundsAssumption DEF IndexInv, TypeOK, Sent
<1>5. SentFollowsPhase'
  BY <1>3, <1>4 DEF IndexInv, SentFollowsPhase
<1>6. WritersAreLive'
  <2>1. scope' = scope /\ scope[n] \in Scopes
    BY <1>1 DEF IndexInv, TypeOK, Sent
  <2>2. CASE FirstRequest(n)
    <3>1. \A m \in Learns : m # n /\ scope[m] = scope[n]
                            /\ phase[m] \in {"writing", "lost"} /\ sent[m] # 0 /\ Remaining(m)
                            => m \in Overlapping(n)
      BY DEF Overlapping, Others
    <3>2. live'[scope[n]] = {n} \cup Overlapping(n)
          /\ \A t \in Scopes : t # scope[n] => live'[t] = live[t]
      BY <2>1, <2>2 DEF IndexInv, TypeOK, FirstRequest
    <3>3. \A m \in Learns : scope[m] \in Scopes
      BY DEF IndexInv, TypeOK
    <3> QED BY <2>1, <3>1, <3>2, <3>3, <1>3 DEF IndexInv, WritersAreLive
  <2>3. CASE NextRequest(n) /\ phase[n] \in {"writing", "lost"}
    <3>1. live' = live
      BY <2>3 DEF NextRequest, held
    <3>2. n \in live[scope[n]]
      BY <2>3 DEF IndexInv, WritersAreLive, NextRequest
    <3> QED BY <2>1, <3>1, <3>2, <1>3 DEF IndexInv, WritersAreLive
  <2> QED BY <1>1, <2>2, <2>3
<1> QED BY <1>2, <1>5, <1>6 DEF IndexInv

\* So does every other step of a call.
LEMMA CallKeepsInv ==
    ASSUME IndexInv, TypeOK', NEW n \in Learns,
           \/ Learn(n) \/ StoreRules(n) \/ Scan(n) \/ Extract(n) \/ Succeed(n) \/ Fail(n) \/ GiveUp(n)
    PROVE  IndexInv'
<1>1. UNCHANGED <<points, scope, sent, held>> /\ live' = live
  BY DEF held, Learn, StoreRules, Scan, Extract, Succeed, Fail, GiveUp, history
<1>2. \A s \in Scopes : SourceOf(s)' = SourceOf(s)
  BY <1>1 DEF SourceOf
<1>3. \A m \in Learns : m # n => phase'[m] = phase[m] /\ label'[m] = label[m] /\ content'[m] = content[m]
  BY DEF IndexInv, TypeOK, Learn, StoreRules, Scan, Extract, Succeed, Fail, GiveUp, Enter, progress
<1>4. sent[n] # 0 => label' = label /\ content' = content
  BY DEF IndexInv, SentFollowsPhase, Learn, StoreRules, Scan, Extract, Succeed, Fail, GiveUp, progress
<1>5. LiveHaveWritten' /\ IndexIsOfLiveCalls'
  BY <1>1, <1>2, <1>3, <1>4, IndexKept
<1>6. SentFollowsPhase'
  <2>1. /\ phase'[n] \in {"learned", "stored", "scanned", "extracted"} => sent[n] = 0
        /\ phase'[n] \notin {"new", "writing"}
    BY DEF IndexInv, TypeOK, SentFollowsPhase, Learn, StoreRules, Scan, Extract, Succeed, Fail, GiveUp, Enter
  <2> QED BY <2>1, <1>1, <1>3 DEF IndexInv, SentFollowsPhase
<1>7. WritersAreLive'
  <2>1. phase'[n] \in {"writing", "lost"} /\ sent[n] # 0 => phase[n] \in {"writing", "lost"}
    BY DEF IndexInv, TypeOK, SentFollowsPhase, Learn, StoreRules, Scan, Extract, Succeed, Fail, GiveUp, Enter
  <2>2. \A m \in Learns : sent[m] # 0 => Remaining(m)' = Remaining(m)
    BY <1>1, <1>3, <1>4 DEF Remaining, Found
  <2> QED BY <2>1, <2>2, <1>1, <1>3 DEF IndexInv, WritersAreLive
<1> QED BY <1>5, <1>6, <1>7 DEF IndexInv

LEMMA IndexStep == IndexInv /\ [Next]_vars => IndexInv'
<1> SUFFICES ASSUME IndexInv, [Next]_vars PROVE IndexInv'
  OBVIOUS
<1>1. TypeOK'
  BY TypeStep DEF IndexInv
<1>2. ASSUME NEW n \in Learns, Replace(n) \/ Put(n) \/ Arrive(n) PROVE IndexInv'
  BY <1>1, <1>2, RequestKeepsInv
<1>3. ASSUME NEW n \in Learns,
             Learn(n) \/ StoreRules(n) \/ Scan(n) \/ Extract(n) \/ Succeed(n) \/ Fail(n) \/ GiveUp(n)
      PROVE  IndexInv'
  BY <1>1, <1>3, CallKeepsInv
<1>4. ASSUME UNCHANGED <<scope, phase, label, content, sent, held>>,
             \A s \in Scopes : SourceOf(s)' = SourceOf(s)
      PROVE  IndexInv'
  <2>1. LiveHaveWritten' /\ IndexIsOfLiveCalls'
    BY <1>4, IndexKept
  <2> QED BY <1>1, <1>4, <2>1 DEF IndexInv, SentFollowsPhase, WritersAreLive, Remaining, Found, held
<1>5. ASSUME NEW d \in Documents, UpsertDocument(d) PROVE IndexInv'
  <2>1. UNCHANGED <<scope, phase, label, content, sent, held>>
    BY <1>5 DEF UpsertDocument, progress, history
  <2> QED BY <1>4, <1>5, <2>1, DocumentsApart
<1>7. ASSUME NEW d \in Deletions, DeleteSource(d) PROVE IndexInv'
  <2>1. LiveHaveWritten' /\ IndexIsOfLiveCalls'
    BY <1>7, DeletionKeepsIndex
  <2>2. UNCHANGED <<scope, phase, label, content, sent, live>>
    BY <1>7 DEF DeleteSource, progress
  <2> QED BY <1>1, <2>1, <2>2 DEF IndexInv, SentFollowsPhase, WritersAreLive, Remaining, Found
<1>6. ASSUME \/ \E t \in Trees : Edit(t)
             \/ \E s \in Scopes : ReadRules(s)
             \/ Search \/ Abandon \/ UNCHANGED vars
      PROVE  IndexInv'
  <2>1. UNCHANGED <<points, scope, phase, label, content, sent, held>>
    BY <1>6 DEF Edit, ReadRules, Search, Abandon, vars, progress, history
  <2> QED BY <1>4, <2>1 DEF SourceOf
<1> QED BY <1>2, <1>3, <1>5, <1>6, <1>7 DEF Next

\* In every reachable state a scope holds only what its last replacement and the
\* calls that overlapped it have sent, and all of one call's if none overlapped,
\* but for the paths deleted since (qdrant_store.py:181).
THEOREM IndexCorrect == Spec => []IndexIsOfLiveCalls
<1>1. IndexInv => IndexIsOfLiveCalls
  BY DEF IndexInv
<1> QED BY <1>1, IndexInit, IndexStep, PTL DEF Spec

----------------------------------------------------------------------------

\* The inductive invariant behind UndisturbedLearnAgrees: what each phase of an
\* undisturbed call has established, and nobody else can have undone.

RulesAreLearned(n) == rules[scope[n]] = learned[n]

ExtractedIsLearned(n) == label[n] = learned[n] /\ content[n] = learned[n]

AgreesAt(n) ==
    /\ phase[n] # "new"
    /\ phase[n] \in {"learned", "stored", "scanned"} => learned[n] = tree
    /\ phase[n] = "scanned" => label[n] = tree
    /\ phase[n] \in {"stored", "scanned", "extracted", "writing", "succeeded"} => RulesAreLearned(n)
    /\ phase[n] \in {"extracted", "writing", "succeeded"} => ExtractedIsLearned(n)
    /\ phase[n] \in {"writing", "succeeded"} => \A s \in Scopes : s = scope[n] => SourceOf(s) = Written(n)
    /\ phase[n] = "succeeded" => ~ Remaining(n)

Agreement == \A n \in undisturbed : AgreesAt(n)

\* What a step must leave alone for a call to agree as before.
LEMMA AgreesKept ==
    ASSUME NEW n \in Learns, TypeOK, AgreesAt(n),
           tree' = tree \/ phase[n] \notin {"learned", "stored", "scanned"},
           scope' = scope, phase'[n] = phase[n], learned'[n] = learned[n],
           label'[n] = label[n], content'[n] = content[n], sent'[n] = sent[n],
           rules'[scope[n]] = rules[scope[n]],
           phase[n] \in {"writing", "succeeded"} =>
               \A s \in Scopes : s = scope[n] => SourceOf(s)' = SourceOf(s)
    PROVE  AgreesAt(n)'
<1>1. Written(n)' = Written(n) /\ Remaining(n)' = Remaining(n)
  BY DEF Written, Chunks, Chunk, Found, Remaining
<1> QED BY <1>1 DEF AgreesAt, RulesAreLearned, ExtractedIsLearned

\* A step of one call, seen from another that stays undisturbed.
LEMMA AgreesForOthers ==
    ASSUME TypeOK, NEW m \in Learns, NEW n \in undisturbed', n # m, AgreesAt(n),
           \/ Learn(m) \/ StoreRules(m) \/ Scan(m) \/ Extract(m) \/ Replace(m)
           \/ Put(m) \/ Succeed(m) \/ Fail(m) \/ GiveUp(m) \/ Arrive(m),
           n \in Learns
    PROVE  AgreesAt(n)'
<1>1. CASE Learn(m) \/ Scan(m) \/ Extract(m) \/ Succeed(m) \/ Fail(m) \/ GiveUp(m)
  <2>1. UNCHANGED <<tree, rules, points, scope, sent>>
    BY <1>1 DEF Learn, Scan, Extract, Succeed, Fail, GiveUp, repository
  <2>2. phase'[n] = phase[n] /\ learned'[n] = learned[n] /\ label'[n] = label[n] /\ content'[n] = content[n]
    BY <1>1 DEF TypeOK, Learn, Scan, Extract, Succeed, Fail, GiveUp, Enter, progress
  <2>3. \A s \in Scopes : SourceOf(s)' = SourceOf(s)
    BY <2>1 DEF SourceOf
  <2> QED BY <2>1, <2>2, <2>3, AgreesKept
<1>2. CASE StoreRules(m)
  <2>1. UNCHANGED <<tree, points, scope, sent, learned, label, content>>
    BY <1>2 DEF StoreRules, progress
  <2>2. phase'[n] = phase[n]
    BY <1>2 DEF TypeOK, StoreRules, Enter
  <2>3. scope[n] # scope[m]
    BY <1>2 DEF StoreRules, Others
  <2>4. rules'[scope[n]] = rules[scope[n]]
    BY <1>2, <2>3 DEF TypeOK, StoreRules
  <2>5. \A s \in Scopes : SourceOf(s)' = SourceOf(s)
    BY <2>1 DEF SourceOf
  <2> QED BY <2>1, <2>2, <2>4, <2>5, AgreesKept
<1>3. CASE Replace(m) \/ Put(m) \/ Arrive(m)
  <2>1. Sent(m) /\ (FirstRequest(m) \/ NextRequest(m))
    BY <1>3 DEF Replace, Put, Arrive
  <2>2. UNCHANGED <<tree, rules, scope, learned, label, content>>
    BY <2>1 DEF Sent, repository, progress
  <2>3. phase'[n] = phase[n] /\ sent'[n] = sent[n]
    BY <1>3, <2>1 DEF TypeOK, Replace, Put, Arrive, Enter, Sent
  <2>4. scope[n] # scope[m]
    BY <2>1 DEF Sent, Others
  <2>5. \A s \in Scopes : s = scope[n] => SourceOf(s)' = SourceOf(s)
    BY <2>1, <2>4, FirstRequestReplaces, NextRequestAdds
  <2> QED BY <2>2, <2>3, <2>5, AgreesKept
<1> QED BY <1>1, <1>2, <1>3

\* A call's own step leads from what one phase has established to the next.
LEMMA AgreesForItself ==
    ASSUME TypeOK, TypeOK', NEW n \in Learns, n \in undisturbed', n \in undisturbed => AgreesAt(n),
           \/ Learn(n) \/ StoreRules(n) \/ Scan(n) \/ Extract(n) \/ Replace(n)
           \/ Put(n) \/ Succeed(n) \/ Fail(n) \/ GiveUp(n) \/ Arrive(n)
    PROVE  AgreesAt(n)'
<1> USE DEF RulesAreLearned, ExtractedIsLearned, Enter
<1>1. CASE Learn(n)
  BY <1>1 DEF TypeOK, AgreesAt, Learn, repository
<1> SUFFICES ASSUME ~ Learn(n) PROVE AgreesAt(n)'
  BY <1>1
<1>2. AgreesAt(n)
  BY DEF StoreRules, Scan, Extract, Replace, Put, Succeed, Fail, GiveUp, Arrive, Sent, history
<1>3. CASE StoreRules(n)
  BY <1>2, <1>3 DEF TypeOK, AgreesAt, StoreRules, progress
<1>4. CASE Scan(n)
  BY <1>2, <1>4 DEF TypeOK, AgreesAt, Scan, repository
<1>5. CASE Extract(n)
  BY <1>2, <1>5 DEF TypeOK, AgreesAt, Extract, repository
<1>6. CASE Replace(n)
  <2>1. \A s \in Scopes : s = scope[n] => SourceOf(s)' = Written(n)'
    BY <1>6, FirstRequestReplaces DEF Replace
  <2>2. phase'[n] = "writing" /\ UNCHANGED <<rules, scope, learned, label, content>>
    BY <1>6 DEF TypeOK, Replace, Sent, repository, progress
  <2> QED BY <1>2, <1>6, <2>1, <2>2 DEF AgreesAt, Replace
<1>7. CASE Put(n)
  <2>1. \A s \in Scopes : s = scope[n] => SourceOf(s)' = Written(n)'
    BY <1>2, <1>7, NextRequestAdds DEF Put, AgreesAt
  <2>2. phase'[n] = "writing" /\ phase[n] = "writing" /\ UNCHANGED <<rules, scope, learned, label, content>>
    BY <1>7 DEF Put, Sent, repository, progress
  <2> QED BY <1>2, <2>1, <2>2 DEF AgreesAt
<1>8. CASE Succeed(n)
  <2>1. UNCHANGED <<rules, points, scope, learned, label, content, sent>>
    BY <1>8 DEF Succeed, repository, progress
  <2>2. Written(n)' = Written(n) /\ Remaining(n)' = Remaining(n) /\ \A s \in Scopes : SourceOf(s)' = SourceOf(s)
    BY <2>1 DEF Written, Chunks, Chunk, Found, Remaining, SourceOf
  <2>3. phase'[n] = "succeeded" /\ phase[n] = "writing" /\ ~ Remaining(n)
    BY <1>8 DEF TypeOK, Succeed
  <2> QED BY <1>2, <2>1, <2>2, <2>3 DEF AgreesAt
<1>9. CASE Fail(n) \/ GiveUp(n) \/ Arrive(n)
  <2>1. phase'[n] \in {"failed", "lost"}
    BY <1>9 DEF TypeOK, Fail, GiveUp, Arrive
  <2> QED BY <2>1 DEF AgreesAt
<1> QED BY <1>3, <1>4, <1>5, <1>6, <1>7, <1>8, <1>9

LEMMA AgreementStep == IndexInv /\ Agreement /\ [Next]_vars => Agreement'
<1> SUFFICES ASSUME IndexInv, Agreement, [Next]_vars, NEW n \in undisturbed' PROVE AgreesAt(n)'
  BY DEF Agreement
<1>1. TypeOK /\ TypeOK' /\ n \in Learns
  BY TypeStep DEF IndexInv, TypeOK
<1>2. n \in undisturbed => AgreesAt(n)
  BY DEF Agreement
<1>3. ASSUME NEW m \in Learns,
             \/ Learn(m) \/ StoreRules(m) \/ Scan(m) \/ Extract(m) \/ Replace(m)
             \/ Put(m) \/ Succeed(m) \/ Fail(m) \/ GiveUp(m) \/ Arrive(m)
      PROVE  AgreesAt(n)'
  <2>1. CASE n = m
    BY <1>1, <1>2, <1>3, <2>1, AgreesForItself
  <2>2. CASE n # m
    <3>1. n \in undisturbed
      BY <1>3, <2>2 DEF Learn, StoreRules, Scan, Extract, Replace, Put, Succeed, Fail, GiveUp, Arrive, Sent, history
    <3> QED BY <1>1, <1>2, <1>3, <2>2, <3>1, AgreesForOthers
  <2> QED BY <2>1, <2>2
<1>4. ASSUME NEW t \in Trees, Edit(t) PROVE AgreesAt(n)'
  <2>1. n \in undisturbed /\ phase[n] \notin {"learned", "stored", "scanned"}
    BY <1>4 DEF Edit
  <2>2. UNCHANGED <<rules, points, scope, phase, learned, label, content, sent>>
    BY <1>4 DEF Edit, progress
  <2>3. \A s \in Scopes : SourceOf(s)' = SourceOf(s)
    BY <2>2 DEF SourceOf
  <2> QED BY <1>1, <1>2, <2>1, <2>2, <2>3, AgreesKept
<1>5. ASSUME UNCHANGED <<tree, rules, scope, phase, learned, label, content, sent, undisturbed>>,
             \A s \in Scopes : SourceOf(s)' = SourceOf(s)
      PROVE  AgreesAt(n)'
  BY <1>1, <1>2, <1>5, AgreesKept
<1>6. ASSUME NEW d \in Documents, UpsertDocument(d) PROVE AgreesAt(n)'
  <2>1. UNCHANGED <<tree, rules, scope, phase, learned, label, content, sent, undisturbed>>
    BY <1>6 DEF UpsertDocument, repository, progress, history
  <2> QED BY <1>5, <1>6, <2>1, DocumentsApart
<1>8. ASSUME NEW d \in Deletions, DeleteSource(d) PROVE AgreesAt(n)'
  <2>1. UNCHANGED <<tree, rules, scope, phase, learned, label, content, sent>>
    BY <1>8 DEF DeleteSource, repository, progress
  <2>2. /\ n \in undisturbed
        /\ scope[n] = d.scope => \A p \in Written(n) : p.at.path # d.path
    BY <1>8 DEF DeleteSource
  <2>3. phase[n] \in {"writing", "succeeded"} =>
            \A s \in Scopes : s = scope[n] => SourceOf(s) = Written(n)
    BY <1>2, <2>2 DEF AgreesAt
  <2>4. \A s \in Scopes : SourceOf(s)' = {p \in SourceOf(s) : ~ (s = d.scope /\ p.at.path = d.path)}
    BY <1>1, <1>8, DeletionTakesPath
  <2>5. phase[n] \in {"writing", "succeeded"} =>
            \A s \in Scopes : s = scope[n] => SourceOf(s)' = SourceOf(s)
    BY <2>2, <2>3, <2>4
  <2> QED BY <1>1, <1>2, <2>1, <2>2, <2>5, AgreesKept
<1>7. ASSUME (\E s \in Scopes : ReadRules(s)) \/ Search \/ Abandon \/ UNCHANGED vars PROVE AgreesAt(n)'
  <2>1. UNCHANGED <<tree, rules, points, scope, phase, learned, label, content, sent, undisturbed>>
    BY <1>7 DEF ReadRules, Search, Abandon, vars, repository, progress, history
  <2> QED BY <1>5, <2>1 DEF SourceOf
<1> QED BY <1>3, <1>4, <1>6, <1>7, <1>8 DEF Next

\* What agreement comes to when a call has succeeded.
LEMMA AgreementSuffices == TypeOK /\ Agreement => UndisturbedLearnAgrees
<1> SUFFICES ASSUME TypeOK, Agreement, NEW n \in undisturbed, phase[n] = "succeeded"
             PROVE  /\ rules[scope[n]] = learned[n]
                    /\ SourceOf(scope[n]) =
                         {[scope |-> scope[n], kind |-> "source",
                           at |-> Extracted[learned[n]][learned[n]][i],
                           label |-> learned[n], content |-> learned[n]] :
                              i \in 1..Len(Extracted[learned[n]][learned[n]])}
  BY DEF UndisturbedLearnAgrees
<1>1. n \in Learns /\ scope[n] \in Scopes /\ sent[n] \in Nat /\ Len(Found(n)) \in Nat
  BY TreesAssumption DEF TypeOK, Found
<1>2. /\ rules[scope[n]] = learned[n] /\ label[n] = learned[n] /\ content[n] = learned[n]
      /\ SourceOf(scope[n]) = Written(n) /\ ~ Remaining(n)
  BY <1>1 DEF Agreement, AgreesAt, RulesAreLearned, ExtractedIsLearned
<1>3. 0 + 1 .. Least(sent[n], Len(Found(n))) = 1..Len(Found(n))
  BY <1>1, <1>2 DEF Remaining, Least
<1> QED BY <1>2, <1>3 DEF Written, Chunks, Chunk, Found

\* A call of /learn that nobody disturbed, and that succeeded, leaves its scope
\* with rules and source chunks of one tree, all of them (api.py:137).
THEOREM UndisturbedCorrect == Spec => []UndisturbedLearnAgrees
<1>1. Init => IndexInv /\ Agreement
  BY IndexInit DEF Init, Agreement
<1>2. IndexInv /\ Agreement => UndisturbedLearnAgrees
  BY AgreementSuffices DEF IndexInv
<1> QED BY <1>1, <1>2, IndexStep, AgreementStep, PTL DEF Spec

----------------------------------------------------------------------------

\* A request removes points only as the first of its call: source chunks of the
\* scope the call names.
LEMMA RequestRemoves ==
    ASSUME TypeOK, NEW n \in Learns, Replace(n) \/ Put(n) \/ Arrive(n), points \ points' # {}
    PROVE  /\ sent[n] = 0 /\ sent'[n] # 0
           /\ \A p \in points \ points' : p.scope = scope[n] /\ p.kind = "source"
<1>1. ~ NextRequest(n)
  BY DEF NextRequest
<1>2. Sent(n) /\ FirstRequest(n)
  BY <1>1 DEF Replace, Put, Arrive
<1>3. sent[n] = 0 /\ sent'[n] # 0
  BY <1>2, BoundsAssumption DEF TypeOK, FirstRequest, Sent
<1>4. points \ points' \subseteq Selected(scope[n])
  BY <1>2 DEF FirstRequest
<1>5. \A p \in Selected(scope[n]) : p.scope = scope[n] /\ p.kind = "source"
  BY SelectedIsSource DEF TypeOK, SourceOf
<1> QED BY <1>3, <1>4, <1>5

\* A deletion removes what is at its path in its scope.
LEMMA DeletionRemoves ==
    ASSUME TypeOK, NEW d \in Deletions, DeleteSource(d)
    PROVE  sent' = sent /\ \A p \in points \ points' : p.scope = d.scope /\ p.at.path = d.path
<1>1. \A p \in points \ points' : Matches(p, d.scope) /\ p.at.path = d.path
  BY DEF DeleteSource
<1>2. d.scope \in Scopes /\ \A p \in points : p.scope \in Scopes
  BY DocumentsAssumption DEF TypeOK, Points
<1> QED BY <1>1, <1>2, ScopesAssumption DEF Matches, DeleteSource

LEMMA PointsKept ==
    ASSUME TypeOK, [Next]_vars, points \ points' # {}
    PROVE  \/ \E n \in Learns :
                 /\ sent[n] = 0 /\ sent'[n] # 0
                 /\ \A p \in points \ points' : p.scope = scope[n] /\ p.kind = "source"
           \/ \E d \in Deletions :
                 /\ UNCHANGED sent
                 /\ \A p \in points \ points' : p.scope = d.scope /\ p.at.path = d.path
<1>1. CASE \E n \in Learns : Replace(n) \/ Put(n) \/ Arrive(n)
  BY <1>1, RequestRemoves
<1>2. CASE \E d \in Deletions : DeleteSource(d)
  BY <1>2, DeletionRemoves
<1>3. ~ UNCHANGED points /\ ~ \E d \in Documents : UpsertDocument(d)
  BY DEF UpsertDocument
<1> QED BY <1>1, <1>2, <1>3 DEF Next, vars, Learn, StoreRules, Scan, Extract, Succeed, Fail,
      GiveUp, Edit, ReadRules, Search, Abandon

\* What goes in one step are source chunks of the one scope that is replaced,
\* whatever its modules or its project hold, or what is at one path of one scope
\* (qdrant_store.py:290, 321).
THEOREM OthersKept == Spec => OtherScopesKept
<1>1. TypeOK /\ [Next]_vars =>
        [LET gone == points \ points'
         IN  \/ gone = {}
             \/ \E n \in Learns :
                   /\ sent[n] = 0 /\ sent'[n] # 0
                   /\ \A p \in gone : p.scope = scope[n] /\ p.kind = "source"
             \/ \E d \in Deletions :
                   /\ UNCHANGED sent
                   /\ \A p \in gone : p.scope = d.scope /\ p.at.path = d.path]_vars
  BY PointsKept
<1> QED BY <1>1, TypeInit, TypeStep, PTL DEF Spec, OtherScopesKept

----------------------------------------------------------------------------

\* What mining makes of the best matches.

\* The image of a finite set is finite, and no larger.
LEMMA ImageIsFinite ==
    ASSUME NEW S, IsFiniteSet(S), NEW f
    PROVE  IsFiniteSet({f[x] : x \in S}) /\ Cardinality({f[x] : x \in S}) <= Cardinality(S)
<1> DEFINE g == [x \in S |-> f[x]]
<1>1. g \in Surjection(S, {f[x] : x \in S})
  BY DEF Surjection
<1> HIDE DEF g
<1> QED BY <1>1, FS_Surjection

\* The symbol a chunk is of.
SymbolOf(p) == <<p.at.path, p.at.symbol>>

\* Those of found that are of symbol x.
Among(found, x) == {p \in found : SymbolOf(p) = x}

\* A scope's source chunks, and the definitions of one symbol in what its calls
\* have found, are finitely many.
LEMMA IndexIsFinite ==
    ASSUME IndexInv, NEW s \in Scopes
    PROVE  /\ IsFiniteSet(SourceOf(s))
           /\ \A x : IsFiniteSet(Occurrences(s, x))
<1>1. TypeOK /\ live[s] \subseteq Learns
  BY DEF IndexInv, TypeOK
<1>2. IsFiniteSet(live[s])
  <2>1. IsFiniteSet(Learns)
    BY FS_Interval, BoundsAssumption DEF Learns
  <2> QED BY <1>1, <2>1, FS_Subset
<1>3. \A n \in live[s] : Len(Found(n)) \in Nat /\ sent[n] \in Nat
  BY <1>1, TreesAssumption DEF TypeOK, Found
<1>4. \A n \in live[s] : IsFiniteSet(Written(n))
  <2> SUFFICES ASSUME NEW n \in live[s] PROVE IsFiniteSet(Written(n))
    OBVIOUS
  <2> DEFINE I == 0 + 1 .. Least(sent[n], Len(Found(n)))
             chunk == [i \in I |-> Chunk(n, i)]
  <2>1. 0 + 1 \in Int /\ Least(sent[n], Len(Found(n))) \in Int
    BY <1>3 DEF Least
  <2>2. IsFiniteSet(I)
    BY <2>1, FS_Interval
  <2>3. Written(n) = {chunk[i] : i \in I}
    BY DEF Written, Chunks
  <2> HIDE DEF I, chunk
  <2> QED BY <2>2, <2>3, ImageIsFinite
<1>5. IsFiniteSet(SourceOf(s))
  <2> DEFINE w == [n \in live[s] |-> Written(n)]
             all == {w[n] : n \in live[s]}
  <2>1. \A W \in all : IsFiniteSet(W)
    BY <1>4
  <2>2. IsFiniteSet(all)
    <3> HIDE DEF w
    <3> QED BY <1>2, ImageIsFinite
  <2>3. SourceOf(s) \in SUBSET UNION all
    BY DEF IndexInv, IndexIsOfLiveCalls
  <2> HIDE DEF all
  <2> QED BY <2>1, <2>2, <2>3, FS_UNION, FS_Subset
<1>6. ASSUME NEW x PROVE IsFiniteSet(Occurrences(s, x))
  <2> DEFINE of(n) == {j \in 1..Len(Found(n)) : <<Found(n)[j].path, Found(n)[j].symbol>> = x}
             o == [n \in live[s] |-> {<<n, i>> : i \in of(n)}]
             all == {o[n] : n \in live[s]}
  <2>1. ASSUME NEW n \in live[s] PROVE IsFiniteSet(o[n])
    <3> DEFINE I == of(n)
               place == [i \in I |-> <<n, i>>]
    <3>1. IsFiniteSet(I)
      <4>1. IsFiniteSet(1..Len(Found(n)))
        BY <1>3, FS_Interval
      <4> QED BY <4>1, FS_Subset
    <3>2. o[n] = {place[i] : i \in I}
      OBVIOUS
    <3> HIDE DEF I, o, place
    <3> QED BY <3>1, <3>2, ImageIsFinite
  <2>2. Occurrences(s, x) = UNION all
    <3>1. \A e : e \in Occurrences(s, x) <=> \E n \in live[s] : e \in {<<n, i>> : i \in of(n)}
      BY DEF Occurrences
    <3>2. \A e : e \in UNION all <=> \E n \in live[s] : e \in o[n]
      <4> HIDE DEF o
      <4> QED OBVIOUS
    <3>3. \A n \in live[s] : o[n] = {<<n, i>> : i \in of(n)}
      OBVIOUS
    <3> HIDE DEF all, o, of
    <3> QED BY <3>1, <3>2, <3>3
  <2>3. IsFiniteSet(all)
    <3> HIDE DEF o
    <3> QED BY <1>2, ImageIsFinite
  <2>4. \A T \in all : IsFiniteSet(T)
    BY <2>1
  <2> HIDE DEF all
  <2> QED BY <2>2, <2>3, <2>4, FS_UNION
<1> QED BY <1>5, <1>6

\* The source chunks of a symbol are no more than its definitions in what the
\* calls have found: each was made of one of those.
LEMMA ChunksOfSymbol ==
    ASSUME IndexInv, NEW s \in Scopes, NEW x
    PROVE  Cardinality(Among(SourceOf(s), x)) <= Cardinality(Occurrences(s, x))
<1> DEFINE F == Among(SourceOf(s), x)
           places == Occurrences(s, x)
           made(p, o) == p = Chunk(o[1], o[2])
           place == [p \in F |-> CHOOSE o \in places : made(p, o)]
<1>1. ASSUME NEW p \in F PROVE \E o \in places : made(p, o)
  <2>1. PICK n \in live[s] : p \in Written(n)
    BY DEF Among, IndexInv, IndexIsOfLiveCalls
  <2>2. Len(Found(n)) \in Nat /\ sent[n] \in Nat
    BY TreesAssumption DEF IndexInv, TypeOK, Found
  <2>3. PICK i \in 0 + 1 .. Least(sent[n], Len(Found(n))) : p = Chunk(n, i)
    BY <2>1 DEF Written, Chunks
  <2>4. i \in 1..Len(Found(n))
    BY <2>2, <2>3 DEF Least
  <2>5. <<Found(n)[i].path, Found(n)[i].symbol>> = x
    BY <2>3 DEF Chunk, Among, SymbolOf
  <2>6. <<n, i>> \in places
    BY <2>4, <2>5 DEF Occurrences
  <2> QED BY <2>3, <2>6
<1>2. \A p \in F : place[p] \in places /\ made(p, place[p])
  BY <1>1
<1>3. place \in Injection(F, places)
  <2>1. place \in [F -> places]
    BY <1>2
  <2>2. ASSUME NEW p \in F, NEW q \in F, place[p] = place[q] PROVE p = q
    <3> HIDE DEF place, F
    <3> QED BY <1>2, <2>2
  <2> QED BY <2>1, <2>2 DEF Injection, IsInjective
<1>4. IsFiniteSet(places)
  BY IndexIsFinite
<1> HIDE DEF F, places, place
<1>5. Cardinality(F) <= Cardinality(places)
  BY <1>3, <1>4, FS_Injection
<1> QED BY <1>5 DEF F, places

\* A finite set of three at most has an injection into 1..3.
LEMMA Numbered ==
    ASSUME NEW S, IsFiniteSet(S), Cardinality(S) <= 3
    PROVE  Injection(S, 1..3) # {}
<1>1. Cardinality(S) \in Nat /\ ExistsBijection(S, 1..Cardinality(S))
  BY FS_CardinalityType, Fun_ExistsBijSymmetric
<1>2. PICK f : f \in Bijection(S, 1..Cardinality(S))
  BY <1>1 DEF ExistsBijection
<1>3. 1..Cardinality(S) \subseteq 1..3
  BY <1>1
<1>4. f \in Injection(S, 1..3)
  BY <1>2, <1>3 DEF Bijection, Injection
<1> QED BY <1>4

LEMMA ThreeNumbers == IsFiniteSet(1..3) /\ Cardinality(1..3) = 3
<1>1. \A a, b \in Int : IsFiniteSet(a..b) /\ Cardinality(a..b) = IF a > b THEN 0 ELSE b - a + 1
  BY FS_Interval
<1>2. 1 \in Int /\ 3 \in Int
  OBVIOUS
<1>3. IsFiniteSet(1..3) /\ Cardinality(1..3) = IF 1 > 3 THEN 0 ELSE 3 - 1 + 1
  BY <1>1, <1>2
<1> QED BY <1>3

\* If no symbol is defined more than three times, source chunks are at most three
\* times their symbols.
LEMMA ThreeOfEach ==
    ASSUME IndexInv, NEW s \in Scopes, NEW found \in SUBSET SourceOf(s),
           \A x \in Paths \X Symbols : Cardinality(Occurrences(s, x)) <= 3
    PROVE  /\ IsFiniteSet(found)
           /\ IsFiniteSet(SymbolsOf(found))
           /\ Cardinality(found) <= Cardinality(SymbolsOf(found)) * 3
<1>1. IsFiniteSet(SourceOf(s)) /\ \A x : IsFiniteSet(Occurrences(s, x))
  BY IndexIsFinite
<1>2. IsFiniteSet(found)
  BY <1>1, FS_Subset
<1>3. IsFiniteSet(SymbolsOf(found))
  <2> DEFINE symbol == [p \in found |-> SymbolOf(p)]
  <2>1. SymbolsOf(found) = {symbol[p] : p \in found}
    BY DEF SymbolsOf, SymbolOf
  <2> HIDE DEF symbol
  <2> QED BY <1>2, <2>1, ImageIsFinite
<1>4. \A p \in found : SymbolOf(p) \in Paths \X Symbols /\ SymbolOf(p) \in SymbolsOf(found)
  BY DEF IndexInv, TypeOK, Points, Definitions, SourceOf, SymbolOf, SymbolsOf
<1>5. ASSUME NEW x \in Paths \X Symbols PROVE Injection(Among(found, x), 1..3) # {}
  <2>1. Among(SourceOf(s), x) \in SUBSET SourceOf(s)
    BY DEF Among
  <2>2. Among(found, x) \in SUBSET Among(SourceOf(s), x)
    BY DEF Among
  <2>3. IsFiniteSet(Among(SourceOf(s), x)) /\ IsFiniteSet(Among(found, x))
        /\ Cardinality(Among(found, x)) <= Cardinality(Among(SourceOf(s), x))
    BY <1>1, <2>1, <2>2, FS_Subset
  <2>4. Cardinality(Among(SourceOf(s), x)) <= Cardinality(Occurrences(s, x))
    BY ChunksOfSymbol
  <2>5. Cardinality(Occurrences(s, x)) <= 3
    OBVIOUS
  <2>6. /\ Cardinality(Among(found, x)) \in Nat
        /\ Cardinality(Among(SourceOf(s), x)) \in Nat
        /\ Cardinality(Occurrences(s, x)) \in Nat
    BY <1>1, <2>3, FS_CardinalityType
  <2>7. Cardinality(Among(found, x)) <= 3
    BY <2>3, <2>4, <2>5, <2>6
  <2> QED BY <2>3, <2>7, Numbered
<1> DEFINE number == [x \in Paths \X Symbols |-> CHOOSE f \in Injection(Among(found, x), 1..3) : TRUE]
           pair == [p \in found |-> <<SymbolOf(p), number[SymbolOf(p)][p]>>]
<1>6. \A x \in Paths \X Symbols : number[x] \in Injection(Among(found, x), 1..3)
  BY <1>5
<1>7. \A p \in found : p \in Among(found, SymbolOf(p))
  BY DEF Among
<1>8. pair \in Injection(found, SymbolsOf(found) \X (1..3))
  <2> HIDE DEF number
  <2>1. \A p \in found : number[SymbolOf(p)][p] \in 1..3
    BY <1>4, <1>6, <1>7 DEF Injection
  <2>2. pair \in [found -> SymbolsOf(found) \X (1..3)]
    BY <1>4, <2>1
  <2>3. ASSUME NEW p \in found, NEW q \in found, pair[p] = pair[q] PROVE p = q
    <3>1. SymbolOf(p) = SymbolOf(q) /\ number[SymbolOf(p)][p] = number[SymbolOf(p)][q]
      BY <2>3
    <3>2. p \in Among(found, SymbolOf(p)) /\ q \in Among(found, SymbolOf(p))
      BY <3>1 DEF Among
    <3>3. number[SymbolOf(p)] \in Injection(Among(found, SymbolOf(p)), 1..3)
      BY <1>4, <1>6
    <3> QED BY <3>1, <3>2, <3>3 DEF Injection, IsInjective
  <2> HIDE DEF pair
  <2> QED BY <2>2, <2>3 DEF Injection, IsInjective
<1>9. /\ IsFiniteSet(SymbolsOf(found) \X (1..3))
      /\ Cardinality(SymbolsOf(found) \X (1..3)) = Cardinality(SymbolsOf(found)) * 3
  <2>1. IsFiniteSet(1..3) /\ Cardinality(1..3) = 3
    BY ThreeNumbers
  <2> QED BY <1>3, <2>1, FS_Product
<1>10. Cardinality(found) <= Cardinality(SymbolsOf(found) \X (1..3))
  <2> HIDE DEF pair, number
  <2> QED BY <1>8, <1>9, FS_Injection
<1> QED BY <1>2, <1>3, <1>9, <1>10

\* Three times as many matches as examples wanted are of enough symbols; fewer
\* matches are all there are.
LEMMA OverfetchSuffices ==
    ASSUME IndexInv, NEW s \in Scopes, NEW found \in SUBSET Selected(s),
           \A x \in Paths \X Symbols : Cardinality(Occurrences(s, x)) <= 3,
           Cardinality(found) = Least(Fetched, Cardinality(Selected(s)))
    PROVE  Least(ExampleLimit, Cardinality(SymbolsOf(found))) =
           Least(ExampleLimit, Cardinality(SymbolsOf(SourceOf(s))))
<1> DEFINE all == SourceOf(s)
           few == SymbolsOf(found)
           symbols == SymbolsOf(all)
<1>1. Selected(s) = all /\ found \in SUBSET all /\ all \in SUBSET SourceOf(s)
  BY SelectedIsSource DEF IndexInv
<1>2. IsFiniteSet(all) /\ IsFiniteSet(symbols)
  BY <1>1, ThreeOfEach
<1>3. IsFiniteSet(found) /\ IsFiniteSet(few) /\ Cardinality(found) <= Cardinality(few) * 3
  BY <1>1, ThreeOfEach
<1>4. few \in SUBSET symbols
  BY <1>1 DEF SymbolsOf
<1>5. Cardinality(few) <= Cardinality(symbols)
  <2> HIDE DEF few, symbols
  <2> QED BY <1>2, <1>4, FS_Subset
<1> HIDE DEF few, symbols, all
<1>6. /\ Cardinality(all) \in Nat /\ Cardinality(symbols) \in Nat
      /\ Cardinality(found) \in Nat /\ Cardinality(few) \in Nat
  BY <1>2, <1>3, FS_CardinalityType
<1>7. ExampleLimit \in Nat /\ Fetched = ExampleLimit * 3
  BY BoundsAssumption DEF Fetched
<1>8. CASE Cardinality(found) = Cardinality(all)
  <2>1. found = all
    BY <1>1, <1>2, <1>8, FS_Subset
  <2> QED BY <2>1 DEF few, symbols, all
<1>9. CASE Cardinality(found) # Cardinality(all)
  <2>1. Cardinality(found) = ExampleLimit * 3
    BY <1>1, <1>9, <1>6, <1>7 DEF Least
  <2>2. ExampleLimit <= Cardinality(few)
    BY <1>3, <1>6, <1>7, <2>1
  <2> QED BY <2>2, <1>5, <1>6, <1>7 DEF Least, few, symbols, all
<1> QED BY <1>8, <1>9

\* A run that has read its rules has no examples yet.
NoExamplesYet == reading # NoScope => examples = {}

LEMMA NoExamplesYetStep == NoExamplesYet /\ [Next]_vars => NoExamplesYet'
<1> SUFFICES ASSUME NoExamplesYet, [Next]_vars PROVE NoExamplesYet'
  OBVIOUS
<1>1. CASE UNCHANGED retrieval
  BY <1>1 DEF NoExamplesYet, retrieval
<1>2. CASE \E s \in Scopes : ReadRules(s)
  BY <1>2 DEF NoExamplesYet, ReadRules
<1>3. CASE Search \/ Abandon
  BY <1>3 DEF NoExamplesYet, Search, Abandon
<1> QED BY <1>1, <1>2, <1>3 DEF Next, vars, Learn, StoreRules, Scan, Extract, Replace, Put, Succeed, Fail,
      GiveUp, Arrive, Sent, Edit, UpsertDocument, DeleteSource

\* A search that ends a retrieval gives as many examples as it should.
LEMMA SearchFillsLimit ==
    ASSUME IndexInv, NoExamplesYet, [Next]_vars,
           reading # NoScope, reading' = NoScope, examples' # {},
           \A symbol \in Paths \X Symbols : Cardinality(Occurrences(reading, symbol)) <= 3
    PROVE  Cardinality(examples') = Least(ExampleLimit, Cardinality(SymbolsOf(SourceOf(reading))))
<1>1. Search
  <2>1. ~ UNCHANGED retrieval
    BY DEF retrieval
  <2>2. ~ Abandon
    BY DEF NoExamplesYet, Abandon
  <2> QED BY <2>1, <2>2 DEF Next, vars, Learn, StoreRules, Scan, Extract, Replace, Put, Succeed, Fail,
      GiveUp, Arrive, Sent, Edit, UpsertDocument, DeleteSource, ReadRules
<1>2. PICK found \in SUBSET Selected(reading) :
        /\ Cardinality(found) = Least(Fetched, Cardinality(Selected(reading)))
        /\ examples' \in Mined(found)
  BY <1>1 DEF Search
<1>3. reading \in Scopes
  BY DEF IndexInv, TypeOK
<1>4. Cardinality(examples') = Least(ExampleLimit, Cardinality(SymbolsOf(found)))
  BY <1>2 DEF Mined
<1> QED BY <1>2, <1>3, <1>4, OverfetchSuffices

\* The three-times overfetch finds as many symbols as are wanted or stored, as
\* long as no symbol is defined more than three times in what the calls have
\* found whose chunks the scope may hold (example_mining.py:26).
THEOREM OverfetchFillsLimit == Spec => ExamplesFillLimit
<1>1. IndexInv /\ NoExamplesYet /\ [Next]_vars =>
        [/\ reading # NoScope /\ reading' = NoScope /\ examples' # {}
         /\ \A symbol \in Paths \X Symbols : Cardinality(Occurrences(reading, symbol)) <= 3
         => Cardinality(examples') =
                Least(ExampleLimit, Cardinality(SymbolsOf(SourceOf(reading))))]_vars
  BY SearchFillsLimit
<1>2. Init => NoExamplesYet
  BY DEF Init, NoExamplesYet
<1> QED BY <1>1, <1>2, IndexInit, IndexStep, NoExamplesYetStep, PTL DEF Spec, ExamplesFillLimit
=============================================================================
