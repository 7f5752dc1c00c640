--------------------------- MODULE SemanticIndex ---------------------------
(***************************************************************************)
(* POST /learn as api.production_learn runs it: the rules of a scope are   *)
(* replaced in PostgreSQL, then RepositorySemanticIndexer replaces the     *)
(* scope's source chunks in Qdrant, request by request.  Calls overlap,    *)
(* fail anywhere, and a request given up may still arrive; others edit the *)
(* repository, and development runs retrieve rules and examples.           *)
(***************************************************************************)
EXTENDS Integers, Sequences, FiniteSets

CONSTANTS
    Trees,         \* contents the repository may have; a tree is its own revision
    Files,         \* the source files in the inventory of each tree
    Paths,         \* paths of source files and of documents
    Symbols,       \* names of top-level classes and functions
    Lines,         \* where they begin
    Extracted,     \* what a scan of one tree finds in the files of another, in order
    Scopes,        \* [project, module], where the module may be NoModule
    NoModule,
    NoTree,        \* no rules stored
    NoScope,       \* nobody retrieves
    Documents,     \* document chunks a curator may index
    Deletions,     \* [scope, path] of which a curator may delete the points
    MaxLearns,     \* calls of /learn
    MaxEdits,      \* edits of the repository
    BatchSize,     \* _MAX_POINTS_PER_REQUEST
    ExampleLimit   \* example_limit

Learns == 1..MaxLearns

\* A top-level class or function.  A file may define one name several times.
Definitions == [path: Paths, symbol: Symbols, line: Lines]

\* A stored chunk: labelled with the revision that was scanned, holding what
\* the definition was when its file was read.  Its id hashes all of it.
Points == [scope: Scopes, kind: {"source", "document"}, at: Definitions,
           label: Trees, content: Trees]

ASSUME ScopesAssumption ==
    /\ \A s, t \in Scopes : s.project = t.project /\ s.module = t.module => s = t
    /\ NoScope \notin Scopes
ASSUME TreesAssumption ==
    /\ Files \in [Trees -> SUBSET Paths]
    /\ Extracted \in [Trees -> [Trees -> Seq(Definitions)]]
    /\ NoTree \notin Trees
ASSUME DocumentsAssumption ==
    /\ Documents \subseteq Points
    /\ \A d \in Documents : d.kind = "document"
    /\ Deletions \subseteq [scope: Scopes, path: Paths]
ASSUME BoundsAssumption ==
    /\ MaxLearns \in Nat
    /\ MaxEdits \in Nat
    /\ BatchSize \in Nat \ {0}
    /\ ExampleLimit \in Nat \ {0}

VARIABLES
    tree,         \* the repository
    edits,        \* how often it was edited
    rules,        \* for each scope, the tree its stored rules were learned from
    points,       \* the Qdrant collection
    scope,        \* the scope each call names
    phase,        \* how far each call is
    learned,      \* the tree each call learned rules from,
    label,        \*   the tree it scanned for chunks,
    content,      \*   and the tree it read them from
    sent,         \* how many chunks its requests have covered; 0 before the first
    live,         \* history: the calls whose chunks a scope may hold
    deleted,      \* history: the paths deleted from it since it was last replaced
    undisturbed,  \* history: calls nobody has interfered with
    reading,      \* the scope a development run has read the rules of
    examples      \* the symbols it was last given examples of

repository == <<tree, edits, rules>>
progress == <<learned, label, content>>
held == <<live, deleted>>
history == <<held, undisturbed>>
retrieval == <<reading, examples>>
vars == <<repository, points, scope, phase, progress, sent, history, retrieval>>

Phases == {"new", "learned", "stored", "scanned", "extracted", "writing",
           "lost", "succeeded", "failed"}

TypeOK ==
    /\ tree \in Trees
    /\ edits \in 0..MaxEdits
    /\ rules \in [Scopes -> Trees \cup {NoTree}]
    /\ points \subseteq Points
    /\ scope \in [Learns -> Scopes]
    /\ phase \in [Learns -> Phases]
    /\ learned \in [Learns -> Trees]
    /\ label \in [Learns -> Trees]
    /\ content \in [Learns -> Trees]
    /\ sent \in [Learns -> Nat]
    /\ live \in [Scopes -> SUBSET Learns]
    /\ deleted \in [Scopes -> SUBSET Paths]
    /\ undisturbed \subseteq Learns
    /\ reading \in Scopes \cup {NoScope}
    /\ examples \subseteq Paths \X Symbols

Init ==
    /\ tree \in Trees
    /\ edits = 0
    /\ rules = [s \in Scopes |-> NoTree]
    /\ points = {}
    /\ scope \in [Learns -> Scopes]
    /\ phase = [n \in Learns |-> "new"]
    /\ learned = [n \in Learns |-> tree]
    /\ label = learned
    /\ content = learned
    /\ sent = [n \in Learns |-> 0]
    /\ live = [s \in Scopes |-> {}]
    /\ deleted = [s \in Scopes |-> {}]
    /\ undisturbed = {}
    /\ reading = NoScope
    /\ examples = {}

Least(a, b) == IF a <= b THEN a ELSE b

\* Mutant of Matches: a project's filter says nothing of the module.
Matches_AnyModule(p, s) ==
    /\ p.scope.project = s.project
    /\ s.module # NoModule => p.scope.module = s.module

\* The metadata filter of every delete and search; NoModule must be matched too.
Matches(p, s) ==
    /\ p.scope.project = s.project
    /\ p.scope.module = s.module

\* What a delete or a search that asks for source chunks of a scope selects.
Selected(s) == {p \in points : Matches(p, s) /\ p.kind = "source"}

\* The definitions call n has found, file by file and in order.
Found(n) == Extracted[label[n]][content[n]]

\* One chunk is made of each.
Chunk(n, i) == [scope |-> scope[n], kind |-> "source", at |-> Found(n)[i],
                label |-> label[n], content |-> content[n]]

\* The chunks number from + 1 to number to of call n.
Chunks(n, from, to) == {Chunk(n, i) : i \in from + 1 .. Least(to, Len(Found(n)))}

\* Mutant of Remaining: the last request is forgotten.
Remaining_ButOne(n) == sent[n] + 1 < Len(Found(n))

\* Chunks of call n are not yet sent.
Remaining(n) == sent[n] < Len(Found(n))

\* What call n has written.
Written(n) == Chunks(n, 0, sent[n])

Others(n) == {m \in Learns \ {n} : scope[m] = scope[n]}

\* Those of them that have begun to write and may write more.
Overlapping(n) ==
    {m \in Others(n) : phase[m] \in {"writing", "lost"} /\ sent[m] # 0 /\ Remaining(m)}

Enter(n, p) == phase' = [phase EXCEPT ![n] = p]

----------------------------------------------------------------------------

\* FrameworkLearner().learn.
Learn(n) ==
    /\ phase[n] = "new"
    /\ Enter(n, "learned")
    /\ learned' = [learned EXCEPT ![n] = tree]
    /\ undisturbed' = undisturbed \cup {n}
    /\ UNCHANGED <<repository, points, scope, label, content, sent, held, retrieval>>

\* store.replace_rules, as RuleStore promises it.
StoreRules(n) ==
    /\ phase[n] = "learned"
    /\ Enter(n, "stored")
    /\ rules' = [rules EXCEPT ![scope[n]] = learned[n]]
    /\ undisturbed' = undisturbed \ Others(n)
    /\ UNCHANGED <<tree, edits, points, scope, progress, sent, held, retrieval>>

\* The collection is there, and extract scans the repository again ...
Scan(n) ==
    /\ phase[n] = "stored"
    /\ Enter(n, "scanned")
    /\ label' = [label EXCEPT ![n] = tree]
    /\ UNCHANGED <<repository, points, scope, learned, content, sent, history, retrieval>>

\* ... and reads the files it found; one that is gone is an exception.
Extract(n) ==
    /\ phase[n] = "scanned"
    /\ Files[label[n]] \subseteq Files[tree]
    /\ Enter(n, "extracted")
    /\ content' = [content EXCEPT ![n] = tree]
    /\ UNCHANGED <<repository, points, scope, learned, label, sent, history, retrieval>>

\* Mutant of FirstRequest: with nothing to upsert, nothing is deleted.
FirstRequest_IfAny(n) ==
    /\ sent[n] = 0
    /\ points' = IF Remaining(n)
                 THEN (points \ Selected(scope[n])) \cup Chunks(n, 0, BatchSize)
                 ELSE points
    /\ live' = [live EXCEPT ![scope[n]] = {n} \cup Overlapping(n)]
    /\ deleted' = [deleted EXCEPT ![scope[n]] = {}]

\* The effect of the first request: one batch deletes what the scope has and
\* upserts the first chunks.
FirstRequest(n) ==
    /\ sent[n] = 0
    /\ points' = (points \ Selected(scope[n])) \cup Chunks(n, 0, BatchSize)
    /\ live' = [live EXCEPT ![scope[n]] = {n} \cup Overlapping(n)]
    /\ deleted' = [deleted EXCEPT ![scope[n]] = {}]

\* The effect of each later one: an upsert of the chunks that follow.
NextRequest(n) ==
    /\ sent[n] # 0
    /\ Remaining(n)
    /\ points' = points \cup Chunks(n, sent[n], sent[n] + BatchSize)
    /\ UNCHANGED held

Sent(n) ==
    /\ sent' = [sent EXCEPT ![n] = @ + BatchSize]
    /\ undisturbed' = undisturbed \ Others(n)
    /\ UNCHANGED <<repository, scope, progress, retrieval>>

Replace(n) ==
    /\ phase[n] = "extracted"
    /\ FirstRequest(n)
    /\ Enter(n, "writing")
    /\ Sent(n)

Put(n) ==
    /\ phase[n] = "writing"
    /\ NextRequest(n)
    /\ Sent(n)
    /\ UNCHANGED phase

Succeed(n) ==
    /\ phase[n] = "writing"
    /\ ~ Remaining(n)
    /\ Enter(n, "succeeded")
    /\ UNCHANGED <<repository, points, scope, progress, sent, history, retrieval>>

\* An exception, or the death of the process, anywhere in the call.  Nothing
\* is undone.
Fail(n) ==
    /\ phase[n] \in {"learned", "stored", "scanned", "extracted", "writing"}
    /\ Enter(n, "failed")
    /\ UNCHANGED <<repository, points, scope, progress, sent, history, retrieval>>

\* The transport's timeout ends the call while its next request is under way ...
GiveUp(n) ==
    /\ \/ phase[n] = "extracted"
       \/ phase[n] = "writing" /\ Remaining(n)
    /\ Enter(n, "lost")
    /\ UNCHANGED <<repository, points, scope, progress, sent, history, retrieval>>

\* ... which may still arrive.
Arrive(n) ==
    /\ phase[n] = "lost"
    /\ FirstRequest(n) \/ NextRequest(n)
    /\ Enter(n, "failed")
    /\ Sent(n)

----------------------------------------------------------------------------

\* Somebody edits the repository.
Edit(t) ==
    /\ t # tree
    /\ edits < MaxEdits
    /\ tree' = t
    /\ edits' = edits + 1
    /\ undisturbed' = {n \in undisturbed : phase[n] \notin {"learned", "stored", "scanned"}}
    /\ UNCHANGED <<rules, points, scope, phase, progress, sent, held, retrieval>>

\* upsert, which no caller in the repository uses yet, for documents.
UpsertDocument(d) ==
    /\ points' = points \cup {d}
    /\ UNCHANGED <<repository, scope, phase, progress, sent, history, retrieval>>

\* delete_source, which no caller uses yet either: whatever is at the path
\* goes, source chunks of calls that may still be writing included.
DeleteSource(d) ==
    /\ points' = {p \in points : ~ (Matches(p, d.scope) /\ p.at.path = d.path)}
    /\ deleted' = [deleted EXCEPT ![d.scope] = @ \cup {d.path}]
    /\ undisturbed' = {n \in undisturbed :
           ~ (scope[n] = d.scope /\ \E p \in Written(n) : p.at.path = d.path)}
    /\ UNCHANGED <<repository, scope, phase, progress, sent, live, retrieval>>

----------------------------------------------------------------------------

\* assemble_coding_context reads the active rules first; without them it raises.
ReadRules(s) ==
    /\ reading = NoScope
    /\ rules[s] # NoTree
    /\ reading' = s
    /\ examples' = {}
    /\ UNCHANGED <<repository, points, scope, phase, progress, sent, history>>

\* Mutant of Fetched: no more matches are asked for than examples wanted.
Fetched_Limit == ExampleLimit

\* How many matches mine_representative_examples asks for.
Fetched == ExampleLimit * 3

\* Chunks are of one symbol when file and name agree, at whatever line.
SymbolsOf(found) == {<<p.at.path, p.at.symbol>> : p \in found}

\* What it may make of these matches: one example of each symbol, as many as are
\* wanted or found.  Scores, in any order, decide which.
Mined(found) ==
    {chosen \in SUBSET SymbolsOf(found) :
        Cardinality(chosen) = Least(ExampleLimit, Cardinality(SymbolsOf(found)))}

\* The best matches for the query, which may be any; one of another scope is an
\* exception.
Search ==
    /\ reading # NoScope
    /\ \E found \in SUBSET Selected(reading) :
         /\ Cardinality(found) = Least(Fetched, Cardinality(Selected(reading)))
         /\ \A p \in found : p.scope = reading
         /\ examples' \in Mined(found)
    /\ reading' = NoScope
    /\ UNCHANGED <<repository, points, scope, phase, progress, sent, history>>

\* The retrieval raises, and the development run fails.
Abandon ==
    /\ reading # NoScope
    /\ reading' = NoScope
    /\ UNCHANGED <<repository, points, scope, phase, progress, sent, history, examples>>

Next ==
    \/ \E n \in Learns :
         \/ Learn(n) \/ StoreRules(n) \/ Scan(n) \/ Extract(n)
         \/ Replace(n) \/ Put(n) \/ Succeed(n)
         \/ Fail(n) \/ GiveUp(n) \/ Arrive(n)
    \/ \E t \in Trees : Edit(t)
    \/ \E d \in Documents : UpsertDocument(d)
    \/ \E d \in Deletions : DeleteSource(d)
    \/ \E s \in Scopes : ReadRules(s)
    \/ Search
    \/ Abandon

Spec == Init /\ [][Next]_vars

----------------------------------------------------------------------------

\* The source chunks a scope really has.
SourceOf(s) == {p \in points : p.scope = s /\ p.kind = "source"}

\* A scope holds only what its last replacement and the calls that overlapped
\* it have written; with no overlap, all of that but for paths deleted since,
\* whatever failed before and however a request given up arrives ("Replace every
\* source point in exactly one authorized scope", qdrant_store.py:181).
IndexIsOfLiveCalls ==
    \A s \in Scopes :
        /\ SourceOf(s) \subseteq UNION {Written(n) : n \in live[s]}
        /\ \A n \in live[s] : live[s] = {n} =>
              {p \in Written(n) : p.at.path \notin deleted[s]} \subseteq SourceOf(s)

\* After a call of /learn that succeeded, and that no edit, no other call of its
\* scope and no deletion disturbed, rules and index are of the same tree,
\* completely.
UndisturbedLearnAgrees ==
    \A n \in undisturbed : phase[n] = "succeeded" =>
        /\ rules[scope[n]] = learned[n]
        /\ SourceOf(scope[n]) =
             {[scope |-> scope[n], kind |-> "source", at |-> Extracted[learned[n]][learned[n]][i],
               label |-> learned[n], content |-> learned[n]] :
                  i \in 1..Len(Extracted[learned[n]][learned[n]])}

\* The points that go in one step are the source chunks of the one scope that is
\* replaced, or what is at one path of one scope: project-wide calls leave the
\* chunks of modules alone, and documents go only with their path.
OtherScopesKept ==
    [][LET gone == points \ points'
       IN  \/ gone = {}
           \/ \E n \in Learns :
                 /\ sent[n] = 0 /\ sent'[n] # 0
                 /\ \A p \in gone : p.scope = scope[n] /\ p.kind = "source"
           \/ \E d \in Deletions :
                 /\ UNCHANGED sent
                 /\ \A p \in gone : p.scope = d.scope /\ p.at.path = d.path]_vars

\* The definitions of one symbol among those that the calls of a scope's last
\* replacement have found.
Occurrences(s, symbol) ==
    UNION {{<<n, i>> : i \in {j \in 1..Len(Found(n)) :
                                 <<Found(n)[j].path, Found(n)[j].symbol>> = symbol}} : n \in live[s]}

\* "The three-times overfetch allows duplicate chunks for the same symbol to be
\* collapsed" (example_mining.py:26): as long as no symbol is defined more than
\* three times in what those calls have found, however often in one file,
\* examples of as many symbols are found as there are or are wanted, although
\* the best matches may all be of a few.
ExamplesFillLimit ==
    [][/\ reading # NoScope /\ reading' = NoScope /\ examples' # {}
       /\ \A symbol \in Paths \X Symbols : Cardinality(Occurrences(reading, symbol)) <= 3
       => Cardinality(examples') =
              Least(ExampleLimit, Cardinality(SymbolsOf(SourceOf(reading))))]_vars
=============================================================================
