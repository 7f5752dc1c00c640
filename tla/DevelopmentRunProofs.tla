------------------------ MODULE DevelopmentRunProofs ------------------------
(***************************************************************************)
(* Theorems about DevelopmentRun, for every set of paths, plans, tasks and *)
(* retry budgets, every quota and every number of calls, edits and crashes.*)
(***************************************************************************)
EXTENDS DevelopmentRun, TLAPS

-----------------------------------------------------------------------------
(* Trees *)

\* Writing the files of a draft over a tree gives a tree (apply_change).
LEMMA OverlayIsTree ==
    ASSUME NEW tree \in Trees, NEW S, NEW d \in Nat
    PROVE  Overlay(tree, S, d) \in Trees
BY DEF Overlay, Trees, Contents

\* Writing one file, whatever it then contains, gives a tree (apply_change, and
\* the edits of others).
LEMMA WriteIsTree ==
    ASSUME NEW tree \in Trees, NEW p \in Paths, NEW c \in Contents
    PROVE  [tree EXCEPT ![p] = c] \in Trees
BY DEF Trees

\* What a removal leaves of a tree is one (StagingSandbox.remove).
LEMMA RemainderIsTree ==
    ASSUME NEW tree \in Trees, NEW S PROVE Overlay(tree, S, Absent) \in Trees
BY DEF Overlay, Trees, Contents

\* The revision of a tree is one (RepositoryRevision.from_inventory).
LEMMA RevisionIsRevision ==
    ASSUME NEW tree \in Trees PROVE Revision(tree) \in Revisions
BY PathAssumption DEF Revision, Revisions, Trees

-----------------------------------------------------------------------------
(* Type correctness *)

\* The initial state is well typed.
LEMMA InitTyped == Init => TypeOK
<1> SUFFICES ASSUME Init PROVE TypeOK
  OBVIOUS
<1>1. repository \in Trees
  BY DEF Init, Trees, Contents
<1>2. task \in Tasks /\ retry_budget \in RetryBudgets
  BY DEF Init
<1>3. Revision(repository) \in Revisions
  BY <1>1, RevisionIsRevision
<1>4. record \in Records
  BY <1>2, <1>3 DEF Init, Records, Inputs, CurrentInput, NoChange, Changes, Statuses
<1>5. QED
  BY <1>1, <1>2, <1>3, <1>4
     DEF Init, TypeOK, DiskTyped, CallTyped, ChannelsTyped, HistoryTyped, Controls, Statuses, Decisions, NoChange, Changes, NoResult,
         Results, NoFailure, Failures, Events

\* A gate's verdict is a result for the current draft (Build, Tests, Compliance,
\* Review).
LEMMA VerdictIsResult ==
    ASSUME NEW ok \in BOOLEAN, generated_change \in Changes
    PROVE  Verdict(ok) \in Results /\ Verdict(ok).passed = ok
                                   /\ Verdict(ok).draft = generated_change.id
BY DEF Verdict, Results, Changes

\* The reviewer's answer is a Boolean (DeterministicChangeReviewer.review).
LEMMA ApprovesIsBoolean ==
    ASSUME validation_report \in Results PROVE Approves \in BOOLEAN
BY Zenon DEF Approves, Results

\* A step of the graph's nodes, of the call around them or of the environment
\* keeps every variable in its type.
LEMMA NextTyped == TypeOK /\ [Next]_vars => TypeOK'
<1> SUFFICES ASSUME TypeOK, [Next]_vars PROVE TypeOK'
  OBVIOUS
<1> USE QuotaAssumption
    DEF TypeOK, DiskTyped, CallTyped, ChannelsTyped, HistoryTyped, disk, callVars, inputs, planned, usage, results, failing, history,
        others, channels, nodeFrame, modelFrame, Goto, Fail, Raise, stages, Controls, Nodes, Statuses,
        Decisions
<1>1. CASE RefuseCall
  BY <1>1 DEF RefuseCall
<1>2. ASSUME NEW t \in Tasks, NEW b \in RetryBudgets, Run(t, b) PROVE TypeOK'
  BY <1>2, RevisionIsRevision DEF Run
<1>3. CASE SandboxFails
  BY <1>3 DEF SandboxFails
<1>4. CASE Invoke
  <2>1. Overlay(repository, Ignored, Absent) \in Trees
    BY DEF Overlay, Trees, Contents
  <2>2. stage' \in Trees
    BY <1>4, <2>1 DEF Invoke, Sandboxes
  <2>3. QED
    BY <1>4, <2>2 DEF Invoke, RunInput, Events
<1>5. CASE Resume
  BY <1>5 DEF Resume
<1>6. CASE PersistRecord
  BY <1>6 DEF PersistRecord, CurrentInput, Records, Inputs
<1>7. CASE RecordRefused \/ CheckpointFails
  BY <1>7 DEF RecordRefused, CheckpointFails
<1>8. CASE Teardown
  <2>1. stage' \in Trees
    BY <1>8, RemainderIsTree DEF Teardown, RemoveStage, StageRemains
  <2>2. stage_exists' \in BOOLEAN /\ unremoved' \in Nat /\ intact' \in BOOLEAN
    <3>1. CASE Removes /\ StageRemains /\ unremoved' = unremoved + 1
      <4>1. stage_exists' \in BOOLEAN /\ intact' \in BOOLEAN
        BY <3>1, Zenon DEF StageRemains
      <4>2. QED
        BY <3>1, <4>1
    <3>2. CASE stage_exists' = (stage_exists /\ ~Removes) /\ UNCHANGED <<stage, unremoved, intact>>
      <4>1. (stage_exists /\ ~Removes) \in BOOLEAN
        BY Zenon
      <4>2. QED
        BY <3>2, <4>1
    <3>3. QED
      BY <1>8, <3>1, <3>2 DEF Teardown, RemoveStage
  <2>3. QED
    BY <1>8, <2>1, <2>2 DEF Teardown, Revoke
<1>9. CASE ParseTask \/ Retrieve
  BY <1>9 DEF ParseTask, Retrieve
<1>10. CASE Plan
  BY <1>10, PathAssumption DEF Plan, AfterPlan
<1>11. CASE RequestApproval \/ Interrupt
  BY <1>11 DEF RequestApproval, Interrupt
<1>12. CASE Approval
  <2>1. events' \in SUBSET Events /\ approval_decision' \in Decisions
    BY <1>12 DEF Approval, Events
  <2>2. QED
    BY <1>12, <2>1 DEF Approval
<1>13. CASE Generate
  BY <1>13 DEF Generate, CallModel, Accept, Oversized, Changes
<1>14. CASE Repair
  BY <1>14 DEF Repair, CallModel, Accept, Oversized, Changes
<1>15. CASE Apply
  BY <1>15, OverlayIsTree DEF Apply, Changes
<1>16. CASE Build
  BY <1>16 DEF Build, Verdict, Results, Changes
<1>17. CASE Tests
  BY <1>17 DEF Tests, Verdict, Results, Changes
<1>18. CASE Compliance
  BY <1>18 DEF Compliance, Verdict, Results, Changes
<1>19. CASE Review
  <2>1. review' \in Results
    BY <1>19, VerdictIsResult, ApprovesIsBoolean DEF Review
  <2>2. QED
    BY <1>19, <2>1 DEF Review
<1>20. ASSUME NEW gate \in Gates, RecordFailure(gate) PROVE TypeOK'
  BY <1>20 DEF RecordFailure, AfterFailure, Failures, Changes
<1>21. CASE Publish
  <2>1. events' \in SUBSET Events /\ remaining' \in SUBSET Paths
    BY <1>21 DEF Publish, Events, Changes
  <2>2. QED
    BY <1>21, <2>1 DEF Publish
<1>22. ASSUME NEW p \in Paths, PublishFile(p) PROVE TypeOK'
  <2>1. repository' \in Trees
    BY <1>22, WriteIsTree DEF PublishFile, Changes, Contents
  <2>2. published' \in SUBSET (Nat \X Paths)
    BY <1>22 DEF PublishFile, Changes
  <2>3. events' \in SUBSET Events /\ remaining' \in SUBSET Paths
    BY <1>22 DEF PublishFile, Events
  <2>4. pc' \in Controls /\ steps' \in Nat
    BY <1>22 DEF PublishFile
  <2>5. QED
    BY <1>22, <2>1, <2>2, <2>3, <2>4 DEF PublishFile
<1>23. ASSUME NEW p \in Paths, PublishFault(p) PROVE TypeOK'
  <2>1. repository' \in Trees
    <3>1. Torn \in Contents
      BY DEF Contents
    <3>2. [repository EXCEPT ![p] = Torn] \in Trees
      BY <1>23, <3>1, WriteIsTree
    <3>3. QED
      BY <1>23, <3>2 DEF PublishFault
  <2>2. events' \in SUBSET Events
    BY <1>23 DEF PublishFault, Events
  <2>3. QED
    BY <1>23, <2>1, <2>2 DEF PublishFault
<1>24. CASE Final
  BY <1>24 DEF Final, Events
<1>25. ASSUME NEW p \in Paths, NEW c \in CustomerContents \cup {Absent}, Edit(p, c)
       PROVE  TypeOK'
  <2>1. repository' \in Trees
    BY <1>25, WriteIsTree DEF Edit, Contents
  <2>2. QED
    BY <1>25, <2>1 DEF Edit
<1>26. CASE DeadlinePasses
  BY <1>26 DEF DeadlinePasses
<1>27. CASE Crash
  <2>1. orphans' \in Nat
    BY <1>27 DEF Crash
  <2>2. DiskTyped'
    <3>1. stage' \in Trees
      BY <1>27, RemainderIsTree DEF Crash, StageRemains
    <3>2. QED
      BY <1>27, <2>1, <3>1 DEF Crash, StageRemains
  <2>3. CallTyped'
    BY <1>27 DEF Crash
  <2>4. ChannelsTyped' /\ HistoryTyped'
    <3>1. intact' \in BOOLEAN
      BY <1>27 DEF Crash, StageRemains
    <3>2. QED
      BY <1>27, <3>1 DEF Crash
  <2>5. QED
    BY <2>2, <2>3, <2>4 DEF TypeOK
<1>28. CASE UNCHANGED vars
  BY <1>28 DEF vars
<1>29. QED
  BY <1>1, <1>2, <1>3, <1>4, <1>5, <1>6, <1>7, <1>8, <1>9, <1>10, <1>11, <1>12, <1>13,
     <1>14, <1>15, <1>16, <1>17, <1>18, <1>19, <1>20, <1>21, <1>22, <1>23, <1>24, <1>25,
     <1>26, <1>27, <1>28
     DEF Next, Service, Progress, Node, Caller, Environment

\* Every state the service, its callers and its environment can reach is well
\* typed: the verdicts, the failure and the record keep their shape across runs
\* that share a checkpoint thread.
THEOREM TypeCorrect == Spec => []TypeOK
<1>1. QED
  BY InitTyped, NextTyped, PTL DEF Spec

-----------------------------------------------------------------------------
(* The inductive invariant *)

\* Before the first call nothing has been used and no node is active.
LEMMA InitInv == Init => IInv
BY DEF Init, IInv, StatusFollowsNode, NothingUsedYet, AttemptsCounted, VerdictsCurrent,
       DraftStaged, StepsCounted, WithinBudgets, ApprovalBeforeWork, FirstNodes,
       AttemptNodes, Nodes, WorkNodes, NoChange

\* Every step keeps the counters, the verdicts, the stage and the position in
\* the graph in the relation IInv states.
LEMMA NextKeepsInv == TypeOK /\ IInv /\ [Next]_vars => IInv'
<1> SUFFICES ASSUME TypeOK, IInv, [Next]_vars PROVE IInv'
  OBVIOUS
<1> USE QuotaAssumption
    DEF TypeOK, CallTyped, ChannelsTyped, HistoryTyped,
        IInv, StatusFollowsNode, NothingUsedYet, AttemptsCounted, AttemptCommands, Passed,
        VerdictsCurrent, DraftStaged, StepsCounted, Position, WithinBudgets,
        ApprovalBeforeWork, FirstNodes, AttemptNodes, WorkNodes, Nodes,
        disk, callVars, inputs, planned, usage, results, failing, history, others, channels,
        nodeFrame, modelFrame, Goto, Fail, Raise, stages
<1>1. CASE RefuseCall
  BY <1>1 DEF RefuseCall
<1>2. ASSUME NEW t \in Tasks, NEW b \in RetryBudgets, Run(t, b) PROVE IInv'
  BY <1>2 DEF Run
<1>3. CASE SandboxFails
  BY <1>3 DEF SandboxFails
<1>4. CASE Invoke
  <2>1. /\ pc' = "parse" /\ status' = "running" /\ steps' = 0
        /\ retry_count' = 0 /\ model_calls' = 0 /\ command_executions' = 0
        /\ failures' = 0 /\ drafts' = earlier_drafts'
    BY <1>4 DEF Invoke, RunInput
  <2>2. retry_budget' \in Nat /\ drafts' \in Nat
    BY <1>4 DEF Invoke, RunInput
  <2>3. QED
    BY <2>1, <2>2
<1>5. CASE Resume
  BY <1>5 DEF Resume, Resumable, Waiting
<1>6. CASE PersistRecord
  BY <1>6 DEF PersistRecord
<1>7. CASE RecordRefused \/ CheckpointFails
  BY <1>7 DEF RecordRefused, CheckpointFails
<1>8. CASE Teardown
  BY <1>8 DEF Teardown, Revoke
<1>9. CASE ParseTask
  BY <1>9 DEF ParseTask
<1>10. CASE Retrieve
  BY <1>10 DEF Retrieve
<1>11. CASE Plan
  BY <1>11 DEF Plan, AfterPlan
<1>12. CASE RequestApproval
  BY <1>12 DEF RequestApproval
<1>13. CASE Interrupt
  BY <1>13 DEF Interrupt
<1>14. CASE Approval
  BY <1>14 DEF Approval
<1>15. CASE Generate
  BY <1>15 DEF Generate, CallModel, Accept, Oversized, QuotaExhausted
<1>16. CASE Repair
  BY <1>16 DEF Repair, CallModel, Accept, Oversized, QuotaExhausted
<1>17. CASE Apply
  <2>1. StatusFollowsNode' /\ NothingUsedYet' /\ AttemptsCounted'
    BY <1>17 DEF Apply
  <2>2. VerdictsCurrent' /\ StepsCounted' /\ WithinBudgets' /\ ApprovalBeforeWork'
    BY <1>17 DEF Apply
  <2>3. DraftStaged'
    <3>1. CASE pc' = "final"
      BY <3>1
    <3>2. CASE pc' # "final"
      <4>1. /\ generated_change' = generated_change
            /\ generated_change.paths \cap Unsafe = {}
            /\ stage' = Overlay(stage, generated_change.paths, generated_change.id)
        BY <1>17, <3>2 DEF Apply
      <4>2. generated_change.paths \subseteq Paths
        BY DEF Changes
      <4>3. QED
        BY <4>1, <4>2 DEF Overlay
    <3>3. QED
      BY <3>1, <3>2
  <2>4. QED
    BY <2>1, <2>2, <2>3
<1>18. CASE Build
  BY <1>18, VerdictIsResult DEF Build, QuotaExhausted
<1>19. CASE Tests
  BY <1>19, VerdictIsResult DEF Tests, QuotaExhausted
<1>20. CASE Compliance
  BY <1>20, VerdictIsResult DEF Compliance
<1>21. CASE Review
  <2>1. CASE pc' = "final"
    BY <1>21, <2>1 DEF Review
  <2>2. CASE pc' # "final"
    <3>1. /\ review' = Verdict(Approves)
          /\ pc' = IF Approves THEN "publish" ELSE "review_failure"
      BY <1>21, <2>2 DEF Review
    <3>2. review'.passed = Approves /\ review'.draft = generated_change.id
      BY <3>1, VerdictIsResult, ApprovesIsBoolean
    <3>3. VerdictsCurrent'
      BY <1>21, <3>1, <3>2 DEF Review, Approves
    <3>4. QED
      BY <1>21, <3>1, <3>3 DEF Review
  <2>3. QED
    BY <2>1, <2>2
<1>22. ASSUME NEW gate \in Gates, RecordFailure(gate) PROVE IInv'
  BY <1>22 DEF RecordFailure, AfterFailure, FailureNode, Gates
<1>23. CASE Publish
  BY <1>23 DEF Publish
<1>24. ASSUME NEW p \in Paths, PublishFile(p) PROVE IInv'
  BY <1>24 DEF PublishFile
<1>25. ASSUME NEW p \in Paths, PublishFault(p) PROVE IInv'
  BY <1>25 DEF PublishFault
<1>26. CASE Final
  BY <1>26 DEF Final
<1>27. ASSUME NEW p \in Paths, NEW c \in CustomerContents \cup {Absent}, Edit(p, c)
       PROVE  IInv'
  BY <1>27 DEF Edit
<1>28. CASE DeadlinePasses
  BY <1>28 DEF DeadlinePasses
<1>29. CASE Crash
  BY <1>29 DEF Crash
<1>30. CASE UNCHANGED vars
  BY <1>30 DEF vars
<1>31. QED
  BY <1>1, <1>2, <1>3, <1>4, <1>5, <1>6, <1>7, <1>8, <1>9, <1>10, <1>11, <1>12, <1>13,
     <1>14, <1>15, <1>16, <1>17, <1>18, <1>19, <1>20, <1>21, <1>22, <1>23, <1>24, <1>25,
     <1>26, <1>27, <1>28, <1>29, <1>30
     DEF Next, Service, Progress, Node, Caller, Environment

\* The inductive invariant holds in every reachable state.
LEMMA Invariance == Spec => [](TypeOK /\ IInv)
<1>1. Init => TypeOK /\ IInv
  BY InitTyped, InitInv
<1>2. TypeOK /\ IInv /\ [Next]_vars => (TypeOK /\ IInv)'
  BY NextTyped, NextKeepsInv
<1>3. QED
  BY <1>1, <1>2, PTL DEF Spec

-----------------------------------------------------------------------------
(* What a run may use *)

\* Whatever the retry budget and the quotas, a run stays within both.
THEOREM BudgetsHold == Spec => []WithinBudgets
<1>1. IInv => WithinBudgets
  BY DEF IInv
<1>2. QED
  BY <1>1, Invariance, PTL

\* Whatever the retry budget, the recursion limit derived from it is never
\* reached: a retry takes seven supersteps and the limit grants it eight.
THEOREM SuperstepsBounded == Spec => []SuperstepsWithinLimit
<1>1. TypeOK /\ IInv => SuperstepsWithinLimit
  <2> SUFFICES ASSUME TypeOK, IInv, pc \in Nodes \cup {"persist"}
               PROVE  steps <= RecursionLimit
    BY DEF SuperstepsWithinLimit
  <2>1. steps \in Nat /\ retry_count \in Nat /\ retry_budget \in Nat
    BY QuotaAssumption DEF TypeOK, CallTyped, ChannelsTyped
  <2>2. retry_count <= retry_budget /\ steps <= Position[pc] + 7 * retry_count
    BY DEF IInv, StepsCounted
  <2>3. Position[pc] \in 0 .. 12
    BY DEF Nodes, Position
  <2>4. QED
    BY <2>1, <2>2, <2>3 DEF RecursionLimit
<1>2. QED
  BY <1>1, Invariance, PTL

-----------------------------------------------------------------------------
(* What is published *)

\* No draft reaches the customer repository but one that all four gates passed
\* and that stays within the plan and the writable roots.
THEOREM GatesVouch == Spec => []GatesVouchForChange
<1>1. TypeOK /\ IInv => GatesVouchForChange
  <2> SUFFICES ASSUME TypeOK, IInv, pc \in {"publish", "publishing"}
               PROVE  /\ \A result \in {build_result, test_result, validation_report, review} :
                            result.passed /\ result.draft = generated_change.id
                      /\ generated_change.id > earlier_drafts
                      /\ generated_change.paths \subseteq target_paths \ Unsafe
    BY DEF GatesVouchForChange
  <2>1. /\ Passed(build_result) /\ Passed(test_result)
        /\ Passed(validation_report) /\ Passed(review)
        /\ generated_change.paths \subseteq target_paths
    BY DEF IInv, VerdictsCurrent
  <2>2. generated_change.id > earlier_drafts
    BY DEF IInv, AttemptsCounted, AttemptNodes
  <2>3. generated_change.paths \cap Unsafe = {}
    BY DEF IInv, DraftStaged, AttemptNodes
  <2>4. QED
    BY <2>1, <2>2, <2>3 DEF Passed
<1>2. QED
  BY <1>1, Invariance, PTL

\* Every gate judges the draft itself, on each of its paths.
THEOREM GatesJudgeDraft == Spec => []GatesSeeDraft
<1>1. IInv => GatesSeeDraft
  BY DEF IInv, DraftStaged, AttemptNodes, GatesSeeDraft
<1>2. QED
  BY <1>1, Invariance, PTL

\* The model repairs the draft that failed, with one failure told per draft.
THEOREM RepairIsInformed == Spec => []FailureExplainsDraft
<1>1. TypeOK /\ IInv => FailureExplainsDraft
  BY DEF TypeOK, ChannelsTyped, IInv, AttemptsCounted, AttemptNodes, FailureExplainsDraft
<1>2. QED
  BY <1>1, Invariance, PTL

\* No work of a run whose plan needs a human precedes the approval of that run.
THEOREM ApprovalFirst == Spec => []ApprovalBeforeWork
<1>1. IInv => ApprovalBeforeWork
  BY DEF IInv
<1>2. QED
  BY <1>1, Invariance, PTL

-----------------------------------------------------------------------------
(* Authority and deadline *)

\* The staging authorization lives exactly as long as the call that needs it,
\* and a running graph always has its stage.
THEOREM AuthorityIsScoped == Spec => []AuthorityFollowsCall
<1>1. Init => AuthorityFollowsCall
  BY DEF Init, AuthorityFollowsCall, Nodes
<1>2. AuthorityFollowsCall /\ [Next]_vars => AuthorityFollowsCall'
  <2> SUFFICES ASSUME AuthorityFollowsCall, [Next]_vars PROVE AuthorityFollowsCall'
    OBVIOUS
  <2> USE DEF AuthorityFollowsCall, Nodes, disk, callVars, history, others, nodeFrame,
              modelFrame, Goto, Fail, Raise, stages
  <2>1. CASE Caller
    BY <2>1 DEF Caller, RefuseCall, Resume, Resumable, Waiting, Run
  <2>2. CASE SandboxFails \/ Invoke \/ PersistRecord \/ RecordRefused \/ CheckpointFails \/ Teardown
    BY <2>2 DEF SandboxFails, Invoke, PersistRecord, RecordRefused, CheckpointFails, Teardown, Revoke
  <2>3. CASE ParseTask \/ Retrieve \/ Plan \/ RequestApproval \/ Interrupt \/ Approval
    BY <2>3 DEF ParseTask, Retrieve, Plan, AfterPlan, RequestApproval, Interrupt, Approval
  <2>4. CASE Generate \/ Repair
    BY <2>4 DEF Generate, Repair, CallModel, Accept, Oversized
  <2>5. CASE Apply \/ Build \/ Tests \/ Compliance \/ Review
    BY <2>5 DEF Apply, Build, Tests, Compliance, Review
  <2>6. CASE \E gate \in Gates : RecordFailure(gate)
    BY <2>6 DEF RecordFailure, AfterFailure, FailureNode, Gates
  <2>7. CASE Publish \/ (\E p \in Paths : PublishFile(p) \/ PublishFault(p)) \/ Final
    BY <2>7 DEF Publish, PublishFile, PublishFault, Final
  <2>8. CASE Environment
    BY <2>8 DEF Environment, Edit, DeadlinePasses, Crash
  <2>9. CASE UNCHANGED vars
    BY <2>9 DEF vars
  <2>10. QED
    BY <2>1, <2>2, <2>3, <2>4, <2>5, <2>6, <2>7, <2>8, <2>9 DEF Next, Service, Progress, Node
<1>3. QED
  BY <1>1, <1>2, PTL DEF Spec

\* Past the deadline a step asks for no draft, starts no command and begins no
\* publication: every node that would looks at the quota first.
LEMMA NoWorkStep ==
    TypeOK /\ [Next]_vars /\ past_deadline =>
        /\ drafts' = drafts
        /\ command_executions' <= command_executions
        /\ pc' = "publishing" => pc = "publishing"
<1>1. SUFFICES ASSUME TypeOK, [Next]_vars, past_deadline
               PROVE  /\ drafts' = drafts
                      /\ command_executions' <= command_executions
                      /\ pc' = "publishing" => pc = "publishing"
  OBVIOUS
<1>2. command_executions \in Nat
  BY <1>1 DEF TypeOK, ChannelsTyped
<1>3. \A resource : QuotaExhausted(resource)
  BY <1>1 DEF QuotaExhausted
<1> USE <1>2 DEF disk, callVars, usage, channels, history, others, nodeFrame, modelFrame,
                 Goto, Fail, Raise, stages
<1>4. CASE Caller
  BY <1>4 DEF Caller, RefuseCall, Resume, Run
<1>5. CASE SandboxFails \/ Invoke \/ PersistRecord \/ RecordRefused \/ CheckpointFails \/ Teardown
  BY <1>5 DEF SandboxFails, Invoke, RunInput, PersistRecord, RecordRefused, CheckpointFails, Teardown
<1>6. CASE ParseTask \/ Retrieve \/ Plan \/ RequestApproval \/ Interrupt \/ Approval
  BY <1>6 DEF ParseTask, Retrieve, Plan, AfterPlan, RequestApproval, Interrupt, Approval
<1>7. CASE Generate \/ Repair
  BY <1>3, <1>7 DEF Generate, Repair, CallModel
<1>8. CASE Apply \/ Build \/ Tests \/ Compliance \/ Review
  BY <1>3, <1>8 DEF Apply, Build, Tests, Compliance, Review
<1>9. CASE \E gate \in Gates : RecordFailure(gate)
  BY <1>9 DEF RecordFailure, AfterFailure
<1>10. CASE Publish \/ (\E p \in Paths : PublishFile(p) \/ PublishFault(p)) \/ Final
  BY <1>3, <1>10 DEF Publish, PublishFile, PublishFault, Final
<1>11. CASE Environment
  BY <1>11 DEF Environment, Edit, DeadlinePasses, Crash
<1>12. CASE UNCHANGED vars
  BY <1>12 DEF vars
<1>13. QED
  BY <1>1, <1>4, <1>5, <1>6, <1>7, <1>8, <1>9, <1>10, <1>11, <1>12 DEF Next, Service, Progress, Node

\* Once the deadline of a run has passed, none of its steps begins new work.
THEOREM DeadlineStopsWork == Spec => NoWorkPastDeadline
<1>1. TypeOK /\ [Next]_vars =>
        [past_deadline =>
           /\ drafts' = drafts
           /\ command_executions' <= command_executions
           /\ pc' = "publishing" => pc = "publishing"]_vars
  BY NoWorkStep
<1>2. QED
  BY <1>1, TypeCorrect, PTL DEF Spec, NoWorkPastDeadline

-----------------------------------------------------------------------------
(* The decision a human is asked for *)

\* Nodes a run visits before anything is generated, up to the decision.
PlanningNodes == {"parse", "retrieve", "plan", "approval_request", "approval", "decide"}

\* A run that waits for a decision needs one, and until then its stage has the
\* scanned files as the revision of the run names them, but for ignored ones.
StageIsOfRevision ==
    intact => \A p \in Scanned \ Ignored : stage[p] = repository_revision[p]

PendingInv ==
    /\ pc \in {"approval_request", "approval", "decide"} \/ status = "needs_human_review"
         => approval_required
    /\ pc \in PlanningNodes \/ status = "needs_human_review" => StageIsOfRevision

\* Whatever the service, its callers, the editors and the clock do in between.
LEMMA PendingKept == TypeOK /\ IInv /\ PendingInv /\ [Next]_vars => PendingInv'
<1> SUFFICES ASSUME TypeOK, IInv, PendingInv, [Next]_vars PROVE PendingInv'
  OBVIOUS
<1>1. /\ pc \in AttemptNodes \cup {"parse", "retrieve", "plan", "generate"} => status = "running"
      /\ pc = "final" => status \in {"running", "failed"}
      /\ edits \in Nat
  BY DEF IInv, StatusFollowsNode, FirstNodes, AttemptNodes, TypeOK, HistoryTyped
<1> USE <1>1 DEF PendingInv, PlanningNodes, AttemptNodes, disk, callVars, inputs, planned,
                 channels, history, others, nodeFrame, modelFrame, Goto, Fail, Raise, stages
<1>2. CASE Caller
  BY <1>2 DEF Caller, RefuseCall, Resume, Resumable, Waiting, Run, StageIsOfRevision
<1>3. CASE SandboxFails \/ PersistRecord \/ RecordRefused \/ CheckpointFails
  BY <1>3 DEF SandboxFails, PersistRecord, RecordRefused, CheckpointFails, StageIsOfRevision
<1>11. CASE Teardown
  <2>1. StageIsOfRevision => StageIsOfRevision'
    BY <1>11 DEF Teardown, RemoveStage, StageRemains, StageIsOfRevision
  <2>2. QED
    BY <1>11, <2>1 DEF Teardown
<1>12. CASE Invoke
  <2>1. StageIsOfRevision'
    <3> SUFFICES ASSUME intact', NEW p \in Scanned \ Ignored
                 PROVE  stage'[p] = repository_revision'[p]
      BY DEF StageIsOfRevision
    <3>1. repository_revision' = Revision(repository)
      BY <1>12 DEF Invoke, RunInput
    <3>2. p \in Paths /\ repository \in [Paths -> Contents]
      BY PathAssumption DEF TypeOK, DiskTyped, Trees
    <3>3. stage'[p] = repository[p]
      BY <1>12, <3>2 DEF Invoke, Sandboxes, Overlay
    <3>4. QED
      BY <3>1, <3>2, <3>3 DEF Revision
  <2>2. pc' = "parse" /\ status' = "running"
    BY <1>12 DEF Invoke, RunInput
  <2>3. QED
    BY <2>1, <2>2
<1>4. CASE ParseTask \/ Retrieve \/ Plan \/ RequestApproval \/ Interrupt \/ Approval
  <2>1. CASE ParseTask \/ Retrieve
    BY <2>1 DEF ParseTask, Retrieve, StageIsOfRevision
  <2>2. CASE Plan
    BY <2>2 DEF Plan, AfterPlan, StageIsOfRevision
  <2>3. CASE RequestApproval \/ Interrupt
    BY <2>3 DEF RequestApproval, Interrupt, StageIsOfRevision
  <2>4. CASE Approval
    BY <2>4 DEF Approval, StageIsOfRevision
  <2>5. QED
    BY <1>4, <2>1, <2>2, <2>3, <2>4
<1>5. CASE Generate \/ Repair
  BY <1>5 DEF Generate, Repair, CallModel, Accept, Oversized, StageIsOfRevision
<1>6. CASE Apply \/ Build \/ Tests \/ Compliance \/ Review
  BY <1>6 DEF Apply, Build, Tests, Compliance, Review, StageIsOfRevision
<1>7. CASE \E gate \in Gates : RecordFailure(gate)
  BY <1>7 DEF RecordFailure, AfterFailure, FailureNode, Gates, StageIsOfRevision
<1>8. CASE Publish \/ (\E p \in Paths : PublishFile(p) \/ PublishFault(p)) \/ Final
  BY <1>8 DEF Publish, PublishFile, PublishFault, Final, StageIsOfRevision
<1>9. CASE Environment
  <2>1. StageIsOfRevision => StageIsOfRevision'
    BY <1>9 DEF Environment, Edit, DeadlinePasses, Crash, StageRemains, StageIsOfRevision
  <2>2. QED
    BY <1>9, <2>1 DEF Environment, Edit, DeadlinePasses, Crash
<1>10. CASE UNCHANGED vars
  BY <1>10 DEF vars, StageIsOfRevision
<1>13. QED
  BY <1>2, <1>3, <1>4, <1>5, <1>6, <1>7, <1>8, <1>9, <1>10, <1>11,
     <1>12 DEF Next, Service, Progress, Node

\* Only resume() enters the graph at a decision.
LEMMA OnlyResumeDecides ==
    ASSUME Next, pc = "idle", pc' = "decide" PROVE Resume
<1> USE DEF callVars, channels, history, nodeFrame, modelFrame, Goto, Fail, Raise
<1>1. ~Service
  BY DEF Service, Progress, Node, SandboxFails, Invoke, CheckpointFails, PersistRecord, RecordRefused,
         Teardown, ParseTask, Retrieve, Plan, RequestApproval, Interrupt, Approval, Generate,
         Repair, Apply, Build, Tests, Compliance, Review, RecordFailure, FailureNode, Gates,
         Publish, PublishFile, PublishFault, Final, Nodes
<1>2. ~Environment
  BY DEF Environment, Edit, DeadlinePasses, Crash
<1>3. QED
  BY <1>1, <1>2 DEF Next, Caller, RefuseCall, Run

\* A decision enters the run it was asked for, in a stage of the repository as it
\* is at that moment.
THEOREM DecisionIsForPendingRun == Spec => DecisionMeetsPendingRun
<1>1. Init => PendingInv
  BY PathAssumption
     DEF Init, PendingInv, PlanningNodes
<1>2. TypeOK /\ IInv /\ PendingInv /\ [Next]_vars =>
        [pc = "idle" /\ pc' = "decide" =>
           /\ status = "needs_human_review" /\ approval_required
           /\ drafts = earlier_drafts
           /\ intact => \A p \in Scanned \ Ignored : stage[p] = repository[p]]_vars
  <2> SUFFICES ASSUME TypeOK, IInv, PendingInv, Next, pc = "idle", pc' = "decide"
               PROVE  /\ status = "needs_human_review" /\ approval_required
                      /\ drafts = earlier_drafts
                      /\ intact => \A p \in Scanned \ Ignored : stage[p] = repository[p]
    OBVIOUS
  <2>1. status = "needs_human_review" /\ repository_revision = Revision(repository)
    BY OnlyResumeDecides DEF Resume, Resumable, Waiting
  <2>2. drafts = earlier_drafts
    BY <2>1 DEF IInv, NothingUsedYet
  <2>3. approval_required /\ StageIsOfRevision
    BY <2>1 DEF PendingInv
  <2>4. QED
    BY <2>1, <2>2, <2>3 DEF StageIsOfRevision, Revision
<1>3. QED
  BY <1>1, <1>2, PendingKept, Invariance, PTL DEF Spec, DecisionMeetsPendingRun

-----------------------------------------------------------------------------
(* The stages that are left *)

\* The stage is that of the active call, which will see to it.
Attended == pc \in Nodes \cup {"persist"} \/ (pc = "teardown" /\ authorized)

\* The thread names a stage that neither a call nor a decision will use.
Stray == IF stage_exists /\ ~Attended /\ status # "needs_human_review" THEN 1 ELSE 0

\* At every step of a call, what is left behind has one of the three causes.
StageInv ==
    /\ preserve_stage => pc = "teardown" /\ status = "needs_human_review"
    /\ orphans + Stray <= superseded + unremoved + crashes
    /\ unremoved = 0 /\ crashes = 0 => orphans = superseded /\ Stray = 0

\* One more cause accounts for one more directory.
LEMMA OneMoreCause ==
    ASSUME NEW left \in Nat, NEW stray \in Nat, NEW a \in Nat, NEW b \in Nat, NEW c \in Nat,
           stray <= 1, left <= a + b + c
    PROVE  left + stray <= a + (b + 1) + c /\ left + stray <= a + b + (c + 1)
OBVIOUS

\* A node's step leaves the stage to its call.
LEMMA NodesAttend ==
    ASSUME TypeOK, AuthorityFollowsCall, Node \/ CheckpointFails \/ PersistRecord \/ RecordRefused
    PROVE  /\ Attended /\ Attended'
           /\ UNCHANGED <<orphans, superseded, unremoved, crashes>>
           /\ preserve_stage' => preserve_stage \/ (pc' = "teardown" /\ status' = "needs_human_review")
           /\ pc # "teardown"
<1> USE DEF Attended, AuthorityFollowsCall, Nodes, disk, callVars, inputs, usage, channels,
            history, stages, others, nodeFrame, modelFrame, Goto, Fail, Raise
<1>1. CASE CheckpointFails \/ RecordRefused
  BY <1>1 DEF CheckpointFails, RecordRefused
<1>2. CASE PersistRecord
  BY <1>2 DEF PersistRecord
<1>3. CASE ParseTask \/ Retrieve \/ Plan \/ RequestApproval \/ Interrupt \/ Approval
  BY <1>3 DEF ParseTask, Retrieve, Plan, AfterPlan, RequestApproval, Interrupt, Approval
<1>4. CASE Generate \/ Repair
  BY <1>4 DEF Generate, Repair, CallModel, Accept, Oversized
<1>5. CASE Apply \/ Build \/ Tests \/ Compliance \/ Review
  BY <1>5 DEF Apply, Build, Tests, Compliance, Review
<1>6. CASE \E gate \in Gates : RecordFailure(gate)
  BY <1>6 DEF RecordFailure, AfterFailure, FailureNode, Gates
<1>7. CASE Publish \/ (\E p \in Paths : PublishFile(p) \/ PublishFault(p)) \/ Final
  BY <1>7 DEF Publish, PublishFile, PublishFault, Final
<1>8. QED
  BY <1>1, <1>2, <1>3, <1>4, <1>5, <1>6, <1>7 DEF Node

\* Every step keeps the account, given that a running graph holds its authorization.
LEMMA StageInvKept == TypeOK /\ AuthorityFollowsCall /\ StageInv /\ [Next]_vars => StageInv'
<1> SUFFICES ASSUME TypeOK, AuthorityFollowsCall, StageInv, [Next]_vars PROVE StageInv'
  OBVIOUS
<1>1. /\ orphans \in Nat /\ superseded \in Nat /\ unremoved \in Nat /\ crashes \in Nat
      /\ Stray \in Nat /\ Stray' \in Nat /\ Stray <= 1 /\ Stray' <= 1
  BY DEF TypeOK, DiskTyped, HistoryTyped, Stray
<1> USE <1>1 DEF StageInv, disk, callVars, channels, history, stages, others
<1>2. CASE Node \/ CheckpointFails \/ PersistRecord \/ RecordRefused
  <2>1. Stray = 0 /\ Stray' = 0
    BY <1>2, NodesAttend DEF Stray
  <2>2. QED
    BY <1>2, <2>1, NodesAttend
<1>3. CASE Caller
  <2>1. Stray' = Stray
    BY <1>3 DEF Caller, RefuseCall, Resume, Resumable, Waiting, Run, Stray, Attended, Nodes
  <2>2. QED
    BY <1>3, <2>1 DEF Caller, RefuseCall, Resume, Resumable, Run
<1>4. CASE SandboxFails
  <2>1. Stray' = Stray
    BY <1>4 DEF SandboxFails, Raise, Stray, Attended, AuthorityFollowsCall, Nodes
  <2>2. QED
    BY <1>4, <2>1 DEF SandboxFails, Raise
<1>5. CASE Invoke
  <2>1. Stray' = 0
    BY <1>5 DEF Invoke, Stray, Attended, Nodes
  <2>2. ~Attended
    BY <1>5 DEF Invoke, Attended, Nodes
  <2>3. unremoved' = unremoved /\ crashes' = crashes /\ ~preserve_stage'
    BY <1>5 DEF Invoke
  <2>4. CASE stage_exists /\ status = "needs_human_review"
    <3>1. orphans' = orphans + 1 /\ superseded' = superseded + 1 /\ Stray = 0
      BY <1>5, <2>4 DEF Invoke, Waiting, Stray
    <3>2. QED
      BY <2>1, <2>3, <3>1
  <2>5. CASE stage_exists /\ status # "needs_human_review"
    <3>1. orphans' = orphans + 1 /\ superseded' = superseded /\ Stray = 1
      BY <1>5, <2>2, <2>5 DEF Invoke, Waiting, Stray
    <3>2. QED
      BY <2>1, <2>3, <3>1
  <2>6. CASE ~stage_exists
    <3>1. orphans' = orphans /\ superseded' = superseded /\ Stray = 0
      BY <1>5, <2>6 DEF Invoke, Waiting, Stray
    <3>2. QED
      BY <2>1, <2>3, <3>1
  <2>7. QED
    BY <2>4, <2>5, <2>6
<1>6. CASE Teardown
  <2>1. /\ UNCHANGED <<orphans, superseded, crashes, status>>
        /\ pc = "teardown" /\ pc' = "idle" /\ ~preserve_stage'
    BY <1>6 DEF Teardown
  <2>2. \/ unremoved' = unremoved /\ stage_exists' = (stage_exists /\ ~Removes)
        \/ unremoved' = unremoved + 1 /\ Removes
    BY <1>6 DEF Teardown, RemoveStage
  <2>3. CASE unremoved' = unremoved + 1 /\ Removes
    <3>1. Stray = 0
      BY <2>1, <2>3 DEF Stray, Attended, Removes
    <3>2. orphans <= superseded + unremoved + crashes
      BY <3>1
    <3>3. orphans + Stray' <= superseded + (unremoved + 1) + crashes
      BY <3>2, OneMoreCause
    <3>4. unremoved + 1 # 0
      OBVIOUS
    <3>5. QED
      BY <2>1, <2>3, <3>3, <3>4 DEF StageInv
  <2>4. CASE unremoved' = unremoved /\ stage_exists' = (stage_exists /\ ~Removes)
    <3>1. Stray' = Stray
      BY <2>1, <2>4 DEF Stray, Attended, Removes, Nodes, TypeOK, DiskTyped, CallTyped
    <3>2. QED
      BY <2>1, <2>4, <3>1
  <2>5. QED
    BY <2>2, <2>3, <2>4
<1>7. CASE Crash
  <2>1. /\ UNCHANGED <<superseded, unremoved, status, stage_exists>>
        /\ crashes' = crashes + 1 /\ ~preserve_stage'
        /\ orphans' \in {orphans, orphans + 1}
        /\ orphans' = orphans + 1 => pc = "stage"
        /\ pc' = "idle"
    BY <1>7 DEF Crash, StageRemains
  <2>2. pc = "stage" => Stray' = Stray
    BY <2>1 DEF Stray, Attended, Nodes
  <2>3. orphans' + Stray' <= superseded + unremoved + (crashes + 1)
    <3>1. CASE orphans' = orphans + 1
      BY <2>2, <2>1, <3>1
    <3>2. CASE orphans' = orphans
      <4>1. orphans <= superseded + unremoved + crashes
        OBVIOUS
      <4>2. QED
        BY <3>2, <4>1, OneMoreCause
    <3>3. QED
      BY <2>1, <3>1, <3>2
  <2>4. crashes + 1 # 0
    OBVIOUS
  <2>5. QED
    BY <2>1, <2>3, <2>4
<1>8. CASE Environment /\ ~Crash
  <2>1. Stray' = Stray
    BY <1>8 DEF Environment, Edit, DeadlinePasses, Stray, Attended
  <2>2. QED
    BY <1>8, <2>1 DEF Environment, Edit, DeadlinePasses
<1>9. CASE UNCHANGED vars
  BY <1>9 DEF vars, Stray, Attended
<1>10. QED
  BY <1>2, <1>3, <1>4, <1>5, <1>6, <1>7, <1>8, <1>9 DEF Next, Service, Progress, Environment

\* Every stage that is left for nobody has its cause.
THEOREM StagesAreAccounted == Spec => []StagesAccountedFor
<1>1. Init => StageInv
  BY DEF Init, StageInv, Stray, Attended, Nodes
<1>2. TypeOK /\ StageInv => StagesAccountedFor
  <2> SUFFICES ASSUME TypeOK, StageInv PROVE StagesAccountedFor
    OBVIOUS
  <2>1. /\ orphans \in Nat /\ superseded \in Nat /\ unremoved \in Nat /\ crashes \in Nat
        /\ Stray \in Nat
    BY DEF TypeOK, DiskTyped, HistoryTyped, Stray
  <2>2. CASE pc = "idle"
    <3>1. Leftovers = orphans + Stray
      BY <2>2 DEF Leftovers, Stray, Attended, Waiting, Nodes
    <3>2. QED
      BY <2>1, <3>1 DEF StageInv, StagesAccountedFor
  <2>3. CASE pc # "idle"
    BY <2>1, <2>3 DEF StageInv, StagesAccountedFor, Leftovers
  <2>4. QED
    BY <2>2, <2>3
<1>3. QED
  BY <1>1, <1>2, StageInvKept, AuthorityIsScoped, TypeCorrect, PTL DEF Spec

-----------------------------------------------------------------------------
(* What a run reports *)

\* Nothing of the current run is in the repository.
NothingPublished == \A w \in published : w[1] <= earlier_drafts

\* Every file of the current change is.
ChangeIsPublished ==
    /\ generated_change.paths # {}
    /\ \A p \in generated_change.paths : <<generated_change.id, p>> \in published

\* From the first file written to the status that is reported.
PublicationInv ==
    /\ \A w \in published : w[1] <= drafts
    /\ pc \in FirstNodes \cup AttemptNodes \/ status = "needs_human_review"
         => "change_published" \notin events
    /\ pc \in FirstNodes \cup (AttemptNodes \ {"publishing"}) \/ status = "needs_human_review"
         => NothingPublished
    /\ pc \in AttemptNodes => generated_change.paths # {}
    /\ pc = "publishing" =>
         /\ remaining # {}
         /\ \A p \in generated_change.paths \ remaining : <<generated_change.id, p>> \in published
    /\ "change_published" \in events => ChangeIsPublished
    /\ pc = "final" /\ "change_published" \in events =>
         build_result.passed /\ test_result.passed /\ validation_report.passed
    /\ status = "succeeded" /\ pc = "persist" => "change_published" \in events
    /\ pc = "final" /\ "change_published" \notin events /\ "publish_failed" \notin events
         => NothingPublished

\* Writing a file, or failing to, is what relates the repository to the events.
LEMMA PublishingKept ==
    ASSUME TypeOK, IInv, PublicationInv, NEW p \in Paths, PublishFile(p) \/ PublishFault(p)
    PROVE  PublicationInv'
<1> USE DEF PublicationInv, NothingPublished, ChangeIsPublished
<1>1. /\ pc = "publishing" /\ p \in remaining /\ status = "running"
      /\ generated_change.id = drafts
      /\ generated_change' = generated_change /\ drafts' = drafts /\ status' \in {status, "failed"}
      /\ earlier_drafts' = earlier_drafts
  BY DEF IInv, StatusFollowsNode, AttemptsCounted, AttemptNodes, PublishFile, PublishFault, Fail,
         Goto, nodeFrame, history
<1>2. build_result.passed /\ test_result.passed /\ validation_report.passed
  BY <1>1 DEF IInv, VerdictsCurrent, Passed
<1>3. drafts \in Nat
  BY DEF TypeOK, HistoryTyped
<1>4. CASE PublishFile(p)
  <2>1. /\ published' = published \cup {<<drafts, p>>}
        /\ remaining' = remaining \ {p}
        /\ status' = status
        /\ IF remaining' = {} THEN pc' = "final" /\ events' = events \cup {"change_published"}
                              ELSE pc' = pc /\ events' = events
        /\ UNCHANGED <<build_result, test_result, validation_report>>
    BY <1>1, <1>4 DEF PublishFile, Goto, results
  <2>2. \A w \in published' : w[1] <= drafts'
    BY <1>1, <1>3, <2>1
  <2>3. \A q \in generated_change.paths \ remaining' : <<generated_change.id, q>> \in published'
    BY <1>1, <2>1 DEF AttemptNodes
  <2>4. generated_change.paths # {} /\ "change_published" \notin events
    BY <1>1 DEF AttemptNodes
  <2>5. CASE remaining' = {}
    BY <1>1, <1>2, <2>1, <2>2, <2>3, <2>4, <2>5 DEF FirstNodes, AttemptNodes
  <2>6. CASE remaining' # {}
    BY <1>1, <2>1, <2>2, <2>3, <2>4, <2>6 DEF FirstNodes, AttemptNodes
  <2>7. QED
    BY <2>5, <2>6
<1>5. CASE PublishFault(p)
  <2>1. /\ pc' = "final" /\ status' = "failed" /\ events' = events \cup {"publish_failed"}
        /\ published' = published
    BY <1>5 DEF PublishFault, Fail, Goto, nodeFrame, history
  <2>2. "change_published" \notin events
    BY <1>1 DEF AttemptNodes
  <2>3. QED
    BY <1>1, <1>3, <2>1, <2>2 DEF FirstNodes, AttemptNodes
<1>6. QED
  BY <1>4, <1>5

\* A step of a node keeps the account of what is published.
LEMMA NodesKeepPublication ==
    ASSUME TypeOK, IInv, PublicationInv, Node
    PROVE  PublicationInv'
<1>1. /\ pc \in (FirstNodes \ {"approval", "decide"}) \cup AttemptNodes => status = "running"
      /\ pc \in {"approval", "decide"} => status = "needs_human_review"
      /\ pc = "final" => status \in {"running", "failed"}
      /\ drafts \in Nat /\ \A w \in published : w[1] \in Nat
  BY DEF IInv, StatusFollowsNode, TypeOK, HistoryTyped
<1> USE <1>1 DEF PublicationInv, NothingPublished, ChangeIsPublished, FirstNodes, AttemptNodes,
                 inputs, planned, usage, results, failing, history, others, nodeFrame,
                 modelFrame, Goto, Fail, Raise, stages
<1>2. CASE ParseTask \/ Retrieve
  BY <1>2 DEF ParseTask, Retrieve
<1>3. CASE Plan
  BY <1>3 DEF Plan, AfterPlan
<1>4. CASE RequestApproval \/ Interrupt
  BY <1>4 DEF RequestApproval, Interrupt
<1>5. CASE Approval
  BY <1>5 DEF Approval
<1>6. CASE Generate \/ Repair
  <2>1. /\ "change_published" \notin events /\ NothingPublished
        /\ events' = events /\ published' = published /\ earlier_drafts' = earlier_drafts
        /\ drafts' \in {drafts, drafts + 1}
    BY <1>6 DEF Generate, Repair, CallModel, Accept, Oversized
  <2>2. (\A w \in published' : w[1] <= drafts') /\ NothingPublished'
    BY <2>1
  <2>3. \/ pc' = "teardown" /\ status' = "running"
        \/ pc' = "final" /\ status' = "failed"
        \/ pc' = "apply" /\ status' = "running" /\ generated_change'.paths # {}
    <3>1. ASSUME NEW S \in (SUBSET Paths) \ {{}}, NEW count, Accept(S, count)
          PROVE  pc' = "apply" /\ status' = status /\ generated_change'.paths # {}
      BY <3>1 DEF Accept
    <3>2. status = "running"
      BY <1>6 DEF Generate, Repair
    <3>3. QED
      BY <1>6, <3>1, <3>2 DEF Generate, Repair, CallModel, Oversized
  <2>4. QED
    BY <2>1, <2>2, <2>3
<1>7. CASE Apply
  BY <1>7 DEF Apply
<1>8. CASE Build \/ Tests
  BY <1>8 DEF Build, Tests
<1>9. CASE Compliance \/ Review
  BY <1>9 DEF Compliance, Review
<1>10. CASE \E gate \in Gates : RecordFailure(gate)
  BY <1>10 DEF RecordFailure, AfterFailure, FailureNode, Gates
<1>11. CASE Publish
  BY <1>11 DEF Publish
<1>12. CASE \E p \in Paths : PublishFile(p) \/ PublishFault(p)
  BY <1>12, PublishingKept
<1>13. CASE Final
  BY <1>13 DEF Final, Succeeded
<1>14. QED
  BY <1>2, <1>3, <1>4, <1>5, <1>6, <1>7, <1>8, <1>9, <1>10, <1>11, <1>12, <1>13
     DEF Node

\* So does everything around the graph: a new run starts with no event and with
\* nothing of its own in the repository.
LEMMA PublicationKept == TypeOK /\ IInv /\ PublicationInv /\ [Next]_vars => PublicationInv'
<1> SUFFICES ASSUME TypeOK, IInv, PublicationInv, [Next]_vars PROVE PublicationInv'
  OBVIOUS
<1> USE DEF PublicationInv, NothingPublished, ChangeIsPublished, disk, callVars, inputs,
            results, failing, history, stages, others, channels, Raise
<1>1. CASE Caller
  BY <1>1 DEF Caller, RefuseCall, Resume, Resumable, Waiting, Run, FirstNodes, AttemptNodes
<1>2. CASE Invoke
  BY <1>2 DEF Invoke, RunInput, FirstNodes, AttemptNodes
<1>3. CASE SandboxFails \/ PersistRecord \/ RecordRefused \/ CheckpointFails \/ Teardown
  BY <1>3 DEF SandboxFails, PersistRecord, RecordRefused, CheckpointFails, Teardown, FirstNodes, AttemptNodes
<1>4. CASE Node
  BY <1>4, NodesKeepPublication
<1>5. CASE Environment
  BY <1>5 DEF Environment, Edit, DeadlinePasses, Crash, FirstNodes, AttemptNodes
<1>6. CASE UNCHANGED vars
  BY <1>6 DEF vars
<1>7. QED
  BY <1>1, <1>2, <1>3, <1>4, <1>5, <1>6 DEF Next, Service, Progress

\* The outcome a step may report, given the account so far.
LEMMA OutcomeKept ==
    TypeOK /\ IInv /\ PublicationInv /\ OutcomeMatchesRepository /\ [Next]_vars
        => OutcomeMatchesRepository'
<1> SUFFICES ASSUME TypeOK, IInv, PublicationInv, OutcomeMatchesRepository, [Next]_vars
             PROVE  OutcomeMatchesRepository'
  OBVIOUS
<1>1. /\ pc \in (FirstNodes \ {"approval", "decide"}) \cup AttemptNodes => status = "running"
      /\ pc \in {"approval", "decide"} => status = "needs_human_review"
  BY DEF IInv, StatusFollowsNode
<1> USE <1>1 DEF PublicationInv, OutcomeMatchesRepository, NothingPublished, ChangeIsPublished,
                 FirstNodes, AttemptNodes, disk, callVars, inputs, planned, usage, results,
                 failing, history, others, channels, nodeFrame, modelFrame, Goto, Fail, Raise, stages
<1>2. CASE Caller
  BY <1>2 DEF Caller, RefuseCall, Resume, Resumable, Waiting, Run
<1>3. CASE SandboxFails \/ Invoke \/ PersistRecord \/ RecordRefused \/ CheckpointFails \/ Teardown
  BY <1>3 DEF SandboxFails, Invoke, RunInput, PersistRecord, RecordRefused, CheckpointFails, Teardown
<1>4. CASE ParseTask \/ Retrieve
  BY <1>4 DEF ParseTask, Retrieve
<1>5. CASE Plan
  BY <1>5 DEF Plan, AfterPlan
<1>6. CASE RequestApproval \/ Interrupt
  BY <1>6 DEF RequestApproval, Interrupt
<1>7. CASE Approval
  BY <1>7 DEF Approval
<1>8. CASE Generate \/ Repair
  BY <1>8 DEF Generate, Repair, CallModel, Accept, Oversized
<1>9. CASE Apply \/ Build \/ Tests \/ Compliance \/ Review
  BY <1>9 DEF Apply, Build, Tests, Compliance, Review
<1>10. CASE \E gate \in Gates : RecordFailure(gate)
  BY <1>10 DEF RecordFailure, AfterFailure, FailureNode, Gates
<1>11. CASE Publish
  BY <1>11 DEF Publish
<1>12. CASE \E p \in Paths : PublishFile(p) \/ PublishFault(p)
  BY <1>12 DEF PublishFile, PublishFault
<1>13. CASE Final
  BY <1>13 DEF Final, Succeeded
<1>14. CASE Environment
  BY <1>14 DEF Environment, Edit, DeadlinePasses, Crash
<1>15. CASE UNCHANGED vars
  BY <1>15 DEF vars
<1>16. QED
  BY <1>2, <1>3, <1>4, <1>5, <1>6, <1>7, <1>8, <1>9, <1>10, <1>11, <1>12, <1>13, <1>14,
     <1>15 DEF Next, Service, Progress, Node

\* Before the first call nothing is published.
LEMMA InitPublication == Init => PublicationInv
BY DEF Init, PublicationInv, NothingPublished, ChangeIsPublished, FirstNodes, AttemptNodes

\* What a run reports is what it did: a succeeded record has its whole change in
\* the repository, and a run that failed before publishing has nothing there.
THEOREM OutcomeIsTrue == Spec => []OutcomeMatchesRepository
<1>1. Init => OutcomeMatchesRepository
  BY DEF Init, OutcomeMatchesRepository
<1>2. QED
  BY <1>1, InitPublication, PublicationKept, OutcomeKept, Invariance, PTL DEF Spec

-----------------------------------------------------------------------------
(* The revision a record pins *)

\* Until somebody else edits it, a file of the repository never disappears.
FilesStay ==
    \A p \in Scanned :
        /\ scanned[p] # Absent => repository[p] # Absent
        /\ repository_revision[p] # Absent => repository[p] # Absent

\* A file of the change that the revision the run started from did not have.
Added(change, revision) ==
    \A p \in change.paths \cap Scanned : revision[p] = Absent /\ repository[p] # Absent

SealedRecord == record.status = "succeeded" /\ record.change.paths \cap Scanned # {}

\* A change that was published moved the repository off the revision it was
\* generated for, and no later run starts from that revision again.
RevisionInv ==
    edits = 0 =>
        /\ FilesStay
        /\ pc = "publishing" =>
             /\ \A p \in generated_change.paths : repository[p] = Absent <=> p \in remaining
             /\ \A p \in generated_change.paths \cap Scanned : repository_revision[p] = Absent
        /\ "change_published" \in events => Added(generated_change, repository_revision)
        /\ record.status = "succeeded" => Added(record.change, record.input.revision)
        /\ SealedRecord =>
             /\ pc = "stage" => scanned # record.input.revision
             /\ pc \in Nodes \cup {"persist"} \/ status = "needs_human_review"
                  => repository_revision # record.input.revision

\* The repository holds a file where the revision of a sealed record has none.
LEMMA MovedOff ==
    ASSUME SealedRecord, Added(record.change, record.input.revision)
    PROVE  Revision(repository) # record.input.revision
<1>1. PICK p \in record.change.paths \cap Scanned : TRUE
  BY DEF SealedRecord
<1>2. record.input.revision[p] = Absent /\ repository[p] # Absent
  BY <1>1 DEF Added
<1>3. Revision(repository)[p] = repository[p]
  BY <1>1 DEF Revision
<1>4. QED
  BY <1>2, <1>3

\* A step that neither touches the repository or the record nor starts a run or
\* a publication keeps all of it.
LEMMA RevisionFrame ==
    ASSUME RevisionInv, edits' = edits,
           UNCHANGED <<repository, record, scanned, repository_revision>>,
           pc' = "publishing" =>
               pc = "publishing" /\ generated_change' = generated_change /\ remaining' = remaining,
           pc' = "stage" => pc = "stage",
           "change_published" \in events' =>
               "change_published" \in events /\ generated_change' = generated_change,
           pc' \in Nodes \cup {"persist"} \/ status' = "needs_human_review" =>
               pc \in Nodes \cup {"persist"} \/ status = "needs_human_review"
    PROVE  RevisionInv'
BY DEF RevisionInv, FilesStay, Added, SealedRecord

\* Writing a file, or failing to, puts something where there was nothing.
LEMMA PublishingKeepsRevision ==
    ASSUME TypeOK, PublicationInv, RevisionInv, NEW p \in Paths, PublishFile(p) \/ PublishFault(p)
    PROVE  RevisionInv'
<1> SUFFICES ASSUME edits' = 0
             PROVE  /\ FilesStay'
                    /\ pc' = "publishing" =>
                         /\ \A q \in generated_change'.paths :
                               repository'[q] = Absent <=> q \in remaining'
                         /\ \A q \in generated_change'.paths \cap Scanned :
                               repository_revision'[q] = Absent
                    /\ "change_published" \in events' => Added(generated_change, repository_revision)'
                    /\ record'.status = "succeeded" => Added(record.change, record.input.revision)'
                    /\ SealedRecord' =>
                         /\ pc' = "stage" => scanned' # record'.input.revision
                         /\ pc' \in Nodes \cup {"persist"} \/ status' = "needs_human_review"
                              => repository_revision' # record'.input.revision
  BY DEF RevisionInv
<1>1. /\ edits = 0 /\ pc = "publishing" /\ p \in remaining
      /\ UNCHANGED <<record, scanned, repository_revision, generated_change, edits>>
      /\ pc' \in {"publishing", "final"}
      /\ pc' = "publishing" => PublishFile(p) /\ UNCHANGED events /\ remaining' = remaining \ {p}
      /\ "change_published" \in events' /\ "change_published" \notin events =>
            PublishFile(p) /\ remaining' = {} /\ remaining' = remaining \ {p}
  BY DEF PublishFile, PublishFault, Fail, Goto, nodeFrame, history, others, inputs
<1>2. /\ FilesStay
      /\ \A q \in generated_change.paths : repository[q] = Absent <=> q \in remaining
      /\ \A q \in generated_change.paths \cap Scanned : repository_revision[q] = Absent
      /\ record.status = "succeeded" => Added(record.change, record.input.revision)
      /\ SealedRecord => repository_revision # record.input.revision
      /\ "change_published" \notin events
  BY <1>1 DEF RevisionInv, Nodes, PublicationInv, AttemptNodes
<1>3. /\ repository \in [Paths -> Contents] /\ Scanned \subseteq Paths
      /\ generated_change.id \in Nat /\ generated_change.paths \subseteq Paths
  BY PathAssumption DEF TypeOK, DiskTyped, Trees, ChannelsTyped, Changes
<1>4. /\ \A q \in Paths : repository[q] # Absent => repository'[q] # Absent
      /\ PublishFile(p) => \A q \in Paths : repository'[q] = Absent <=> repository[q] = Absent /\ q # p
  <2>1. generated_change.id # Absent /\ Torn # Absent
    BY <1>3, ContentAssumption
  <2>2. repository' \in {repository, [repository EXCEPT ![p] = Torn],
                         [repository EXCEPT ![p] = generated_change.id]}
    BY DEF PublishFile, PublishFault
  <2>3. PublishFile(p) => repository' = [repository EXCEPT ![p] = generated_change.id]
    BY DEF PublishFile
  <2>4. QED
    BY <1>3, <2>1, <2>2, <2>3
<1>5. FilesStay'
  BY <1>1, <1>2, <1>3, <1>4 DEF FilesStay
<1>6. pc' = "publishing" =>
        /\ \A q \in generated_change'.paths : repository'[q] = Absent <=> q \in remaining'
        /\ \A q \in generated_change'.paths \cap Scanned : repository_revision'[q] = Absent
  BY <1>1, <1>2, <1>3, <1>4
<1>7. "change_published" \in events' => Added(generated_change, repository_revision)'
  <2> SUFFICES ASSUME "change_published" \in events', NEW q \in generated_change.paths \cap Scanned
               PROVE  repository_revision[q] = Absent /\ repository'[q] # Absent
    BY <1>1 DEF Added
  <2>1. PublishFile(p) /\ remaining \ {p} = {}
    BY <1>1, <1>2
  <2>2. repository'[q] # Absent
    BY <1>2, <1>3, <1>4, <2>1
  <2>3. repository_revision[q] = Absent
    BY <1>2
  <2>4. QED
    BY <2>2, <2>3
<1>8. record'.status = "succeeded" => Added(record.change, record.input.revision)'
  BY <1>1, <1>2, <1>3, <1>4 DEF Added
<1>9. QED
  BY <1>1, <1>2, <1>5, <1>6, <1>7, <1>8 DEF SealedRecord

\* Publication begins with every path of the change free, so the revision the run
\* started from had none of them.
LEMMA PublishKeepsRevision ==
    ASSUME TypeOK, IInv, PublicationInv, RevisionInv, Publish
    PROVE  RevisionInv'
<1>1. /\ UNCHANGED <<repository, record, scanned, repository_revision, generated_change, edits>>
      /\ pc = "publish" /\ pc' \in {"publishing", "final"}
      /\ status = "running" /\ status' \in {"running", "failed"}
      /\ "change_published" \in events' => "change_published" \in events
      /\ pc' = "publishing" => ~PublishRefused /\ remaining' = generated_change.paths
  BY DEF Publish, Fail, Goto, nodeFrame, others, inputs, IInv, StatusFollowsNode, AttemptNodes
<1>2. CASE pc' = "final"
  BY <1>1, <1>2, RevisionFrame DEF Nodes
<1>3. CASE pc' = "publishing"
  <2>1. \A p \in generated_change.paths : repository[p] = Absent
    BY <1>1, <1>3 DEF PublishRefused
  <2>2. QED
    BY <1>1, <1>3, <2>1 DEF RevisionInv, FilesStay, Added, SealedRecord, Nodes
<1>4. QED
  BY <1>1, <1>2, <1>3

\* The other nodes leave repository and record alone.
LEMMA NodesKeepRevision ==
    ASSUME TypeOK, IInv, PublicationInv, RevisionInv, Node
    PROVE  RevisionInv'
<1> USE DEF inputs, planned, usage, results, failing, history, others, disk, nodeFrame,
            modelFrame, Goto, Fail, Raise, stages, Nodes
<1>1. pc \in FirstNodes \cup AttemptNodes => "change_published" \notin events
  BY DEF PublicationInv
<1>2. CASE ParseTask \/ Retrieve \/ RequestApproval \/ Interrupt
  BY <1>2, RevisionFrame DEF ParseTask, Retrieve, RequestApproval, Interrupt
<1>3. CASE Plan
  BY <1>3, RevisionFrame DEF Plan, AfterPlan
<1>4. CASE Approval
  BY <1>4, RevisionFrame DEF Approval
<1>5. CASE Generate \/ Repair
  BY <1>1, <1>5, RevisionFrame
     DEF Generate, Repair, CallModel, Accept, Oversized, FirstNodes, AttemptNodes
<1>6. CASE Apply
  BY <1>6, RevisionFrame DEF Apply
<1>7. CASE Build \/ Tests
  BY <1>7, RevisionFrame DEF Build, Tests
<1>8. CASE Compliance \/ Review
  BY <1>8, RevisionFrame DEF Compliance, Review
<1>9. CASE \E gate \in Gates : RecordFailure(gate)
  BY <1>9, RevisionFrame DEF RecordFailure, AfterFailure, FailureNode, Gates
<1>10. CASE Publish
  BY <1>10, PublishKeepsRevision
<1>11. CASE \E p \in Paths : PublishFile(p) \/ PublishFault(p)
  BY <1>11, PublishingKeepsRevision
<1>12. CASE Final
  BY <1>12, RevisionFrame DEF Final
<1>13. QED
  BY <1>2, <1>3, <1>4, <1>5, <1>6, <1>7, <1>8, <1>9, <1>10, <1>11, <1>12 DEF Node

\* A run that starts, or is resumed, does so from a revision no sealed record names.
LEMMA RevisionKept ==
    TypeOK /\ IInv /\ PublicationInv /\ RevisionInv /\ [Next]_vars => RevisionInv'
<1> SUFFICES ASSUME TypeOK, IInv, PublicationInv, RevisionInv, [Next]_vars PROVE RevisionInv'
  OBVIOUS
<1> USE DEF disk, callVars, inputs, channels, history, stages, others, Raise
<1>1. CASE RefuseCall
  BY <1>1, RevisionFrame DEF RefuseCall, Nodes
<1>2. ASSUME NEW t \in Tasks, NEW b \in RetryBudgets, Run(t, b) PROVE RevisionInv'
  <2>1. /\ scanned' = Revision(repository) /\ pc = "idle" /\ pc' = "stage"
        /\ UNCHANGED <<repository, record, repository_revision, generated_change, events,
                       status, edits>>
    BY <1>2 DEF Run
  <2>2. \A p \in Scanned : scanned'[p] = repository[p]
    BY <2>1 DEF Revision
  <2>3. QED
    BY <2>1, <2>2, MovedOff DEF RevisionInv, FilesStay, Added, SealedRecord, Nodes
<1>3. CASE Resume
  <2>1. /\ repository_revision = Revision(repository) /\ pc = "idle" /\ pc' = "decide"
        /\ UNCHANGED <<repository, record, scanned, repository_revision, generated_change,
                       events, status, edits>>
    BY <1>3 DEF Resume, Resumable, Waiting
  <2>2. QED
    BY <2>1, MovedOff DEF RevisionInv, FilesStay, Added, SealedRecord, Nodes
<1>4. CASE SandboxFails \/ RecordRefused \/ CheckpointFails \/ Teardown
  BY <1>4, RevisionFrame DEF SandboxFails, RecordRefused, CheckpointFails, Teardown, Nodes
<1>5. CASE Invoke
  <2>1. /\ repository_revision' = scanned /\ events' = {} /\ pc = "stage" /\ pc' = "parse"
        /\ UNCHANGED <<repository, record, scanned, edits>>
    BY <1>5 DEF Invoke, RunInput
  <2>2. QED
    BY <2>1 DEF RevisionInv, FilesStay, Added, SealedRecord, Nodes
<1>6. CASE PersistRecord
  <2>1. /\ record'.status = status /\ record'.change = generated_change
        /\ record'.input.revision = repository_revision
        /\ pc = "persist" /\ pc' = "teardown" /\ status' = status
        /\ UNCHANGED <<repository, scanned, repository_revision, generated_change, events, edits>>
    BY <1>6 DEF PersistRecord, CurrentInput
  <2>2. status = "succeeded" => "change_published" \in events
    BY <2>1 DEF PublicationInv
  <2>3. QED
    BY <2>1, <2>2 DEF RevisionInv, FilesStay, Added, SealedRecord, Nodes
<1>7. CASE Node
  BY <1>7, NodesKeepRevision
<1>8. ASSUME NEW p \in Paths, NEW c \in CustomerContents \cup {Absent}, Edit(p, c)
      PROVE  RevisionInv'
  BY <1>8 DEF Edit, RevisionInv, TypeOK, HistoryTyped
<1>9. CASE DeadlinePasses \/ Crash
  BY <1>9, RevisionFrame DEF DeadlinePasses, Crash, Nodes
<1>10. CASE UNCHANGED vars
  BY <1>10, RevisionFrame DEF vars
<1>11. QED
  BY <1>1, <1>2, <1>3, <1>4, <1>5, <1>6, <1>7, <1>8, <1>9, <1>10
     DEF Next, Service, Progress, Caller, Environment

\* Only a run with the same inputs may save its record over another's.
LEMMA RecordStep ==
    TypeOK /\ RevisionInv /\ [Next]_vars /\ record.present =>
        /\ record'.present /\ record'.input = record.input
        /\ edits = 0 /\ record.status = "succeeded" /\ record.change.paths \cap Scanned # {}
             => record' = record
<1> SUFFICES ASSUME TypeOK, RevisionInv, [Next]_vars, record.present
             PROVE  /\ record'.present /\ record'.input = record.input
                    /\ edits = 0 /\ SealedRecord => record' = record
  BY DEF SealedRecord
<1>1. CASE PersistRecord
  <2>1. /\ record'.present /\ record'.input = CurrentInput /\ record.input = CurrentInput
        /\ pc = "persist"
    BY <1>1 DEF PersistRecord, RecordAccepts
  <2>2. record.input.revision = repository_revision
    BY <2>1 DEF CurrentInput
  <2>3. edits = 0 => ~SealedRecord
    BY <2>1, <2>2 DEF RevisionInv
  <2>4. QED
    BY <2>1, <2>3
<1>2. CASE record' = record
  BY <1>2
<1>3. PersistRecord \/ record' = record
  <2> USE DEF disk, nodeFrame, modelFrame
  <2>1. CASE Caller \/ Environment
    BY <2>1 DEF Caller, RefuseCall, Resume, Run, Environment, Edit, DeadlinePasses, Crash
  <2>2. CASE SandboxFails \/ Invoke \/ RecordRefused \/ CheckpointFails \/ Teardown
    BY <2>2 DEF SandboxFails, Invoke, RecordRefused, CheckpointFails, Teardown
  <2>3. CASE Node
    BY <2>3 DEF Node, ParseTask, Retrieve, Plan, RequestApproval, Interrupt, Approval, Generate,
                Repair, Apply, Build, Tests, Compliance, Review, RecordFailure, Publish,
                PublishFile, PublishFault, Final
  <2>4. CASE UNCHANGED vars
    BY <2>4 DEF vars
  <2>5. QED
    BY <2>1, <2>2, <2>3, <2>4 DEF Next, Service, Progress
<1>4. QED
  BY <1>1, <1>2, <1>3

\* A record keeps the inputs it pins, and a succeeded one is final.
THEOREM RecordsArePinned == Spec => RecordIsPinned
<1>1. Init => RevisionInv
  BY DEF Init, RevisionInv, FilesStay, Revision, SealedRecord
<1>2. Spec => [](TypeOK /\ RevisionInv)
  BY <1>1, InitPublication, PublicationKept, RevisionKept, Invariance, PTL DEF Spec
<1>3. TypeOK /\ RevisionInv /\ [Next]_vars =>
        [record.present =>
           /\ record'.present /\ record'.input = record.input
           /\ edits = 0 /\ record.status = "succeeded" /\ record.change.paths \cap Scanned # {}
                => record' = record]_vars
  BY RecordStep
<1>4. QED
  BY <1>2, <1>3, PTL DEF Spec, RecordIsPinned

=============================================================================
