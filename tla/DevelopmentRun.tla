--------------------------- MODULE DevelopmentRun ---------------------------
(***************************************************************************)
(* One run id of DevelopmentService (orchestration/graph.py): run() and    *)
(* resume(), the LangGraph state graph they drive, the staging copy, the   *)
(* publication into the customer repository, the checkpoint thread and the *)
(* audit record of the run.                                                *)
(*                                                                         *)
(* The callers of the service, the customer who edits the repository, the  *)
(* clock and the death of the process are its environment.  Every other    *)
(* run id appears here only through what it does to the repository, which  *)
(* is one more edit by somebody else.                                      *)
(*                                                                         *)
(* A node of the graph is one action: LangGraph runs a node, merges what   *)
(* it returns into the channels and writes a checkpoint in one superstep,  *)
(* so a channel variable below is at once the live state and what the      *)
(* thread's checkpoint holds.                                              *)
(***************************************************************************)
EXTENDS Naturals, FiniteSets

CONSTANTS
    Paths,             \* repository-relative paths a change may name
    Unsafe,            \* those validate_change refuses: outside app/ and tests/, protected
    Scanned,           \* those RepositoryScanner reads: Python files outside tests/
    Ignored,           \* those .gitignore names, which no commit contains
    Plans,             \* target paths of the plans a planner may return
    Tasks,             \* task texts, told apart by their hash only
    RetryBudgets,      \* the retry_budget a caller may pass
    MaxModelCalls,     \* DevelopmentQuota.max_model_calls
    MaxCommands,       \* DevelopmentQuota.max_command_executions
    CustomerContents,  \* what files not written by the service may contain
    Absent,            \* a path with no file
    Torn,              \* a file whose write failed half way
    \* Bounds on the exploration, not on the program.
    MaxCalls,          \* calls of run() and resume()
    MaxEdits,          \* edits of the repository by somebody else
    MaxCrashes         \* deaths of the process

ASSUME PathAssumption ==
    /\ Unsafe \subseteq Paths /\ Scanned \subseteq Paths /\ Ignored \subseteq Paths
    /\ Plans \subseteq SUBSET Paths

ASSUME QuotaAssumption ==
    /\ RetryBudgets \subseteq Nat
    /\ MaxModelCalls \in Nat \ {0}
    /\ MaxCommands \in Nat \ {0}

ASSUME ContentAssumption ==
    /\ CustomerContents \cap Nat = {}
    /\ {Absent, Torn} \cap (Nat \cup CustomerContents) = {}
    /\ Absent # Torn

ASSUME BoundAssumption ==
    /\ MaxCalls \in Nat
    /\ MaxEdits \in Nat
    /\ MaxCrashes \in Nat

VARIABLES
    (***********************************************************************)
    (* Disk                                                                *)
    (***********************************************************************)
    repository,         \* the customer tree: path -> content
    stage,              \* the staged tree of the thread's staging_repository
    stage_exists,       \* that directory is on disk
    orphans,            \* staging directories nothing refers to any more
    record,             \* the row of this run id in development_run_records.sqlite
    (***********************************************************************)
    (* The active call                                                     *)
    (***********************************************************************)
    pc,                 \* "idle", a graph node, or a step of run() around the graph
    authorized,         \* the call's staging authorization is in the registry
    scanned,            \* repository_revision as run() computed it
    asked,              \* the task and retry_budget the caller passed
    remaining,          \* files apply_change has yet to write to the repository
    preserve_stage,     \* as in run() and resume()
    outcome,            \* what the last call gave its caller
    steps,              \* supersteps of the current invoke
    (***********************************************************************)
    (* Channels of DevelopmentState, which the checkpoint thread keeps     *)
    (***********************************************************************)
    status,
    repository_revision,
    task,
    retry_budget,
    retry_count,
    model_calls,        \* resource_usage.model_calls
    command_executions, \* resource_usage.command_executions
    past_deadline,      \* clock() >= quota_deadline
    target_paths,       \* plan.target_paths
    approval_required,
    approval_decision,
    generated_change,
    build_result,
    test_result,
    validation_report,
    review,
    failure_context,
    failures,           \* len(failure_history)
    events,             \* the members of the event list that a router or a property reads
    (***********************************************************************)
    (* History and exploration counters                                    *)
    (***********************************************************************)
    drafts,             \* changes the model has returned so far
    earlier_drafts,     \* drafts when the current run started
    published,          \* <<draft, path>> written to the repository
    superseded,         \* stages of a pending run that a new run of the id replaced
    unremoved,          \* removals of a stage that left it on disk
    intact,             \* the stage was made of the tree scanned, and no removal of it failed
    calls, edits, crashes

disk      == <<repository, stage, stage_exists, orphans, record>>
callVars  == <<authorized, scanned, asked, remaining, preserve_stage, outcome>>
inputs    == <<repository_revision, task, retry_budget>>
planned   == <<target_paths, approval_required, approval_decision>>
usage     == <<retry_count, model_calls, command_executions>>
results   == <<build_result, test_result, validation_report, review>>
failing   == <<failure_context, failures>>
history   == <<drafts, earlier_drafts, published, calls>>
stages    == <<superseded, unremoved, intact>>
others    == <<edits, crashes>>

channels  == <<status, inputs, planned, usage, past_deadline, generated_change,
               results, failing, events>>

vars      == <<disk, pc, callVars, steps, channels, history, stages, others>>

-----------------------------------------------------------------------------
Contents == Nat \cup CustomerContents \cup {Absent, Torn}
Trees    == [Paths -> Contents]

\* A RepositoryRevision is a digest of the scanned files only.
Revisions      == [Scanned -> Contents]
Revision(tree) == [p \in Scanned |-> tree[p]]

\* A generated change: the draft's number stands for the contents of its files.
Changes  == [id : Nat, paths : SUBSET Paths]
NoChange == [id |-> 0, paths |-> {}]

\* A gate's verdict, with the draft it was given on.
Results  == [passed : BOOLEAN, draft : Nat]
NoResult == [passed |-> FALSE, draft |-> 0]

Gates     == {"build", "tests", "compliance", "review"}
Failures  == [gate : Gates \cup {"none"}, draft : Nat]
NoFailure == [gate |-> "none", draft |-> 0]

Decisions == {"none", "granted", "rejected"}

Statuses == {"none", "running", "needs_human_review", "succeeded", "failed"}

\* What input_identity of a record hashes, but for the identity of the model
\* factory, which a service does not change.
Inputs   == [revision : Revisions, task : Tasks, budget : RetryBudgets]
Records  == [present : BOOLEAN, input : Inputs, status : Statuses, change : Changes]

Nodes == {"parse", "retrieve", "plan", "approval_request", "approval", "decide",
          "generate", "repair", "apply", "build", "build_failure", "tests",
          "test_failure", "compliance", "compliance_failure", "review",
          "review_failure", "publish", "publishing", "final"}

Controls == Nodes \cup {"idle", "stage", "persist", "teardown"}

Events == {"human_approval_granted", "change_published", "publish_failed",
           "retry_budget_exhausted"}

\* Mutant of RecursionLimit: the nodes outside the retry loop are forgotten.
RecursionLimit_Loop == 8 * (retry_budget + 1)

\* The limit run() and resume() pass to invoke().
RecursionLimit == 12 + 8 * (retry_budget + 1)

\* Mutant of Overlay: the stage refuses to overwrite, as the repository does.
Overlay_NewOnly(tree, S, d) ==
    [p \in Paths |-> IF p \in S /\ tree[p] = Absent THEN d ELSE tree[p]]

\* A tree once the files of S have been written with the content of draft d.
Overlay(tree, S, d) == [p \in Paths |-> IF p \in S THEN d ELSE tree[p]]

CurrentInput ==
    [revision |-> repository_revision, task |-> task, budget |-> retry_budget]

DiskTyped ==
    /\ repository \in Trees /\ stage \in Trees
    /\ stage_exists \in BOOLEAN /\ orphans \in Nat
    /\ record \in Records

CallTyped ==
    /\ pc \in Controls
    /\ authorized \in BOOLEAN
    /\ scanned \in Revisions
    /\ asked \in [task : Tasks, budget : RetryBudgets]
    /\ remaining \in SUBSET Paths
    /\ preserve_stage \in BOOLEAN
    /\ outcome \in Statuses \cup {"raised", "crashed"}
    /\ steps \in Nat

ChannelsTyped ==
    /\ status \in Statuses
    /\ repository_revision \in Revisions /\ task \in Tasks /\ retry_budget \in RetryBudgets
    /\ retry_count \in Nat /\ model_calls \in Nat /\ command_executions \in Nat
    /\ past_deadline \in BOOLEAN
    /\ target_paths \in SUBSET Paths /\ approval_required \in BOOLEAN
    /\ approval_decision \in Decisions
    /\ generated_change \in Changes
    /\ build_result \in Results /\ test_result \in Results
    /\ validation_report \in Results /\ review \in Results
    /\ failure_context \in Failures /\ failures \in Nat
    /\ events \in SUBSET Events

HistoryTyped ==
    /\ drafts \in Nat /\ earlier_drafts \in Nat
    /\ published \in SUBSET (Nat \X Paths)
    /\ superseded \in Nat /\ unremoved \in Nat /\ intact \in BOOLEAN
    /\ calls \in Nat /\ edits \in Nat /\ crashes \in Nat

\* The type invariant.
TypeOK == DiskTyped /\ CallTyped /\ ChannelsTyped /\ HistoryTyped

Init ==
    /\ repository \in [Paths -> CustomerContents \cup {Absent}]
    /\ stage = repository /\ stage_exists = FALSE /\ orphans = 0
    /\ pc = "idle" /\ authorized = FALSE
    /\ scanned = Revision(repository)
    /\ asked \in [task : Tasks, budget : RetryBudgets]
    /\ remaining = {} /\ preserve_stage = FALSE
    /\ outcome = "none" /\ steps = 0
    /\ status = "none"
    /\ repository_revision = Revision(repository)
    /\ task = asked.task /\ retry_budget = asked.budget
    /\ record = [present |-> FALSE, input |-> CurrentInput, status |-> "none",
                 change |-> NoChange]
    /\ retry_count = 0 /\ model_calls = 0 /\ command_executions = 0
    /\ past_deadline = FALSE
    /\ target_paths = {} /\ approval_required = FALSE /\ approval_decision = "none"
    /\ generated_change = NoChange
    /\ build_result = NoResult /\ test_result = NoResult
    /\ validation_report = NoResult /\ review = NoResult
    /\ failure_context = NoFailure /\ failures = 0
    /\ events = {}
    /\ drafts = 0 /\ earlier_drafts = 0 /\ published = {}
    /\ superseded = 0 /\ unremoved = 0 /\ intact = TRUE
    /\ calls = 0 /\ edits = 0 /\ crashes = 0

-----------------------------------------------------------------------------
(* Entering and leaving the graph *)

\* run() or resume() answers "failed" before it touches anything: no grant, a
\* grant for another repository or without a capability, a task without the
\* invocation its rules require, an id with nothing to resume, or (for resume)
\* a checkpoint that is not the pending one of this repository revision.
RefuseCall ==
    /\ pc = "idle" /\ calls < MaxCalls
    /\ outcome' = "failed" /\ calls' = calls + 1
    /\ UNCHANGED <<disk, pc, authorized, scanned, asked, remaining, preserve_stage,
                   steps, channels, drafts, earlier_drafts, published, stages, others>>

\* run() up to the creation of its sandbox: the revision is computed first.
Run(t, b) ==
    /\ pc = "idle" /\ calls < MaxCalls
    /\ pc' = "stage" /\ calls' = calls + 1
    /\ scanned' = Revision(repository)
    /\ asked' = [task |-> t, budget |-> b]
    /\ UNCHANGED <<disk, authorized, remaining, preserve_stage, outcome, steps, channels,
                   drafts, earlier_drafts, published, stages, others>>

\* An exception leaves the call for its finally block.
Raise == pc' = "teardown" /\ outcome' = "raised"

\* StagingSandbox.create raises, or what lies between it and invoke().  Either way
\* the new directory is removed, or rmtree(ignore_errors=True) leaves it behind.
SandboxFails ==
    /\ pc = "stage"
    /\ Raise
    /\ \/ UNCHANGED <<orphans, unremoved>>
       \/ orphans' = orphans + 1 /\ unremoved' = unremoved + 1
    /\ UNCHANGED <<repository, stage, stage_exists, record, authorized, scanned, asked,
                   remaining, preserve_stage, steps, channels, history, superseded, intact,
                   others>>

\* The input of the graph overwrites these channels of the thread, and every
\* other channel keeps what an earlier run of the id left in it.
RunInput ==
    /\ repository_revision' = scanned
    /\ task' = asked.task /\ retry_budget' = asked.budget
    /\ retry_count' = 0 /\ model_calls' = 0 /\ command_executions' = 0
    /\ past_deadline' \in BOOLEAN      \* copying took its share of the time
    /\ failures' = 0 /\ events' = {} /\ status' = "running"

\* What StagingSandbox.create makes of a repository: a copy of it, or, of a clean
\* git root, a detached worktree of HEAD, which has no ignored file.
Sandboxes(tree) == {tree, Overlay(tree, Ignored, Absent)}

\* The thread's run waits for a review and its stage is there.
Waiting == status = "needs_human_review" /\ stage_exists

\* The sandbox is created from the repository as it is now, registered and
\* authorized, and the graph is invoked.  A sandbox the thread still names, kept
\* for a review or left by a crash, is forgotten.
Invoke ==
    /\ pc = "stage"
    /\ stage' \in Sandboxes(repository) /\ stage_exists' = TRUE
    /\ orphans' = orphans + (IF stage_exists THEN 1 ELSE 0)
    /\ superseded' = superseded + (IF Waiting THEN 1 ELSE 0)
    /\ intact' = (scanned = Revision(repository))
    /\ authorized' = TRUE
    /\ RunInput
    /\ pc' = "parse" /\ steps' = 0
    /\ earlier_drafts' = drafts
    /\ UNCHANGED <<repository, record, scanned, asked, remaining, preserve_stage, outcome,
                   planned, generated_change, results, failure_context,
                   drafts, published, unremoved, calls, others>>

\* Mutant of Resumable: any interrupted run will do, be it a crashed one.
Resumable_AnyStatus ==
    status # "none" /\ repository_revision = Revision(repository) /\ stage_exists

\* What resume() requires of the checkpoint, the repository and the stage.
Resumable ==
    /\ Waiting
    /\ repository_revision = Revision(repository)

\* resume() of the pending thread: attach the preserved stage, authorize it
\* anew and let the interrupted node have the decision.
Resume ==
    /\ pc = "idle" /\ calls < MaxCalls
    /\ Resumable
    /\ authorized' = TRUE
    /\ pc' = "decide" /\ steps' = 0
    /\ calls' = calls + 1
    /\ UNCHANGED <<disk, scanned, asked, remaining, preserve_stage, outcome, channels,
                   drafts, earlier_drafts, published, stages, others>>

\* An exception that LangGraph lets out of invoke() between two nodes: the
\* checkpoint database cannot be written.
CheckpointFails ==
    /\ pc \in Nodes \ {"publishing"}
    /\ Raise
    /\ UNCHANGED <<disk, authorized, scanned, asked, remaining, preserve_stage, steps,
                   channels, history, stages, others>>

\* Mutant of RecordAccepts: the upsert without its WHERE clause.
RecordAccepts_Always == TRUE

\* _persist_run_record after invoke() returned: the upsert takes effect only
\* when the row is new or has the same input identity, and raises otherwise.
\* A failing observer changes nothing but the event list of the answer.
RecordAccepts == record.present => record.input = CurrentInput

PersistRecord ==
    /\ pc = "persist" /\ RecordAccepts
    /\ record' = [present |-> TRUE, input |-> CurrentInput, status |-> status,
                  change |-> generated_change]
    /\ preserve_stage' = (status = "needs_human_review")
    /\ outcome' = status
    /\ pc' = "teardown"
    /\ UNCHANGED <<repository, stage, stage_exists, orphans, authorized, scanned, asked,
                   remaining, steps, channels, history, stages, others>>

\* The inputs differ, capture() refuses a path or an identity, or the database
\* cannot be opened or written: nothing is saved.
RecordRefused ==
    /\ pc = "persist"
    /\ Raise
    /\ UNCHANGED <<disk, authorized, scanned, asked, remaining, preserve_stage, steps,
                   channels, history, stages, others>>

\* Mutant of Revoke: a run that is to be resumed keeps its authorization.
Revoke_Finished == authorized' = preserve_stage

Revoke == authorized' = FALSE

\* The sandbox goes unless it is preserved; a call that never created one has
\* none to remove, whatever an earlier call of the run has left.
Removes == authorized /\ ~preserve_stage

\* Mutant of RemoveStage: only a run that succeeded has no more use for it.
RemoveStage_Succeeded ==
    /\ stage_exists' = (stage_exists /\ ~(Removes /\ outcome = "succeeded"))
    /\ UNCHANGED <<stage, unremoved, intact>>

\* rmtree(ignore_errors=True) says nothing of what it could not remove.
StageRemains ==
    /\ \E gone \in SUBSET Paths : stage' = Overlay(stage, gone, Absent)
    /\ intact' = FALSE
    /\ UNCHANGED stage_exists

RemoveStage ==
    \/ stage_exists' = (stage_exists /\ ~Removes) /\ UNCHANGED <<stage, unremoved, intact>>
    \/ Removes /\ StageRemains /\ unremoved' = unremoved + 1

\* The finally block of run() and resume().
Teardown ==
    /\ pc = "teardown"
    /\ Revoke /\ RemoveStage
    /\ preserve_stage' = FALSE
    /\ pc' = "idle"
    /\ UNCHANGED <<repository, orphans, record, scanned, asked, remaining, outcome,
                   steps, channels, history, superseded, others>>

-----------------------------------------------------------------------------
(* Nodes of the graph *)

\* One superstep ends and the router has chosen the next node.
Goto(node) == pc' = node /\ steps' = steps + 1

\* A node returns status "failed", which every router sends to "final".
Fail == status' = "failed" /\ Goto("final")

nodeFrame == <<orphans, record, stage_exists, authorized, scanned, asked, preserve_stage,
               outcome, inputs, past_deadline, history, stages, others>>

\* Mutant of QuotaExhausted: the clock is looked at before model calls only.
QuotaExhausted_ModelClock(resource) ==
    \/ resource = "model" /\ (past_deadline \/ model_calls >= MaxModelCalls)
    \/ resource = "command" /\ command_executions >= MaxCommands

\* _quota_failure: the deadline first, then the resource the node is about to use.
QuotaExhausted(resource) ==
    \/ past_deadline
    \/ resource = "model" /\ model_calls >= MaxModelCalls
    \/ resource = "command" /\ command_executions >= MaxCommands

ParseTask ==
    /\ pc = "parse"
    /\ (Goto("retrieve") /\ UNCHANGED status) \/ Fail
    /\ UNCHANGED <<repository, stage, remaining, nodeFrame, planned, usage,
                   generated_change, results, failing, events>>

\* _retrieve, with whichever rules and context the stores and the repository
\* yield.  It turns a ValueError into a failed run; a KeyError (context.py:70) and
\* a SyntaxError (context.py:96) leave invoke().
Retrieve ==
    /\ pc = "retrieve"
    /\ \/ Goto("plan") /\ UNCHANGED <<status, outcome>>
       \/ Fail /\ UNCHANGED outcome
       \/ Raise /\ UNCHANGED <<status, steps>>
    /\ UNCHANGED <<disk, authorized, scanned, asked, remaining, preserve_stage, inputs,
                   planned, usage, past_deadline, generated_change, results, failing,
                   events, history, stages, others>>

\* Mutant of AfterPlan: a decision found in the thread is not asked for again.
AfterPlan_Remembered(required) ==
    IF required /\ approval_decision # "granted" THEN "approval_request" ELSE "generate"

\* _plan and _after_plan: any exception of planner or policy fails the run.
AfterPlan(required) == IF required THEN "approval_request" ELSE "generate"

Plan ==
    /\ pc = "plan"
    /\ \/ \E p \in Plans, required \in BOOLEAN :
            /\ target_paths' = p /\ approval_required' = required
            /\ UNCHANGED approval_decision
            /\ Goto(AfterPlan(required)) /\ UNCHANGED status
       \/ Fail /\ UNCHANGED planned
    /\ UNCHANGED <<repository, stage, remaining, nodeFrame, usage, generated_change,
                   results, failing, events>>

RequestApproval ==
    /\ pc = "approval_request"
    /\ status' = "needs_human_review"
    /\ Goto("approval")
    /\ UNCHANGED <<repository, stage, remaining, nodeFrame, planned, usage,
                   generated_change, results, failing, events>>

\* Mutant of Interrupt: the call waits for the decision.
Interrupt_Waits ==
    /\ pc = "approval" /\ approval_decision = "granted"
    /\ Goto("persist")
    /\ UNCHANGED <<repository, stage, remaining, nodeFrame, status, planned, usage,
                   generated_change, results, failing, events>>

\* _approval without a decision: interrupt() suspends the thread and invoke() returns.
Interrupt ==
    /\ pc = "approval"
    /\ Goto("persist")
    /\ UNCHANGED <<repository, stage, remaining, nodeFrame, status, planned, usage,
                   generated_change, results, failing, events>>

\* _approval with the payload of resume(): granted, or rejected or invalid.
Approval ==
    /\ pc = "decide"
    /\ \/ /\ status' = "running" /\ approval_decision' = "granted"
          /\ events' = events \cup {"human_approval_granted"}
          /\ Goto("generate")
       \/ /\ approval_decision' \in {approval_decision, "rejected"}
          /\ Fail /\ UNCHANGED events
    /\ UNCHANGED <<repository, stage, remaining, nodeFrame, target_paths,
                   approval_required, usage, generated_change, results, failing>>

\* Mutant of Accept: a repair that does not count as a retry.
Accept_Uncounted(S, count) ==
    /\ generated_change' = [id |-> drafts + 1, paths |-> S]
    /\ drafts' = drafts + 1
    /\ model_calls' = model_calls + 1 /\ retry_count' = retry_count
    /\ Goto("apply") /\ UNCHANGED status

\* The model returns a change and _record_generated_change accepts it, or finds
\* that the bytes generated so far exceed the quota and keeps the older change.
Accept(S, count) ==
    /\ generated_change' = [id |-> drafts + 1, paths |-> S]
    /\ drafts' = drafts + 1
    /\ model_calls' = model_calls + 1 /\ retry_count' = count
    /\ Goto("apply") /\ UNCHANGED status

Oversized(count) ==
    /\ drafts' = drafts + 1
    /\ model_calls' = model_calls + 1 /\ retry_count' = count
    /\ Fail /\ UNCHANGED generated_change

\* _generate and _repair differ in the retry they count.  An exhausted quota and
\* a CodingModelError fail the run without usage; other exceptions leave invoke().
CallModel(count) ==
    \/ Fail /\ UNCHANGED <<generated_change, drafts, model_calls, retry_count, outcome>>
    \/ /\ ~QuotaExhausted("model")
       /\ Raise
       /\ UNCHANGED <<status, steps, generated_change, drafts, model_calls, retry_count>>
    \/ /\ ~QuotaExhausted("model")
       /\ \/ \E S \in (SUBSET Paths) \ {{}} : Accept(S, count)
          \/ Oversized(count)
       /\ UNCHANGED outcome

modelFrame == <<disk, authorized, scanned, asked, remaining, preserve_stage, inputs,
                planned, command_executions, past_deadline, results, failing, events,
                earlier_drafts, published, calls, stages, others>>

Generate == pc = "generate" /\ CallModel(retry_count) /\ UNCHANGED modelFrame

Repair == pc = "repair" /\ CallModel(retry_count + 1) /\ UNCHANGED modelFrame

\* apply_change on the stage with allow_overwrite: all files are validated and
\* then written one by one over what earlier drafts left there.  A refused
\* change writes none, a failing write leaves those before it.
Apply ==
    /\ pc = "apply"
    /\ LET S == generated_change.paths IN
       \/ QuotaExhausted("none") /\ Fail /\ UNCHANGED stage
       \/ /\ ~QuotaExhausted("none") /\ S \cap Unsafe = {}
          /\ stage' = Overlay(stage, S, generated_change.id)
          /\ Goto("build") /\ UNCHANGED status
       \/ /\ ~QuotaExhausted("none")
          /\ \E W \in SUBSET S :
                /\ S \cap Unsafe # {} => W = {}
                /\ stage' = Overlay(stage, W, generated_change.id)
          /\ Fail
    /\ UNCHANGED <<repository, remaining, nodeFrame, planned, usage, generated_change,
                   results, failing, events>>

\* The verdict of a gate run on the stage, whatever the runner says or raises.
Verdict(ok) == [passed |-> ok, draft |-> generated_change.id]

Build ==
    /\ pc = "build"
    /\ \/ QuotaExhausted("command") /\ Fail /\ UNCHANGED <<build_result, command_executions>>
       \/ /\ ~QuotaExhausted("command")
          /\ command_executions' = command_executions + 1
          /\ \E ok \in BOOLEAN :
                /\ build_result' = Verdict(ok)
                /\ Goto(IF ok THEN "tests" ELSE "build_failure")
          /\ UNCHANGED status
    /\ UNCHANGED <<repository, stage, remaining, nodeFrame, planned, retry_count, model_calls,
                   generated_change, test_result, validation_report, review, failing, events>>

Tests ==
    /\ pc = "tests"
    /\ \/ QuotaExhausted("command") /\ Fail /\ UNCHANGED <<test_result, command_executions>>
       \/ /\ ~QuotaExhausted("command")
          /\ command_executions' = command_executions + 1
          /\ \E ok \in BOOLEAN :
                /\ test_result' = Verdict(ok)
                /\ Goto(IF ok THEN "compliance" ELSE "test_failure")
          /\ UNCHANGED status
    /\ UNCHANGED <<repository, stage, remaining, nodeFrame, planned, retry_count, model_calls,
                   generated_change, build_result, validation_report, review, failing, events>>

Compliance ==
    /\ pc = "compliance"
    /\ \/ QuotaExhausted("none") /\ Fail /\ UNCHANGED validation_report
       \/ /\ ~QuotaExhausted("none")
          /\ \E ok \in BOOLEAN :
                /\ validation_report' = Verdict(ok)
                /\ Goto(IF ok THEN "review" ELSE "compliance_failure")
          /\ UNCHANGED status
    /\ UNCHANGED <<repository, stage, remaining, nodeFrame, planned, usage, generated_change,
                   build_result, test_result, review, failing, events>>

\* Mutant of Approves: the reviewer does not look at the paths.
Approves_ReportOnly == validation_report.passed

\* DeterministicChangeReviewer.review.
Approves == validation_report.passed /\ generated_change.paths \subseteq target_paths

\* _review: a reviewer that raises fails the run, a rejection goes to repair.
Review ==
    /\ pc = "review"
    /\ \/ QuotaExhausted("none") /\ Fail /\ UNCHANGED review
       \/ /\ ~QuotaExhausted("none")
          /\ \/ /\ review' = Verdict(Approves)
                /\ Goto(IF Approves THEN "publish" ELSE "review_failure")
                /\ UNCHANGED status
             \/ Fail /\ UNCHANGED review
    /\ UNCHANGED <<repository, stage, remaining, nodeFrame, planned, usage, generated_change,
                   build_result, test_result, validation_report, failing, events>>

\* The four record_*_failure nodes, and _after_failure behind each of them.
FailureNode == [build |-> "build_failure", tests |-> "test_failure",
                compliance |-> "compliance_failure", review |-> "review_failure"]

\* Mutant of AfterFailure: one repair too many.
AfterFailure_Late == IF retry_count > retry_budget THEN "final" ELSE "repair"

AfterFailure == IF retry_count >= retry_budget THEN "final" ELSE "repair"

RecordFailure(gate) ==
    /\ pc = FailureNode[gate]
    /\ failure_context' = [gate |-> gate, draft |-> generated_change.id]
    /\ failures' = failures + 1
    /\ Goto(AfterFailure)
    /\ UNCHANGED <<repository, stage, remaining, nodeFrame, status, planned, usage,
                   generated_change, results, events>>

\* _publish: apply_change on the customer repository.  Every path is checked
\* first; the files are then written one at a time, without a second look.
PublishRefused == \E p \in generated_change.paths : p \in Unsafe \/ repository[p] # Absent

Publish ==
    /\ pc = "publish"
    /\ \/ QuotaExhausted("none") /\ Fail /\ UNCHANGED <<remaining, events>>
       \/ /\ ~QuotaExhausted("none") /\ PublishRefused
          /\ events' = events \cup {"publish_failed"}
          /\ Fail /\ UNCHANGED remaining
       \/ /\ ~QuotaExhausted("none") /\ ~PublishRefused
          /\ remaining' = generated_change.paths
          /\ pc' = "publishing" /\ UNCHANGED <<status, steps, events>>
    /\ UNCHANGED <<repository, stage, nodeFrame, planned, usage, generated_change, results,
                   failing>>

PublishFile(p) ==
    /\ pc = "publishing" /\ p \in remaining
    /\ repository' = [repository EXCEPT ![p] = generated_change.id]
    /\ published' = published \cup {<<generated_change.id, p>>}
    /\ remaining' = remaining \ {p}
    /\ IF remaining' = {}
       THEN Goto("final") /\ events' = events \cup {"change_published"}
       ELSE UNCHANGED <<pc, steps, events>>
    /\ UNCHANGED <<stage, stage_exists, orphans, record, authorized, scanned, asked,
                   preserve_stage, outcome, status, inputs, planned, usage, past_deadline,
                   generated_change, results, failing, drafts, earlier_drafts, calls, stages,
                   others>>

\* Writing p raises OSError, before or after the file was opened.
PublishFault(p) ==
    /\ pc = "publishing" /\ p \in remaining
    /\ repository' \in {repository, [repository EXCEPT ![p] = Torn]}
    /\ events' = events \cup {"publish_failed"}
    /\ remaining' = {}
    /\ Fail
    /\ UNCHANGED <<stage, nodeFrame, planned, usage, generated_change, results, failing>>

\* Mutant of Succeeded: the gates passed, so the run did.
Succeeded_Gates ==
    build_result.passed /\ test_result.passed /\ validation_report.passed

Succeeded ==
    /\ build_result.passed /\ test_result.passed /\ validation_report.passed
    /\ "change_published" \in events

Exhausted == failure_context # NoFailure /\ retry_count >= retry_budget

Final ==
    /\ pc = "final"
    /\ status' = IF Succeeded THEN "succeeded" ELSE "failed"
    /\ events' = IF ~Succeeded /\ Exhausted
                 THEN events \cup {"retry_budget_exhausted"} ELSE events
    /\ Goto("persist")
    /\ UNCHANGED <<repository, stage, remaining, nodeFrame, planned, usage,
                   generated_change, results, failing>>

-----------------------------------------------------------------------------
(* Environment *)

\* Another writer of the repository: the customer, or another run id.
Edit(p, c) ==
    /\ edits < MaxEdits /\ repository[p] # c
    /\ repository' = [repository EXCEPT ![p] = c]
    /\ edits' = edits + 1
    /\ UNCHANGED <<stage, stage_exists, orphans, record, pc, callVars, steps, channels,
                   history, stages, crashes>>

\* The wall clock reaches the quota deadline, be the run active or pending.
DeadlinePasses ==
    /\ ~past_deadline
    /\ pc \in Nodes \/ status = "needs_human_review"
    /\ past_deadline' = TRUE
    /\ UNCHANGED <<disk, pc, callVars, steps, status, inputs, planned, usage,
                   generated_change, results, failing, events, history, stages, others>>

\* The process dies.  The files and the last checkpoint stay; a sandbox that
\* no checkpoint names yet is left behind.
Crash ==
    /\ pc # "idle" /\ crashes < MaxCrashes
    /\ pc' = "idle" /\ outcome' = "crashed" /\ crashes' = crashes + 1
    /\ authorized' = FALSE /\ remaining' = {} /\ preserve_stage' = FALSE
    /\ orphans' \in {orphans} \cup (IF pc = "stage" THEN {orphans + 1} ELSE {})
    /\ \/ UNCHANGED <<stage, stage_exists, intact>>
       \/ pc = "teardown" /\ Removes /\ StageRemains
    /\ UNCHANGED <<repository, record, scanned, asked, steps, channels, history, superseded,
                   unremoved, edits>>

-----------------------------------------------------------------------------
Node ==
    \/ ParseTask \/ Retrieve \/ Plan \/ RequestApproval \/ Interrupt \/ Approval
    \/ Generate \/ Repair \/ Apply \/ Build \/ Tests \/ Compliance \/ Review
    \/ \E gate \in Gates : RecordFailure(gate)
    \/ Publish \/ (\E p \in Paths : PublishFile(p) \/ PublishFault(p)) \/ Final

\* What run() and resume() do, but for the end a failing checkpoint makes of them.
Progress == SandboxFails \/ Invoke \/ Node \/ PersistRecord \/ RecordRefused \/ Teardown

\* What the thread of an active call does.
Service == Progress \/ CheckpointFails

Caller == RefuseCall \/ Resume \/ \E t \in Tasks, b \in RetryBudgets : Run(t, b)

Environment ==
    \/ \E p \in Paths, c \in CustomerContents \cup {Absent} : Edit(p, c)
    \/ DeadlinePasses \/ Crash

Next == Service \/ Caller \/ Environment

\* A call's own steps keep being taken: commands have a hard timeout, provider
\* requests a transport timeout, and nothing else in a node waits.  Callers,
\* editors, the clock, crashes and a failing checkpoint database are under no
\* obligation: a node that waited would not be saved by any of them.
Spec == Init /\ [][Next]_vars /\ WF_vars(Progress)

-----------------------------------------------------------------------------
(* Safety *)

\* The change about to be published, and every file of it as it is written, is
\* exactly the draft that build, tests, compliance and review all passed, and
\* stays within the approved plan and the writable roots.  A verdict left in
\* the thread by an earlier draft or an earlier run must never stand in for one
\* (_after_build ... _after_review, _publish).
GatesVouchForChange ==
    pc \in {"publish", "publishing"} =>
        /\ \A result \in {build_result, test_result, validation_report, review} :
              result.passed /\ result.draft = generated_change.id
        /\ generated_change.id > earlier_drafts
        /\ generated_change.paths \subseteq target_paths \ Unsafe

\* Past the plan, nothing of a run whose plan needs a human happens before a
\* human granted that very run: no model call, no command, no publication.
\* The approval of an earlier run under the same id does not count (_after_plan,
\* _approval, _after_approval).
WorkNodes == Nodes \ {"parse", "retrieve", "plan", "approval_request", "approval",
                      "decide", "final"}

ApprovalBeforeWork ==
    /\ pc \in WorkNodes /\ approval_required => "human_approval_granted" \in events
    /\ drafts > earlier_drafts /\ approval_required /\ pc \in Nodes
          => "human_approval_granted" \in events

\* The model repairs the draft that failed, told of that draft's own failure,
\* and the history it is given holds one failure for each draft of the run
\* (_record_failure, _repair).
FailureExplainsDraft ==
    pc = "repair" =>
        /\ failure_context.gate # "none"
        /\ failure_context.draft = generated_change.id
        /\ failures = retry_count + 1 /\ failures = model_calls
        /\ retry_count < retry_budget

\* However the gates, the model and the quotas interleave, a run uses no more
\* than both its retry budget and its quota allow (_quota_failure, _after_failure).
WithinBudgets ==
    pc \in Nodes =>
        /\ retry_count <= retry_budget
        /\ model_calls <= retry_count + 1 /\ model_calls <= MaxModelCalls
        /\ command_executions <= 2 * model_calls
        /\ command_executions <= MaxCommands

\* "Retry-budget-derived LangGraph recursion limit that permits clean bounded
\* exhaustion" (docs/ROADMAP.md:397): no run, and no resumption, reaches the
\* limit at which LangGraph raises GraphRecursionError in place of a result.
SuperstepsWithinLimit == pc \in Nodes \cup {"persist"} => steps <= RecursionLimit

\* While the graph runs it holds the authorization of a stage that is on disk,
\* and while no call is active no authorization is left in the registry
\* (run, resume and their finally blocks).
AuthorityFollowsCall ==
    /\ pc \in Nodes \cup {"persist"} => authorized /\ stage_exists
    /\ pc \in {"idle", "stage"} => ~authorized

\* Every staging directory that nobody will use again has a cause: a crash, a
\* removal that failed, or a second run() of an id whose review was pending, which
\* leaves the stage of the first for good (graph.py:228).  Without the first two,
\* idle calls have left just those (the finally blocks of run and resume).
Leftovers ==
    orphans + (IF pc = "idle" /\ stage_exists /\ ~Waiting THEN 1 ELSE 0)

StagesAccountedFor ==
    /\ Leftovers <= superseded + unremoved + crashes
    /\ unremoved = 0 /\ crashes = 0 => Leftovers = superseded

\* The gates judge the draft itself: on each of its paths the stage holds its
\* content, whatever earlier drafts wrote there (_apply with allow_overwrite).
GatesSeeDraft ==
    pc \in {"build", "tests", "compliance", "review", "publish", "publishing"} =>
        \A p \in generated_change.paths : stage[p] = generated_change.id

\* What a run reports is what it did to the customer repository (_final,
\* _persist_run_record).  A record that says "succeeded" names a change of which
\* every file was written, and a run that failed for any reason but a failing
\* publication has written nothing ("Fail-closed quota termination with
\* disposable staging cleanup and byte-identical customer repositories",
\* docs/ROADMAP.md:680).
OutcomeMatchesRepository ==
    /\ record.status = "succeeded" =>
         /\ record.change.paths # {}
         /\ \A p \in record.change.paths : <<record.change.id, p>> \in published
    /\ status = "failed" /\ "publish_failed" \notin events =>
         \A w \in published : w[1] <= earlier_drafts

\* Once the quota deadline has passed no draft is asked for, no command is
\* started and no publication begins ("Wall-clock enforcement before model,
\* staging, command, compliance, review and publish boundaries",
\* docs/ROADMAP.md:676), until a new run sets a new deadline.
NoWorkPastDeadline ==
    [][past_deadline =>
         /\ drafts' = drafts
         /\ command_executions' <= command_executions
         /\ pc' = "publishing" => pc = "publishing"]_vars

\* A saved record never changes the inputs it pins, and a record that says
\* "succeeded" is final as long as nobody else touches the repository and the
\* change has a file the scanner reads: it moved the revision those inputs name,
\* so no later run has them (DevelopmentRunRecordStore.save).
RecordIsPinned ==
    [][record.present =>
         /\ record'.present /\ record'.input = record.input
         /\ edits = 0 /\ record.status = "succeeded" /\ record.change.paths \cap Scanned # {}
              => record' = record]_vars

\* A human decision enters the run it was asked for: one that waits for it, with
\* nothing generated yet, in a stage whose scanned files are those of the
\* repository at this moment, whoever edited it since the request.  Ignored files
\* may be missing from a worktree; a stage that was not of the scanned tree, or of
\* which a failed removal left a part, is no such stage (resume).
DecisionMeetsPendingRun ==
    [][pc = "idle" /\ pc' = "decide" =>
         /\ status = "needs_human_review" /\ approval_required
         /\ drafts = earlier_drafts
         /\ intact => \A p \in Scanned \ Ignored : stage[p] = repository[p]]_vars

-----------------------------------------------------------------------------
(* The inductive invariant behind the safety properties *)

\* Nodes a run visits before its first draft, and nodes that work on a draft.
FirstNodes   == {"parse", "retrieve", "plan", "approval_request", "approval", "decide",
                 "generate"}
AttemptNodes == {"apply", "build", "build_failure", "tests", "test_failure", "compliance",
                 "compliance_failure", "review", "review_failure", "repair", "publish",
                 "publishing"}

\* The status channel tells a pending run from one at work.
StatusFollowsNode ==
    /\ pc \in (FirstNodes \ {"approval", "decide"}) \cup AttemptNodes => status = "running"
    /\ pc \in {"approval", "decide"} => status = "needs_human_review"
    /\ pc = "final" => status \in {"running", "failed"}

\* A run that has no draft yet has used nothing, and this is how it is kept
\* while it waits for a review.
NothingUsedYet ==
    pc \in FirstNodes \/ status = "needs_human_review" =>
        /\ retry_count = 0 /\ model_calls = 0 /\ command_executions = 0 /\ failures = 0
        /\ drafts = earlier_drafts

\* Commands the current attempt may have used when a node is reached.
AttemptCommands ==
    IF pc \in {"apply", "build"} THEN 0
    ELSE IF pc \in {"tests", "build_failure"} THEN 1 ELSE 2

\* A retry stands for one more draft, one more failure and at most two commands.
AttemptsCounted ==
    /\ pc \in AttemptNodes =>
          /\ model_calls = retry_count + 1
          /\ failures = IF pc = "repair" THEN retry_count + 1 ELSE retry_count
          /\ command_executions <= 2 * retry_count + AttemptCommands
          /\ generated_change.id = drafts /\ drafts > earlier_drafts
    /\ pc = "repair" =>
          /\ retry_count < retry_budget
          /\ failure_context.gate # "none" /\ failure_context.draft = generated_change.id

\* A gate behind which a node lies has passed on the current draft.
Passed(result) == result.passed /\ result.draft = generated_change.id

VerdictsCurrent ==
    /\ pc \in {"tests", "test_failure", "compliance", "compliance_failure", "review",
              "review_failure", "publish", "publishing"} => Passed(build_result)
    /\ pc \in {"compliance", "compliance_failure", "review", "review_failure", "publish",
              "publishing"} => Passed(test_result)
    /\ pc \in {"review", "review_failure", "publish", "publishing"} =>
          Passed(validation_report)
    /\ pc \in {"publish", "publishing"} =>
          Passed(review) /\ generated_change.paths \subseteq target_paths

\* Past "apply" the draft is in the stage and names no path the policy refuses.
DraftStaged ==
    pc \in AttemptNodes \ {"apply", "repair"} =>
        /\ generated_change.paths \cap Unsafe = {}
        /\ \A p \in generated_change.paths : stage[p] = generated_change.id

\* Supersteps at most, when a node is reached in the attempt of a retry.
Position ==
    [parse |-> 0, retrieve |-> 1, plan |-> 2, approval_request |-> 3, approval |-> 4,
     decide |-> 0, generate |-> 3, apply |-> 4, build |-> 5, build_failure |-> 6,
     tests |-> 6, test_failure |-> 7, compliance |-> 7, compliance_failure |-> 8,
     review |-> 8, review_failure |-> 9, publish |-> 9, publishing |-> 9,
     repair |-> 10, final |-> 11, persist |-> 12]

StepsCounted ==
    pc \in Nodes \cup {"persist"} =>
        /\ retry_count <= retry_budget
        /\ steps <= Position[pc] + 7 * retry_count

IInv == /\ StatusFollowsNode
        /\ NothingUsedYet
        /\ AttemptsCounted
        /\ VerdictsCurrent
        /\ DraftStaged
        /\ StepsCounted
        /\ WithinBudgets
        /\ ApprovalBeforeWork

-----------------------------------------------------------------------------
(* Liveness *)

\* Every call of run() and resume() returns or raises, or its process dies.
CallReturns == pc # "idle" ~> pc = "idle"

-----------------------------------------------------------------------------
(* Claims of the documentation that the code does not meet *)


\* "Fail-closed run-ID reuse for different inputs" (docs/ROADMAP.md:465): a run
\* that reuses an id with other inputs publishes nothing.
ReuseFailsClosed == pc = "publishing" => RecordAccepts

=============================================================================
