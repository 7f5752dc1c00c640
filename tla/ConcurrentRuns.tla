--------------------------- MODULE ConcurrentRuns ---------------------------
(***************************************************************************)
(* Calls of DevelopmentService.run and resume that overlap in one          *)
(* workspace: the directory their stages lie in, the registry of staging   *)
(* authorizations, the fields of a service object that several threads     *)
(* use, the checkpoint two resumptions of one run read, and the files they *)
(* publish.  A call is followed from its preflight to the end of its       *)
(* finally block; what happens inside one run is the subject of            *)
(* DevelopmentRun, so a verdict here is either outcome and a failed one    *)
(* ends the run.                                                           *)
(***************************************************************************)
EXTENDS FiniteSets

CONSTANTS Calls, Services, Repositories, Files,
          Requests,     \* what the calls ask for: call -> [service, repository, file, resumes]
          None          \* no call, no value

ASSUME RequestsAssumption ==
    Requests \subseteq [Calls -> [service : Services, repository : Repositories, file : Files,
                                  resumes : Calls \cup {None}]]
ASSUME NoneAssumption == None \notin Calls

VARIABLES request,        \* fixed from the start
          pc,             \* call -> label of what it does next
          parent,         \* .development-staging exists
          stages,         \* run() calls whose stage directory exists
          issued,         \* calls whose authorization is in the registry
          grant, authorization,   \* _run_grant and _staging_authorization of a service
          sandboxed,      \* calls whose local variable sandbox is set
          thread,         \* run() call -> node its checkpoint names, "none" before there is one;
                          \*   each has a run id of its own
          base,           \* run() call -> the tree of its repository when it began
          tree,           \* repository -> file -> call that wrote it last
          outcome,        \* of a call: "none", "ended", "pending" or "raised"
          published, denied,      \* history: calls that wrote to a repository, were refused authority
          before,         \* history: pairs of a call that ended before another began
          unremoved       \* history: run() calls whose stage the last attempt to remove it left

directories == <<parent, stages>>
fields == <<grant, authorization>>
history == <<published, denied, before, unremoved>>
vars == <<request, pc, directories, issued, fields, sandboxed, thread, base, tree, outcome, history>>

Service(c) == request[c].service
Resuming(c) == request[c].resumes # None
\* The run() call a call belongs to; its stage has a name of its own (uuid4).
Run(c) == IF Resuming(c) THEN request[c].resumes ELSE c
RepositoryOf(c) == request[Run(c)].repository
FileOf(c) == request[Run(c)].file

At(c, label) == pc[c] = label
Go(c, label) == pc' = [pc EXCEPT ![c] = label]

Init ==
    /\ request \in Requests
    /\ pc = [c \in Calls |-> "ready"]
    /\ parent = FALSE /\ stages = {} /\ issued = {}
    /\ grant = [s \in Services |-> None] /\ authorization = [s \in Services |-> None]
    /\ sandboxed = {}
    /\ thread = [c \in Calls |-> "none"]
    /\ tree = [r \in Repositories |-> [f \in Files |-> None]]
    /\ base = [c \in Calls |-> tree[RepositoryOf(c)]]
    /\ outcome = [c \in Calls |-> "none"]
    /\ published = {} /\ denied = {} /\ before = {} /\ unremoved = {}

-----------------------------------------------------------------------------
(* Opening *)

\* The revision is taken and the grant of the caller is stored.
Begin(c) ==
    /\ At(c, "ready")
    /\ Go(c, IF Resuming(c) THEN "load" ELSE "mkdir")
    /\ grant' = [grant EXCEPT ![Service(c)] = c]
    /\ before' = before \cup {<<d, c>> : d \in {e \in Calls : At(e, "done")}}
    /\ base' = IF Resuming(c) THEN base ELSE [base EXCEPT ![c] = tree[RepositoryOf(c)]]
    /\ UNCHANGED <<request, directories, issued, authorization, sandboxed, thread, tree, outcome,
                   published, denied, unremoved>>

\* StagingSandbox.create up to the copy.
MakeParent(c) ==
    /\ At(c, "mkdir")
    /\ parent' = TRUE
    /\ Go(c, "copy")
    /\ UNCHANGED <<request, stages, issued, fields, sandboxed, thread, base, tree, outcome, history>>

\* copytree and git worktree make the missing directories above their target too.
Copy(c) ==
    /\ At(c, "copy")
    /\ parent' = TRUE /\ stages' = stages \cup {c}
    /\ sandboxed' = sandboxed \cup {c}
    /\ Go(c, "register")
    /\ UNCHANGED <<request, issued, fields, thread, base, tree, outcome, history>>

\* A failed copy is removed, as far as that succeeds (rmtree ignores errors), the
\* parent is looked at, and the exception goes on.
CopyFails(c) ==
    /\ At(c, "copy")
    /\ \/ UNCHANGED <<directories, unremoved>>
       \/ /\ parent' = TRUE /\ stages' = stages \cup {c}
          /\ unremoved' = unremoved \cup {c}
    /\ outcome' = [outcome EXCEPT ![c] = "raised"]
    /\ Go(c, "look")
    /\ UNCHANGED <<request, issued, fields, sandboxed, thread, base, tree, published, denied, before>>

\* The repository is as it was when the run began.
SameRevision(c) == base[Run(c)] = tree[RepositoryOf(c)]

\* resume reads the checkpoint and attaches to the stage the run has left.
Load(c) ==
    /\ At(c, "load")
    /\ IF thread[Run(c)] = "review" /\ SameRevision(c) /\ Run(c) \in stages
       THEN /\ sandboxed' = sandboxed \cup {c}
            /\ Go(c, "register")
            /\ UNCHANGED outcome
       ELSE /\ outcome' = [outcome EXCEPT ![c] = "ended"]
            /\ Go(c, "clear")
            /\ UNCHANGED sandboxed
    /\ UNCHANGED <<request, directories, issued, fields, thread, base, tree, history>>

\* Registration of the stage, its authorization, and the field that holds it.
Register(c) ==
    /\ At(c, "register")
    /\ IF Run(c) \in stages
       THEN /\ issued' = issued \cup {c}
            /\ authorization' = [authorization EXCEPT ![Service(c)] = c]
            /\ Go(c, IF Resuming(c) THEN "invoke" ELSE "review")
            /\ UNCHANGED outcome
       ELSE /\ outcome' = [outcome EXCEPT ![c] = "raised"]
            /\ Go(c, "clear")
            /\ UNCHANGED <<issued, authorization>>
    /\ UNCHANGED <<request, directories, grant, sandboxed, thread, base, tree, history>>

-----------------------------------------------------------------------------
(* The graph *)

\* The checkpoint written after a node names the node that comes next.
Proceed(c, label) ==
    /\ Go(c, label)
    /\ thread' = [thread EXCEPT ![Run(c)] = label]

\* The approval node of run(): the run goes on, or waits for a human.  The record
\* of a run that waits is written after the checkpoint, and may be refused.
Approve(c) ==
    /\ At(c, "review")
    /\ \/ Proceed(c, "apply") /\ UNCHANGED outcome
       \/ /\ thread' = [thread EXCEPT ![c] = "review"]
          /\ \E o \in {"pending", "raised"} : outcome' = [outcome EXCEPT ![c] = o]
          /\ Go(c, "clear")
    /\ UNCHANGED <<request, directories, issued, fields, sandboxed, base, tree, history>>

\* The approval node of resume(), or wherever another resumption has brought the run.
Invoke(c) ==
    /\ At(c, "invoke")
    /\ IF thread[Run(c)] = "review"
       THEN \E next \in {"apply", "finish"} : Proceed(c, next)
       ELSE Go(c, thread[Run(c)]) /\ UNCHANGED thread
    /\ UNCHANGED <<request, directories, issued, fields, sandboxed, base, tree, outcome, history>>

\* _active_grant and _active_staging_authorization raise RuntimeError.
Bare(c) == None \in {grant[Service(c)], authorization[Service(c)]}

\* _StagingAuthorization.require_repository with what the fields hold.
Authorized(c) ==
    LET token == authorization[Service(c)] IN
    /\ token \in issued
    /\ RepositoryOf(grant[Service(c)]) = RepositoryOf(token)
    /\ Run(token) = Run(c)
    /\ Run(token) \in stages

Raise(c) ==
    /\ outcome' = [outcome EXCEPT ![c] = "raised"]
    /\ denied' = denied \cup {c}
    /\ Go(c, "clear")
    /\ UNCHANGED thread

Refuse(c) ==
    /\ denied' = denied \cup {c}
    /\ Proceed(c, "finish")
    /\ UNCHANGED outcome

\* A node that needs the stage.
WithAuthority(c, next) ==
    \/ Bare(c) /\ Raise(c)
    \/ ~Bare(c) /\ ~Authorized(c) /\ Refuse(c)
    \/ ~Bare(c) /\ Authorized(c) /\ next /\ UNCHANGED <<outcome, denied>>

\* apply_change on the stage up to its first write.
CheckApply(c) ==
    /\ At(c, "apply")
    /\ WithAuthority(c, Go(c, "write") /\ UNCHANGED thread)
    /\ UNCHANGED <<request, directories, issued, fields, sandboxed, base, tree, published, before, unremoved>>

\* target.parent.mkdir(parents=True) makes again what was removed since the check.
WriteDraft(c) ==
    /\ At(c, "write")
    /\ parent' = TRUE /\ stages' = stages \cup {Run(c)}
    /\ Proceed(c, "commands")
    /\ UNCHANGED <<request, issued, fields, sandboxed, base, tree, outcome, history>>

\* Build and tests.
Commands(c) ==
    /\ At(c, "commands")
    /\ WithAuthority(c, \E next \in {"compliance", "finish"} : Proceed(c, next))
    /\ UNCHANGED <<request, directories, issued, fields, sandboxed, base, tree, published, before, unremoved>>

\* The gate needs the grant only, and a missing one fails the gate.
Compliance(c) ==
    /\ At(c, "compliance")
    /\ \/ grant[Service(c)] = None /\ Refuse(c)
       \/ /\ grant[Service(c)] # None
          /\ \E next \in {"publish", "finish"} : Proceed(c, next)
          /\ UNCHANGED <<outcome, denied>>
    /\ UNCHANGED <<request, directories, issued, fields, sandboxed, base, tree, published, before, unremoved>>

\* Mutant: a publication may overwrite, as a draft in the stage may.
Occupied_Never(c) == FALSE

Occupied(c) == tree[RepositoryOf(c)][FileOf(c)] # None

\* apply_change on the customer repository up to its first write.
CheckPublish(c) ==
    /\ At(c, "publish")
    /\ LET holder == grant[Service(c)] IN
       \/ holder = None /\ Raise(c)
       \/ holder # None /\ RepositoryOf(holder) # RepositoryOf(c) /\ Refuse(c)
       \/ /\ holder # None /\ RepositoryOf(holder) = RepositoryOf(c)
          /\ IF Occupied(c) THEN Proceed(c, "finish") ELSE Go(c, "overwrite") /\ UNCHANGED thread
          /\ UNCHANGED <<outcome, denied>>
    /\ UNCHANGED <<request, directories, issued, fields, sandboxed, base, tree, published, before, unremoved>>

WritePublished(c) ==
    /\ At(c, "overwrite")
    /\ tree' = [tree EXCEPT ![RepositoryOf(c)][FileOf(c)] = c]
    /\ published' = published \cup {c}
    /\ Proceed(c, "finish")
    /\ UNCHANGED <<request, directories, issued, fields, sandboxed, base, outcome, denied, before, unremoved>>

\* The final node and the run record.
Finish(c) ==
    /\ At(c, "finish")
    /\ outcome' = [outcome EXCEPT ![c] = "ended"]
    /\ Go(c, "clear")
    /\ UNCHANGED <<request, directories, issued, fields, sandboxed, thread, base, tree, history>>

-----------------------------------------------------------------------------
(* The finally block *)

\* Mutant: what the field of the service object holds is revoked.
Revoked_Field(c) == {authorization[Service(c)]}

\* Mutant: every authorization of the repository is revoked.
Revoked_Repository(c) == {d \in issued : RepositoryOf(d) = RepositoryOf(c)}

\* The token revoked is the one of this call, whatever the field holds by now.
Revoked(c) == {c}

\* Mutant of Clear: a resumption leaves the stage to the run it resumes.
Clear_RunOnly(c) ==
    /\ At(c, "clear")
    /\ grant' = [grant EXCEPT ![Service(c)] = None]
    /\ authorization' = [authorization EXCEPT ![Service(c)] = None]
    /\ issued' = issued \ Revoked(c)
    /\ Go(c, IF c \in sandboxed /\ outcome[c] # "pending" /\ ~Resuming(c) THEN "remove" ELSE "done")
    /\ UNCHANGED <<request, directories, sandboxed, thread, base, tree, outcome, history>>

Clear(c) ==
    /\ At(c, "clear")
    /\ grant' = [grant EXCEPT ![Service(c)] = None]
    /\ authorization' = [authorization EXCEPT ![Service(c)] = None]
    /\ issued' = issued \ Revoked(c)
    /\ Go(c, IF c \in sandboxed /\ outcome[c] # "pending" THEN "remove" ELSE "done")
    /\ UNCHANGED <<request, directories, sandboxed, thread, base, tree, outcome, history>>

\* Mutant: the directory the stages lie in is removed, with all of them.
Removed_All(c) == stages

Removed(c) == {Run(c)}

\* StagingSandbox.remove: what rmtree or git cannot remove stays, without an exception.
RemoveStage(c) ==
    /\ At(c, "remove")
    /\ \/ stages' = stages \ Removed(c) /\ unremoved' = unremoved \ Removed(c)
       \/ UNCHANGED stages /\ unremoved' = unremoved \cup (stages \cap Removed(c))
    /\ Go(c, "look")
    /\ UNCHANGED <<request, parent, issued, fields, sandboxed, thread, base, tree, outcome,
                   published, denied, before>>

\* After _remove_empty_parent: create() goes on raising, remove() is the last thing a call does.
Leave(c) == Go(c, IF c \in sandboxed THEN "done" ELSE "clear")

LeaveRaising(c) == Leave(c) /\ outcome' = [outcome EXCEPT ![c] = "raised"]

\* parent.is_dir()
LookForParent(c) ==
    /\ At(c, "look")
    /\ IF parent THEN Go(c, "list") ELSE Leave(c)
    /\ UNCHANGED <<request, directories, issued, fields, sandboxed, thread, base, tree, outcome, history>>

\* any(parent.iterdir()), which raises when the directory has gone meanwhile.
ListParent(c) ==
    /\ At(c, "list")
    /\ \/ ~parent /\ LeaveRaising(c)
       \/ parent /\ stages # {} /\ Leave(c) /\ UNCHANGED outcome
       \/ parent /\ stages = {} /\ Go(c, "rmdir") /\ UNCHANGED outcome
    /\ UNCHANGED <<request, directories, issued, fields, sandboxed, thread, base, tree, history>>

\* parent.rmdir() takes an empty directory only.
RemoveParent(c) ==
    /\ At(c, "rmdir")
    /\ IF parent /\ stages = {}
       THEN parent' = FALSE /\ Leave(c) /\ UNCHANGED outcome
       ELSE LeaveRaising(c) /\ UNCHANGED parent
    /\ UNCHANGED <<request, stages, issued, fields, sandboxed, thread, base, tree, history>>

Step(c) ==
    \/ Begin(c) \/ MakeParent(c) \/ Copy(c) \/ CopyFails(c) \/ Load(c) \/ Register(c)
    \/ Approve(c) \/ Invoke(c) \/ CheckApply(c) \/ WriteDraft(c) \/ Commands(c) \/ Compliance(c)
    \/ CheckPublish(c) \/ WritePublished(c) \/ Finish(c)
    \/ Clear(c) \/ RemoveStage(c) \/ LookForParent(c) \/ ListParent(c) \/ RemoveParent(c)

Next == \E c \in Calls : Step(c)

Spec == Init /\ [][Next]_vars

-----------------------------------------------------------------------------
(* Properties *)

Labels == {"ready", "mkdir", "copy", "load", "register", "review", "invoke", "apply", "write",
           "commands", "compliance", "publish", "overwrite", "finish", "clear", "remove", "look",
           "list", "rmdir", "done"}

Positions == {"none", "review", "apply", "commands", "compliance", "publish", "finish"}

TypeOK ==
    /\ request \in Requests
    /\ pc \in [Calls -> Labels]
    /\ parent \in BOOLEAN /\ stages \subseteq Calls
    /\ issued \subseteq Calls /\ sandboxed \subseteq Calls
    /\ grant \in [Services -> Calls \cup {None}] /\ authorization \in [Services -> Calls \cup {None}]
    /\ thread \in [Calls -> Positions]
    /\ tree \in [Repositories -> [Files -> Calls \cup {None}]]
    /\ base \in [Calls -> [Files -> Calls \cup {None}]]
    /\ outcome \in [Calls -> {"none", "ended", "pending", "raised"}]
    /\ published \subseteq Calls /\ denied \subseteq Calls /\ before \subseteq Calls \X Calls
    /\ unremoved \subseteq Calls

\* The labels between the issue of a call's authorization and its revocation.
Working == {"review", "invoke", "apply", "write", "commands", "compliance", "publish",
            "overwrite", "finish"}

(* The registry holds the authorization of every call at work, and of none that has ended,     *)
(* whichever calls share a service object and clear its fields in between.                     *)
RegistryFollowsCalls ==
    /\ \A c \in Calls : pc[c] \in Working => c \in issued
    /\ \A c \in issued : pc[c] \in Working \cup {"clear"}

\* No other call belongs to the run of c.
OwnStage(c) == \A d \in Calls \ {c} : Run(d) # Run(c)

(* The stage a call works in is removed by nobody else: neither by a call of another run that  *)
(* cleans up, nor with the directory the stages lie in.                                        *)
WorkingStageStays ==
    \A c \in Calls : pc[c] \in Working \cup {"register", "remove"} /\ OwnStage(c) => Run(c) \in stages

(* When no call is under way, each stage left is of a run that still waits for a human, whose   *)
(* checkpoint no resumption has taken further, or is one that the last attempt to remove it     *)
(* could not; and the directory the stages lie in is there exactly if one of them is.           *)
CleanWhenQuiet ==
    (\A c \in Calls : pc[c] \in {"ready", "done"}) =>
        /\ \A s \in stages : thread[s] = "review" \/ s \in unremoved
        /\ parent <=> stages # {}

(* A call that has a service object and a run to itself is never refused authority over its    *)
(* stage or its repository, whatever other calls do.                                           *)
OwnServiceIsEnough ==
    \A c \in denied : \E d \in Calls \ {c} : Service(d) = Service(c) \/ Run(d) = Run(c)

(* Of two calls that do not overlap, the second never overwrites what the first has published. *)
SequentialCallsKeepFiles ==
    \A p \in before :
        {p[1], p[2]} \subseteq published =>
            <<RepositoryOf(p[1]), FileOf(p[1])>> # <<RepositoryOf(p[2]), FileOf(p[2])>>
=============================================================================
