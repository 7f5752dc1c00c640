------------------------ MODULE ConcurrentRunsProofs ------------------------
(***************************************************************************)
(* What overlapping calls cannot do to each other, for any number of       *)
(* calls, service objects and repositories.                                *)
(***************************************************************************)
EXTENDS ConcurrentRuns, TLAPS

\* A call that has found its run in the checkpoint: the checkpoint keeps naming a node.
Begun ==
    \A c \in Calls :
        /\ pc[c] \in {"mkdir", "copy", "review"} => ~Resuming(c)
        /\ pc[c] \in {"load", "invoke"} => Resuming(c)
        /\ Resuming(c) /\ pc[c] \in Working \cup {"register"} => thread[Run(c)] # "none"

LEMMA RunIsCall == ASSUME TypeOK, NEW c \in Calls
                   PROVE  /\ Run(c) \in Calls /\ Service(c) \in Services
                          /\ RepositoryOf(c) \in Repositories /\ FileOf(c) \in Files
BY RequestsAssumption DEF TypeOK, Run, Resuming, Service, RepositoryOf, FileOf

LEMMA TypeInit == Init => TypeOK /\ Begun
<1> SUFFICES ASSUME Init PROVE TypeOK /\ Begun
  OBVIOUS
<1>1. \A c \in Calls : RepositoryOf(c) \in Repositories
  BY RequestsAssumption DEF Init, Run, Resuming, RepositoryOf
<1> QED BY <1>1 DEF Init, TypeOK, Begun, Labels, Positions, Working

LEMMA OpeningKeepsTypes ==
    ASSUME TypeOK, Begun, NEW c \in Calls,
           Begin(c) \/ MakeParent(c) \/ Copy(c) \/ CopyFails(c) \/ Load(c) \/ Register(c)
    PROVE  TypeOK' /\ Begun'
<1>0. Run(c) \in Calls /\ Service(c) \in Services /\ RepositoryOf(c) \in Repositories
  BY RunIsCall
<1> USE <1>0 DEF TypeOK, Begun, Labels, Positions, Working, Go, At, directories, fields, history
<1>1. CASE Begin(c)
  BY <1>1 DEF Begin, Resuming, Run
<1>2. CASE MakeParent(c)
  BY <1>2 DEF MakeParent, Resuming, Run
<1>3. CASE Copy(c)
  BY <1>3 DEF Copy, Resuming, Run
<1>4. CASE CopyFails(c)
  BY <1>4 DEF CopyFails, Resuming, Run
<1>5. CASE Load(c)
  <2>1. TypeOK'
    BY <1>5 DEF Load
  <2>2. Begun'
    BY <1>5 DEF Load, Resuming, Run
  <2> QED BY <2>1, <2>2
<1>6. CASE Register(c)
  <2>1. TypeOK'
    BY <1>6 DEF Register
  <2>2. Begun'
    BY <1>6 DEF Register, Resuming, Run
  <2> QED BY <2>1, <2>2
<1> QED BY <1>1, <1>2, <1>3, <1>4, <1>5, <1>6

\* The steps of the graph of a call.
Graph(c) ==
    \/ Approve(c) \/ Invoke(c) \/ CheckApply(c) \/ WriteDraft(c) \/ Commands(c)
    \/ Compliance(c) \/ CheckPublish(c) \/ WritePublished(c) \/ Finish(c)

\* What they have in common: the call stays in the graph or goes to its finally block, the
\* registry and the fields of the service object stay, and no stage goes.
GraphFrame(c) ==
    /\ UNCHANGED <<request, issued, grant, authorization, sandboxed, base, before, unremoved>>
    /\ pc[c] \in Working
    /\ \E label \in (Working \ {"review", "invoke"}) \cup {"clear"} : pc' = [pc EXCEPT ![c] = label]
    /\ \A r \in Calls : thread'[r] = "none" => thread[r] = "none"
    /\ \A r \in Calls \ {Run(c)} : thread'[r] = thread[r]
    /\ <<parent', stages'>> \in {<<parent, stages>>, <<TRUE, stages \cup {Run(c)}>>}
    /\ \E o \in {"none", "ended", "pending", "raised"} :
          /\ outcome' \in {outcome, [outcome EXCEPT ![c] = o]}
          /\ o = "pending" => pc[c] = "review" /\ pc'[c] = "clear" /\ thread'[c] = "review"

LEMMA FrameOfGraph == ASSUME TypeOK, Begun, NEW c \in Calls, Graph(c) PROVE GraphFrame(c)
<1>0. Run(c) \in Calls /\ thread[Run(c)] \in Positions
  BY RunIsCall DEF TypeOK
<1> USE <1>0 DEF GraphFrame, Working, Go, At, directories, fields, history
<1>1. CASE Approve(c)
  <2>1. Run(c) = c /\ pc[c] = "review" /\ thread[c] \in Positions
    BY <1>0, <1>1 DEF Approve, Begun, Run
  <2>2. CASE Proceed(c, "apply") /\ UNCHANGED outcome
    BY <1>1, <2>1, <2>2 DEF Approve, Proceed, TypeOK, Positions
  <2>3. ASSUME NEW o \in {"pending", "raised"}, outcome' = [outcome EXCEPT ![c] = o],
               thread' = [thread EXCEPT ![c] = "review"], pc' = [pc EXCEPT ![c] = "clear"]
        PROVE  GraphFrame(c)
    BY <1>1, <2>1, <2>3 DEF Approve, TypeOK, Positions
  <2> QED BY <1>1, <2>2, <2>3 DEF Approve
<1>2. CASE Invoke(c)
  BY <1>2 DEF Invoke, Proceed, TypeOK, Positions, Begun
<1>3. CASE CheckApply(c)
  BY <1>3 DEF CheckApply, WithAuthority, Raise, Refuse, Proceed, TypeOK, Positions
<1>4. CASE WriteDraft(c)
  BY <1>4 DEF WriteDraft, Proceed, TypeOK, Positions
<1>5. CASE Commands(c)
  BY <1>5 DEF Commands, WithAuthority, Raise, Refuse, Proceed, TypeOK, Positions
<1>6. CASE Compliance(c)
  BY <1>6 DEF Compliance, Refuse, Proceed, TypeOK, Positions
<1>7. CASE CheckPublish(c)
  BY <1>7 DEF CheckPublish, Raise, Refuse, Proceed, TypeOK, Positions
<1>8. CASE WritePublished(c)
  BY <1>8 DEF WritePublished, Proceed, TypeOK, Positions
<1>9. CASE Finish(c)
  BY <1>9 DEF Finish, TypeOK, Positions
<1> QED BY <1>1, <1>2, <1>3, <1>4, <1>5, <1>6, <1>7, <1>8, <1>9 DEF Graph

LEMMA GraphKeepsTypes ==
    ASSUME TypeOK, Begun, NEW c \in Calls, Graph(c)
    PROVE  TypeOK'
<1>0. Run(c) \in Calls /\ Service(c) \in Services /\ RepositoryOf(c) \in Repositories
      /\ FileOf(c) \in Files
  BY RunIsCall
<1> USE <1>0 DEF TypeOK, Labels, Positions, Working, Go, At, directories, fields, history
<1>1. CASE Approve(c)
  BY <1>1 DEF Approve, Proceed
<1>2. CASE Invoke(c)
  <2>1. CASE thread[Run(c)] = "review"
    BY <1>2, <2>1 DEF Invoke, Proceed
  <2>2. CASE thread[Run(c)] # "review"
    <3>1. thread[Run(c)] \in Labels
      BY <1>2, <2>2 DEF Invoke, Begun
    <3>2. pc' \in [Calls -> Labels] /\ thread' = thread
      BY <1>2, <2>2, <3>1 DEF Invoke
    <3> QED BY <1>2, <3>2 DEF Invoke
  <2> QED BY <2>1, <2>2
<1>3. CASE CheckApply(c)
  BY <1>3 DEF CheckApply, WithAuthority, Raise, Refuse, Proceed
<1>4. CASE WriteDraft(c)
  BY <1>4 DEF WriteDraft, Proceed
<1>5. CASE Commands(c)
  BY <1>5 DEF Commands, WithAuthority, Raise, Refuse, Proceed
<1>6. CASE Compliance(c)
  BY <1>6 DEF Compliance, Refuse, Proceed
<1>7. CASE CheckPublish(c)
  BY <1>7 DEF CheckPublish, Raise, Refuse, Proceed
<1>8. CASE WritePublished(c)
  BY <1>8 DEF WritePublished, Proceed
<1>9. CASE Finish(c)
  BY <1>9 DEF Finish
<1> QED BY <1>1, <1>2, <1>3, <1>4, <1>5, <1>6, <1>7, <1>8, <1>9 DEF Graph

LEMMA GraphKeepsBegun ==
    ASSUME TypeOK, Begun, NEW c \in Calls, GraphFrame(c)
    PROVE  Begun'
<1> SUFFICES ASSUME NEW d \in Calls
             PROVE  /\ pc'[d] \in {"mkdir", "copy", "review"} => ~Resuming(d)
                    /\ pc'[d] \in {"load", "invoke"} => Resuming(d)
                    /\ Resuming(d) /\ pc'[d] \in Working \cup {"register"} => thread'[Run(d)] # "none"
  BY DEF GraphFrame, Begun, Resuming, Run, Working
<1>0. Run(d) \in Calls
  BY RunIsCall
<1>1. PICK label \in (Working \ {"review", "invoke"}) \cup {"clear"} : pc' = [pc EXCEPT ![c] = label]
  BY DEF GraphFrame
<1>2. \/ pc'[d] = pc[d]
      \/ d = c /\ pc[d] \in Working /\ pc'[d] \in (Working \ {"review", "invoke"}) \cup {"clear"}
  BY <1>1 DEF TypeOK, GraphFrame
<1>3. thread'[Run(d)] = "none" => thread[Run(d)] = "none"
  BY <1>0 DEF GraphFrame
<1> QED BY <1>2, <1>3 DEF Begun, Working

\* The steps from the finally block to the end of a call.
Closing(c) ==
    Clear(c) \/ RemoveStage(c) \/ LookForParent(c) \/ ListParent(c) \/ RemoveParent(c)

\* The call goes on in its finally block; fields and registry lose entries only.
ClosingFrame(c) ==
    /\ UNCHANGED <<request, sandboxed, thread, base, tree, published, denied, before>>
    /\ pc[c] \in {"clear", "remove", "look", "list", "rmdir"}
    /\ \E label \in {"clear", "remove", "look", "list", "rmdir", "done"} :
          pc' = [pc EXCEPT ![c] = label]
    /\ outcome' \in {outcome, [outcome EXCEPT ![c] = "raised"]}

LEMMA ClosingKeepsTypes ==
    ASSUME TypeOK, Begun, NEW c \in Calls, Closing(c)
    PROVE  ClosingFrame(c) /\ TypeOK' /\ Begun'
<1>0. Service(c) \in Services
  BY RunIsCall
<1> USE <1>0 DEF Go, At, directories, fields, history
<1>1. ClosingFrame(c)
  <2> USE DEF ClosingFrame
  <2>1. CASE Clear(c)
    BY <2>1 DEF Clear
  <2>2. CASE RemoveStage(c)
    BY <2>2 DEF RemoveStage
  <2>3. CASE LookForParent(c)
    BY <2>3 DEF LookForParent, Leave
  <2>4. CASE ListParent(c)
    BY <2>4 DEF ListParent, LeaveRaising, Leave
  <2>5. CASE RemoveParent(c)
    BY <2>5 DEF RemoveParent, LeaveRaising, Leave
  <2> QED BY <2>1, <2>2, <2>3, <2>4, <2>5 DEF Closing
<1>2. /\ parent' \in BOOLEAN /\ stages' \subseteq Calls /\ issued' \subseteq Calls
      /\ unremoved' \subseteq Calls
      /\ grant' \in [Services -> Calls \cup {None}]
      /\ authorization' \in [Services -> Calls \cup {None}]
  BY DEF TypeOK, Closing, Clear, RemoveStage, LookForParent, ListParent, RemoveParent
<1>3. PICK label \in {"clear", "remove", "look", "list", "rmdir", "done"} :
          pc' = [pc EXCEPT ![c] = label]
  BY <1>1 DEF ClosingFrame
<1>4. TypeOK'
  BY <1>1, <1>2, <1>3 DEF ClosingFrame, TypeOK, Labels
<1>5. Begun'
  BY <1>1, <1>3 DEF ClosingFrame, TypeOK, Begun, Resuming, Run, Working
<1> QED BY <1>1, <1>4, <1>5

Opening(c) == Begin(c) \/ MakeParent(c) \/ Copy(c) \/ CopyFails(c) \/ Load(c) \/ Register(c)

LEMMA StepIsPhase == ASSUME NEW c \in Calls, Step(c)
                     PROVE  Opening(c) \/ Graph(c) \/ Closing(c)
BY DEF Step, Opening, Graph, Closing

LEMMA TypeNext == TypeOK /\ Begun /\ [Next]_vars => TypeOK' /\ Begun'
<1> SUFFICES ASSUME TypeOK, Begun, [Next]_vars PROVE TypeOK' /\ Begun'
  OBVIOUS
<1>1. ASSUME NEW c \in Calls, Step(c) PROVE TypeOK' /\ Begun'
  BY <1>1, StepIsPhase, OpeningKeepsTypes, FrameOfGraph, GraphKeepsTypes, GraphKeepsBegun,
     ClosingKeepsTypes DEF Opening
<1>2. CASE UNCHANGED vars
  BY <1>2 DEF vars, directories, fields, history, TypeOK, Begun, Resuming, Run
<1> QED BY <1>1, <1>2 DEF Next

\* Every variable keeps its type, whatever calls overlap: no step of
\* graph.py, sandbox.py or changes.py leaves the labels and sets of the model.
THEOREM TypeCorrect == Spec => []TypeOK
<1>1. TypeOK /\ Begun /\ [Next]_vars => TypeOK' /\ Begun'
  BY TypeNext
<1> QED BY TypeInit, <1>1, PTL DEF Spec

-----------------------------------------------------------------------------
(* The registry *)

LEMMA RegistryNext ==
    TypeOK /\ Begun /\ RegistryFollowsCalls /\ [Next]_vars => RegistryFollowsCalls'
<1> SUFFICES ASSUME TypeOK, Begun, RegistryFollowsCalls, [Next]_vars
             PROVE  RegistryFollowsCalls'
  OBVIOUS
<1> USE DEF RegistryFollowsCalls
<1>1. ASSUME NEW c \in Calls, Opening(c) PROVE RegistryFollowsCalls'
  BY <1>1 DEF Opening, Begin, MakeParent, Copy, CopyFails, Load, Register, Go, At, TypeOK,
              Working
<1>2. ASSUME NEW c \in Calls, GraphFrame(c) PROVE RegistryFollowsCalls'
  BY <1>2 DEF GraphFrame, TypeOK, Working
<1>3. ASSUME NEW c \in Calls, Closing(c) PROVE RegistryFollowsCalls'
  <2>1. CASE Clear(c)
    BY <2>1 DEF Clear, Revoked, Go, At, TypeOK, Working
  <2>2. CASE ~Clear(c)
    <3>1. issued' = issued /\ c \notin issued
      BY <1>3, <2>2 DEF Closing, RemoveStage, LookForParent, ListParent, RemoveParent, At, Working
    <3>2. PICK label \in {"clear", "remove", "look", "list", "rmdir", "done"} :
              pc' = [pc EXCEPT ![c] = label]
      BY <1>3, ClosingKeepsTypes DEF ClosingFrame
    <3> QED BY <3>1, <3>2 DEF TypeOK, Working
  <2> QED BY <2>1, <2>2
<1>4. CASE UNCHANGED vars
  BY <1>4 DEF vars
<1> QED BY <1>1, <1>2, <1>3, <1>4, StepIsPhase, FrameOfGraph DEF Next

\* Clearing the fields of a service object never takes another call's
\* authorization out of the registry (graph.py:299-305, sandbox.py).
THEOREM RegistryIsFollowed == Spec => []RegistryFollowsCalls
<1>1. Init => RegistryFollowsCalls
  BY DEF Init, RegistryFollowsCalls, Working
<1> QED BY TypeInit, TypeNext, <1>1, RegistryNext, PTL DEF Spec

-----------------------------------------------------------------------------
(* The stages *)

\* The labels at which the stage of a call's run is on the disk, and the
\* visit of the finally block that will remove it.
StageHeld ==
    \A c \in Calls :
        /\ OwnStage(c) /\ pc[c] \in Working \cup {"register", "remove"} => Run(c) \in stages
        /\ OwnStage(c) /\ pc[c] = "clear" /\ c \in sandboxed => Run(c) \in stages
        /\ c \in sandboxed => pc[c] \notin {"ready", "mkdir", "copy", "load"}

LEMMA StageNext == TypeOK /\ Begun /\ StageHeld /\ [Next]_vars => StageHeld'
<1> SUFFICES ASSUME TypeOK, Begun, StageHeld, [Next]_vars PROVE StageHeld'
  OBVIOUS
<1> DEFINE Held(d, label, boxed, kept) ==
      /\ OwnStage(d) /\ label \in Working \cup {"register", "remove"} => Run(d) \in kept
      /\ OwnStage(d) /\ label = "clear" /\ boxed => Run(d) \in kept
      /\ boxed => label \notin {"ready", "mkdir", "copy", "load"}
<1>a. ASSUME request' = request, NEW d \in Calls
      PROVE  Run(d)' = Run(d) /\ (OwnStage(d))' = OwnStage(d)
  BY <1>a DEF Run, Resuming, OwnStage
<1>b. request' = request
  BY DEF Next, Step, Begin, MakeParent, Copy, CopyFails, Load, Register, Approve, Invoke,
         CheckApply, WriteDraft, Commands, Compliance, CheckPublish, WritePublished, Finish,
         Clear, RemoveStage, LookForParent, ListParent, RemoveParent, vars
<1>c. \A d \in Calls : Held(d, pc[d], d \in sandboxed, stages)
  BY DEF StageHeld
<1>d. SUFFICES ASSUME NEW d \in Calls PROVE Held(d, pc'[d], d \in sandboxed', stages')
  BY <1>a, <1>b DEF StageHeld
<1>e. Held(d, pc[d], d \in sandboxed, stages) /\ Run(d) \in Calls
  BY <1>c, RunIsCall
<1>1. ASSUME NEW c \in Calls, Opening(c) PROVE Held(d, pc'[d], d \in sandboxed', stages')
  <2>1. stages \subseteq stages'
    BY <1>1 DEF Opening, Begin, MakeParent, Copy, CopyFails, Load, Register, directories
  <2>2. CASE d # c
    BY <1>1, <1>e, <2>1, <2>2 DEF Opening, Begin, MakeParent, Copy, CopyFails, Load, Register, Go,
       TypeOK
  <2>3. CASE d = c
    BY <1>1, <1>e, <2>1, <2>3 DEF Opening, Begin, MakeParent, Copy, CopyFails, Load, Register, Go,
       At, TypeOK, Working, Begun, Run, directories
  <2> QED BY <2>2, <2>3
<1>2. ASSUME NEW c \in Calls, GraphFrame(c) PROVE Held(d, pc'[d], d \in sandboxed', stages')
  <2>1. stages \subseteq stages' /\ sandboxed' = sandboxed
    BY <1>2 DEF GraphFrame
  <2>2. CASE d # c
    BY <1>2, <1>e, <2>1, <2>2 DEF GraphFrame, TypeOK
  <2>3. CASE d = c
    BY <1>2, <1>e, <2>1, <2>3 DEF GraphFrame, TypeOK, Working
  <2> QED BY <2>2, <2>3
<1>3. ASSUME NEW c \in Calls, Closing(c) PROVE Held(d, pc'[d], d \in sandboxed', stages')
  <2>1. sandboxed' = sandboxed
    BY <1>3, ClosingKeepsTypes DEF ClosingFrame
  <2>2. CASE d # c
    <3>1. OwnStage(d) /\ Run(d) \in stages => Run(d) \in stages'
      BY <1>3, <2>2 DEF Closing, Clear, RemoveStage, LookForParent, ListParent, RemoveParent,
         Removed, OwnStage, directories
    <3>2. ClosingFrame(c)
      BY <1>3, ClosingKeepsTypes
    <3>3. pc'[d] = pc[d]
      BY <2>2, <3>2 DEF ClosingFrame, TypeOK
    <3> QED BY <1>e, <2>1, <3>1, <3>3
  <2>3. CASE d = c /\ Clear(c)
    BY <1>e, <2>3 DEF Clear, Go, At, TypeOK, Working, directories
  <2>4. CASE d = c /\ RemoveStage(c)
    BY <1>e, <2>4 DEF RemoveStage, Go, At, TypeOK, Working
  <2>5. CASE d = c /\ (LookForParent(c) \/ ListParent(c) \/ RemoveParent(c))
    BY <1>e, <2>5 DEF LookForParent, ListParent, RemoveParent, LeaveRaising, Leave, Go, At, TypeOK,
       Working
  <2> QED BY <1>3, <2>2, <2>3, <2>4, <2>5 DEF Closing
<1>4. CASE UNCHANGED vars
  BY <1>4, <1>e DEF vars, directories
<1> QED BY <1>1, <1>2, <1>3, <1>4, StepIsPhase, FrameOfGraph DEF Next

\* No clean-up of another run, nor the removal of the directory the stages lie
\* in, takes the stage from a call at work (sandbox.py, remove and _remove_empty_parent).
THEOREM StageStays == Spec => []WorkingStageStays
<1>1. Init => StageHeld
  BY DEF Init, StageHeld, Working
<1>2. StageHeld => WorkingStageStays
  BY DEF StageHeld, WorkingStageStays
<1> QED BY TypeInit, TypeNext, <1>1, <1>2, StageNext, PTL DEF Spec

-----------------------------------------------------------------------------
(* The fields of the service objects *)

Alone(c) == \A d \in Calls \ {c} : Service(d) # Service(c) /\ Run(d) # Run(c)

\* The fields of a service object that one call has to itself hold what it stored.
FieldsHeld ==
    \A c \in Calls : Alone(c) =>
        /\ pc[c] \in Working \cup {"mkdir", "copy", "load", "register"} => grant[Service(c)] = c
        /\ pc[c] \in Working => authorization[Service(c)] = c

LEMMA FieldsNext == TypeOK /\ Begun /\ FieldsHeld /\ [Next]_vars => FieldsHeld'
<1> SUFFICES ASSUME TypeOK, Begun, FieldsHeld, [Next]_vars PROVE FieldsHeld'
  OBVIOUS
<1>a. request' = request
  BY DEF Next, Step, Begin, MakeParent, Copy, CopyFails, Load, Register, Approve, Invoke,
         CheckApply, WriteDraft, Commands, Compliance, CheckPublish, WritePublished, Finish,
         Clear, RemoveStage, LookForParent, ListParent, RemoveParent, vars
<1>b. \A d \in Calls : Alone(d)' = Alone(d) /\ Service(d)' = Service(d)
  BY <1>a DEF Alone, Service, Run, Resuming
<1>c. SUFFICES ASSUME NEW d \in Calls, Alone(d)
      PROVE  /\ pc'[d] \in Working \cup {"mkdir", "copy", "load", "register"}
                   => grant'[Service(d)] = d
             /\ pc'[d] \in Working => authorization'[Service(d)] = d
  BY <1>b DEF FieldsHeld
<1>d. /\ pc[d] \in Working \cup {"mkdir", "copy", "load", "register"} => grant[Service(d)] = d
      /\ pc[d] \in Working => authorization[Service(d)] = d
  BY <1>c DEF FieldsHeld
<1>e. \A c \in Calls : Service(c) \in Services /\ (c # d => Service(c) # Service(d))
  BY <1>c, RunIsCall DEF Alone
<1>1. ASSUME NEW c \in Calls, Opening(c)
      PROVE  /\ pc'[d] \in Working \cup {"mkdir", "copy", "load", "register"}
                   => grant'[Service(d)] = d
             /\ pc'[d] \in Working => authorization'[Service(d)] = d
  BY <1>1, <1>d, <1>e DEF Opening, Begin, MakeParent, Copy, CopyFails, Load, Register, Go, At,
     TypeOK, Working, fields
<1>2. ASSUME NEW c \in Calls, GraphFrame(c)
      PROVE  /\ pc'[d] \in Working \cup {"mkdir", "copy", "load", "register"}
                   => grant'[Service(d)] = d
             /\ pc'[d] \in Working => authorization'[Service(d)] = d
  BY <1>2, <1>d DEF GraphFrame, TypeOK, Working
<1>3. ASSUME NEW c \in Calls, Closing(c)
      PROVE  /\ pc'[d] \in Working \cup {"mkdir", "copy", "load", "register"}
                   => grant'[Service(d)] = d
             /\ pc'[d] \in Working => authorization'[Service(d)] = d
  <2>1. ClosingFrame(c)
    BY <1>3, ClosingKeepsTypes
  <2>2. CASE d = c
    BY <2>1, <2>2 DEF ClosingFrame, TypeOK, Working
  <2>3. CASE d # c
    <3>1. pc'[d] = pc[d]
      BY <2>1, <2>3 DEF ClosingFrame, TypeOK
    <3>2. grant'[Service(d)] = grant[Service(d)]
          /\ authorization'[Service(d)] = authorization[Service(d)]
      BY <1>3, <1>e, <2>3 DEF Closing, Clear, RemoveStage, LookForParent, ListParent,
         RemoveParent, TypeOK, fields
    <3> QED BY <1>d, <3>1, <3>2
  <2> QED BY <2>2, <2>3
<1>4. CASE UNCHANGED vars
  BY <1>4, <1>d DEF vars, fields
<1> QED BY <1>1, <1>2, <1>3, <1>4, StepIsPhase, FrameOfGraph DEF Next

\* A call that is alone has the authority it was given.
LEMMA AloneIsAuthorized ==
    ASSUME TypeOK, RegistryFollowsCalls, StageHeld, FieldsHeld,
           NEW c \in Calls, Alone(c), pc[c] \in Working
    PROVE  ~Bare(c) /\ Authorized(c) /\ grant[Service(c)] = c /\ c # None
<1>1. grant[Service(c)] = c /\ authorization[Service(c)] = c
  BY DEF FieldsHeld
<1>2. c \in issued /\ Run(c) \in stages
  BY DEF RegistryFollowsCalls, StageHeld, Alone, OwnStage
<1> QED BY <1>1, <1>2, NoneAssumption DEF Bare, Authorized

LEMMA DeniedNext ==
    /\ TypeOK /\ Begun /\ RegistryFollowsCalls /\ StageHeld /\ FieldsHeld
    /\ OwnServiceIsEnough /\ [Next]_vars
    => OwnServiceIsEnough'
<1> SUFFICES ASSUME TypeOK, Begun, RegistryFollowsCalls, StageHeld, FieldsHeld,
                    OwnServiceIsEnough, [Next]_vars
             PROVE  OwnServiceIsEnough'
  OBVIOUS
<1>a. request' = request
  BY DEF Next, Step, Begin, MakeParent, Copy, CopyFails, Load, Register, Approve, Invoke,
         CheckApply, WriteDraft, Commands, Compliance, CheckPublish, WritePublished, Finish,
         Clear, RemoveStage, LookForParent, ListParent, RemoveParent, vars
<1>b. OwnServiceIsEnough <=> \A c \in denied : ~Alone(c)
  BY DEF OwnServiceIsEnough, Alone
<1>c. OwnServiceIsEnough' <=> \A c \in denied' : ~Alone(c)
  BY <1>a DEF OwnServiceIsEnough, Alone, Service, Run, Resuming
<1>1. CASE denied' \subseteq denied
  BY <1>1, <1>b, <1>c
<1>2. ASSUME NEW c \in Calls, Graph(c) PROVE denied' \subseteq denied \cup {c}
  BY <1>2 DEF Graph, Approve, Invoke, CheckApply, WriteDraft, Commands, Compliance, CheckPublish,
     WritePublished, Finish, WithAuthority, Raise, Refuse, history
<1>3. ASSUME NEW c \in Calls, Graph(c), Alone(c) PROVE denied' \subseteq denied
  <2>1. ~Bare(c) /\ Authorized(c) /\ grant[Service(c)] = c /\ c # None
    BY <1>3, AloneIsAuthorized, FrameOfGraph DEF GraphFrame
  <2> QED BY <1>3, <2>1 DEF Graph, Approve, Invoke, CheckApply, WriteDraft, Commands, Compliance,
       CheckPublish, WritePublished, Finish, WithAuthority, history
<1>4. ASSUME NEW c \in Calls, Opening(c) PROVE denied' \subseteq denied
  BY <1>4 DEF Opening, Begin, MakeParent, Copy, CopyFails, Load, Register, history
<1>5. ASSUME NEW c \in Calls, Closing(c) PROVE denied' \subseteq denied
  BY <1>5 DEF Closing, Clear, RemoveStage, LookForParent, ListParent, RemoveParent, history
<1>6. CASE UNCHANGED vars
  BY <1>6, <1>1 DEF vars, history
<1> QED BY <1>1, <1>2, <1>3, <1>4, <1>5, <1>6, <1>b, <1>c, StepIsPhase DEF Next

\* A call that shares neither its service object nor its run is never refused
\* authority: what other threads do to the registry, the workspace directory
\* and their own service objects does not reach it (graph.py, _active_grant,
\* _active_staging_authorization; sandbox.py, require_repository).
THEOREM OwnServiceSuffices == Spec => []OwnServiceIsEnough
<1>1. Init => RegistryFollowsCalls /\ StageHeld /\ FieldsHeld /\ OwnServiceIsEnough
  BY DEF Init, RegistryFollowsCalls, StageHeld, FieldsHeld, OwnServiceIsEnough, Working
<1> QED BY TypeInit, TypeNext, <1>1, RegistryNext, StageNext, FieldsNext, DeniedNext, PTL DEF Spec

-----------------------------------------------------------------------------
(* The files of calls that do not overlap *)

Cell(c) == <<RepositoryOf(c), FileOf(c)>>

\* What a call has published is in the tree, and one that is about to write
\* has found its file free of everything published before it began.
FilesKept ==
    /\ \A c \in published : tree[RepositoryOf(c)][FileOf(c)] # None /\ pc[c] # "ready"
    /\ \A d, c \in Calls : <<d, c>> \in before =>
          /\ d # c /\ pc[d] = "done"
          /\ d \in published /\ (pc[c] = "overwrite" \/ c \in published) => Cell(d) # Cell(c)

\* A step that writes nothing into a repository and begins no call.
Unwritten(c) ==
    /\ UNCHANGED <<request, tree, published, before>>
    /\ pc[c] # "done"
    /\ \E label \in Labels \ {"ready"} :
          /\ pc' = [pc EXCEPT ![c] = label]
          /\ label = "overwrite" => tree[RepositoryOf(c)][FileOf(c)] = None

LEMMA OthersWriteNothing ==
    ASSUME TypeOK, Begun, NEW c \in Calls, Step(c)
    PROVE  Begin(c) \/ WritePublished(c) \/ Unwritten(c)
<1>0. Run(c) \in Calls /\ thread[Run(c)] \in Positions
  BY RunIsCall DEF TypeOK
<1> USE <1>0 DEF Unwritten, Go, At, directories, fields, history
<1>1. CASE MakeParent(c) \/ Copy(c) \/ CopyFails(c) \/ Load(c) \/ Register(c)
  BY <1>1 DEF MakeParent, Copy, CopyFails, Load, Register, Labels
<1>2. CASE Approve(c)
  BY <1>2 DEF Approve, Proceed, Labels
<1>3. CASE Invoke(c)
  BY <1>3 DEF Invoke, Proceed, Labels, Positions, Begun, Working
<1>4. CASE CheckApply(c) \/ Commands(c)
  BY <1>4 DEF CheckApply, Commands, WithAuthority, Raise, Refuse, Proceed, Labels
<1>5. CASE WriteDraft(c) \/ Compliance(c) \/ Finish(c)
  BY <1>5 DEF WriteDraft, Compliance, Finish, Refuse, Proceed, Labels
<1>6. CASE CheckPublish(c)
  BY <1>6 DEF CheckPublish, Raise, Refuse, Proceed, Occupied, Labels
<1>7. CASE Clear(c) \/ RemoveStage(c)
  BY <1>7 DEF Clear, RemoveStage, Labels
<1>8. CASE LookForParent(c) \/ ListParent(c) \/ RemoveParent(c)
  BY <1>8 DEF LookForParent, ListParent, RemoveParent, LeaveRaising, Leave, Labels
<1> QED BY <1>1, <1>2, <1>3, <1>4, <1>5, <1>6, <1>7, <1>8 DEF Step

LEMMA FilesNext == TypeOK /\ Begun /\ FilesKept /\ [Next]_vars => FilesKept'
<1> SUFFICES ASSUME TypeOK, Begun, FilesKept, [Next]_vars PROVE FilesKept'
  OBVIOUS
<1>0. \A c \in Calls : RepositoryOf(c) \in Repositories /\ FileOf(c) \in Files
  BY RunIsCall
<1>a. request' = request => \A c \in Calls : /\ RepositoryOf(c)' = RepositoryOf(c)
                                             /\ FileOf(c)' = FileOf(c) /\ Cell(c)' = Cell(c)
  BY DEF RepositoryOf, FileOf, Run, Resuming, Cell
<1>1. ASSUME NEW e \in Calls, Begin(e) PROVE FilesKept'
  <2>1. /\ request' = request /\ tree' = tree /\ published' = published
        /\ pc[e] = "ready" /\ e \notin published
        /\ pc'[e] \in {"load", "mkdir"} /\ \A c \in Calls \ {e} : pc'[c] = pc[c]
        /\ before' = before \cup {<<d, e>> : d \in {c \in Calls : pc[c] = "done"}}
    BY <1>1 DEF Begin, Go, At, TypeOK, FilesKept
  <2>2. \A c \in published' : tree'[RepositoryOf(c)'][FileOf(c)'] # None /\ pc'[c] # "ready"
    BY <1>a, <2>1 DEF FilesKept, TypeOK
  <2>3. ASSUME NEW d \in Calls, NEW c \in Calls, <<d, c>> \in before'
        PROVE  /\ d # c /\ pc'[d] = "done"
               /\ d \in published' /\ (pc'[c] = "overwrite" \/ c \in published')
                     => Cell(d)' # Cell(c)'
    <3>1. CASE <<d, c>> \in before
      BY <1>a, <2>1, <3>1 DEF FilesKept
    <3>2. CASE <<d, c>> \notin before
      BY <2>1, <2>3, <3>2
    <3> QED BY <3>1, <3>2
  <2> QED BY <2>2, <2>3 DEF FilesKept
<1>2. ASSUME NEW e \in Calls, WritePublished(e) PROVE FilesKept'
  <2>1. /\ request' = request /\ before' = before /\ published' = published \cup {e}
        /\ pc[e] = "overwrite" /\ pc'[e] = "finish" /\ \A c \in Calls \ {e} : pc'[c] = pc[c]
        /\ tree' = [tree EXCEPT ![RepositoryOf(e)][FileOf(e)] = e]
    BY <1>2 DEF WritePublished, Proceed, Go, At, TypeOK
  <2>2. \A c \in published' : tree'[RepositoryOf(c)][FileOf(c)] # None /\ pc'[c] # "ready"
    BY <1>0, <2>1, NoneAssumption DEF FilesKept, TypeOK
  <2>3. \A d, c \in Calls : <<d, c>> \in before =>
          /\ d # c /\ pc'[d] = "done"
          /\ d \in published' /\ (pc'[c] = "overwrite" \/ c \in published') => Cell(d) # Cell(c)
    BY <2>1 DEF FilesKept
  <2> QED BY <1>a, <2>1, <2>2, <2>3 DEF FilesKept, TypeOK
<1>3. ASSUME NEW e \in Calls, Unwritten(e) PROVE FilesKept'
  <2>1. PICK label \in Labels \ {"ready"} :
             /\ pc' = [pc EXCEPT ![e] = label]
             /\ label = "overwrite" => tree[RepositoryOf(e)][FileOf(e)] = None
    BY <1>3 DEF Unwritten
  <2>2. request' = request /\ tree' = tree /\ published' = published /\ before' = before
        /\ pc[e] # "done"
    BY <1>3 DEF Unwritten
  <2>3. pc'[e] = label /\ \A c \in Calls \ {e} : pc'[c] = pc[c]
    BY <2>1 DEF TypeOK
  <2>4. \A d \in published : label = "overwrite" => Cell(d) # Cell(e)
    BY <2>1 DEF FilesKept, Cell
  <2>5. \A d, c \in Calls : <<d, c>> \in before =>
          /\ d # c /\ pc'[d] = "done"
          /\ d \in published /\ (pc'[c] = "overwrite" \/ c \in published) => Cell(d) # Cell(c)
    BY <2>2, <2>3, <2>4 DEF FilesKept
  <2> QED BY <1>a, <2>1, <2>2, <2>3, <2>5 DEF FilesKept, TypeOK
<1>4. CASE UNCHANGED vars
  <2>1. request' = request /\ tree' = tree /\ published' = published /\ before' = before
        /\ pc' = pc
    BY <1>4 DEF vars, history
  <2>2. published \subseteq Calls
    BY DEF TypeOK
  <2> QED BY <1>a, <2>1, <2>2 DEF FilesKept
<1> QED BY <1>1, <1>2, <1>3, <1>4, OthersWriteNothing DEF Next

\* apply_change with the publishing profile looks before it writes, so a call
\* never replaces what a call that ended before it began has published.
THEOREM SequentialFilesKept == Spec => []SequentialCallsKeepFiles
<1>1. Init => FilesKept
  BY DEF Init, FilesKept
<1>2. TypeOK /\ FilesKept => SequentialCallsKeepFiles
  <2> SUFFICES ASSUME TypeOK, FilesKept, NEW p \in before, {p[1], p[2]} \subseteq published
               PROVE  Cell(p[1]) # Cell(p[2])
    BY DEF SequentialCallsKeepFiles, Cell
  <2>1. p[1] \in Calls /\ p[2] \in Calls /\ p = <<p[1], p[2]>>
    BY DEF TypeOK
  <2> QED BY <2>1 DEF FilesKept
<1> QED BY TypeInit, TypeNext, <1>1, <1>2, FilesNext, PTL DEF Spec

-----------------------------------------------------------------------------
(* The workspace directory *)

\* A call that will remove the stage of its run.
Sweeps(d) ==
    \/ pc[d] \in Working \cup {"register", "remove"}
    \/ pc[d] = "clear" /\ d \in sandboxed /\ outcome[d] # "pending"

\* Somebody is going to look at the directory the stages lie in.
Visits(d) == pc[d] \in {"copy", "look", "list", "rmdir"}

\* A run that waits for a human, or a stage that could not be removed.
Accounted(s) == thread[s] = "review" \/ s \in unremoved

Owned ==
    \A c \in Calls :
        /\ pc[c] \in Working \cup {"register"} => c \in sandboxed
        /\ outcome[c] = "pending" => pc[c] \in {"clear", "done"}

Swept ==
    /\ stages # {} => parent
    /\ parent /\ stages = {} => \E d \in Calls : Visits(d)
    /\ \A s \in stages : Accounted(s) \/ \E d \in Calls : Run(d) = s /\ Sweeps(d)

LEMMA OwnedNext == TypeOK /\ Begun /\ Owned /\ [Next]_vars => Owned'
<1> SUFFICES ASSUME TypeOK, Begun, Owned, [Next]_vars PROVE Owned'
  OBVIOUS
<1>1. ASSUME NEW c \in Calls, Opening(c) PROVE Owned'
  BY <1>1 DEF Opening, Begin, MakeParent, Copy, CopyFails, Load, Register, Go, At, TypeOK,
     Working, Owned
<1>2. ASSUME NEW c \in Calls, GraphFrame(c) PROVE Owned'
  BY <1>2 DEF GraphFrame, TypeOK, Working, Owned
<1>3. ASSUME NEW c \in Calls, Closing(c) PROVE Owned'
  <2>1. sandboxed' = sandboxed
    BY <1>3, ClosingKeepsTypes DEF ClosingFrame
  <2>2. CASE Clear(c)
    BY <2>1, <2>2 DEF Clear, Go, At, TypeOK, Working, Owned
  <2>3. CASE RemoveStage(c) \/ LookForParent(c)
    BY <2>1, <2>3 DEF RemoveStage, LookForParent, Leave, Go, At, TypeOK, Working, Owned
  <2>4. CASE ListParent(c) \/ RemoveParent(c)
    BY <2>1, <2>4 DEF ListParent, RemoveParent, LeaveRaising, Leave, Go, At, TypeOK, Working, Owned
  <2> QED BY <1>3, <2>2, <2>3, <2>4 DEF Closing
<1>4. CASE UNCHANGED vars
  BY <1>4 DEF vars, Owned
<1> QED BY <1>1, <1>2, <1>3, <1>4, StepIsPhase, FrameOfGraph DEF Next

\* What a step of a call may do to the directory, to its own part in it, and
\* to the other calls.
SweptFrame(c) ==
    /\ request' = request
    /\ \A d \in Calls \ {c} : /\ pc'[d] = pc[d] /\ outcome'[d] = outcome[d]
                              /\ d \in sandboxed' <=> d \in sandboxed
    /\ \A s \in Calls \ {Run(c)} : Accounted(s) => Accounted(s)'
    /\ stages' # {} => parent'
    /\ parent' /\ stages' = {} => Visits(c)' \/ (parent /\ stages = {} /\ ~Visits(c))
    /\ stages' \subseteq stages \cup {Run(c)}
    /\ \A s \in stages' : s = Run(c) =>
          \/ Sweeps(c)'
          \/ Accounted(s)'
          \/ s \in stages /\ ~Sweeps(c) /\ (Accounted(s) => Accounted(s)')

LEMMA FrameKeepsSwept ==
    ASSUME TypeOK, Swept, NEW c \in Calls, SweptFrame(c)
    PROVE  Swept'
<1>0. /\ \A d \in Calls : Run(d)' = Run(d) /\ Run(d) \in Calls
      /\ \A d \in Calls \ {c} : Visits(d)' = Visits(d) /\ Sweeps(d)' = Sweeps(d)
  BY RunIsCall DEF SweptFrame, Run, Resuming, Visits, Sweeps
<1>1. parent' /\ stages' = {} => \E d \in Calls : Visits(d)'
  <2>1. CASE Visits(c)'
    BY <2>1
  <2>2. CASE parent /\ stages = {} /\ ~Visits(c)
    <3>1. PICK d \in Calls : Visits(d)
      BY <2>2 DEF Swept
    <3> QED BY <1>0, <2>2, <3>1
  <2> QED BY <2>1, <2>2 DEF SweptFrame
<1>2. ASSUME NEW s \in stages'
      PROVE  Accounted(s)' \/ \E d \in Calls : Run(d)' = s /\ Sweeps(d)'
  <2>0. s \in Calls /\ (s \in stages \/ s = Run(c))
    BY <1>0 DEF SweptFrame, TypeOK
  <2>1. CASE Run(c) = s /\ (Sweeps(c)' \/ Accounted(s)')
    BY <1>0, <2>1
  <2>2. ASSUME s \in stages, Accounted(s) => Accounted(s)', Run(c) # s \/ ~Sweeps(c)
        PROVE  Accounted(s)' \/ \E d \in Calls : Run(d)' = s /\ Sweeps(d)'
    <3>1. CASE Accounted(s)
      BY <2>2, <3>1
    <3>2. CASE \E d \in Calls : Run(d) = s /\ Sweeps(d)
      <4>1. PICK d \in Calls : Run(d) = s /\ Sweeps(d)
        BY <3>2
      <4>2. d # c
        BY <2>2, <4>1
      <4> QED BY <1>0, <4>1, <4>2
    <3> QED BY <2>2, <3>1, <3>2 DEF Swept
  <2>3. CASE Run(c) # s
    <3>1. s \in stages /\ (Accounted(s) => Accounted(s)')
      BY <2>0, <2>3 DEF SweptFrame
    <3> QED BY <2>2, <2>3, <3>1
  <2>4. CASE Run(c) = s
    BY <2>1, <2>2, <2>4 DEF SweptFrame
  <2> QED BY <2>3, <2>4
<1>3. stages' # {} => parent'
  BY DEF SweptFrame
<1> QED BY <1>1, <1>2, <1>3 DEF Swept

LEMMA SweptNext == TypeOK /\ Begun /\ Owned /\ Swept /\ [Next]_vars => Swept'
<1> SUFFICES ASSUME TypeOK, Begun, Owned, Swept, [Next]_vars PROVE Swept'
  OBVIOUS
<1>s. stages # {} => parent
  BY DEF Swept
<1>1. ASSUME NEW c \in Calls, Opening(c) PROVE SweptFrame(c)
  <2> USE <1>s DEF SweptFrame, Visits, Sweeps, Accounted, Go, At, directories, history, Working, TypeOK, Owned
  <2>1. CASE Begin(c)
    BY <2>1 DEF Begin
  <2>2. CASE MakeParent(c)
    BY <2>2 DEF MakeParent
  <2>3. CASE Copy(c)
    BY <2>3 DEF Copy, Begun, Run
  <2>4. CASE CopyFails(c)
    <3>1. pc'[c] = "look" /\ pc[c] = "copy" /\ Run(c) = c
      BY <2>4 DEF CopyFails, Begun, Run
    <3>2. /\ request' = request /\ sandboxed' = sandboxed /\ thread' = thread
          /\ \A d \in Calls \ {c} : pc'[d] = pc[d] /\ outcome'[d] = outcome[d]
      BY <2>4 DEF CopyFails
    <3>3. CASE UNCHANGED <<directories, unremoved>>
      BY <3>1, <3>2, <3>3
    <3>4. CASE parent' = TRUE /\ stages' = stages \cup {c} /\ unremoved' = unremoved \cup {c}
      BY <3>1, <3>2, <3>4
    <3> QED BY <2>4, <3>3, <3>4 DEF CopyFails
  <2>5. CASE Load(c)
    BY <2>5 DEF Load
  <2>6. CASE Register(c)
    BY <2>6 DEF Register
  <2> QED BY <1>1, <2>1, <2>2, <2>3, <2>4, <2>5, <2>6 DEF Opening
<1>2. ASSUME NEW c \in Calls, GraphFrame(c) PROVE SweptFrame(c)
  <2>0. Run(c) \in Calls /\ (pc[c] = "review" => Run(c) = c)
    BY RunIsCall DEF Begun, Run
  <2>1. PICK o \in {"none", "ended", "pending", "raised"} :
          /\ outcome' \in {outcome, [outcome EXCEPT ![c] = o]}
          /\ o = "pending" => pc[c] = "review" /\ pc'[c] = "clear" /\ thread'[c] = "review"
    BY <1>2 DEF GraphFrame
  <2>2. PICK label \in (Working \ {"review", "invoke"}) \cup {"clear"} :
          pc' = [pc EXCEPT ![c] = label]
    BY <1>2 DEF GraphFrame
  <2>3. /\ request' = request /\ sandboxed' = sandboxed /\ pc[c] \in Working
        /\ <<parent', stages'>> \in {<<parent, stages>>, <<TRUE, stages \cup {Run(c)}>>}
        /\ c \in sandboxed /\ outcome[c] # "pending"
    BY <1>2 DEF GraphFrame, Owned, Working
  <2>4. pc'[c] = label /\ \A d \in Calls \ {c} : pc'[d] = pc[d] /\ outcome'[d] = outcome[d]
    BY <2>1, <2>2 DEF TypeOK
  <2>5. outcome'[c] = "pending" => Run(c) = c /\ thread'[c] = "review"
    BY <2>0, <2>1, <2>3 DEF TypeOK
  <2>6. \A s \in stages' : s = Run(c) => Sweeps(c)' \/ Accounted(s)'
    <3>1. CASE outcome'[c] = "pending"
      BY <2>5, <3>1 DEF Accounted
    <3>2. CASE outcome'[c] # "pending"
      BY <2>2, <2>3, <2>4, <3>2 DEF Sweeps, Working
    <3> QED BY <3>1, <3>2
  <2>9. \A s \in Calls \ {Run(c)} : Accounted(s) => Accounted(s)'
    BY <1>2 DEF GraphFrame, Accounted
  <2>7. ~Visits(c)
    BY <2>3 DEF Visits, Working
  <2>8. /\ stages' # {} => parent'
        /\ stages' \subseteq stages \cup {Run(c)}
        /\ parent' /\ stages' = {} => parent /\ stages = {}
    <3>1. \/ parent' = parent /\ stages' = stages
          \/ parent' = TRUE /\ stages' = stages \cup {Run(c)}
      BY <2>3
    <3> QED BY <1>s, <3>1
  <2> QED
    BY <2>3, <2>4, <2>6, <2>7, <2>8, <2>9 DEF SweptFrame
<1>3. ASSUME NEW c \in Calls, Closing(c) PROVE SweptFrame(c)
  <2>0. ClosingFrame(c)
    BY <1>3, ClosingKeepsTypes
  <2>a. /\ request' = request /\ sandboxed' = sandboxed /\ thread' = thread
        /\ \A d \in Calls \ {c} : pc'[d] = pc[d] /\ outcome'[d] = outcome[d]
    BY <2>0 DEF ClosingFrame, TypeOK
  <2>b. pc[c] # "clear" => outcome[c] # "pending"
    BY <2>0 DEF ClosingFrame, Owned
  <2>c. Run(c)' = Run(c) /\ Run(c) \in Calls
    BY <2>a, RunIsCall DEF Run, Resuming
  <2> USE <1>s, <2>a, <2>b, <2>c DEF SweptFrame, Go, At, directories, history, Accounted
  <2>1. CASE Clear(c)
    BY <2>1 DEF Clear, Visits, Sweeps, Working, TypeOK, Owned
  <2>2. CASE RemoveStage(c)
    <3>1. /\ pc[c] = "remove" /\ pc'[c] = "look" /\ parent' = parent /\ outcome' = outcome
      BY <2>2 DEF RemoveStage, TypeOK
    <3>2. Visits(c)'
      BY <3>1 DEF Visits
    <3>3. CASE stages' = stages \ {Run(c)} /\ unremoved' = unremoved \ {Run(c)}
      BY <3>1, <3>2, <3>3
    <3>4. CASE stages' = stages /\ unremoved' = unremoved \cup (stages \cap {Run(c)})
      BY <3>1, <3>2, <3>4
    <3> QED BY <2>2, <3>3, <3>4 DEF RemoveStage, Removed
  <2>3. CASE LookForParent(c) \/ ListParent(c) \/ RemoveParent(c)
    <3>1. pc[c] \in {"look", "list", "rmdir"}
      BY <2>3 DEF LookForParent, ListParent, RemoveParent
    <3>2. ~Sweeps(c)
      BY <3>1 DEF Sweeps, Working
    <3>3. stages' = stages /\ unremoved' = unremoved /\ (stages' # {} => parent')
      BY <2>3 DEF LookForParent, ListParent, RemoveParent
    <3>4. parent' /\ stages' = {} => pc'[c] \in {"list", "rmdir"}
      BY <2>3 DEF LookForParent, ListParent, RemoveParent, LeaveRaising, Leave, TypeOK
    <3>5. parent' /\ stages' = {} => Visits(c)'
      BY <3>4 DEF Visits
    <3> QED BY <3>1, <3>2, <3>3, <3>5
  <2> QED BY <1>3, <2>1, <2>2, <2>3 DEF Closing
<1>4. CASE UNCHANGED vars
  BY <1>4 DEF vars, directories, history, Swept, Visits, Sweeps, Accounted, Run, Resuming
<1> QED BY <1>1, <1>2, <1>3, <1>4, FrameKeepsSwept, StepIsPhase, FrameOfGraph DEF Next

\* When the calls have ended, what is left are stages of runs that still wait for
\* a human and those that could not be removed, and the directory exactly if there
\* is one, whatever calls clean up at the same time (sandbox.py, create, remove and
\* _remove_empty_parent; the finally blocks of graph.py).
THEOREM QuietIsClean == Spec => []CleanWhenQuiet
<1>1. Init => Owned /\ Swept
  BY DEF Init, Owned, Swept, Working
<1>2. Swept => CleanWhenQuiet
  BY DEF Swept, CleanWhenQuiet, Accounted, Visits, Sweeps, Working
<1> QED BY TypeInit, TypeNext, <1>1, <1>2, OwnedNext, SweptNext, PTL DEF Spec
=============================================================================
