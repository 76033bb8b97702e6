----------------------- MODULE CampaignPipelineProofs -----------------------
(***************************************************************************)
(* Proofs about CampaignPipeline, for any number of requests, users, plans *)
(* and calendar slots, and any retry budget.                               *)
(***************************************************************************)
EXTENDS CampaignPipeline, TLAPS

(* The post maps the copies are made of have their type.                     *)
LEMMA NoPostsType == NoPosts \in [Posts -> Row]
BY DEF NoPosts, Row, NoRow, PostStatus

LEMMA PlanPostsType ==
    ASSUME NEW k \in Plans, TypeOK
    PROVE  PlanPosts(k) \in [Posts -> Row]
BY DEF PlanPosts, PlanRow, Row, NoRow, PostStatus

LEMMA AfterRevokeType ==
    ASSUME NEW posts \in [Posts -> Row]
    PROVE  AfterRevoke(posts) \in [Posts -> Row]
BY DEF AfterRevoke, Row, PostStatus

LEMMA NoJobType == NoJob \in Job
BY NoPostsType DEF NoJob, Job

LEMMA InitType == Init => TypeOK
<1> SUFFICES ASSUME Init PROVE TypeOK
  OBVIOUS
<1> USE ConstantsOK
<1>1. NoJob \in Job /\ NoPosts \in [Posts -> Row]
  BY NoJobType, NoPostsType
<1>2. tries \in [RunTasks \cup Plans -> 0..MaxRetries]
  BY DEF Init
<1>3. QED
  BY <1>1, <1>2 DEF Init, TypeOK, PC, CampaignStatus

(* Closing a request keeps the types of what it closes.                      *)
LEMMA CloseType ==
    ASSUME TypeOK, NEW r \in Requests, NEW q \in PC, Close(r, q)
    PROVE  /\ pc' \in [Requests -> PC]
           /\ caller' \in [Requests -> Users]
           /\ seenCampaign' \in [Requests -> CampaignStatus \cup {"absent"}]
           /\ seenJob' \in [Requests -> Job]
           /\ work' \in [Requests -> [Posts -> Row]]
           /\ todo' \in [Requests -> SUBSET Posts]
           /\ target' \in [Requests -> CampaignStatus]
BY NoJobType, NoPostsType DEF TypeOK, Close, CampaignStatus

LEMMA GenerationType ==
    ASSUME TypeOK,
           \/ Create \/ (\E t \in HeaderTasks : HeaderStep(t)) \/ BuildStep
           \/ \E k \in Plans : StageStep(k) \/ Redelivery(k)
    PROVE  TypeOK'
<1> USE ConstantsOK DEF rows, pipeline, broker, requests
<1>1. CASE CreateDispatch
  BY <1>1 DEF CreateDispatch, TypeOK
<1>2. CASE CreateCommit
  <2>1. [agent |-> "pending_validation", status |-> "pending",
         posts |-> NoPosts] \in Job
    BY NoPostsType DEF Job
  <2>2. QED
    BY <1>2, <2>1 DEF CreateCommit, TypeOK, CampaignStatus
<1>3. CASE CreateRollback
  BY <1>3 DEF CreateRollback, TypeOK
<1>4. ASSUME NEW t \in RunTasks, TaskRetry(t) PROVE TypeOK'
  <2>1. tries[t] + 1 \in 0..MaxRetries
    BY <1>4 DEF TaskRetry, MayRetry, TypeOK
  <2>2. QED
    BY <1>4, <2>1 DEF TaskRetry, TypeOK
<1>5. ASSUME NEW t \in RunTasks, TaskFail(t) PROVE TypeOK'
  BY <1>5 DEF TaskFail, TypeOK
<1>6. ASSUME NEW t \in HeaderTasks, HeaderRun(t) PROVE TypeOK'
  BY <1>6 DEF HeaderRun, TypeOK
<1>7. ASSUME NEW k \in Plans, BuildLaunch(k) \/ BuildLaunchLost(k)
      PROVE  TypeOK'
  BY <1>7 DEF BuildLaunch, BuildLaunchLost, TypeOK, Stages
<1>8. ASSUME NEW k \in Plans, StageRun(k) PROVE TypeOK'
  BY <1>8 DEF StageRun, TypeOK, Stages, NextStage
<1>9. ASSUME NEW k \in Plans, StageRetry(k) PROVE TypeOK'
  <2>1. tries[k] + 1 \in 0..MaxRetries
    BY <1>9 DEF StageRetry, MayRetry, TypeOK
  <2>2. QED
    BY <1>9, <2>1 DEF StageRetry, TypeOK
<1>10. ASSUME NEW k \in Plans, StageFail(k) PROVE TypeOK'
  BY <1>10 DEF StageFail, TypeOK
<1>11. ASSUME NEW k \in Plans, Assemble(k) \/ AssembleLost(k) PROVE TypeOK'
  <2>1. job' \in Job
    BY <1>11, PlanPostsType, NoJobType
    DEF Assemble, AssembleLost, StorePlan, Job
  <2>2. QED
    BY <1>11, <2>1 DEF Assemble, AssembleLost, TypeOK
<1>12. HeaderTasks \subseteq RunTasks /\ "build_campaign_plan" \in RunTasks
  BY DEF RunTasks
<1>13. QED
  BY <1>1, <1>2, <1>3, <1>4, <1>5, <1>6, <1>7, <1>8, <1>9, <1>10, <1>11, <1>12
  DEF Create, HeaderStep, BuildStep, StageStep, Redelivery

(* Every way a request ends.                                                 *)
Ends(r) == \/ ApproveRefused(r) \/ TypeError(r) \/ ApproveCommit(r)
           \/ ApproveAbort(r) \/ CancelRefused(r) \/ CancelCommit(r)
           \/ CancelAbort(r) \/ CampaignCommit(r) \/ CampaignAbort(r)
           \/ \E u \in Users : RequestRefused(r, u)

LEMMA EndsCloses ==
    ASSUME NEW r \in Requests, Ends(r)
    PROVE  /\ \E q \in PC : Close(r, q)
           /\ UNCHANGED <<pipeline, broker>>
BY DEF Ends, ApproveRefused, TypeError, ApproveCommit, ApproveAbort,
       CancelRefused, CancelCommit, CancelAbort, CampaignCommit, CampaignAbort,
       RequestRefused, PC

LEMMA EndsRowsType ==
    ASSUME TypeOK, NEW r \in Requests, Ends(r)
    PROVE  campaign' \in CampaignStatus \cup {"absent", "deleted"} /\ job' \in Job
<1>1. CASE ApproveCommit(r)
  BY <1>1 DEF ApproveCommit, TypeOK, Job, CampaignStatus
<1>2. CASE CancelCommit(r)
  BY <1>2 DEF CancelCommit, TypeOK, Job, CampaignStatus
<1>3. CASE CampaignCommit(r)
  BY <1>3 DEF CampaignCommit, TypeOK, CampaignStatus
<1>4. CASE UNCHANGED rows
  BY <1>4 DEF rows, TypeOK
<1>5. QED
  BY <1>1, <1>2, <1>3, <1>4
  DEF Ends, ApproveRefused, TypeError, ApproveAbort, CancelRefused,
      CancelAbort, CampaignAbort, RequestRefused

LEMMA RequestType ==
    ASSUME TypeOK, NEW r \in Requests, RequestStep(r)
    PROVE  TypeOK'
<1> USE DEF rows, pipeline, broker, requests
<1>1. AgentJob \in Job
  BY NoJobType DEF AgentJob, TypeOK
<1>2. CASE Ends(r)
  BY <1>2, CloseType, EndsCloses, EndsRowsType DEF TypeOK
<1>3. ASSUME NEW u \in Users, ApproveRead(r, u) \/ LaunchRead(r, u)
      PROVE  TypeOK'
  BY <1>3 DEF ApproveRead, LaunchRead, TypeOK, PC, CampaignExists, Launchable,
              CampaignStatus
<1>4. ASSUME NEW u \in Users, NEW s \in CampaignStatus, UpdateRead(r, u, s)
      PROVE  TypeOK'
  BY <1>4 DEF UpdateRead, TypeOK, PC, CampaignExists
<1>5. ASSUME NEW u \in Users, CancelRead(r, u) PROVE TypeOK'
  BY <1>1, <1>5 DEF CancelRead, TypeOK, PC
<1>6. ASSUME NEW u \in Users, Delete(r, u) PROVE TypeOK'
  BY <1>6 DEF Delete, TypeOK, PC
<1>7. CASE ApproveGate(r)
  <2>1. AgentJob.posts \in [Posts -> Row] /\ ToSchedule(AgentJob.posts) \subseteq Posts
    BY <1>1 DEF Job, ToSchedule
  <2>2. QED
    BY <1>1, <1>7, <2>1 DEF ApproveGate, TypeOK, PC
<1>8. ASSUME NEW p \in Posts, ApproveSend(r, p) PROVE TypeOK'
  <2>1. ScheduledRow(r) \in Row
    BY DEF ScheduledRow, Row, PostStatus
  <2>2. work' \in [Requests -> [Posts -> Row]]
    BY <1>8, <2>1 DEF ApproveSend, TypeOK
  <2>3. sent' \subseteq Tasks
    BY <1>8 DEF ApproveSend, SendTask, Tasks, TypeOK
  <2>4. todo' \in [Requests -> SUBSET Posts]
    BY <1>8 DEF ApproveSend, TypeOK
  <2>5. QED
    BY <1>8, <2>2, <2>3, <2>4 DEF ApproveSend, TypeOK
<1>9. CASE CancelLoad(r)
  BY <1>9 DEF CancelLoad, TypeOK, PC, CampaignExists
<1>10. CASE CancelRevoke(r)
  <2>1. seenJob[r].posts \in [Posts -> Row]
    BY DEF TypeOK, Job
  <2>2. {<<seenJob[r].posts[p].by, p>> : p \in Revocable(seenJob[r].posts)}
          \subseteq Tasks
    BY <2>1 DEF Revocable, Tasks, Row
  <2>3. work' \in [Requests -> [Posts -> Row]]
    BY <1>10, <2>1, AfterRevokeType DEF CancelRevoke, TypeOK
  <2>4. QED
    BY <1>10, <2>2, <2>3 DEF CancelRevoke, TypeOK, PC
<1>11. QED
  BY <1>2, <1>3, <1>4, <1>5, <1>6, <1>7, <1>8, <1>9, <1>10
  DEF RequestStep, Arrive, ApproveStep, CancelStep, Ends

LEMMA TypeInductive == TypeOK /\ [Next]_vars => TypeOK'
<1> SUFFICES ASSUME TypeOK, [Next]_vars PROVE TypeOK'
  OBVIOUS
<1>1. CASE UNCHANGED vars
  BY <1>1 DEF vars, TypeOK
<1>2. ASSUME NEW p \in Posts, EtaNears(p) PROVE TypeOK'
  BY <1>2 DEF EtaNears, TypeOK, rows, pipeline, requests
<1>3. QED
  BY <1>1, <1>2, GenerationType, RequestType DEF Next

(* Type correctness of the campaign agent.                                   *)
THEOREM TypeCorrect == Spec => []TypeOK
BY InitType, TypeInductive, PTL DEF Spec

-----------------------------------------------------------------------------
(* Copies of the posts stay sound while tasks are only added.                *)
LEMMA NoPostsSound ==
    ASSUME NEW T, NEW s PROVE Sound(NoPosts, T, s) /\ NoJob.posts = NoPosts
BY DEF Sound, NoPosts, NoRow, NoJob

LEMMA PlanPostsSound ==
    ASSUME NEW k \in Plans, NEW T, NEW s PROVE Sound(PlanPosts(k), T, s)
BY DEF Sound, PlanPosts, PlanRow, NoRow

LEMMA SoundMono ==
    ASSUME NEW posts, NEW T, NEW U, NEW s, T \subseteq U, Sound(posts, T, s)
    PROVE  Sound(posts, U, s)
BY DEF Sound

LEMMA AfterRevokeSound ==
    ASSUME NEW posts \in [Posts -> Row], NEW T, NEW s, Sound(posts, T, s),
           s = "worker" => posts = NoPosts
    PROVE  Sound(AfterRevoke(posts), T, s)
BY DEF Sound, AfterRevoke, Revocable, Row, NoPosts, NoRow

LEMMA ScheduleSound ==
    ASSUME NEW posts \in [Posts -> Row], NEW T, NEW s, Sound(posts, T, s),
           NEW r \in Requests, NEW p \in Posts, s # "worker"
    PROVE  Sound([posts EXCEPT ![p] = ScheduledRow(r)], T \cup {<<r, p>>}, s)
BY DEF Sound, ScheduledRow, Row

LEMMA InitGate == Init => GateInv
BY NoPostsSound DEF Init, GateInv, CopiesSound, TasksGated, OwnerOnly,
                    WorkerShapeIdle, Sending

(* Steps of generation write the job's posts and nothing a request holds.    *)
LEMMA GenerationGate ==
    ASSUME GateInv, TypeOK, UNCHANGED <<rowShape, broker, requests>>,
           job' = job \/ job'.posts = NoPosts
             \/ \E k \in Plans : job'.posts = PlanPosts(k)
    PROVE  GateInv'
<1>1. Sound(job'.posts, sent, rowShape)
  BY NoPostsSound, PlanPostsSound DEF GateInv, CopiesSound
<1>2. QED
  BY <1>1 DEF GateInv, CopiesSound, TasksGated, WorkerShapeIdle, broker, requests

(* A request that ends writes back a copy it holds, or nothing, and ends     *)
(* outside the sending loop only if it was outside before.                   *)
LEMMA EndsGate ==
    ASSUME GateInv, TypeOK, NEW r \in Requests, Ends(r)
    PROVE  GateInv'
<1>1. PICK q \in PC : Close(r, q)
  BY EndsCloses
<1>2. UNCHANGED <<rowShape, near, sent, revoked>>
  BY EndsCloses DEF pipeline, broker
<1>3. job'.posts \in {job.posts, work[r]}
  BY DEF Ends, ApproveRefused, TypeError, ApproveCommit, ApproveAbort,
         CancelRefused, CancelCommit, CancelAbort, CampaignCommit,
         CampaignAbort, RequestRefused, rows, TypeOK, Job
<1>4. pc[r] \in Sending => q \in Sending
  BY <1>1 DEF Ends, Close, ApproveRefused, TypeError, ApproveCommit,
         ApproveAbort, CancelRefused, CancelCommit, CancelAbort,
         CampaignCommit, CampaignAbort, RequestRefused, Sending, TypeOK
<1>5. q \in Sending => pc[r] \in Sending
  BY <1>1 DEF Ends, Close, ApproveRefused, TypeError, ApproveCommit,
         ApproveAbort, CancelRefused, CancelCommit, CancelAbort,
         CampaignCommit, CampaignAbort, RequestRefused, Sending, TypeOK
<1>6. q \notin OwnerOnly \ Sending
  BY <1>1 DEF Ends, Close, ApproveRefused, TypeError, ApproveCommit,
         ApproveAbort, CancelRefused, CancelCommit, CancelAbort,
         CampaignCommit, CampaignAbort, RequestRefused, OwnerOnly, TypeOK
<1>7. CopiesSound'
  BY <1>1, <1>2, <1>3, NoPostsSound DEF GateInv, CopiesSound, Close, TypeOK
<1>8. TasksGated'
  BY <1>1, <1>2, <1>4, <1>5, <1>6 DEF GateInv, TasksGated, OwnerOnly, Close, TypeOK
<1>9. WorkerShapeIdle'
  BY <1>1, <1>2 DEF GateInv, WorkerShapeIdle, Close, TypeOK
<1>10. QED
  BY <1>7, <1>8, <1>9 DEF GateInv

(* The first read of a request: it holds at most the job's posts.            *)
LEMMA ArriveGate ==
    ASSUME GateInv, TypeOK, NEW r \in Requests, NEW u \in Users,
           \/ ApproveRead(r, u) \/ CancelRead(r, u) \/ LaunchRead(r, u)
           \/ \E s \in CampaignStatus : UpdateRead(r, u, s)
           \/ Delete(r, u)
    PROVE  GateInv'
<1> USE DEF ApproveRead, CancelRead, LaunchRead, UpdateRead, Delete
<1>1. /\ pc[r] = "idle" /\ pc' = [pc EXCEPT ![r] = pc'[r]]
      /\ pc'[r] \notin Sending
      /\ caller' = [caller EXCEPT ![r] = u]
      /\ pc'[r] \in OwnerOnly => u = Owner
  BY DEF TypeOK, Sending, OwnerOnly, IsOwner
<1>2. UNCHANGED <<job, rowShape, near, sent, revoked, work, todo>>
  BY DEF rows, pipeline, broker
<1>3. AgentJob \in {job, NoJob}
  BY DEF AgentJob
<1>4. seenJob' = seenJob \/ seenJob' = [seenJob EXCEPT ![r] = AgentJob]
  OBVIOUS
<1>5. CopiesSound'
  <2>1. Sound(AgentJob.posts, sent, rowShape)
    BY <1>3, NoPostsSound DEF GateInv, CopiesSound
  <2>2. \A q \in Requests : Sound(seenJob'[q].posts, sent, rowShape)
    BY <1>4, <2>1 DEF GateInv, CopiesSound, TypeOK
  <2>3. QED
    BY <1>2, <2>2 DEF GateInv, CopiesSound
<1>6. TasksGated'
  BY <1>1, <1>2 DEF GateInv, TasksGated, OwnerOnly, TypeOK, Sending
<1>7. WorkerShapeIdle'
  BY <1>2 DEF GateInv, WorkerShapeIdle
<1>8. QED
  BY <1>5, <1>6, <1>7 DEF GateInv

LEMMA ApproveGateGate ==
    ASSUME GateInv, TypeOK, NEW r \in Requests, ApproveGate(r)
    PROVE  GateInv'
<1> USE DEF ApproveGate, rows, pipeline, broker
<1>1. AgentJob \in {job, NoJob}
  BY DEF AgentJob
<1>2. CopiesSound'
  BY <1>1, NoPostsSound DEF GateInv, CopiesSound, TypeOK
<1>3. TasksGated'
  BY DEF GateInv, TasksGated, OwnerOnly, TypeOK, Sending
<1>4. rowShape = "worker" => ToSchedule(AgentJob.posts) = {}
  BY DEF Deserialisable, ToSchedule, NoPosts, NoRow
<1>5. WorkerShapeIdle'
  BY <1>4 DEF GateInv, WorkerShapeIdle, TypeOK
<1>6. QED
  BY <1>2, <1>3, <1>5 DEF GateInv

LEMMA ApproveSendGate ==
    ASSUME GateInv, TypeOK, NEW r \in Requests, NEW p \in Posts,
           ApproveSend(r, p)
    PROVE  GateInv'
<1> USE DEF ApproveSend, SendTask, rows, pipeline
<1>1. rowShape # "worker" /\ pc[r] \in Sending
  BY DEF GateInv, WorkerShapeIdle, Sending
<1>2. Sound(work'[r], sent', rowShape)
  BY <1>1, ScheduleSound DEF GateInv, CopiesSound, TypeOK
<1>3. CopiesSound'
  BY <1>2, SoundMono DEF GateInv, CopiesSound, TypeOK
<1>4. TasksGated'
  BY <1>1 DEF GateInv, TasksGated, OwnerOnly, TypeOK
<1>5. WorkerShapeIdle'
  BY <1>1 DEF GateInv, WorkerShapeIdle
<1>6. QED
  BY <1>3, <1>4, <1>5 DEF GateInv

LEMMA CancelGate ==
    ASSUME GateInv, TypeOK, NEW r \in Requests, CancelLoad(r) \/ CancelRevoke(r)
    PROVE  GateInv'
<1> USE DEF rows, pipeline, broker
<1>1. CASE CancelLoad(r)
  BY <1>1, NoPostsSound
  DEF CancelLoad, IsOwner, GateInv, CopiesSound, TasksGated, OwnerOnly,
      WorkerShapeIdle, TypeOK, Sending
<1>2. CASE CancelRevoke(r)
  <2> USE <1>2 DEF CancelRevoke
  <2>1. seenJob[r].posts \in [Posts -> Row]
    BY DEF TypeOK, Job
  <2>2. Sound(AfterRevoke(seenJob[r].posts), sent, rowShape)
    BY <2>1, AfterRevokeSound DEF GateInv, CopiesSound, Deserialisable
  <2>3. CopiesSound'
    BY <2>2 DEF GateInv, CopiesSound, TypeOK
  <2>4. {<<seenJob[r].posts[p].by, p>> : p \in Revocable(seenJob[r].posts)}
          \subseteq sent
    BY DEF GateInv, CopiesSound, Sound, Revocable
  <2>5. TasksGated'
    BY <2>4 DEF GateInv, TasksGated, OwnerOnly, TypeOK, Sending
  <2>6. WorkerShapeIdle'
    BY DEF GateInv, WorkerShapeIdle
  <2>7. QED
    BY <2>3, <2>5, <2>6 DEF GateInv
<1>3. QED
  BY <1>1, <1>2

LEMMA GateInductive == TypeOK /\ GateInv /\ [Next]_vars => GateInv'
<1> SUFFICES ASSUME TypeOK, GateInv, [Next]_vars PROVE GateInv'
  OBVIOUS
<1>1. CASE UNCHANGED vars
  BY <1>1 DEF vars, GateInv, CopiesSound, TasksGated, WorkerShapeIdle
<1>2. CASE Create
  BY <1>2, GenerationGate
  DEF Create, CreateDispatch, CreateCommit, CreateRollback, rows
<1>3. ASSUME NEW t \in HeaderTasks, HeaderStep(t) PROVE GateInv'
  BY <1>3, GenerationGate DEF HeaderStep, HeaderRun, TaskRetry, TaskFail, rows
<1>4. CASE BuildStep
  BY <1>4, GenerationGate DEF BuildStep, BuildLaunch, TaskRetry, TaskFail, rows
<1>5. ASSUME NEW k \in Plans, StageStep(k) \/ Redelivery(k) PROVE GateInv'
  <2>1. CASE Assemble(k) \/ AssembleLost(k)
    BY <2>1, GenerationGate DEF Assemble, AssembleLost, StorePlan, NoJob
  <2>2. CASE StageRun(k) \/ StageRetry(k) \/ StageFail(k) \/ BuildLaunchLost(k)
    BY <2>2, GenerationGate
    DEF StageRun, StageRetry, StageFail, BuildLaunchLost, rows
  <2>3. QED
    BY <1>5, <2>1, <2>2 DEF StageStep, Redelivery
<1>6. ASSUME NEW p \in Posts, EtaNears(p) PROVE GateInv'
  BY <1>6 DEF EtaNears, rows, pipeline, requests, GateInv, CopiesSound,
              TasksGated, WorkerShapeIdle
<1>7. ASSUME NEW r \in Requests, RequestStep(r) PROVE GateInv'
  BY <1>7, EndsGate, ArriveGate, ApproveGateGate, ApproveSendGate, CancelGate
  DEF RequestStep, Arrive, ApproveStep, CancelStep, Ends
<1>8. QED
  BY <1>1, <1>2, <1>3, <1>4, <1>5, <1>6, <1>7 DEF Next

LEMMA GateInvariant == Spec => [](TypeOK /\ GateInv)
BY InitType, InitGate, TypeInductive, GateInductive, PTL DEF Spec

(* For every instance: publish tasks only from the owner's gated requests.   *)
THEOREM GateSafety == Spec => []OnlyOwnerSchedules
<1>1. TypeOK /\ GateInv => OnlyOwnerSchedules
  BY DEF TypeOK, GateInv, TasksGated, OwnerOnly, OnlyOwnerSchedules, Tasks
<1>2. QED
  BY <1>1, GateInvariant, PTL

(* For every instance: a stored publish task was given to the broker.        *)
THEOREM ScheduledSafety == Spec => []ScheduledHasTask
<1>1. GateInv => ScheduledHasTask
  BY DEF GateInv, CopiesSound, Sound, ScheduledHasTask
<1>2. QED
  BY <1>1, GateInvariant, PTL

(* For every instance: no stored post ever has the status the publish task   *)
(* wants.                                                                    *)
THEOREM PublishGuardNeverPasses == Spec => []NeverApprovedRow
<1>1. GateInv => NeverApprovedRow
  BY DEF GateInv, CopiesSound, Sound, NeverApprovedRow
<1>2. QED
  BY <1>1, GateInvariant, PTL

(* For every instance: rows of the worker's shape are never scheduled.       *)
THEOREM WorkerRowsNeverScheduled == Spec => []DeployedNothingScheduled
<1>1. GateInv => DeployedNothingScheduled
  BY DEF GateInv, CopiesSound, Sound, WorkerShapeIdle, DeployedNothingScheduled
<1>2. QED
  BY <1>1, GateInvariant, PTL

-----------------------------------------------------------------------------
(* The campaign agent implements HumanGate.                                  *)
LEMMA InitRefines == Init => Gate!Init
BY ConstantsOK DEF Init, Gate!Init, Sending, NoJob

LEMMA StepRefines ==
    TypeOK /\ GateInv /\ [Next]_vars => [Gate!Next]_Gate!vars
<1> SUFFICES ASSUME TypeOK, GateInv, [Next]_vars PROVE [Gate!Next]_Gate!vars
  OBVIOUS
<1> DEFINE Opened == {r \in Requests : pc[r] \in Sending}
<1> DEFINE Idle == Opened' = Opened /\ caller' = caller /\ sent' = sent
<1>1. ASSUME Idle, job'.agent = job.agent PROVE UNCHANGED Gate!vars
  BY <1>1 DEF Gate!vars
<1>2. ASSUME Idle, job'.agent = "pending_validation" PROVE Gate!Next
  BY <1>2 DEF Gate!Next, Gate!Offer
<1>3. CASE UNCHANGED vars
  BY <1>1, <1>3 DEF vars
<1>4. CASE \/ Create \/ (\E t \in HeaderTasks : HeaderStep(t)) \/ BuildStep
           \/ (\E k \in Plans : StageStep(k) \/ Redelivery(k))
           \/ (\E p \in Posts : EtaNears(p))
  <2>1. Idle
    BY <1>4 DEF Create, CreateDispatch, CreateCommit, CreateRollback,
      HeaderStep, HeaderRun, TaskRetry, TaskFail, BuildStep, BuildLaunch,
      StageStep, StageRun, Assemble, StageRetry, StageFail, Redelivery,
      BuildLaunchLost, AssembleLost, EtaNears, requests, broker
  <2>2. job'.agent \in {job.agent, "pending_validation"}
    BY <1>4 DEF Create, CreateDispatch, CreateCommit, CreateRollback,
      HeaderStep, HeaderRun, TaskRetry, TaskFail, BuildStep, BuildLaunch,
      StageStep, StageRun, Assemble, StageRetry, StageFail, Redelivery,
      BuildLaunchLost, AssembleLost, StorePlan, EtaNears, rows
  <2>3. QED
    BY <1>1, <1>2, <2>1, <2>2
<1>5. ASSUME NEW r \in Requests, Ends(r) PROVE [Gate!Next]_Gate!vars
  <2>1. PICK q \in PC : Close(r, q)
    BY <1>5, EndsCloses
  <2>2. q \in Sending <=> pc[r] \in Sending
    BY <1>5, <2>1 DEF Ends, Close, ApproveRefused, TypeError, ApproveCommit,
      ApproveAbort, CancelRefused, CancelCommit, CancelAbort, CampaignCommit,
      CampaignAbort, RequestRefused, Sending, TypeOK
  <2>3. Idle
    BY <1>5, <2>1, <2>2, EndsCloses DEF Close, broker, TypeOK
  <2>4. CASE ApproveCommit(r)
    <3>1. job'.agent = "approved" /\ r \in Opened
      BY <2>4 DEF ApproveCommit, Sending, TypeOK, Job
    <3>2. Gate!Approve(r)
      BY <2>3, <3>1 DEF Gate!Approve
    <3>3. QED
      BY <3>2 DEF Gate!Next
  <2>5. CASE CancelCommit(r)
    <3>1. job'.agent \in {job.agent, "cancelled"} /\ caller[r] = Owner
      BY <2>5 DEF CancelCommit, OwnerOnly, GateInv, TasksGated, TypeOK, Job
    <3>2. CASE job'.agent = "cancelled"
      BY <2>3, <3>1, <3>2 DEF Gate!Cancel, Gate!Next
    <3>3. QED
      BY <1>1, <2>3, <3>1, <3>2
  <2>6. CASE job' = job
    BY <1>1, <2>3, <2>6
  <2>7. QED
    BY <1>5, <2>4, <2>5, <2>6
    DEF Ends, ApproveRefused, TypeError, ApproveAbort, CancelRefused,
        CancelAbort, CampaignCommit, CampaignAbort, RequestRefused, rows
<1>6. ASSUME NEW r \in Requests, NEW u \in Users,
             \/ ApproveRead(r, u) \/ CancelRead(r, u) \/ LaunchRead(r, u)
             \/ (\E s \in CampaignStatus : UpdateRead(r, u, s))
             \/ Delete(r, u)
      PROVE  [Gate!Next]_Gate!vars
  <2> USE <1>6 DEF ApproveRead, CancelRead, LaunchRead, UpdateRead, Delete
  <2>1. r \notin Opened /\ Opened' = Opened
    BY DEF Sending, TypeOK
  <2>2. caller' = [caller EXCEPT ![r] = u] /\ sent' = sent /\ job' = job
    BY DEF broker, rows
  <2>3. Gate!Call(r, u)
    BY <2>1, <2>2 DEF Gate!Call
  <2>4. QED
    BY <2>3 DEF Gate!Next
<1>7. ASSUME NEW r \in Requests, ApproveGate(r) PROVE [Gate!Next]_Gate!vars
  <2> USE <1>7 DEF ApproveGate
  <2>1. r \notin Opened /\ Opened' = Opened \cup {r}
    BY DEF Sending, TypeOK
  <2>2. job.agent = "pending_validation" /\ caller[r] = Owner
    BY DEF Reviewable, AgentJob, NoJob, GateInv, TasksGated, OwnerOnly
  <2>3. UNCHANGED <<job, caller, sent>>
    BY DEF rows, broker
  <2>4. Gate!Open(r)
    BY <2>1, <2>2, <2>3 DEF Gate!Open
  <2>5. QED
    BY <2>4 DEF Gate!Next
<1>8. ASSUME NEW r \in Requests, NEW p \in Posts, ApproveSend(r, p)
      PROVE  [Gate!Next]_Gate!vars
  <2> USE <1>8 DEF ApproveSend, SendTask
  <2>1. r \in Opened /\ Opened' = Opened
    BY DEF Sending
  <2>2. UNCHANGED <<job, caller>> /\ sent' = sent \cup {<<r, p>>}
    BY DEF rows
  <2>3. CASE <<r, p>> \in sent
    BY <1>1, <2>1, <2>2, <2>3
  <2>4. CASE <<r, p>> \notin sent
    BY <2>1, <2>2, <2>4 DEF Gate!Send, Gate!Next
  <2>5. QED
    BY <2>3, <2>4
<1>9. ASSUME NEW r \in Requests, CancelLoad(r) \/ CancelRevoke(r)
      PROVE  [Gate!Next]_Gate!vars
  <2>1. Opened' = Opened
    BY <1>9 DEF CancelLoad, CancelRevoke, Sending, TypeOK
  <2>2. UNCHANGED <<job, caller, sent>>
    BY <1>9 DEF CancelLoad, CancelRevoke, rows, broker
  <2>3. QED
    BY <1>1, <2>1, <2>2
<1>10. QED
  BY <1>3, <1>4, <1>5, <1>6, <1>7, <1>8, <1>9
  DEF Next, RequestStep, Arrive, ApproveStep, CancelStep, Ends

THEOREM GateRefinement == Spec => ImplementsHumanGate
<1>1. TypeOK /\ GateInv /\ [Next]_vars => [Gate!Next]_Gate!vars
  BY StepRefines
<1>2. QED
  BY <1>1, InitRefines, GateInvariant, PTL DEF Spec, ImplementsHumanGate, Gate!Spec

-----------------------------------------------------------------------------
(* The stored plan. The posts a copy may be made of are one whole plan.      *)
LEMMA NoPostsWhole == Whole(NoPosts) /\ StoredIn(NoPosts) = {} /\ NoJob.posts = NoPosts
BY DEF Whole, StoredIn, NoPosts, NoRow, NoJob

LEMMA PlanPostsWhole ==
    ASSUME TypeOK, NEW k \in Plans
    PROVE  /\ Whole(PlanPosts(k))
           /\ \A p \in Posts : /\ PlanPosts(k)[p].by = NoRequest
                               /\ PlanPosts(k)[p].status # "scheduled"
<1>1. calendar \subseteq Slots
  BY DEF TypeOK
<1>2. StoredIn(PlanPosts(k)) = {k} \X calendar
  BY <1>1 DEF StoredIn, PlanPosts, Posts, PlanRow, NoRow
<1>3. \A p \in Posts : /\ PlanPosts(k)[p].by = NoRequest
                       /\ PlanPosts(k)[p].status # "scheduled"
  BY DEF PlanPosts, PlanRow, NoRow
<1>4. QED
  BY <1>2, <1>3 DEF Whole

LEMMA AfterRevokeWhole ==
    ASSUME NEW posts \in [Posts -> Row], Whole(posts)
    PROVE  /\ Whole(AfterRevoke(posts))
           /\ \A p \in Posts : AfterRevoke(posts)[p].status = "scheduled" => p \in near
<1>1. \A p \in Posts : /\ AfterRevoke(posts)[p].by = posts[p].by
                       /\ AfterRevoke(posts)[p].status = IF p \in Revocable(posts)
                             THEN "cancelled" ELSE posts[p].status
                       /\ p \in Revocable(posts) => posts[p].by # NoRequest
  BY DEF AfterRevoke, Revocable, Row
<1>2. StoredIn(AfterRevoke(posts)) = StoredIn(posts)
  <2>1. \A p \in Posts : p \notin Revocable(posts) => AfterRevoke(posts)[p] = posts[p]
    BY DEF AfterRevoke
  <2>2. \A p \in Revocable(posts) : posts[p] # NoRow /\ AfterRevoke(posts)[p] # NoRow
    <3>1. Revocable(posts) \subseteq Posts
      BY DEF Revocable
    <3>2. QED
      BY <1>1, <3>1 DEF NoRow
  <2>3. QED
    BY <2>1, <2>2 DEF StoredIn
<1>3. \A p \in Posts : AfterRevoke(posts)[p].status = "scheduled" => p \in near
  BY <1>1 DEF Revocable, Whole
<1>4. QED
  BY <1>1, <1>2, <1>3 DEF Whole

LEMMA InitPlan == Init => PlanInv
<1> SUFFICES ASSUME Init PROVE PlanInv
  OBVIOUS
<1>1. CopiesWhole
  BY NoPostsWhole DEF Init, CopiesWhole
<1>2. PlanMatchesDecision /\ BeforeCreate
  BY DEF Init, PlanMatchesDecision, BeforeCreate, NoJob
<1>3. \A r \in Requests : InHand(r)
  BY DEF Init, InHand
<1>4. QED
  BY <1>1, <1>2, <1>3 DEF PlanInv

(* Once there is a plan to speak of, what generation writes is a whole one,  *)
(* up for review.                                                            *)
LEMMA GenerationPlan ==
    ASSUME PlanInv, TypeOK, UNCHANGED <<calendar, broker, requests>>,
           creation' = "idle" => creation = "idle" /\ campaign' = campaign,
           \/ job' = job
           \/ job' = NoJob
           \/ /\ job'.agent = "pending_validation" /\ creation' # "idle"
              /\ \/ job'.posts = NoPosts
                 \/ \E k \in Plans : job'.posts = PlanPosts(k)
    PROVE  PlanInv'
<1> USE DEF broker, requests
<1>1. Whole(job'.posts)
  BY NoPostsWhole, PlanPostsWhole DEF PlanInv, CopiesWhole
<1>2. CopiesWhole'
  BY <1>1 DEF PlanInv, CopiesWhole, Whole
<1>3. PlanMatchesDecision'
  <2>1. CASE job' = job
    BY <2>1 DEF PlanInv, PlanMatchesDecision
  <2>2. CASE job' = NoJob
    BY <2>2 DEF NoJob, PlanMatchesDecision
  <2>3. CASE job'.agent = "pending_validation" /\ job'.posts = NoPosts
    BY <2>3 DEF PlanMatchesDecision, NoPosts, NoRow
  <2>4. ASSUME NEW k \in Plans, job'.agent = "pending_validation",
               job'.posts = PlanPosts(k)
        PROVE  PlanMatchesDecision'
    BY <2>4, PlanPostsWhole DEF PlanMatchesDecision
  <2>5. QED
    BY <2>1, <2>2, <2>3, <2>4
<1>4. BeforeCreate'
  BY DEF PlanInv, BeforeCreate
<1>5. \A r \in Requests : InHand(r)'
  BY DEF PlanInv, InHand
<1>6. QED
  BY <1>2, <1>3, <1>4, <1>5 DEF PlanInv

(* The calendar is drawn when no copy holds a post.                          *)
LEMMA DispatchPlan ==
    ASSUME PlanInv, TypeOK, CreateDispatch
    PROVE  PlanInv'
<1> USE DEF CreateDispatch, rows, broker, requests
<1>1. /\ job.posts = NoPosts
      /\ \A r \in Requests : seenJob[r].posts = NoPosts /\ work[r] = NoPosts
  BY NoPostsWhole DEF PlanInv, BeforeCreate
<1>2. Whole(NoPosts)'
  BY DEF Whole, StoredIn, NoPosts, NoRow
<1>3. CopiesWhole'
  BY <1>1, <1>2 DEF CopiesWhole
<1>4. PlanMatchesDecision' /\ BeforeCreate' /\ \A r \in Requests : InHand(r)'
  BY DEF PlanInv, PlanMatchesDecision, BeforeCreate, InHand
<1>5. QED
  BY <1>3, <1>4 DEF PlanInv

(* Closing a request leaves the others as they are and this one with no      *)
(* copies; what it wrote back has to go with the decision it wrote.          *)
LEMMA ClosePlan ==
    ASSUME PlanInv, TypeOK, NEW r \in Requests, NEW q, Close(r, q),
           q \notin {"approve_send", "cancel_commit"},
           UNCHANGED <<calendar, creation, near>>,
           Whole(job'.posts), PlanMatchesDecision',
           creation = "idle" => UNCHANGED rows
    PROVE  PlanInv'
<1>1. CopiesWhole'
  BY NoPostsWhole DEF PlanInv, CopiesWhole, Close, Whole, TypeOK
<1>2. BeforeCreate'
  BY DEF PlanInv, BeforeCreate, Close, TypeOK, rows
<1>3. \A x \in Requests : InHand(x)'
  BY DEF PlanInv, InHand, Close, TypeOK
<1>4. QED
  BY <1>1, <1>2, <1>3 DEF PlanInv

LEMMA EndsPlan ==
    ASSUME PlanInv, TypeOK, NEW r \in Requests, Ends(r)
    PROVE  PlanInv'
<1>0. UNCHANGED <<calendar, creation, near, sent, revoked>>
  BY EndsCloses DEF pipeline, broker
<1>1. Whole(job.posts) /\ Whole(work[r]) /\ InHand(r) /\ PlanMatchesDecision
  BY DEF PlanInv, CopiesWhole
<1>2. creation = "idle" => campaign = "absent" /\ seenCampaign[r] = "absent"
  BY DEF PlanInv, BeforeCreate
<1>3. CASE ApproveCommit(r)
  <2>1. /\ job'.agent = "approved" /\ job'.posts = work[r] /\ creation # "idle"
        /\ Close(r, "approved")
    BY <1>2, <1>3 DEF ApproveCommit, TypeOK, Job, CampaignExists, CampaignStatus
  <2>2. \A p \in Posts : work[r][p].status # "pending_validation"
    BY <1>1, <1>3 DEF ApproveCommit, InHand
  <2>3. PlanMatchesDecision'
    BY <2>1, <2>2 DEF PlanMatchesDecision
  <2>4. QED
    BY <1>0, <1>1, <2>1, <2>3, ClosePlan
<1>4. CASE CancelCommit(r)
  <2>1. /\ \/ job'.agent = job.agent /\ job'.posts = job.posts
           \/ job'.agent = "cancelled" /\ job'.posts = work[r]
        /\ creation # "idle" /\ Close(r, "cancelled") /\ pc[r] = "cancel_commit"
    BY <1>2, <1>4 DEF CancelCommit, TypeOK, Job, CampaignExists, CampaignStatus
  <2>2. Whole(job'.posts)
    BY <1>1, <2>1
  <2>3. PlanMatchesDecision'
    BY <1>0, <1>1, <2>1 DEF PlanMatchesDecision, InHand
  <2>4. QED
    BY <1>0, <2>1, <2>2, <2>3, ClosePlan
<1>5. ASSUME job' = job, creation = "idle" => UNCHANGED rows,
             NEW q, Close(r, q), q \notin {"approve_send", "cancel_commit"}
      PROVE  PlanInv'
  <2>1. PlanMatchesDecision'
    BY <1>0, <1>1, <1>5 DEF PlanMatchesDecision
  <2>2. QED
    BY <1>0, <1>1, <1>5, <2>1, ClosePlan
<1>6. CASE CampaignCommit(r)
  BY <1>2, <1>5, <1>6 DEF CampaignCommit, CampaignExists, CampaignStatus
<1>7. CASE \/ ApproveRefused(r) \/ TypeError(r) \/ ApproveAbort(r) \/ CancelRefused(r)
           \/ CancelAbort(r) \/ CampaignAbort(r) \/ \E u \in Users : RequestRefused(r, u)
  BY <1>5, <1>7 DEF ApproveRefused, TypeError, ApproveAbort, CancelRefused,
     CancelAbort, CampaignAbort, RequestRefused, rows
<1>8. QED
  BY <1>3, <1>4, <1>6, <1>7 DEF Ends

LEMMA ArrivePlan ==
    ASSUME PlanInv, TypeOK, NEW r \in Requests, NEW u \in Users,
           \/ ApproveRead(r, u) \/ CancelRead(r, u) \/ LaunchRead(r, u)
           \/ \E s \in CampaignStatus : UpdateRead(r, u, s)
           \/ Delete(r, u)
    PROVE  PlanInv'
<1> USE DEF ApproveRead, CancelRead, LaunchRead, UpdateRead, Delete
<1>1. /\ UNCHANGED <<job, creation, calendar, near, work, todo>>
      /\ pc' = [pc EXCEPT ![r] = pc'[r]]
      /\ pc'[r] \notin {"approve_send", "cancel_commit"}
      /\ seenJob' = seenJob \/ seenJob' = [seenJob EXCEPT ![r] = AgentJob]
  BY DEF rows, pipeline, broker, TypeOK
<1>2. AgentJob \in {job, NoJob}
  BY DEF AgentJob
<1>3. CopiesWhole'
  <2>1. Whole(AgentJob.posts)
    BY <1>2, NoPostsWhole DEF PlanInv, CopiesWhole
  <2>2. \A x \in Requests : Whole(seenJob'[x].posts)
    BY <1>1, <2>1 DEF PlanInv, CopiesWhole, TypeOK
  <2>3. QED
    BY <1>1, <2>2 DEF PlanInv, CopiesWhole, Whole
<1>4. PlanMatchesDecision'
  BY <1>1 DEF PlanInv, PlanMatchesDecision
<1>5. BeforeCreate'
  <2> SUFFICES ASSUME creation = "idle" PROVE BeforeCreate'
    BY <1>1 DEF BeforeCreate
  <2>1. campaign = "absent" /\ job = NoJob
    BY DEF PlanInv, BeforeCreate
  <2>2. CancelRead(r, u)
    BY <2>1 DEF CampaignExists, Launchable, CampaignStatus
  <2>3. AgentJob = NoJob
    BY <2>1 DEF AgentJob
  <2>4. QED
    BY <1>1, <2>2, <2>3 DEF PlanInv, BeforeCreate, rows, TypeOK
<1>6. \A x \in Requests : InHand(x)'
  BY <1>1 DEF PlanInv, InHand, TypeOK
<1>7. QED
  BY <1>3, <1>4, <1>5, <1>6 DEF PlanInv

(* The gate reads a copy and puts every post of it that is not over on the   *)
(* list; each message sent takes one off and schedules it.                   *)
LEMMA ApproveGatePlan ==
    ASSUME PlanInv, TypeOK, NEW r \in Requests, ApproveGate(r)
    PROVE  PlanInv'
<1> USE DEF ApproveGate, rows, pipeline, broker
<1>1. AgentJob = job /\ job \in Job /\ creation # "idle"
  BY DEF AgentJob, Reviewable, NoJob, TypeOK, PlanInv, BeforeCreate
<1>2. CopiesWhole'
  BY <1>1 DEF PlanInv, CopiesWhole, Whole, TypeOK
<1>3. PlanMatchesDecision' /\ BeforeCreate'
  BY <1>1 DEF PlanInv, PlanMatchesDecision, BeforeCreate
<1>4. /\ ToSchedule(job.posts) \subseteq StoredIn(job.posts)
      /\ \A p \in Posts : job.posts[p].status = "pending_validation"
                             => p \in ToSchedule(job.posts)
  BY DEF ToSchedule, StoredIn, NoRow
<1>5. InHand(r)'
  BY <1>1, <1>4 DEF InHand, TypeOK, StoredIn
<1>6. \A x \in Requests : x # r => InHand(x)'
  BY DEF PlanInv, InHand, TypeOK
<1>7. QED
  BY <1>2, <1>3, <1>5, <1>6 DEF PlanInv

LEMMA ApproveSendPlan ==
    ASSUME PlanInv, TypeOK, NEW r \in Requests, NEW p \in Posts, ApproveSend(r, p)
    PROVE  PlanInv'
<1> USE DEF ApproveSend, rows, pipeline
<1>1. /\ work' = [work EXCEPT ![r] = [work[r] EXCEPT ![p] = ScheduledRow(r)]]
      /\ work[r] \in [Posts -> Row] /\ p \in todo[r] /\ p \in StoredIn(work[r])
  BY DEF TypeOK, PlanInv, InHand
<1>2. \A x \in Posts : work'[r][x] = IF x = p THEN ScheduledRow(r) ELSE work[r][x]
  BY <1>1 DEF TypeOK
<1>3. StoredIn(work'[r]) = StoredIn(work[r])
  BY <1>1, <1>2 DEF StoredIn, ScheduledRow, NoRow
<1>4. Whole(work'[r])
  <2>1. Whole(work[r])
    BY DEF PlanInv, CopiesWhole
  <2>2. \A x \in Posts : work'[r][x].status = "scheduled" => work'[r][x].by # NoRequest
    BY <1>2, <2>1, ConstantsOK DEF Whole, ScheduledRow
  <2>3. QED
    BY <1>3, <2>1, <2>2 DEF Whole
<1>5. CopiesWhole'
  <2>1. \A x \in Requests : Whole(work'[x])
    BY <1>1, <1>4 DEF PlanInv, CopiesWhole, TypeOK
  <2>2. QED
    BY <2>1 DEF PlanInv, CopiesWhole, Whole
<1>6. PlanMatchesDecision'
  BY DEF PlanInv, PlanMatchesDecision
<1>7. BeforeCreate'
  BY <1>1, NoPostsWhole DEF PlanInv, BeforeCreate
<1>8. InHand(r)'
  <2>1. /\ todo'[r] = todo[r] \ {p} /\ pc'[r] = "approve_send"
        /\ InHand(r) /\ pc[r] = "approve_send"
    BY DEF TypeOK, PlanInv
  <2>2. QED
    BY <1>2, <1>3, <2>1 DEF InHand, ScheduledRow
<1>9. \A x \in Requests : x # r => InHand(x)'
  BY <1>1 DEF PlanInv, InHand, TypeOK
<1>10. QED
  BY <1>5, <1>6, <1>7, <1>8, <1>9 DEF PlanInv

LEMMA CancelPlan ==
    ASSUME PlanInv, TypeOK, NEW r \in Requests, CancelLoad(r) \/ CancelRevoke(r)
    PROVE  PlanInv'
<1> USE DEF rows, pipeline, broker
<1>1. /\ UNCHANGED <<job, campaign, creation, calendar, near, todo>>
      /\ pc' = [pc EXCEPT ![r] = pc'[r]] /\ pc'[r] # "approve_send"
  BY DEF CancelLoad, CancelRevoke, TypeOK
<1>2. PlanMatchesDecision'
  BY <1>1 DEF PlanInv, PlanMatchesDecision
<1>3. CASE CancelLoad(r)
  <2> USE <1>3 DEF CancelLoad
  <2>1. creation # "idle"
    BY DEF PlanInv, BeforeCreate, CampaignExists, CampaignStatus
  <2>2. CopiesWhole'
    BY DEF PlanInv, CopiesWhole, Whole, TypeOK
  <2>3. BeforeCreate' /\ \A x \in Requests : InHand(x)'
    BY <1>1, <2>1 DEF PlanInv, BeforeCreate, InHand, TypeOK
  <2>4. QED
    BY <1>2, <2>2, <2>3 DEF PlanInv
<1>4. CASE CancelRevoke(r)
  <2> USE <1>4 DEF CancelRevoke
  <2> DEFINE posts == seenJob[r].posts
  <2>1. posts \in [Posts -> Row] /\ Whole(posts)
    BY DEF TypeOK, Job, PlanInv, CopiesWhole
  <2>2. /\ Whole(AfterRevoke(posts))
        /\ \A p \in Posts : AfterRevoke(posts)[p].status = "scheduled" => p \in near
    BY <2>1, AfterRevokeWhole
  <2>3. /\ work' = [work EXCEPT ![r] = AfterRevoke(posts)]
        /\ work'[r] = AfterRevoke(posts) /\ seenJob' = seenJob
        /\ pc[r] = "cancel_job" /\ seenCampaign' = seenCampaign
    BY DEF TypeOK
  <2> HIDE DEF posts
  <2>4. CopiesWhole'
    <3>1. \A x \in Requests : Whole(work'[x])
      BY <2>2, <2>3 DEF PlanInv, CopiesWhole, TypeOK
    <3>2. QED
      <4>1. Whole(job.posts)' /\ \A x \in Requests : Whole(seenJob[x].posts)'
        <5>1. UNCHANGED <<job, seenJob, calendar>>
          BY <1>1, <2>3
        <5>2. Whole(job.posts) /\ \A x \in Requests : Whole(seenJob[x].posts)
          BY DEF PlanInv, CopiesWhole
        <5>3. QED
          BY <5>1, <5>2 DEF Whole
      <4>2. \A x \in Requests : Whole(work[x])'
        BY <1>1, <3>1 DEF Whole
      <4>3. QED
        BY <4>1, <4>2 DEF CopiesWhole
  <2>5. creation = "idle" => AfterRevoke(posts) = NoPosts
    BY NoPostsWhole
    DEF PlanInv, BeforeCreate, AfterRevoke, Revocable, NoPosts, NoRow, posts
  <2>6. BeforeCreate'
    BY <1>1, <2>3, <2>5 DEF PlanInv, BeforeCreate, TypeOK
  <2>7. InHand(r)'
    BY <1>1, <2>2, <2>3 DEF PlanInv, InHand, TypeOK
  <2>8. \A x \in Requests : x # r => InHand(x)'
    BY <1>1, <2>3 DEF PlanInv, InHand, TypeOK
  <2>9. QED
    BY <1>2, <2>4, <2>6, <2>7, <2>8 DEF PlanInv
<1>5. QED
  BY <1>3, <1>4

LEMMA PlanInductive == TypeOK /\ PlanInv /\ [Next]_vars => PlanInv'
<1> SUFFICES ASSUME TypeOK, PlanInv, [Next]_vars PROVE PlanInv'
  OBVIOUS
<1>1. CASE UNCHANGED vars
  BY <1>1 DEF vars, PlanInv, CopiesWhole, Whole, PlanMatchesDecision, BeforeCreate,
              InHand
<1>2. CASE Create
  <2>1. CASE CreateDispatch
    BY <2>1, DispatchPlan
  <2>2. CASE CreateCommit \/ CreateRollback
    BY <2>2, GenerationPlan DEF CreateCommit, CreateRollback, rows
  <2>3. QED
    BY <1>2, <2>1, <2>2 DEF Create
<1>3. ASSUME NEW t \in HeaderTasks, HeaderStep(t) PROVE PlanInv'
  BY <1>3, GenerationPlan DEF HeaderStep, HeaderRun, TaskRetry, TaskFail, rows
<1>4. CASE BuildStep
  BY <1>4, GenerationPlan DEF BuildStep, BuildLaunch, TaskRetry, TaskFail, rows
<1>5. ASSUME NEW k \in Plans, StageStep(k) \/ Redelivery(k) PROVE PlanInv'
  <2>1. CASE Assemble(k) \/ AssembleLost(k)
    <3>1. job # NoJob => creation # "idle"
      BY DEF PlanInv, BeforeCreate
    <3>2. /\ UNCHANGED <<creation, campaign, calendar, broker, requests>>
          /\ job' = IF job = NoJob THEN NoJob
                    ELSE [agent |-> "pending_validation", status |-> "completed",
                          posts |-> PlanPosts(k)]
      BY <2>1 DEF Assemble, AssembleLost, StorePlan
    <3>3. QED
      BY <3>1, <3>2, GenerationPlan
  <2>2. CASE StageRun(k) \/ StageRetry(k) \/ StageFail(k) \/ BuildLaunchLost(k)
    BY <2>2, GenerationPlan
    DEF StageRun, StageRetry, StageFail, BuildLaunchLost, rows
  <2>3. QED
    BY <1>5, <2>1, <2>2 DEF StageStep, Redelivery
<1>6. ASSUME NEW p \in Posts, EtaNears(p) PROVE PlanInv'
  BY <1>6 DEF EtaNears, rows, pipeline, requests, PlanInv, CopiesWhole, Whole,
              PlanMatchesDecision, BeforeCreate, InHand
<1>7. ASSUME NEW r \in Requests, RequestStep(r) PROVE PlanInv'
  BY <1>7, EndsPlan, ArrivePlan, ApproveGatePlan, ApproveSendPlan, CancelPlan
  DEF RequestStep, Arrive, ApproveStep, CancelStep, Ends
<1>8. QED
  BY <1>1, <1>2, <1>3, <1>4, <1>5, <1>6, <1>7 DEF Next

LEMMA PlanInvariant == Spec => []PlanInv
BY InitPlan, PlanInductive, TypeCorrect, PTL DEF Spec

(* Whatever copies of the row approvals, cancellations and redelivered       *)
(* chains write over one another, the decision and the posts stored with it  *)
(* belong together.                                                          *)
THEOREM DecisionSafety == Spec => []PlanMatchesDecision
<1>1. PlanInv => PlanMatchesDecision
  BY DEF PlanInv
<1>2. QED
  BY <1>1, PlanInvariant, PTL

(* However many chains ran, the stored plan is all of one of them.           *)
THEOREM OnePlanStored == Spec => []SinglePlan
<1>1. PlanInv => SinglePlan
  BY DEF PlanInv, CopiesWhole, Whole, StoredIn, SinglePlan
<1>2. QED
  BY <1>1, PlanInvariant, PTL
=============================================================================
