-------------------------- MODULE CampaignPipeline --------------------------
(***************************************************************************)
(* The campaign agent: one campaign, from the create request to the        *)
(* human decision on its generated posts.                                  *)
(*                                                                         *)
(* Three kinds of actor share two database rows (campaigns and             *)
(* workflow_jobs) and the Celery broker:                                   *)
(*   - the create request (routes/campaigns_agent.py, agent.py), which     *)
(*     dispatches the generation chord BEFORE its transaction commits;     *)
(*   - the Celery workers (campaign_agent/worker.py): three chord header   *)
(*     tasks, the callback, then a captions -> visuals -> assemble chain;  *)
(*   - the users' requests: approve, cancel, launch, update, delete.       *)
(*                                                                         *)
(* A request is a READ COMMITTED transaction: it reads each row at its own *)
(* step, works on that copy, and its commit writes only the columns whose  *)
(* value differs from the copy (SQLAlchemy's unit of work).                *)
(***************************************************************************)
EXTENDS Naturals, FiniteSets

CONSTANTS
    Requests,    \* approve / cancel / launch / update calls, one life each
    Users,       \* authenticated users
    Owner,       \* projects.user_id of the campaign's project
    Plans,       \* runs of build_campaign_plan that launched a chain (a bound)
    Slots,       \* slots of the editorial calendar
    MaxRetries,  \* max_retries of the Celery tasks (3 in the code)
    RowShapes,   \* which of "worker", "dataclass" the generated rows may have
    NoRequest    \* celery_task_id = None

ASSUME ConstantsOK ==
    /\ Owner \in Users
    /\ NoRequest \notin Requests
    /\ MaxRetries \in Nat
    /\ RowShapes \subseteq {"worker", "dataclass"}

(* A post is one slot of one plan: build_campaign_plan draws fresh UUIDs    *)
(* each time it runs. A publish task is <<request, post>>: each approval    *)
(* sends its own task for a post.                                           *)
Posts == Plans \X Slots
Tasks == Requests \X Posts

CampaignStatus == {"draft", "active", "paused", "completed"}
PostStatus == {"absent", "pending_validation", "approved", "scheduled",
               "published", "failed", "cancelled"}

(* One stored post: its status and the approval whose task it names.        *)
Row == [status : PostStatus, by : Requests \cup {NoRequest}]
NoRow == [status |-> "absent", by |-> NoRequest]
NoPosts == [p \in Posts |-> NoRow]

(* workflow_jobs: result.agent_status, status and result.posts.             *)
Job == [agent   : {"none", "pending_validation", "approved", "cancelled"},
        status  : {"none", "pending", "completed", "failed"},
        posts   : [Posts -> Row]]
NoJob == [agent |-> "none", status |-> "none", posts |-> NoPosts]

HeaderTasks == {"analyze_brand", "analyze_audience", "suggest_influencers"}
RunTasks == HeaderTasks \cup {"build_campaign_plan"}
Stages == {"captions", "visuals", "assemble"}
NextStage == [captions |-> "visuals", visuals |-> "assemble"]

VARIABLES
    campaign,      \* campaigns.status, or "absent" / "deleted"
    job,           \* the workflow_jobs row, or NoJob before the create commit
    creation,      \* progress of POST /create
    rowShape,      \* keys of the generated post dicts (never changes)
    calendar,      \* slots of the editorial calendar (duration_days * freq)
    task,          \* state of the chord's tasks
    chain,         \* stage of the chain launched by each plan
    tries,         \* self.request.retries of each task and chain stage
    near,          \* posts whose eta is at most 5 minutes away
    sent,          \* publish tasks handed to the broker
    revoked,       \* publish tasks revoked by cancel
    pc,            \* where each request stands
    caller,        \* who makes each request
    seenCampaign,  \* campaigns.status as each request read it
    seenJob,       \* the job row as each request read it
    work,          \* the SocialPost objects each request builds from it
    todo,          \* posts whose publish task is still to be sent
    target         \* status asked by PUT /campaigns/{id}

rows == <<campaign, job>>
pipeline == <<creation, rowShape, calendar, task, chain, tries>>
broker == <<near, sent, revoked>>
requests == <<pc, caller, seenCampaign, seenJob, work, todo, target>>
vars == <<campaign, job, creation, rowShape, calendar, task, chain, tries,
          near, sent, revoked, pc, caller, seenCampaign, seenJob, work, todo,
          target>>

PC == {"idle", "approve_job", "approve_send", "cancel_load", "cancel_job",
       "cancel_commit", "launch_commit", "update_commit",
       "approved", "cancelled", "updated", "refused", "type_error",
       "approve_aborted", "aborted"}

TypeOK ==
    /\ campaign \in CampaignStatus \cup {"absent", "deleted"}
    /\ job \in Job
    /\ creation \in {"idle", "dispatched", "committed", "rolled_back"}
    /\ rowShape \in RowShapes
    /\ calendar \subseteq Slots
    /\ task \in [RunTasks -> {"unsent", "queued", "done", "failed"}]
    /\ chain \in [Plans -> Stages \cup {"none", "done", "failed"}]
    /\ tries \in [RunTasks \cup Plans -> 0..MaxRetries]
    /\ near \subseteq Posts
    /\ sent \subseteq Tasks
    /\ revoked \subseteq Tasks
    /\ pc \in [Requests -> PC]
    /\ caller \in [Requests -> Users]
    /\ seenCampaign \in [Requests -> CampaignStatus \cup {"absent"}]
    /\ seenJob \in [Requests -> Job]
    /\ work \in [Requests -> [Posts -> Row]]
    /\ todo \in [Requests -> SUBSET Posts]
    /\ target \in [Requests -> CampaignStatus]

Init ==
    /\ campaign = "absent"
    /\ job = NoJob
    /\ creation = "idle"
    /\ rowShape \in RowShapes
    /\ calendar = {}
    /\ task = [t \in RunTasks |-> "unsent"]
    /\ chain = [k \in Plans |-> "none"]
    /\ tries = [x \in RunTasks \cup Plans |-> 0]
    /\ near = {}
    /\ sent = {}
    /\ revoked = {}
    /\ pc = [r \in Requests |-> "idle"]
    /\ caller = [r \in Requests |-> Owner]
    /\ seenCampaign = [r \in Requests |-> "absent"]
    /\ seenJob = [r \in Requests |-> NoJob]
    /\ work = [r \in Requests |-> NoPosts]
    /\ todo = [r \in Requests |-> {}]
    /\ target = [r \in Requests |-> "draft"]

-----------------------------------------------------------------------------
(* POST /create: the rows are flushed, the chord is handed to the broker,    *)
(* and only then does the route commit. duration_days may be 0, so the       *)
(* calendar may be empty.                                                    *)
CreateDispatch ==
    /\ creation = "idle"
    /\ creation' = "dispatched"
    /\ \E c \in SUBSET Slots : calendar' = c
    /\ task' = [t \in RunTasks |-> IF t \in HeaderTasks THEN "queued" ELSE task[t]]
    /\ UNCHANGED <<rows, rowShape, chain, tries, broker,
                   requests>>

CreateCommit ==
    /\ creation = "dispatched"
    /\ creation' = "committed"
    /\ campaign' = "draft"
    /\ job' = [agent |-> "pending_validation", status |-> "pending",
               posts |-> NoPosts]
    /\ UNCHANGED <<rowShape, calendar, task, chain, tries,
                   broker, requests>>

CreateRollback ==
    /\ creation \in {"idle", "dispatched"}
    /\ creation' = "rolled_back"
    /\ UNCHANGED <<rows, rowShape, calendar, task, chain, tries, broker, requests>>

-----------------------------------------------------------------------------
(* The chord. A task that raises is retried until its budget is spent; a     *)
(* header task that fails for good means the callback is never sent.         *)
MayRetry_extra(x) == tries[x] <= MaxRetries
MayRetry(x) == tries[x] < MaxRetries

ChordDone_never(t) == \A u \in HeaderTasks : task[u] = "done"
ChordDone(t) == \A u \in HeaderTasks \ {t} : task[u] = "done"

HeaderRun(t) ==
    /\ task[t] = "queued"
    /\ task' = [task EXCEPT ![t] = "done",
                   !["build_campaign_plan"] = IF ChordDone(t) THEN "queued" ELSE @]
    /\ UNCHANGED <<rows, creation, rowShape, calendar, chain, tries, broker, requests>>

TaskRetry(t) ==
    /\ task[t] = "queued"
    /\ MayRetry(t)
    /\ tries' = [tries EXCEPT ![t] = @ + 1]
    /\ UNCHANGED <<rows, creation, rowShape, calendar, task, chain, broker, requests>>

TaskFail(t) ==
    /\ task[t] = "queued"
    /\ ~MayRetry(t)
    /\ task' = [task EXCEPT ![t] = "failed"]
    /\ UNCHANGED <<rows, creation, rowShape, calendar, chain, tries, broker, requests>>

Unused == {k \in Plans : chain[k] = "none"}

(* build_campaign_plan draws new post ids and launches a chain.              *)
BuildLaunch(k) ==
    /\ task["build_campaign_plan"] = "queued"
    /\ k \in Unused
    /\ chain' = [chain EXCEPT ![k] = "captions"]
    /\ task' = [task EXCEPT !["build_campaign_plan"] = "done"]
    /\ UNCHANGED <<rows, creation, rowShape, calendar, tries, broker, requests>>

(* acks_late + reject_on_worker_lost: the worker dies after apply_async and  *)
(* the message is delivered again. Bounded by the plans left.                *)
BuildLaunchLost(k) ==
    /\ task["build_campaign_plan"] = "queued"
    /\ k \in Unused
    /\ Unused # {k}
    /\ chain' = [chain EXCEPT ![k] = "captions"]
    /\ UNCHANGED <<rows, creation, rowShape, calendar, task, tries, broker, requests>>

StageRun(k) ==
    /\ chain[k] \in {"captions", "visuals"}
    /\ chain' = [chain EXCEPT ![k] = NextStage[@]]
    /\ tries' = [tries EXCEPT ![k] = 0]
    /\ UNCHANGED <<rows, creation, rowShape, calendar, task, broker, requests>>

StageRetry(k) ==
    /\ chain[k] \in Stages
    /\ MayRetry(k)
    /\ tries' = [tries EXCEPT ![k] = @ + 1]
    /\ UNCHANGED <<rows, creation, rowShape, calendar, task, chain, broker, requests>>

StageFail(k) ==
    /\ chain[k] \in Stages
    /\ ~MayRetry(k)
    /\ chain' = [chain EXCEPT ![k] = "failed"]
    /\ UNCHANGED <<rows, creation, rowShape, calendar, task, tries, broker, requests>>

(* assemble_final_plan replaces the whole result of the job it finds by id,  *)
(* whatever that result says by now. Run before the create commit it finds   *)
(* none, and the plan is dropped.                                            *)
PlanRow == [status |-> "pending_validation", by |-> NoRequest]

PlanPosts_merged(k) == [p \in Posts |->
    IF p[1] = k /\ p[2] \in calendar THEN PlanRow ELSE job.posts[p]]
PlanPosts(k) == [p \in Posts |->
    IF p[1] = k /\ p[2] \in calendar THEN PlanRow ELSE NoRow]

StorePlan(k) ==
    job' = IF job = NoJob
           THEN NoJob
           ELSE [agent |-> "pending_validation", status |-> "completed",
                 posts |-> PlanPosts(k)]

Assemble(k) ==
    /\ chain[k] = "assemble"
    /\ StorePlan(k)
    /\ chain' = [chain EXCEPT ![k] = "done"]
    /\ UNCHANGED <<campaign, creation, rowShape, calendar, task, tries, broker,
                   requests>>

(* The same, and the message is delivered again (the worker was lost before  *)
(* the acknowledgement, here or in an earlier stage of the chain).           *)
AssembleLost(k) ==
    /\ chain[k] = "assemble"
    /\ StorePlan(k)
    /\ UNCHANGED <<campaign, creation, rowShape, calendar, task, chain, tries,
                   broker, requests>>

(* Time passes: the eta of a stored post is less than 5 minutes away.        *)
EtaNears(p) ==
    /\ job.posts[p] # NoRow
    /\ near' = near \cup {p}
    /\ UNCHANGED <<rows, pipeline, sent, revoked, requests>>

-----------------------------------------------------------------------------
(* The requests. Close(r, q) ends r: its session and its copies are gone.    *)
Close(r, q) ==
    /\ pc' = [pc EXCEPT ![r] = q]
    /\ seenCampaign' = [seenCampaign EXCEPT ![r] = "absent"]
    /\ seenJob' = [seenJob EXCEPT ![r] = NoJob]
    /\ work' = [work EXCEPT ![r] = NoPosts]
    /\ todo' = [todo EXCEPT ![r] = {}]
    /\ target' = [target EXCEPT ![r] = "draft"]
    /\ UNCHANGED caller

CampaignExists == campaign \in CampaignStatus

(* _load_agent_job looks the job up by campaign_id, which deleting the       *)
(* campaign sets to NULL.                                                    *)
AgentJob == IF campaign = "deleted" THEN NoJob ELSE job

IsOwner_any(u) == TRUE
IsOwner(u) == u = Owner

(* SocialPost( **p ) raises TypeError on the keys the worker adds.           *)
Deserialisable_lenient(posts) == TRUE
Deserialisable(posts) == rowShape = "dataclass" \/ posts = NoPosts

ToSchedule_near(posts) ==
    {p \in near : posts[p].status \notin {"absent", "published", "cancelled",
                                         "failed"}}
ToSchedule(posts) ==
    {p \in Posts : posts[p].status \notin {"absent", "published", "cancelled",
                                          "failed"}}

ApproveRead(r, u) ==
    /\ pc[r] = "idle"
    /\ CampaignExists
    /\ IsOwner(u)
    /\ pc' = [pc EXCEPT ![r] = "approve_job"]
    /\ caller' = [caller EXCEPT ![r] = u]
    /\ seenCampaign' = [seenCampaign EXCEPT ![r] = campaign]
    /\ UNCHANGED <<rows, pipeline, broker, seenJob, work, todo, target>>

(* _assert_pending_validation on the job as this request reads it.           *)
Reviewable_any(j) == j.agent \in {"pending_validation", "approved"}
Reviewable(j) == j.agent = "pending_validation"

ApproveGate(r) ==
    /\ pc[r] = "approve_job"
    /\ Reviewable(AgentJob)
    /\ Deserialisable(AgentJob.posts)
    /\ pc' = [pc EXCEPT ![r] = "approve_send"]
    /\ seenJob' = [seenJob EXCEPT ![r] = AgentJob]
    /\ work' = [work EXCEPT ![r] = AgentJob.posts]
    /\ todo' = [todo EXCEPT ![r] = ToSchedule(AgentJob.posts)]
    /\ UNCHANGED <<rows, pipeline, broker, caller, seenCampaign, target>>

ApproveRefused(r) ==
    /\ pc[r] = "approve_job"
    /\ ~Reviewable(AgentJob)
    /\ Close(r, "refused")
    /\ UNCHANGED <<rows, pipeline, broker>>

(* The 404 answers, the 403 of approve and the 400 of launch.                *)
Launchable == campaign \in {"draft", "paused"}

RequestRefused(r, u) ==
    /\ pc[r] = "idle"
    /\ ~CampaignExists \/ ~IsOwner(u) \/ ~Launchable
    /\ Close(r, "refused")
    /\ UNCHANGED <<rows, pipeline, broker>>

TypeError(r) ==
    /\ \/ pc[r] = "approve_job" /\ Reviewable(AgentJob)
          /\ ~Deserialisable(AgentJob.posts)
       \/ pc[r] = "cancel_job" /\ ~Deserialisable(seenJob[r].posts)
    /\ Close(r, "type_error")
    /\ UNCHANGED <<rows, pipeline, broker>>

(* _schedule_posts: one send_task per post, each visible to the broker at    *)
(* once, while the rows they go with are still uncommitted.                  *)
SendTask_swallowed(r, p) == sent' = sent
SendTask(r, p) == sent' = sent \cup {<<r, p>>}

ScheduledRow_approved(r) == [status |-> "approved", by |-> r]
ScheduledRow(r) == [status |-> "scheduled", by |-> r]

ApproveSend(r, p) ==
    /\ pc[r] = "approve_send"
    /\ p \in todo[r]
    /\ SendTask(r, p)
    /\ work' = [work EXCEPT ![r][p] = ScheduledRow(r)]
    /\ todo' = [todo EXCEPT ![r] = @ \ {p}]
    /\ UNCHANGED <<rows, pipeline, near, revoked, pc, caller, seenCampaign,
                   seenJob, target>>

(* launched_at always changes, so the campaign row is always updated: when   *)
(* it is gone the flush raises StaleDataError. (The validation record is put *)
(* into payload in place, which the unit of work does not see.)              *)
ApproveCommit(r) ==
    /\ pc[r] = "approve_send"
    /\ todo[r] = {}
    /\ CampaignExists
    /\ campaign' = IF seenCampaign[r] = "active" THEN campaign ELSE "active"
    /\ job' = [job EXCEPT
          !.agent = "approved",
          !.posts = work[r],
          !.status = IF seenJob[r].status = "completed" THEN @ ELSE "completed"]
    /\ Close(r, "approved")
    /\ UNCHANGED <<pipeline, broker>>

(* The stale row, a lost connection or broker: the transaction is rolled     *)
(* back, what was sent stays sent.                                           *)
ApproveAbort(r) ==
    /\ pc[r] = "approve_send"
    /\ Close(r, "approve_aborted")
    /\ UNCHANGED <<rows, pipeline, broker>>

-----------------------------------------------------------------------------
(* DELETE /campaigns/agent/{id}: the route reads the job for its 409 guard   *)
(* before the agent checks the caller; the session keeps that first copy.    *)
CancelRead(r, u) ==
    /\ pc[r] = "idle"
    /\ \A p \in Posts : AgentJob.posts[p].status # "published"
    /\ pc' = [pc EXCEPT ![r] = "cancel_load"]
    /\ caller' = [caller EXCEPT ![r] = u]
    /\ seenJob' = [seenJob EXCEPT ![r] = AgentJob]
    /\ UNCHANGED <<rows, pipeline, broker, seenCampaign, work, todo, target>>

CancelLoad(r) ==
    /\ pc[r] = "cancel_load"
    /\ CampaignExists
    /\ IsOwner(caller[r])
    /\ pc' = [pc EXCEPT ![r] = "cancel_job"]
    /\ seenCampaign' = [seenCampaign EXCEPT ![r] = campaign]
    /\ seenJob' = [seenJob EXCEPT ![r] = IF @ = NoJob THEN job ELSE @]
    /\ UNCHANGED <<rows, pipeline, broker, caller, work, todo, target>>

CancelRefused(r) ==
    /\ pc[r] = "cancel_load"
    /\ ~CampaignExists \/ ~IsOwner(caller[r])
    /\ Close(r, "refused")
    /\ UNCHANGED <<rows, pipeline, broker>>

(* _revoke_future_tasks: posts with a task whose eta is beyond the horizon.  *)
Revocable(posts) ==
    {p \in Posts \ near : /\ posts[p].by # NoRequest
                          /\ posts[p].status \notin {"published", "failed"}}

AfterRevoke(posts) == [p \in Posts |->
    IF p \in Revocable(posts) THEN [posts[p] EXCEPT !.status = "cancelled"]
                              ELSE posts[p]]

CancelRevoke(r) ==
    /\ pc[r] = "cancel_job"
    /\ Deserialisable(seenJob[r].posts)
    /\ LET posts == seenJob[r].posts
       IN /\ revoked' = revoked \cup {<<posts[p].by, p>> : p \in Revocable(posts)}
          /\ work' = [work EXCEPT ![r] = AfterRevoke(posts)]
    /\ pc' = [pc EXCEPT ![r] = "cancel_commit"]
    /\ UNCHANGED <<rows, pipeline, near, sent, caller, seenCampaign, seenJob,
                   todo, target>>

(* Each column is written only if it differs from the copy read. The UPDATE  *)
(* of a deleted campaign row raises StaleDataError.                          *)
CancelCommit(r) ==
    /\ pc[r] = "cancel_commit"
    /\ CampaignExists \/ seenCampaign[r] = "paused"
    /\ campaign' = IF seenCampaign[r] = "paused" THEN campaign ELSE "paused"
    /\ LET seen == seenJob[r]
           same == seen.agent = "cancelled" /\ seen.posts = work[r]
       IN job' = [job EXCEPT
             !.status = IF seen.status = "failed" THEN @ ELSE "failed",
             !.agent = IF same THEN @ ELSE "cancelled",
             !.posts = IF same THEN @ ELSE work[r]]
    /\ Close(r, "cancelled")
    /\ UNCHANGED <<pipeline, broker>>

CancelAbort(r) ==
    /\ pc[r] \in {"cancel_load", "cancel_job", "cancel_commit"}
    /\ Close(r, "aborted")
    /\ UNCHANGED <<rows, pipeline, broker>>

-----------------------------------------------------------------------------
(* The campaign routes of the same row: no check of the owner, no look at    *)
(* the job. Launch always writes launched_at; update writes a status only    *)
(* when it differs from the one read, but refreshes the row in any case.     *)
LaunchRead(r, u) ==
    /\ pc[r] = "idle"
    /\ Launchable
    /\ pc' = [pc EXCEPT ![r] = "launch_commit"]
    /\ caller' = [caller EXCEPT ![r] = u]
    /\ seenCampaign' = [seenCampaign EXCEPT ![r] = campaign]
    /\ UNCHANGED <<rows, pipeline, broker, seenJob, work, todo, target>>

UpdateRead(r, u, s) ==
    /\ pc[r] = "idle"
    /\ CampaignExists
    /\ pc' = [pc EXCEPT ![r] = "update_commit"]
    /\ caller' = [caller EXCEPT ![r] = u]
    /\ seenCampaign' = [seenCampaign EXCEPT ![r] = campaign]
    /\ target' = [target EXCEPT ![r] = s]
    /\ UNCHANGED <<rows, pipeline, broker, seenJob, work, todo>>

CampaignCommit(r) ==
    /\ CampaignExists
    /\ \/ pc[r] = "launch_commit" /\ campaign' = "active"
       \/ /\ pc[r] = "update_commit"
          /\ campaign' = IF target[r] = seenCampaign[r] THEN campaign
                                                        ELSE target[r]
    /\ Close(r, "updated")
    /\ UNCHANGED <<job, pipeline, broker>>

CampaignAbort(r) ==
    /\ pc[r] \in {"launch_commit", "update_commit"}
    /\ Close(r, "aborted")
    /\ UNCHANGED <<rows, pipeline, broker>>

(* A hard delete: campaign_agent's job row survives it, detached.            *)
Delete(r, u) ==
    /\ pc[r] = "idle"
    /\ CampaignExists
    /\ campaign' = "deleted"
    /\ pc' = [pc EXCEPT ![r] = "updated"]
    /\ caller' = [caller EXCEPT ![r] = u]
    /\ UNCHANGED <<job, pipeline, broker, seenCampaign, seenJob, work, todo,
                   target>>

-----------------------------------------------------------------------------
Create == CreateDispatch \/ CreateCommit \/ CreateRollback

HeaderStep(t) == HeaderRun(t) \/ TaskRetry(t) \/ TaskFail(t)

BuildStep == \/ \E k \in Plans : BuildLaunch(k)
             \/ TaskRetry("build_campaign_plan")
             \/ TaskFail("build_campaign_plan")

StageStep(k) == StageRun(k) \/ Assemble(k) \/ StageRetry(k) \/ StageFail(k)

Redelivery(k) == BuildLaunchLost(k) \/ AssembleLost(k)

ApproveStep(r) == \/ ApproveGate(r) \/ ApproveRefused(r) \/ TypeError(r)
                  \/ \E p \in Posts : ApproveSend(r, p)
                  \/ ApproveCommit(r) \/ ApproveAbort(r)

CancelStep(r) == \/ CancelLoad(r) \/ CancelRefused(r) \/ CancelRevoke(r)
                 \/ CancelCommit(r) \/ CancelAbort(r)

Arrive(r, u) == \/ ApproveRead(r, u) \/ CancelRead(r, u) \/ LaunchRead(r, u)
                \/ \E s \in CampaignStatus : UpdateRead(r, u, s)
                \/ Delete(r, u) \/ RequestRefused(r, u)

RequestStep(r) == \/ \E u \in Users : Arrive(r, u)
                  \/ ApproveStep(r) \/ CancelStep(r)
                  \/ CampaignCommit(r) \/ CampaignAbort(r)

Next == \/ Create
        \/ \E t \in HeaderTasks : HeaderStep(t)
        \/ BuildStep
        \/ \E k \in Plans : StageStep(k) \/ Redelivery(k)
        \/ \E p \in Posts : EtaNears(p)
        \/ \E r \in Requests : RequestStep(r)

(* A worker that is up consumes its queue; users owe nothing.                *)
WorkersRun == /\ \A t \in HeaderTasks : WF_vars(HeaderStep(t))
              /\ WF_vars(BuildStep)
              /\ \A k \in Plans : WF_vars(StageStep(k))

Spec == Init /\ [][Next]_vars
FairSpec == Spec /\ WorkersRun

-----------------------------------------------------------------------------
(* The human gate, seen from the broker: a publish task exists only because  *)
(* the owner's approval passed the pending_validation gate and got to the    *)
(* sending loop; nobody else's request, and no worker, ever schedules a post *)
(* (agent.py:438-446). Nothing is revoked that was not sent.                 *)
Sending == {"approve_send", "approved", "approve_aborted"}

OnlyOwnerSchedules ==
    /\ \A s \in sent : caller[s[1]] = Owner /\ pc[s[1]] \in Sending
    /\ revoked \subseteq sent

(* A stored post that names a publish task names one the broker was given,   *)
(* whichever copies of the row approve, cancel and the workers wrote back.   *)
ScheduledHasTask ==
    \A p \in Posts : job.posts[p].by # NoRequest => <<job.posts[p].by, p>> \in sent

(* result is one JSON column, so its decision and its posts stay one         *)
(* another's whatever is interleaved: an approved plan has no post left      *)
(* unscheduled, a pending one has none scheduled, and a cancelled one keeps  *)
(* scheduled only posts within five minutes of their eta.                    *)
PlanMatchesDecision ==
    \A p \in Posts :
        /\ job.agent = "approved" => job.posts[p].status # "pending_validation"
        /\ job.agent = "pending_validation" => job.posts[p].by = NoRequest
        /\ job.agent = "cancelled" /\ job.posts[p].status = "scheduled"
               => p \in near

(* However many chains a redelivered callback launched, the stored plan is   *)
(* one of them, complete: never a mixture of two calendars, never a part.    *)
SinglePlan ==
    LET stored == {p \in Posts : job.posts[p] # NoRow}
    IN stored = {} \/ \E k \in Plans : stored = {k} \X calendar

(* Nothing writes "approved" (or "published") into a stored post, the one    *)
(* status publish_post_at_scheduled_time accepts (worker.py:1050).           *)
NeverApprovedRow ==
    \A p \in Posts : job.posts[p].status \notin {"approved", "published", "failed"}

(* The rows the deployed worker stores carry keys SocialPost does not have:  *)
(* no approval ever schedules one and no cancellation revokes one.           *)
DeployedNothingScheduled ==
    rowShape = "worker" =>
        /\ sent = {}
        /\ \A p \in Posts : job.posts[p].status \in {"absent",
                                                     "pending_validation"}

(* Once the chord is out, generation comes to an end: an analysis failed for *)
(* good, or the callback did, or every chain it launched ended.              *)
GenerationEnds ==
    (creation # "idle" /\ task["analyze_brand"] # "unsent") ~>
        \/ \E t \in RunTasks : task[t] = "failed"
        \/ /\ task["build_campaign_plan"] = "done"
           /\ \A k \in Plans : chain[k] \in {"none", "done", "failed"}

(* The campaign agent implements HumanGate: the gate is opened by the        *)
(* requests that got to the sending loop, whatever became of them.           *)
Gate == INSTANCE HumanGate WITH
    plan <- job.agent,
    opened <- {r \in Requests : pc[r] \in Sending},
    by <- caller

ImplementsHumanGate == Gate!Spec

-----------------------------------------------------------------------------
(* The inductive invariant behind the gate. It speaks of every copy of the   *)
(* posts, because any of them may be written back: the tasks it names are    *)
(* among those sent, and rows of the worker's shape were never scheduled.    *)
Sound(posts, tasks, shape) ==
    /\ \A p \in Posts :
          /\ posts[p].status \in {"absent", "pending_validation", "scheduled",
                                 "cancelled"}
          /\ posts[p].by # NoRequest => <<posts[p].by, p>> \in tasks
    /\ shape = "worker" => \A p \in Posts :
          posts[p].status \in {"absent", "pending_validation"}

CopiesSound ==
    /\ Sound(job.posts, sent, rowShape)
    /\ \A r \in Requests : /\ Sound(seenJob[r].posts, sent, rowShape)
                           /\ Sound(work[r], sent, rowShape)

OwnerOnly == Sending \cup {"approve_job", "cancel_job", "cancel_commit"}

TasksGated ==
    /\ \A r \in Requests : pc[r] \in OwnerOnly => caller[r] = Owner
    /\ \A r \in Requests, p \in Posts : <<r, p>> \in sent => pc[r] \in Sending
    /\ revoked \subseteq sent

WorkerShapeIdle ==
    rowShape = "worker" => sent = {} /\ \A r \in Requests : todo[r] = {}

GateInv == CopiesSound /\ TasksGated /\ WorkerShapeIdle

(* And the one behind the stored plan: every copy is one whole plan, because *)
(* requests change rows and never add or drop one, and the calendar is drawn *)
(* once, before there is any. What is still to be sent is what is not        *)
(* scheduled yet, and what a cancellation left scheduled is near.            *)
StoredIn(posts) == {p \in Posts : posts[p] # NoRow}

Whole(posts) ==
    /\ StoredIn(posts) = {} \/ \E k \in Plans : StoredIn(posts) = {k} \X calendar
    /\ \A p \in Posts : posts[p].status = "scheduled" => posts[p].by # NoRequest

CopiesWhole ==
    /\ Whole(job.posts)
    /\ \A r \in Requests : Whole(seenJob[r].posts) /\ Whole(work[r])

InHand(r) ==
    /\ todo[r] \subseteq StoredIn(work[r])
    /\ pc[r] # "approve_send" => todo[r] = {}
    /\ pc[r] = "approve_send" => \A p \in Posts :
           work[r][p].status = "pending_validation" => p \in todo[r]
    /\ pc[r] = "cancel_commit" => \A p \in Posts :
           work[r][p].status = "scheduled" => p \in near

BeforeCreate ==
    creation = "idle" =>
        /\ job = NoJob /\ campaign = "absent"
        /\ \A r \in Requests : /\ seenCampaign[r] = "absent"
                               /\ seenJob[r] = NoJob /\ work[r] = NoPosts

PlanInv == /\ CopiesWhole /\ PlanMatchesDecision /\ BeforeCreate
           /\ \A r \in Requests : InHand(r)

-----------------------------------------------------------------------------
(* "This task is the final write gate before human review" (worker.py:920): *)
(* once a human has decided, generation no longer rewrites the plan.         *)
NoWriteAfterDecision ==
    [][job.agent \in {"approved", "cancelled"}
          => job'.agent # "pending_validation"]_vars
=============================================================================
