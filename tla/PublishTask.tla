----------------------------- MODULE PublishTask -----------------------------
(***************************************************************************)
(* publish_post_at_scheduled_time (campaign_agent/worker.py): the Celery   *)
(* task that publishes one approved post, and collect_post_analytics, which*)
(* follows it by a day. One attempt of the task uses four transactions: it *)
(* reads the post, then the campaign, then the project, and after the      *)
(* platform call it updates the post. People change the rows in between,   *)
(* the broker may deliver a message twice (visibility_timeout), a worker   *)
(* may die, and any error retries the task from the start.                 *)
(***************************************************************************)
EXTENDS Naturals, FiniteSets

CONSTANTS
    Posts,          \* posts of one campaign
    MaxDeliveries,  \* copies of one task's message the broker hands out
    MaxRetries,     \* max_retries of the task (3 in the code)
    MaxLosses,      \* workers that die (a bound)
    RowStatuses     \* sets of statuses the approval flow may write

ASSUME PublishConstants ==
    /\ MaxDeliveries \in Nat
    /\ MaxRetries \in Nat
    /\ MaxLosses \in Nat

Status == {"absent", "pending_validation", "approved", "scheduled",
           "published", "cancelled"}

(* The task only asks whether the campaign is active.                        *)
CampaignStatus == {"active", "inactive"}

ASSUME RowStatusesOK ==
    \A w \in RowStatuses : w \subseteq Status \ {"absent", "published"}

(* A delivery is one handling of a post's task by some worker, retries       *)
(* included.                                                                 *)
Deliveries == Posts \X (1..MaxDeliveries)

(* The two fields of a stored post the task writes: status, published_at.    *)
Row == [status : Status, at : BOOLEAN]

VARIABLES
    row,        \* the stored posts (workflow_jobs.result)
    campaign,   \* campaigns.status, or "deleted"
    project,    \* the project row exists
    writable,   \* statuses the approval flow writes (never changes)
    pc,         \* where each delivery stands
    tries,      \* self.request.retries
    seenPost,   \* status of post_dict, as the attempt read it
    seenCamp,   \* campaign.status, as the attempt read it
    losses,     \* workers lost so far
    posted,     \* posts made on the platform
    collects,   \* collect_post_analytics tasks sent for a day later
    optimised,  \* check_campaign_optimization was dispatched
    approvedIn  \* history: the row was approved at some time of the attempt

people == <<row, campaign, project, writable>>
reads == <<seenPost, seenCamp>>
analytics == <<collects, optimised>>
vars == <<row, campaign, project, writable, pc, tries, seenPost, seenCamp,
          losses, posted, collects, optimised, approvedIn>>

Running == {"queued", "loading", "guarding", "cleared", "posted", "recorded"}
Ended == {"done", "blocked", "violation", "failed"}

MostPosts == MaxDeliveries * (MaxRetries + 1) + MaxLosses

TypeOK ==
    /\ row \in [Posts -> Row]
    /\ campaign \in CampaignStatus \cup {"deleted"}
    /\ project \in BOOLEAN
    /\ writable \in RowStatuses
    /\ pc \in [Deliveries -> {"unsent"} \cup Running \cup Ended]
    /\ tries \in [Deliveries -> 0..MaxRetries]
    /\ seenPost \in [Deliveries -> Status]
    /\ seenCamp \in [Deliveries -> CampaignStatus \cup {"deleted"}]
    /\ losses \in 0..MaxLosses
    /\ posted \in [Posts -> Nat]
    /\ collects \in [Posts -> Nat]
    /\ optimised \in BOOLEAN
    /\ approvedIn \in [Deliveries -> BOOLEAN]

Init ==
    /\ row = [p \in Posts |-> [status |-> "absent", at |-> FALSE]]
    /\ campaign = "inactive"
    /\ project = TRUE
    /\ writable \in RowStatuses
    /\ pc = [d \in Deliveries |-> "unsent"]
    /\ tries = [d \in Deliveries |-> 0]
    /\ seenPost = [d \in Deliveries |-> "absent"]
    /\ seenCamp = [d \in Deliveries |-> "deleted"]
    /\ losses = 0
    /\ posted = [p \in Posts |-> 0]
    /\ collects = [p \in Posts |-> 0]
    /\ optimised = FALSE
    /\ approvedIn = [d \in Deliveries |-> FALSE]

-----------------------------------------------------------------------------
(* People and the API: generation and approval write post statuses (see      *)
(* CampaignPipeline for who and when), the campaign routes its status;       *)
(* deleting the project deletes the campaign, not the job. A new plan may    *)
(* replace the post.                                                         *)
WriteStatus(p, s) ==
    /\ s \in writable \cup {"absent"}
    /\ row' = [row EXCEPT ![p].status = s]
    /\ approvedIn' = [d \in Deliveries |->
           \/ approvedIn[d]
           \/ pc[d] \in Running /\ d[1] = p /\ s = "approved"]
    /\ UNCHANGED <<campaign, project, writable, pc, tries, reads, losses,
                   posted, analytics>>

WriteCampaign(s) ==
    /\ campaign # "deleted"
    /\ campaign' = s
    /\ UNCHANGED <<row, project, writable, pc, tries, reads, losses, posted,
                   analytics, approvedIn>>

DeleteCampaign ==
    /\ campaign' = "deleted"
    /\ project' \in {FALSE, project}
    /\ UNCHANGED <<row, writable, pc, tries, reads, losses, posted, analytics,
                   approvedIn>>

-----------------------------------------------------------------------------
(* An attempt begins: whatever an earlier one read is gone.                  *)
Begin(d, q) ==
    /\ pc' = [pc EXCEPT ![d] = q]
    /\ approvedIn' = [approvedIn EXCEPT ![d] = row[d[1]].status = "approved"]

(* It ends, for good or to wait for another attempt to be due.               *)
End(d, q) ==
    /\ pc' = [pc EXCEPT ![d] = q]
    /\ seenPost' = [seenPost EXCEPT ![d] = "absent"]
    /\ seenCamp' = [seenCamp EXCEPT ![d] = "deleted"]
    /\ approvedIn' = [approvedIn EXCEPT ![d] = FALSE]

(* approve_and_schedule sends the task.                                      *)
Send(d) ==
    /\ d[2] = 1
    /\ pc[d] = "unsent"
    /\ Begin(d, "queued")
    /\ UNCHANGED <<people, tries, reads, losses, posted, analytics>>

(* An unacknowledged message (acks_late) goes out again after the hour of    *)
(* visibility_timeout, while the first delivery waits for its eta or runs.   *)
Redeliver(d) ==
    /\ d[2] > 1
    /\ pc[d] = "unsent"
    /\ pc[<<d[1], d[2] - 1>>] \in Running
    /\ Begin(d, "queued")
    /\ UNCHANGED <<people, tries, reads, losses, posted, analytics>>

(* _load_post_and_campaign, first session.                                   *)
LoadPost(d) ==
    /\ pc[d] = "queued"
    /\ row[d[1]].status # "absent"
    /\ pc' = [pc EXCEPT ![d] = "loading"]
    /\ seenPost' = [seenPost EXCEPT ![d] = row[d[1]].status]
    /\ UNCHANGED <<people, tries, seenCamp, losses, posted, analytics, approvedIn>>

(* The second session.                                                       *)
LoadCampaign(d) ==
    /\ pc[d] = "loading"
    /\ campaign # "deleted"
    /\ pc' = [pc EXCEPT ![d] = "guarding"]
    /\ seenCamp' = [seenCamp EXCEPT ![d] = campaign]
    /\ UNCHANGED <<people, tries, seenPost, losses, posted, analytics, approvedIn>>

(* _check_publish_guards: the first two checks look at the copies, the third *)
(* at the project's row.                                                     *)
Publishable(d) == seenPost[d] = "approved"

GuardPass(d) ==
    /\ pc[d] = "guarding"
    /\ Publishable(d) /\ seenCamp[d] = "active" /\ project
    /\ pc' = [pc EXCEPT ![d] = "cleared"]
    /\ UNCHANGED <<people, tries, reads, losses, posted, analytics, approvedIn>>

GuardBlock(d) ==
    /\ pc[d] = "guarding"
    /\ \/ ~(Publishable(d) /\ seenCamp[d] = "active") /\ End(d, "blocked")
       \/ Publishable(d) /\ seenCamp[d] = "active" /\ ~project
          /\ End(d, "violation")
    /\ UNCHANGED <<people, tries, losses, posted, analytics>>

(* _publish_via_platform, a stub for the social publisher.                   *)
Publish(d) ==
    /\ pc[d] = "cleared"
    /\ pc' = [pc EXCEPT ![d] = "posted"]
    /\ posted' = [posted EXCEPT ![d[1]] = @ + 1]
    /\ UNCHANGED <<people, tries, reads, losses, analytics, approvedIn>>

(* _update_post_status changes the post inside the list it loaded. The value *)
(* the session compares with at flush is that same list, so it sees no       *)
(* change and writes none.                                                   *)
Marked(r) == [status |-> "published", at |-> TRUE]

LoadedValue(r) == IF r.status = "absent" THEN r ELSE Marked(r)

Flush(stored, loaded, value) == IF value = loaded THEN stored ELSE value

Update(d) ==
    /\ pc[d] = "posted"
    /\ LET r == row[d[1]]
           new == IF r.status = "absent" THEN r ELSE Marked(r)
       IN row' = [row EXCEPT ![d[1]] = Flush(r, LoadedValue(r), new)]
    /\ pc' = [pc EXCEPT ![d] = "recorded"]
    /\ UNCHANGED <<campaign, project, writable, tries, reads, losses, posted,
                   analytics, approvedIn>>

(* The task ends by sending collect_post_analytics with a day's countdown.   *)
DispatchFrom_early == "cleared"
DispatchFrom == "recorded"

Dispatch(d) ==
    /\ pc[d] = DispatchFrom
    /\ End(d, "done")
    /\ collects' = [collects EXCEPT ![d[1]] = @ + 1]
    /\ UNCHANGED <<people, tries, losses, posted, optimised>>

(* Any exception but UnauthorizedPublicationError (a missing post or         *)
(* campaign, the database, the broker, the soft time limit) retries the      *)
(* whole task, after the platform call too.                                  *)
MayRetry_extra(d) == tries[d] <= MaxRetries
MayRetry(d) == tries[d] < MaxRetries

Tried_reset(d) == 0
Tried(d) == tries[d] + 1

RetryAt_cached == "guarding"
RetryAt == "queued"

Retry(d) ==
    /\ pc[d] \in Running
    /\ MayRetry(d)
    /\ tries' = [tries EXCEPT ![d] = Tried(d)]
    /\ Begin(d, RetryAt)
    /\ UNCHANGED <<people, reads, losses, posted, analytics>>

Fail(d) ==
    /\ pc[d] \in Running
    /\ ~MayRetry(d)
    /\ End(d, "failed")
    /\ UNCHANGED <<people, tries, losses, posted, analytics>>

(* reject_on_worker_lost: the message is requeued as it was.                 *)
WorkerLost(d) ==
    /\ pc[d] \in Running \ {"queued"}
    /\ losses < MaxLosses
    /\ losses' = losses + 1
    /\ Begin(d, "queued")
    /\ UNCHANGED <<people, tries, reads, posted, analytics>>

(* The same, between the last call of the task and its acknowledgement.      *)
DispatchLost(d) ==
    /\ pc[d] = DispatchFrom
    /\ losses < MaxLosses
    /\ losses' = losses + 1
    /\ collects' = [collects EXCEPT ![d[1]] = @ + 1]
    /\ Begin(d, "queued")
    /\ UNCHANGED <<people, tries, reads, posted, optimised>>

(* collect_post_analytics asks for the optimisation only of a post whose row *)
(* says when it was published, from the campaign's 7th day on.               *)
Collect(p, day7) ==
    /\ collects[p] > 0
    /\ row[p].status # "absent" /\ campaign # "deleted"
    /\ optimised' = (optimised \/ (row[p].at /\ day7))
    /\ UNCHANGED <<people, pc, tries, reads, losses, posted, collects, approvedIn>>

-----------------------------------------------------------------------------
People == \/ \E p \in Posts, s \in Status : WriteStatus(p, s)
          \/ \E s \in CampaignStatus : WriteCampaign(s)
          \/ DeleteCampaign

DeliveryStep(d) == \/ LoadPost(d) \/ LoadCampaign(d) \/ GuardPass(d)
                   \/ GuardBlock(d) \/ Publish(d) \/ Update(d) \/ Dispatch(d) \/ Retry(d) \/ Fail(d)

Next == \/ People
        \/ \E d \in Deliveries :
              \/ Send(d) \/ Redeliver(d) \/ DeliveryStep(d)
              \/ WorkerLost(d) \/ DispatchLost(d)
        \/ \E p \in Posts, b \in BOOLEAN : Collect(p, b)

Spec == Init /\ [][Next]_vars

(* A worker that is up carries every message it holds to an end.             *)
FairSpec == Spec /\ \A d \in Deliveries : WF_vars(DeliveryStep(d))

-----------------------------------------------------------------------------
(* However the two reads, the platform call and the retries interleave with  *)
(* people's writes, a post is only ever put on the platform under an         *)
(* approval that was in force during that very attempt: a retry reads again. *)
FreshApproval ==
    \A d \in Deliveries : pc[d] \in {"posted", "recorded"} => approvedIn[d]

(* Publication is at least once, and no more than once per attempt: the      *)
(* deliveries, their retries and the workers lost bound how often a post can *)
(* appear on the platform.                                                   *)
BoundedPublications == \A p \in Posts : posted[p] <= MostPosts

(* The approval flow as deployed never writes "approved", and then nothing   *)
(* is ever published (CampaignPipeline!NeverApprovedRow).                    *)
NothingPublished ==
    "approved" \notin writable => \A p \in Posts : posted[p] = 0

(* Analytics are asked for at most once per appearance on the platform.      *)
AnalyticsFollowPosts ==
    \A p \in Posts : collects[p] <= posted[p]

(* The mid-campaign optimisation is never dispatched, whatever is published: *)
(* the stored row it asks never gets its published_at.                       *)
OptimisationNever == ~optimised

(* Every delivery handed to a worker ends: published, blocked, refused or    *)
(* failed.                                                                   *)
DeliveriesEnd == \A d \in Deliveries : pc[d] = "queued" ~> pc[d] \in Ended

(* The inductive invariant behind the three: what a delivery past its reads  *)
(* copied was the row of this attempt, and only an approved copy gets past   *)
(* the guards; the stored rows never learn of a publication; and where       *)
(* nothing writes "approved", no row and no copy has it.                     *)
CopiesFresh ==
    \A d \in Deliveries :
        /\ pc[d] \in Running /\ row[d[1]].status = "approved" => approvedIn[d]
        /\ pc[d] \in Running \ {"queued"} /\ seenPost[d] = "approved"
               => approvedIn[d]
        /\ pc[d] \in {"cleared", "posted", "recorded"} => seenPost[d] = "approved"

RowsUnmarked == ~optimised /\ \A p \in Posts : ~row[p].at

NoApproval ==
    "approved" \notin writable =>
        /\ \A p \in Posts : row[p].status # "approved" /\ posted[p] = 0
        /\ \A d \in Deliveries : seenPost[d] # "approved"

PublishInv == CopiesFresh /\ RowsUnmarked /\ NoApproval

(* And the one behind the two counts. A publication whose analytics are not  *)
(* sent yet has its delivery at "posted" or "recorded"; and each appearance  *)
(* on the platform is an attempt of a delivery that got past the platform    *)
(* call, or may have, unless the worker that made it was lost.               *)
Unanswered(p) == {k \in 1..MaxDeliveries : pc[<<p, k>>] \in {"posted", "recorded"}}

Attempted(p) ==
    {x \in (1..MaxDeliveries) \X (0..MaxRetries) :
        \/ x[2] < tries[<<p, x[1]>>]
        \/ /\ x[2] = tries[<<p, x[1]>>]
           /\ pc[<<p, x[1]>>] \in {"posted", "recorded", "done", "failed"}}

Answered == \A p \in Posts : collects[p] + Cardinality(Unanswered(p)) <= posted[p]
Accounted == \A p \in Posts : posted[p] <= Cardinality(Attempted(p)) + losses

(* "Update a post's status field inside its parent WorkflowJob JSONB result" *)
(* (worker.py:263): the update of a post that is still stored leaves it      *)
(* published.                                                                *)
StatusRecorded ==
    [][\A d \in Deliveries : Update(d) =>
          row'[d[1]].status \in {"absent", "published"}]_vars
=============================================================================
