-------------------------------- MODULE Workflow --------------------------------
(***************************************************************************)
(* The pipelines of microservices/workflow.py. Each inserts a job, sends    *)
(* its messages one after the other (or moves the scoring weights), and     *)
(* then writes the job's status, each in a transaction of its own. A Celery *)
(* task around it starts all over when an exception gets out.               *)
(***************************************************************************)
EXTENDS Leads, Tasks

ASSUME WorkflowConstants == \A m \in Mixes : m.starts \subseteq Nat

VARIABLES
    jobs,       \* the job of each run
    left,       \* messages the run has still to send
    weights,    \* the rows of scoring_weights of the project
    found       \* the rows a feedback loop has read

flowVars == <<jobs, left, weights, found>>

Pipelines == {"l2c", "campaign", "loop"}
(* Percentages; the two dimensions the loop moves.                           *)
Clamp(x) == IF x < 5 THEN 5 ELSE IF x > 70 THEN 70 ELSE x
Weights(by, e, s) == [by |-> by, engagement |-> e, sector |-> s]
Defaults(c) == Weights(c, 35, 25)
Moved_free(w) == [w EXCEPT !.engagement = @ + 5, !.sector = @ - 5]
Moved(w) == [w EXCEPT !.engagement = Clamp(@ + 5), !.sector = Clamp(@ - 5)]
After(n) == Weights(Seed, Clamp(35 + 5 * n), Clamp(25 - 5 * n))

WorkflowInit ==
    /\ jobs = [c \in Calls |-> [n \in Tries |-> "none"]]
    /\ left = [c \in Calls |-> 0]
    /\ weights \in {{}} \cup {{After(n)} : n \in mix.starts}    \* feedback steps behind them
    /\ found = [c \in Calls |-> {}]

SetJob(c, s) == jobs' = [jobs EXCEPT ![c][try[c]] = s]
Job(c) == jobs[c][try[c]]

StartPipeline(c, k) ==
    /\ Begin(c, k, "reading")
    /\ UNCHANGED <<leadVars, taskVars, flowVars>>

(* run_l2c_pipeline reads the campaign and the leads who opted in, one       *)
(* scoring message each; the campaign pipeline is given its leads, and its   *)
(* check of the budget never stops it, as no code writes ai_spent_usd.       *)
Messages(c) == CASE kind[c] = "l2c" -> Cardinality({r \in leads : r.optIn})
                 [] kind[c] = "campaign" -> 2
                 [] OTHER -> 0

ReadInputs(c) ==
    /\ kind[c] \in Pipelines
    /\ Step(c, "reading", "creating")
    /\ left' = [left EXCEPT ![c] = Messages(c)]
    /\ UNCHANGED <<leadVars, taskVars, jobs, weights, found>>

(* The campaign is not there (yet), or the database is not.                  *)
CampaignMissing(c) ==
    /\ kind[c] = "l2c"
    /\ Raise(c, "reading") \/ Outage(c, "reading")
    /\ UNCHANGED <<leadVars, jobs, left, weights, found>>

(* _create_job binds an aware created_at.                                    *)
CreateJob(c) ==
    /\ aware
    /\ Step(c, "creating", IF kind[c] = "loop" THEN "analysing" ELSE "sending")
    /\ SetJob(c, "pending")
    /\ UNCHANGED <<leadVars, taskVars, left, weights, found>>

CreateJobFails(c) ==
    /\ Outage(c, "creating") \/ (~aware /\ Raise(c, "creating"))
    /\ UNCHANGED <<leadVars, jobs, left, weights, found>>

SendMessage(c) ==
    /\ left[c] > 0
    /\ Step(c, "sending", "sending")
    /\ left' = [left EXCEPT ![c] = @ - 1]
    /\ UNCHANGED <<leadVars, taskVars, jobs, weights, found>>

(* The broker is away, or, in the campaign pipeline, the first post's task   *)
(* is given nine arguments and takes four (nothing is sent then).            *)
SendFails(c) ==
    /\ Step(c, "sending", "failing")
    /\ UNCHANGED <<leadVars, taskVars, flowVars>>

Dispatched_any(c) == TRUE
Dispatched(c) == left[c] = 0

(* _update_job_status after dispatch.                                        *)
MarkRunning(c) ==
    /\ Dispatched(c)
    /\ Step(c, "sending", "ok")
    /\ SetJob(c, "running")
    /\ UNCHANGED <<leadVars, taskVars, left, weights, found>>

(* _adjust_scoring_weights reads the project's row with scalar_one_or_none,  *)
(* which raises when there are two.                                          *)
ReadWeights(c) ==
    /\ Step(c, "analysing", IF Cardinality(weights) > 1 THEN "failing" ELSE "adjusting")
    /\ found' = [found EXCEPT ![c] = weights]
    /\ UNCHANGED <<leadVars, taskVars, jobs, left, weights>>

(* A new row keeps its defaults (its fields are None until the flush); the   *)
(* row that was read is written back with what it was, moved.                *)
WroteWeights(c) ==
    IF found[c] = {} THEN weights \cup {Defaults(c)}
    ELSE {w \in weights : w.by \notin {v.by : v \in found[c]}} \cup {Moved(v) : v \in found[c]}

AdjustWeights(c) ==
    /\ Step(c, "adjusting", "adjusted")
    /\ weights' = WroteWeights(c)
    /\ UNCHANGED <<leadVars, taskVars, jobs, left, found>>

LoopFails(c) ==
    /\ Step(c, "analysing", "failing") \/ Step(c, "adjusting", "failing") \/ Step(c, "adjusted", "failing")
    /\ UNCHANGED <<leadVars, taskVars, flowVars>>

(* The campaign was gone, or its weights are moved: the analysis is stored.  *)
MarkCompleted(c) ==
    /\ Step(c, "analysing", "ok") \/ Step(c, "adjusted", "ok")
    /\ SetJob(c, "completed")
    /\ UNCHANGED <<leadVars, taskVars, left, weights, found>>

MarkFailed(c) ==
    /\ Step(c, "failing", "ok")
    /\ SetJob(c, "failed")
    /\ UNCHANGED <<leadVars, taskVars, left, weights, found>>

(* The status cannot be written: the exception gets out.                     *)
MarkFails(c) ==
    /\ Outage(c, "failing")
    /\ UNCHANGED <<leadVars, jobs, left, weights, found>>

FlowSteps(c) ==
    \/ ReadInputs(c) \/ CampaignMissing(c) \/ CreateJob(c) \/ CreateJobFails(c)
    \/ SendMessage(c) \/ SendFails(c) \/ MarkRunning(c)
    \/ ReadWeights(c) \/ AdjustWeights(c) \/ LoopFails(c) \/ MarkCompleted(c)
    \/ MarkFailed(c) \/ MarkFails(c)

JobStates == {"none", "pending", "running", "completed", "failed"}

(* Every weight stays within the limits the loop clamps to.                  *)
InRange(w) == w.engagement \in 5..70 /\ w.sector \in 5..70

WorkflowTypeOK ==
    /\ jobs \in [Calls -> [Tries -> JobStates]]
    /\ left \in [Calls -> Nat]
    /\ \A w \in weights \cup UNION {found[c] : c \in Calls} :
           w.by \in Calls \cup {Seed} /\ InRange(w)

(* A job reads running only when all its messages are at the broker; a task  *)
(* that runs again has no status behind it from the run before, so no two    *)
(* of its jobs claim the dispatch (workflow.py:182-190, 402-410).            *)
JobsTellTheTruth ==
    \A c \in Calls :
        /\ Job(c) = "running" => left[c] = 0
        /\ \A n \in 1..(try[c] - 1) : jobs[c][n] \in {"none", "pending"}

(* Why: a run closes its job with its last step, and the runs to come have   *)
(* none yet.                                                                 *)
JobRows ==
    /\ jobs \in [Calls -> [Tries -> JobStates]] /\ try \in [Calls -> Tries]
    /\ left = [c \in Calls |-> left[c]]
FlowKinds ==
    \A c \in Calls :
        kind[c] \in Pipelines
        \/ /\ pc[c] \notin {"creating", "sending", "failing", "analysing", "adjusting", "adjusted"}
           /\ \A n \in Tries : jobs[c][n] = "none"
JobsOpen == \A c \in Calls : pc[c] # "ok" => Job(c) \in {"none", "pending"}
JobsToCome == \A c \in Calls, n \in Tries : n > try[c] => jobs[c][n] = "none"

JobsInv == CallsTypeOK /\ JobRows /\ FlowKinds /\ JobsOpen /\ JobsToCome /\ JobsTellTheTruth

(* Two rows of weights of one project come only from loops that overlapped   *)
(* (workflow.py:143-149).                                                    *)
WeightsTwiceOverlap ==
    \A v, w \in weights :
        v.by # w.by => {v.by, w.by} \subseteq Calls /\ Overlapped(v.by, w.by)

(* Why: rows are only added or moved, and a loop that found none when it     *)
(* read adds its own beside rows of loops that had not ended when it began.  *)
WritersOf(rows) == {w.by : w \in rows}
FoundThere == \A c \in Calls : WritersOf(found[c]) \subseteq WritersOf(weights)
LoopsAlone ==
    \A c \in Calls :
        pc[c] = "adjusting" /\ found[c] = {} => WritersOf(weights) \subseteq Calls \ before[c]

WritersBegan == \A d \in WritersOf(weights) : d = Seed \/ (d \in Calls /\ pc[d] # "idle")

WeightsInv ==
    found = [c \in Calls |-> found[c]] /\ WritersBegan /\ FoundThere /\ LoopsAlone /\ WeightsTwiceOverlap

WeightRows == [by : Calls \cup {Seed}, engagement : 5..70, sector : 5..70]
FlowTypes == left \in [Calls -> Nat] /\ weights \subseteq WeightRows /\ found \in [Calls -> SUBSET WeightRows]
=============================================================================
