------------------------------ MODULE WorkflowProofs ------------------------------
(***************************************************************************)
(* Proofs about the jobs of Workflow, for any number of calls, any leads,   *)
(* and any other calls beside the pipelines.                               *)
(***************************************************************************)
EXTENDS Workflow, TLAPS

jobVars == <<callVars, taskVars, leadVars, flowVars>>

(* What the rest of the back office does: it begins, moves, tries again and  *)
(* loses calls of other kinds, and changes leads.                            *)
OthersForFlow ==
    /\ UNCHANGED flowVars /\ CallsTypeOK' /\ try' \in [Calls -> Tries]
    /\ \A c \in Calls :
           /\ {kind[c], kind'[c]} \cap Pipelines # {} =>
                  kind'[c] = kind[c] /\ pc'[c] = pc[c] /\ try'[c] = try[c]
           /\ kind'[c] \notin Pipelines =>
                  pc'[c] \notin {"creating", "sending", "failing", "analysing", "adjusting", "adjusted"}

FlowNext ==
    \E c \in Calls :
        \/ \E k \in Pipelines : StartPipeline(c, k)
        \/ FlowSteps(c)
        \/ Lose(c) /\ UNCHANGED <<taskVars, leadVars, flowVars>>

FlowSpec ==
    /\ CallsInit /\ TasksInit /\ LeadsInit /\ WorkflowInit
    /\ [][FlowNext \/ OthersForFlow]_jobVars

LEMMA FlowStarts == CallsInit /\ TasksInit /\ LeadsInit /\ WorkflowInit => JobsInv
<1> SUFFICES ASSUME CallsInit, TasksInit, WorkflowInit PROVE JobsInv
  OBVIOUS
<1>1. CallsTypeOK
  BY DEF CallsInit, CallsTypeOK
<1>2. \A c \in Calls : try[c] = 1 /\ pc[c] = "idle" /\ \A n \in Tries : jobs[c][n] = "none"
  BY DEF CallsInit, TasksInit, WorkflowInit
<1>3. JobRows
  <2>1. try \in [Calls -> Tries]
    BY DEF TasksInit, Tries
  <2>2. jobs \in [Calls -> [Tries -> JobStates]]
    BY DEF WorkflowInit, JobStates
  <2>3. QED
    BY <2>1, <2>2 DEF WorkflowInit, JobRows
<1>4. \A c \in Calls : try[c] \in Tries /\ 1..(try[c] - 1) = {}
  BY <1>2 DEF Tries
<1>5. \A c \in Calls : Job(c) = "none"
  BY <1>2, <1>4 DEF Job
<1>6. JobsOpen /\ JobsToCome /\ FlowKinds
  BY <1>2, <1>5 DEF JobsOpen, JobsToCome, FlowKinds
<1>7. JobsTellTheTruth
  BY <1>4, <1>5 DEF JobsTellTheTruth
<1>8. QED
  BY <1>1, <1>3, <1>6, <1>7 DEF JobsInv

(* A pipeline goes on in the same run; it may write its job, and may close   *)
(* it only with its last step.                                               *)
LEMMA GoesOn ==
    ASSUME JobsInv, NEW c \in Calls, NEW p, NEW q, NEW s \in JobStates, Step(c, p, q),
           kind[c] \in Pipelines, p # "ok", try' = try,
           jobs' = [jobs EXCEPT ![c][try[c]] = s], left' = [j \in Calls |-> left'[j]],
           \A d \in Calls \ {c} : left'[d] = left[d],
           q # "ok" => s \in {"none", "pending"},
           s = "running" => left'[c] = 0
    PROVE  JobsInv'
<1>1. /\ kind' = kind /\ pc[c] = p /\ pc'[c] = q /\ CallsTypeOK'
      /\ \A d \in Calls \ {c} : pc'[d] = pc[d]
  BY DEF Step, JobsInv, CallsTypeOK
<1>2. try[c] \in Tries /\ \A d \in Calls : try[d] \in Tries /\ try'[d] = try[d]
  BY DEF JobsInv, JobRows
<1>3. /\ jobs'[c][try[c]] = s
      /\ \A n \in Tries : n # try[c] => jobs'[c][n] = jobs[c][n]
      /\ \A d \in Calls \ {c} : jobs'[d] = jobs[d]
  BY <1>2 DEF JobsInv, JobRows
<1>4. Job(c)' = s /\ \A d \in Calls \ {c} : Job(d)' = Job(d)
  BY <1>2, <1>3 DEF Job
<1>5. JobRows'
  BY <1>2 DEF JobsInv, JobRows
<1>6. FlowKinds'
  BY <1>1, <1>3 DEF JobsInv, FlowKinds
<1>7. JobsOpen'
  BY <1>1, <1>4 DEF JobsInv, JobsOpen
<1>8. JobsToCome'
  BY <1>2, <1>3 DEF JobsInv, JobsToCome, Tries
<1>9. JobsTellTheTruth'
  <2>1. \A n \in 1..(try[c] - 1) : n \in Tries /\ n # try[c]
    BY <1>2 DEF Tries
  <2>2. QED
    BY <1>2, <1>3, <1>4, <2>1 DEF JobsInv, JobsTellTheTruth
<1>10. QED
  BY <1>1, <1>5, <1>6, <1>7, <1>8, <1>9 DEF JobsInv

(* ... and may leave it alone before that.                                   *)
LEMMA JobStays ==
    ASSUME JobsInv, NEW c \in Calls, NEW p, NEW q, Step(c, p, q),
           kind[c] \in Pipelines, p # "ok", q # "ok", try' = try, jobs' = jobs,
           left' = [j \in Calls |-> left'[j]], \A d \in Calls \ {c} : left'[d] = left[d]
    PROVE  JobsInv'
<1>1. pc[c] # "ok" /\ Job(c) \in JobStates
  BY DEF Step, JobsInv, JobRows, Job
<1>2. Job(c) \in {"none", "pending"}
  BY <1>1 DEF JobsInv, JobsOpen
<1>3. jobs' = [jobs EXCEPT ![c][try[c]] = Job(c)]
  BY DEF JobsInv, JobRows, Job
<1>4. QED
  BY <1>1, <1>2, <1>3, GoesOn

(* An exception gets out: this run is over, the next one has no job yet.     *)
LEMMA EscapeInv ==
    ASSUME JobsInv, NEW c \in Calls, NEW p, Escape(c, p), kind[c] \in Pipelines, p # "ok",
           UNCHANGED <<jobs, left>>
    PROVE  JobsInv'
<1> DEFINE t == IF TriedAgain(c) THEN try[c] + 1 ELSE try[c]
<1>1. /\ kind' = kind /\ pc[c] = p /\ pc'[c] \in {"reading", "failed"} /\ CallsTypeOK'
      /\ \A d \in Calls \ {c} : pc'[d] = pc[d]
  BY DEF Escape, Step, JobsInv, CallsTypeOK
<1>2. try' = [try EXCEPT ![c] = t]
  BY DEF Escape
<1>3. try[c] \in Tries /\ t \in Tries
  <2>1. \A k : Retries(k) \in 0..3
    BY DEF Retries
  <2>2. QED
    BY <2>1 DEF TriedAgain, Tries, JobsInv, JobRows
<1>4. /\ try'[c] = t
      /\ \A d \in Calls \ {c} : try'[d] = try[d]
  BY <1>2 DEF JobsInv, JobRows
<1>5. JobRows'
  BY <1>2, <1>3 DEF JobsInv, JobRows
<1>6. Job(c) \in {"none", "pending"} /\ (t # try[c] => t > try[c] /\ jobs[c][t] = "none")
  BY <1>1, <1>3 DEF JobsInv, JobsOpen, JobsToCome, Tries
<1>7. Job(c)' \in {"none", "pending"} /\ \A d \in Calls \ {c} : Job(d)' = Job(d)
  BY <1>4, <1>6 DEF Job
<1>8. FlowKinds'
  BY <1>1 DEF JobsInv, FlowKinds
<1>9. JobsOpen'
  BY <1>1, <1>7 DEF JobsInv, JobsOpen
<1>10. JobsToCome'
  BY <1>3, <1>4 DEF JobsInv, JobsToCome, Tries
<1>11. JobsTellTheTruth'
  <2>1. \A n \in 1..(t - 1) : n \in 1..(try[c] - 1) \/ n = try[c]
    BY <1>3 DEF Tries
  <2>2. \A n \in 1..(t - 1) : jobs[c][n] \in {"none", "pending"}
    BY <1>6, <2>1 DEF JobsInv, JobsTellTheTruth, Job
  <2>3. QED
    BY <1>4, <1>7, <2>2 DEF JobsInv, JobsTellTheTruth
<1>12. QED
  BY <1>1, <1>5, <1>8, <1>9, <1>10, <1>11 DEF JobsInv

LEMMA StartInv == ASSUME JobsInv, NEW c \in Calls, NEW k \in Pipelines, StartPipeline(c, k) PROVE JobsInv'
<1>1. /\ pc' = [pc EXCEPT ![c] = "reading"] /\ kind' = [kind EXCEPT ![c] = k] /\ pc[c] = "idle"
      /\ UNCHANGED <<try, jobs, left>>
  BY DEF StartPipeline, Begin, MayBegin, taskVars, flowVars
<1>2. CallsTypeOK' /\ JobRows'
  BY <1>1 DEF JobsInv, CallsTypeOK, JobRows
<1>3. /\ pc'[c] = "reading" /\ kind'[c] \in Pipelines
      /\ \A d \in Calls \ {c} : pc'[d] = pc[d] /\ kind'[d] = kind[d]
  BY <1>1 DEF JobsInv, CallsTypeOK
<1>4. \A d \in Calls : Job(d)' = Job(d)
  BY <1>1 DEF Job
<1>5. FlowKinds' /\ JobsOpen'
  BY <1>1, <1>3, <1>4 DEF JobsInv, FlowKinds, JobsOpen
<1>6. JobsToCome' /\ JobsTellTheTruth'
  BY <1>1, <1>4 DEF JobsInv, JobsToCome, JobsTellTheTruth
<1>7. QED
  BY <1>2, <1>5, <1>6 DEF JobsInv

(* The suspension points of a pipeline are only ever a pipeline's.           *)
LEMMA OwnStep ==
    ASSUME JobsInv, NEW c \in Calls,
           pc[c] \in {"creating", "sending", "failing", "analysing", "adjusting", "adjusted"}
    PROVE  kind[c] \in Pipelines
  BY DEF JobsInv, FlowKinds

LEMMA SameJob ==
    ASSUME JobsInv, NEW c \in Calls
    PROVE  Job(c) \in JobStates /\ jobs = [jobs EXCEPT ![c][try[c]] = Job(c)]
  BY DEF JobsInv, JobRows, Job

LEMMA QuietStepInv ==
    ASSUME JobsInv, NEW c \in Calls,
           \/ ReadInputs(c) \/ SendMessage(c) \/ SendFails(c)
           \/ ReadWeights(c) \/ AdjustWeights(c) \/ LoopFails(c)
    PROVE  JobsInv'
<1>1. left = [d \in Calls |-> left[d]]
  BY DEF JobsInv, JobRows
<1>2. CASE ReadInputs(c)
  BY <1>1, <1>2, JobStays DEF ReadInputs, taskVars
<1>3. CASE SendMessage(c)
  <2>1. Step(c, "sending", "sending") /\ kind[c] \in Pipelines
    BY <1>3, OwnStep DEF SendMessage, Step
  <2>2. QED
    BY <1>1, <1>3, <2>1, JobStays DEF SendMessage, taskVars
<1>4. CASE SendFails(c)
  <2>1. Step(c, "sending", "failing") /\ kind[c] \in Pipelines
    BY <1>4, OwnStep DEF SendFails, Step
  <2>2. QED
    BY <1>1, <1>4, <2>1, JobStays DEF SendFails, taskVars, flowVars
<1>5. CASE ReadWeights(c)
  <2>1. PICK q \in {"failing", "adjusting"} : Step(c, "analysing", q)
    BY <1>5 DEF ReadWeights
  <2>2. kind[c] \in Pipelines
    BY <2>1, OwnStep DEF Step
  <2>3. QED
    BY <1>1, <1>5, <2>1, <2>2, JobStays DEF ReadWeights, taskVars
<1>6. CASE AdjustWeights(c)
  <2>1. Step(c, "adjusting", "adjusted") /\ kind[c] \in Pipelines
    BY <1>6, OwnStep DEF AdjustWeights, Step
  <2>2. QED
    BY <1>1, <1>6, <2>1, JobStays DEF AdjustWeights, taskVars
<1>7. CASE LoopFails(c)
  <2>1. PICK p \in {"analysing", "adjusting", "adjusted"} : Step(c, p, "failing")
    BY <1>7 DEF LoopFails
  <2>2. kind[c] \in Pipelines
    BY <2>1, OwnStep DEF Step
  <2>3. QED
    BY <1>1, <1>7, <2>1, <2>2, JobStays DEF LoopFails, taskVars, flowVars
<1>8. QED
  BY <1>2, <1>3, <1>4, <1>5, <1>6, <1>7

LEMMA JobStepInv ==
    ASSUME JobsInv, NEW c \in Calls,
           CreateJob(c) \/ MarkRunning(c) \/ MarkCompleted(c) \/ MarkFailed(c)
    PROVE  JobsInv'
<1>1. left = [d \in Calls |-> left[d]]
  BY DEF JobsInv, JobRows
<1>2. CASE CreateJob(c)
  <2>1. PICK q \in {"analysing", "sending"} : Step(c, "creating", q)
    BY <1>2 DEF CreateJob
  <2>2. kind[c] \in Pipelines
    BY <2>1, OwnStep DEF Step
  <2>3. QED
    BY <1>1, <1>2, <2>1, <2>2, GoesOn DEF CreateJob, SetJob, JobStates, taskVars
<1>3. CASE MarkRunning(c)
  <2>1. Step(c, "sending", "ok") /\ kind[c] \in Pipelines
    BY <1>3, OwnStep DEF MarkRunning, Step
  <2>2. QED
    BY <1>1, <1>3, <2>1, GoesOn DEF MarkRunning, Dispatched, SetJob, JobStates, taskVars
<1>4. CASE MarkCompleted(c)
  <2>1. PICK p \in {"analysing", "adjusted"} : Step(c, p, "ok")
    BY <1>4 DEF MarkCompleted
  <2>2. kind[c] \in Pipelines
    BY <2>1, OwnStep DEF Step
  <2>3. QED
    BY <1>1, <1>4, <2>1, <2>2, GoesOn DEF MarkCompleted, SetJob, JobStates, taskVars
<1>5. CASE MarkFailed(c)
  <2>1. Step(c, "failing", "ok") /\ kind[c] \in Pipelines
    BY <1>5, OwnStep DEF MarkFailed, Step
  <2>2. QED
    BY <1>1, <1>5, <2>1, GoesOn DEF MarkFailed, SetJob, JobStates, taskVars
<1>6. QED
  BY <1>2, <1>3, <1>4, <1>5

LEMMA RaisesInv ==
    ASSUME JobsInv, NEW c \in Calls, CampaignMissing(c) \/ CreateJobFails(c) \/ MarkFails(c)
    PROVE  JobsInv'
<1>1. UNCHANGED <<jobs, left>>
  BY DEF CampaignMissing, CreateJobFails, MarkFails
<1>2. PICK p \in {"reading", "creating", "failing"} :
          Escape(c, p) /\ (p = "reading" => kind[c] = "l2c")
  BY DEF CampaignMissing, CreateJobFails, MarkFails, Raise, Outage
<1>3. kind[c] \in Pipelines
  BY <1>2, OwnStep DEF Escape, Step, Pipelines
<1>4. QED
  BY <1>1, <1>2, <1>3, EscapeInv

LEMMA LoseInv ==
    ASSUME JobsInv, NEW c \in Calls, Lose(c), UNCHANGED <<taskVars, leadVars, flowVars>>
    PROVE  JobsInv'
<1>1. /\ pc' = [pc EXCEPT ![c] = "lost"] /\ kind' = kind /\ pc[c] # "ok"
      /\ UNCHANGED <<try, jobs, left>>
  BY DEF Lose, Running, Ended, taskVars, flowVars
<1>2. CallsTypeOK' /\ JobRows' /\ pc'[c] = "lost" /\ \A d \in Calls \ {c} : pc'[d] = pc[d]
  BY <1>1 DEF JobsInv, CallsTypeOK, JobRows
<1>3. \A d \in Calls : Job(d)' = Job(d)
  BY <1>1 DEF Job
<1>4. FlowKinds' /\ JobsOpen'
  BY <1>1, <1>2, <1>3 DEF JobsInv, FlowKinds, JobsOpen
<1>5. JobsToCome' /\ JobsTellTheTruth'
  BY <1>1, <1>3 DEF JobsInv, JobsToCome, JobsTellTheTruth
<1>6. QED
  BY <1>2, <1>4, <1>5 DEF JobsInv

LEMMA FlowOthersInv == ASSUME JobsInv, OthersForFlow PROVE JobsInv'
<1>1. UNCHANGED <<jobs, left>> /\ CallsTypeOK' /\ JobRows'
  BY DEF OthersForFlow, flowVars, JobsInv, JobRows
<1>2. \A c \in Calls : try[c] \in Tries /\ try'[c] \in Tries
  BY <1>1 DEF JobsInv, JobRows
<1>3. \A c \in Calls :
          \/ kind'[c] \in Pipelines /\ kind'[c] = kind[c] /\ pc'[c] = pc[c] /\ try'[c] = try[c]
          \/ kind'[c] \notin Pipelines /\ \A n \in Tries : jobs[c][n] = "none"
  BY DEF OthersForFlow, JobsInv, FlowKinds
<1>4. FlowKinds'
  BY <1>1, <1>3 DEF OthersForFlow, JobsInv, FlowKinds
<1>5. \A c \in Calls : (Job(c)' = Job(c) /\ pc'[c] = pc[c]) \/ Job(c)' = "none"
  BY <1>1, <1>2, <1>3 DEF Job
<1>6. JobsOpen'
  BY <1>5 DEF JobsInv, JobsOpen
<1>7. JobsToCome'
  BY <1>1, <1>3 DEF JobsInv, JobsToCome
<1>8. JobsTellTheTruth'
  <2>1. \A c \in Calls : \A n \in 1..(try'[c] - 1) : n \in Tries
    BY <1>2 DEF Tries
  <2>2. \A c \in Calls : Job(c)' = "running" => Job(c) = "running"
    BY <1>5
  <2>3. QED
    BY <1>1, <1>3, <2>1, <2>2 DEF JobsInv, JobsTellTheTruth
<1>9. QED
  BY <1>1, <1>4, <1>6, <1>7, <1>8 DEF JobsInv

(* The inductive invariant, whatever fails, dies or is tried again.          *)
THEOREM JobsInvariant == FlowSpec => []JobsInv
<1>1. JobsInv /\ [FlowNext \/ OthersForFlow]_jobVars => JobsInv'
  <2>1. ASSUME JobsInv, NEW c \in Calls, FlowSteps(c) PROVE JobsInv'
    BY <2>1, QuietStepInv, JobStepInv, RaisesInv DEF FlowSteps
  <2>2. ASSUME JobsInv, UNCHANGED jobVars PROVE JobsInv'
    <3>1. UNCHANGED <<kind, pc, try, jobs, left>>
      BY <2>2 DEF jobVars, callVars, taskVars, flowVars
    <3>2. QED
      BY <2>2, <3>1 DEF JobsInv, CallsTypeOK, JobRows, FlowKinds, JobsOpen, JobsToCome,
         JobsTellTheTruth, Job
  <2>3. QED
    BY <2>1, <2>2, StartInv, LoseInv, FlowOthersInv DEF FlowNext
<1>2. QED
  BY <1>1, FlowStarts, PTL DEF FlowSpec

(* Whatever fails, dies or is tried again, a job that reads running has all  *)
(* its messages at the broker, and only the last run of a task has a job     *)
(* that claims anything (workflow.py:182-190, 402-410).                      *)
THEOREM JobsSafety == FlowSpec => []JobsTellTheTruth
<1>1. JobsInv => JobsTellTheTruth
  BY DEF JobsInv
<1>2. QED
  BY <1>1, JobsInvariant, PTL
=============================================================================
