----------------------------- MODULE BackOfficeProofs -----------------------------
(***************************************************************************)
(* Proofs about the services as they run together: every step is a step of  *)
(* one call, and each service sees the others only as calls of other kinds. *)
(* So what is proved of each beside any others holds of the whole.          *)
(***************************************************************************)
EXTENDS BackOffice, WorkflowProofs, CountersProofs, SequenceTheorems, WellFoundedInduction

----------------------------------------------------------------------------
\* One call at a time

(* What a step of call c does to the calls: it begins, or goes on.           *)
Goes(c) ==
    /\ CallsInv'
    /\ \A d \in Calls \ {c} :
           /\ kind'[d] = kind[d] /\ pc'[d] = pc[d] /\ before'[d] = before[d]
           /\ try'[d] = try[d] /\ given'[d] = given[d] /\ made'[d] = made[d]
    /\ mix' = mix /\ aware' = aware
    /\ kind'[c] # "none" /\ pc'[c] # "idle"
    /\ \/ /\ pc[c] = "idle" /\ kind[c] = "none" /\ pc'[c] # "lost"
          /\ before'[c] = {d \in Calls : pc[d] \in Ended}
       \/ /\ Running(c) /\ kind'[c] = kind[c] /\ before'[c] = before[c] /\ given'[c] = given[c]

(* What it does to the tasks.                                                *)
TaskGoes(c) ==
    /\ try' \in [Calls -> Tries] /\ trouble' \in [Calls -> BOOLEAN]
    /\ given' = [d \in Calls |-> given'[d]] /\ made' = [d \in Calls |-> made'[d]]
    /\ \A d \in Calls \ {c} : try'[d] = try[d] /\ given'[d] = given[d] /\ made'[d] = made[d]

LEMMA OwnersKinds ==
    /\ Owners("idle") = {"none"}
    /\ \A p : p # "idle" => Owners(p) \subseteq Kinds \ {"none"}
    /\ \A p \in {"reading", "ok", "failed", "lost", "unrecorded", "open", "refused"} :
           Owners(p) = Kinds \ {"none"}
  BY DEF Owners, Kinds, Pipelines

LEMMA TasksStay ==
    ASSUME CallsInv, NEW c \in Calls, UNCHANGED taskVars PROVE TaskGoes(c) /\ given' = given
  BY DEF CallsInv, taskVars, TaskGoes

LEMMA BeginGoes ==
    ASSUME CallsInv, NEW c \in Calls, NEW k, NEW q, Begin(c, k, q), TaskGoes(c),
           q \notin {"idle", "lost"}, k \in Owners(q)
    PROVE  Goes(c) /\ kind'[c] = k /\ pc'[c] = q
<1>1. /\ kind' = [kind EXCEPT ![c] = k] /\ pc' = [pc EXCEPT ![c] = q] /\ pc[c] = "idle"
      /\ before' = [before EXCEPT ![c] = {d \in Calls : pc[d] \in Ended}]
      /\ mix' = mix /\ aware' = aware
  BY DEF Begin, MayBegin
<1>2. /\ CallsTypeOK' /\ kind'[c] = k /\ pc'[c] = q
      /\ \A d \in Calls \ {c} : kind'[d] = kind[d] /\ pc'[d] = pc[d]
  BY <1>1 DEF CallsInv, CallsTypeOK
<1>3. /\ before' \in [Calls -> SUBSET Calls] /\ before'[c] = {d \in Calls : pc[d] \in Ended}
      /\ \A d \in Calls \ {c} : before'[d] = before[d]
  BY <1>1 DEF CallsInv
<1>4. kind[c] = "none" /\ k # "none"
  BY <1>1, OwnersKinds DEF CallsInv, OwnPoints
<1>5. OwnPoints'
  BY <1>2 DEF CallsInv, OwnPoints
<1>6. EndedBefore'
  <2>1. \A d \in Calls : pc[d] \in Ended => d # c
    BY <1>1 DEF Ended
  <2>2. QED
    BY <1>2, <1>3, <2>1 DEF CallsInv, EndedBefore
<1>7. CallsInv'
  BY <1>1, <1>2, <1>3, <1>5, <1>6 DEF CallsInv, TaskGoes
<1>8. QED
  BY <1>1, <1>2, <1>3, <1>4, <1>7 DEF Goes, TaskGoes

LEMMA StepGoes ==
    ASSUME CallsInv, NEW c \in Calls, NEW p, NEW q, Step(c, p, q), TaskGoes(c),
           p \notin Ended \cup {"idle"}, q # "idle", kind[c] \in Owners(q), given'[c] = given[c]
    PROVE  Goes(c) /\ kind'[c] = kind[c] /\ pc'[c] = q
<1>1. /\ pc[c] = p /\ pc' = [pc EXCEPT ![c] = q] /\ UNCHANGED <<mix, aware, kind, before>>
  BY DEF Step
<1>2. CallsTypeOK' /\ pc'[c] = q /\ \A d \in Calls \ {c} : pc'[d] = pc[d]
  BY <1>1 DEF CallsInv, CallsTypeOK
<1>3. kind[c] # "none"
  BY <1>1, OwnersKinds DEF CallsInv, OwnPoints
<1>4. OwnPoints' /\ EndedBefore'
  BY <1>1, <1>2 DEF CallsInv, OwnPoints, EndedBefore
<1>5. CallsInv'
  BY <1>1, <1>2, <1>4 DEF CallsInv, TaskGoes
<1>6. QED
  BY <1>1, <1>2, <1>3, <1>5 DEF Goes, TaskGoes, Running

LEMMA AskGoes ==
    ASSUME CallsInv, NEW c \in Calls, NEW k \in Kinds \ {"none"}, NEW x, Ask(c, k, x)
    PROVE  /\ Goes(c) /\ kind'[c] = k /\ pc'[c] = "reading" /\ given'[c] = x
           /\ pc[c] = "idle" /\ made' = made
<1>1. TaskGoes(c) /\ given'[c] = x /\ made' = made
  BY DEF Ask, TaskGoes, CallsInv
<1>2. Begin(c, k, "reading") /\ pc[c] = "idle"
  BY DEF Ask, Begin, MayBegin
<1>3. QED
  BY <1>1, <1>2, BeginGoes, OwnersKinds

LEMMA ProduceGoes ==
    ASSUME CallsInv, NEW c \in Calls, NEW p, NEW q, NEW y, Produce(c, p, q, y),
           p \notin Ended \cup {"idle"}, q # "idle", kind[c] \in Owners(q)
    PROVE  /\ Goes(c) /\ kind'[c] = kind[c] /\ pc[c] = p /\ pc'[c] = q
           /\ made'[c] = y /\ given' = given
<1>1. TaskGoes(c) /\ given' = given /\ made'[c] = y
  BY DEF Produce, TaskGoes, CallsInv
<1>2. Step(c, p, q) /\ pc[c] = p
  BY DEF Produce, Step
<1>3. QED
  BY <1>1, <1>2, StepGoes

LEMMA EscapeGoes ==
    ASSUME CallsInv, NEW c \in Calls, NEW p, Escape(c, p), p \notin Ended \cup {"idle"},
           given' = given, made' = made,
           trouble' = [trouble EXCEPT ![c] = trouble'[c]], trouble'[c] \in BOOLEAN
    PROVE  Goes(c) /\ kind'[c] = kind[c] /\ pc'[c] \in {"reading", "failed"}
<1> DEFINE q == IF TriedAgain(c) THEN "reading" ELSE "failed"
           t == IF TriedAgain(c) THEN try[c] + 1 ELSE try[c]
<1>1. Step(c, p, q) /\ try' = [try EXCEPT ![c] = t]
  BY DEF Escape
<1>2. try[c] \in Tries /\ t \in Tries
  <2>1. \A k : Retries(k) \in 0..3
    BY DEF Retries
  <2>2. QED
    BY <2>1 DEF TriedAgain, Tries, CallsInv
<1>3. TaskGoes(c)
  BY <1>1, <1>2 DEF TaskGoes, CallsInv
<1>4. kind[c] \in Owners(q)
  BY <1>1, OwnersKinds DEF Step, CallsInv, OwnPoints
<1>5. QED
  BY <1>1, <1>3, <1>4, StepGoes

LEMMA RaiseGoes ==
    ASSUME CallsInv, NEW c \in Calls, NEW p, Raise(c, p) \/ Outage(c, p), p \notin Ended \cup {"idle"}
    PROVE  /\ Goes(c) /\ kind'[c] = kind[c] /\ pc[c] = p /\ pc'[c] \in {"reading", "failed"}
           /\ given' = given /\ made' = made
<1>1. /\ Escape(c, p) /\ given' = given /\ made' = made /\ pc[c] = p
      /\ trouble' = [trouble EXCEPT ![c] = trouble'[c]] /\ trouble'[c] \in BOOLEAN
  BY DEF Raise, Outage, Escape, Step, CallsInv
<1>2. QED
  BY <1>1, EscapeGoes

LEMMA OwnersOfPoints ==
    /\ Owners("importing") = {"import"} /\ Owners("read") = {"update", "delete"}
    /\ \A p \in {"creating", "sending", "failing", "analysing", "adjusting", "adjusted"} :
           Owners(p) = Pipelines
    /\ \A p \in {"asked", "priced", "booking", "recorded"} : Owners(p) = {"text"}
    /\ Owners("aggregating") = {"aggregate"}
    /\ \A p \in {"counted", "armed", "admitted"} : Owners(p) = {"limit"}
    /\ \A p \in {"asking", "rating", "storing"} : Owners(p) = {"account"}
    /\ Owners("tagging") = {"format"} /\ Owners("planning") = {"plan"}
    /\ Owners("downloading") = {"image"} /\ Owners("putting") = {"image"}
    /\ Owners("caching") = {"script"} /\ Owners("editing") = {"edit"}
    /\ \A p \in {"allowing", "fetching", "browsing", "judging"} : Owners(p) = {"brand"}
  BY DEF Owners

(* A suspension point tells whose call it is.                                *)
LEMMA Whose ==
    ASSUME CallsInv, NEW c \in Calls
    PROVE  /\ pc[c] = "importing" => kind[c] = "import"
           /\ pc[c] = "read" => kind[c] \in {"update", "delete"}
           /\ pc[c] \in {"creating", "sending", "failing", "analysing", "adjusting", "adjusted"}
                  => kind[c] \in Pipelines
           /\ pc[c] \in {"asked", "priced", "booking", "recorded"} => kind[c] = "text"
           /\ pc[c] = "aggregating" => kind[c] = "aggregate"
           /\ pc[c] \in {"counted", "armed", "admitted"} => kind[c] = "limit"
           /\ pc[c] \in {"asking", "rating", "storing"} => kind[c] = "account"
           /\ pc[c] = "tagging" => kind[c] = "format"
           /\ pc[c] = "planning" => kind[c] = "plan"
           /\ pc[c] \in {"downloading", "putting"} => kind[c] = "image"
           /\ pc[c] = "caching" => kind[c] = "script"
           /\ pc[c] = "editing" => kind[c] = "edit"
           /\ pc[c] \in {"allowing", "fetching", "browsing", "judging"} => kind[c] = "brand"
           /\ pc[c] # "idle" => kind[c] \in Kinds \ {"none"}
<1>1. kind[c] \in Owners(pc[c])
  BY DEF CallsInv, OwnPoints
<1>2. QED
  BY <1>1, OwnersKinds, OwnersOfPoints

(* The points from which a call goes on, and those at which any may end.     *)
Midway ==
    {"reading", "importing", "read", "creating", "sending", "failing", "analysing", "adjusting",
     "adjusted", "asked", "priced", "booking", "aggregating", "counted", "armed", "asking",
     "rating", "storing", "tagging", "planning", "downloading", "putting", "caching", "editing",
     "allowing", "fetching", "browsing", "judging"}
Anyones == {"reading", "ok", "failed", "lost", "unrecorded", "open", "refused"}

LEMMA MidwayGoesOn == \A p \in Midway : p \notin Ended \cup {"idle"}
  BY DEF Midway, Ended

(* A step that stays among the points of its owner, or ends.                 *)
LEMMA OwnStepGoes ==
    ASSUME CallsInv, NEW c \in Calls, NEW p \in Midway, NEW q, Step(c, p, q), UNCHANGED taskVars,
           q \in Anyones \/ (q # "idle" /\ kind[c] \in Owners(q))
    PROVE  Goes(c) /\ kind'[c] = kind[c] /\ pc'[c] = q
<1>1. kind[c] \in Owners(p) /\ p # "idle"
  BY MidwayGoesOn DEF CallsInv, OwnPoints, Step
<1>2. kind[c] \in Owners(q) /\ q # "idle"
  BY <1>1, OwnersKinds, MidwayGoesOn DEF Anyones
<1>3. TaskGoes(c) /\ given' = given
  BY TasksStay
<1>4. QED
  BY <1>1, <1>2, <1>3, MidwayGoesOn, StepGoes

LEMMA OwnProduceGoes ==
    ASSUME CallsInv, NEW c \in Calls, NEW p \in Midway, NEW q, NEW y, Produce(c, p, q, y),
           q \in Anyones \/ (q # "idle" /\ kind[c] \in Owners(q))
    PROVE  Goes(c) /\ kind'[c] = kind[c] /\ pc[c] = p /\ pc'[c] = q /\ made'[c] = y /\ given' = given
<1>1. kind[c] \in Owners(p) /\ p # "idle"
  BY MidwayGoesOn DEF CallsInv, OwnPoints, Produce, Step
<1>2. kind[c] \in Owners(q) /\ q # "idle"
  BY <1>1, OwnersKinds, MidwayGoesOn DEF Anyones
<1>3. QED
  BY <1>1, <1>2, MidwayGoesOn, ProduceGoes

----------------------------------------------------------------------------
\* The parts of a step

LeadPart(c) == (LeadBegins(c) \/ LeadSteps(c)) /\ LeadFrame
FlowPart(c) == ((\E k \in Pipelines : StartPipeline(c, k)) \/ FlowSteps(c)) /\ FlowFrame
LedgerPart(c) ==
    /\ \/ \E r \in Requests : TextHit(c, r) \/ TextAsk(c, r)
       \/ \E act \in SUBSET Campaigns : Aggregate(c, act)
       \/ LedgerSteps(c)
    /\ LedgerFrame
LimitPart(c) == (LimitCount(c) \/ LimitSteps(c) \/ LimitDown(c)) /\ RateFrame
ScorePart(c) ==
    /\ \/ ScoringBegins(c) \/ InsightBegins(c) \/ FormatBegins(c) \/ PlanBegins(c)
       \/ ScoringSteps(c) \/ InsightSteps(c) \/ FormatSteps(c) \/ PlanSteps(c)
    /\ UNCHANGED <<rowVars, mediaVars, projectVars>>
MediaPart(c) == (MediaBegins(c) \/ MediaSteps(c)) /\ UNCHANGED <<rowVars, projectVars>>
ProjectPart(c) == (ProjectBegins(c) \/ ProjectSteps(c)) /\ UNCHANGED <<rowVars, mediaVars>>

LEMMA NextParts ==
    ASSUME Next
    PROVE  \/ \E c \in Calls :
                  \/ LeadPart(c) \/ FlowPart(c) \/ LedgerPart(c) \/ LimitPart(c)
                  \/ ScorePart(c) \/ MediaPart(c) \/ ProjectPart(c) \/ ProcessDies(c)
           \/ TimePasses
<1>1. ASSUME NEW c \in Calls, Begins(c)
      PROVE  \/ LeadPart(c) \/ FlowPart(c) \/ LedgerPart(c) \/ LimitPart(c)
             \/ ScorePart(c) \/ MediaPart(c) \/ ProjectPart(c)
  BY <1>1 DEF Begins, LeadPart, FlowPart, LedgerPart, LimitPart, ScorePart, MediaPart, ProjectPart
<1>2. ASSUME NEW c \in Calls, Steps(c)
      PROVE  \/ LeadPart(c) \/ FlowPart(c) \/ LedgerPart(c) \/ LimitPart(c)
             \/ ScorePart(c) \/ MediaPart(c) \/ ProjectPart(c)
  BY <1>2 DEF Steps, LeadPart, FlowPart, LedgerPart, LimitPart, ScorePart, MediaPart, ProjectPart
<1>3. ASSUME NEW c \in Calls, RedisDown(c) PROVE LimitPart(c)
  BY <1>3 DEF RedisDown, LimitPart
<1>4. QED
  BY <1>1, <1>2, <1>3 DEF Next

LEMMA LeadGoes ==
    ASSUME CallsInv, NEW c \in Calls, LeadPart(c)
    PROVE  Goes(c) /\ kind'[c] \in {"create", "import", "update", "delete", "purge"}
<1>1. UNCHANGED taskVars /\ TaskGoes(c)
  BY TasksStay DEF LeadPart, LeadFrame
<1>2. ASSUME NEW k \in {"create", "import", "update", "delete", "purge"}, NEW q \in Anyones \ {"lost"}, Begin(c, k, q)
      PROVE  Goes(c) /\ kind'[c] = k
  BY <1>1, <1>2, BeginGoes, OwnersKinds DEF Anyones, Kinds
<1>3. CASE LeadBegins(c)
  <2>1. CASE \E a \in Addresses, optIn \in BOOLEAN : CreateLead(c, a, optIn)
    BY <2>1, <1>2 DEF CreateLead, Anyones
  <2>2. CASE \E f \in SUBSET Addresses : ImportRead(c, f)
    BY <2>2, <1>1, BeginGoes, OwnersOfPoints DEF ImportRead
  <2>3. CASE \E k \in {"update", "delete"}, i \in Ids : LeadRead(c, k, i)
    <3>1. PICK k \in {"update", "delete"} : Begin(c, k, "read") \/ Begin(c, k, "refused")
      BY <2>3 DEF LeadRead
    <3>2. QED
      BY <3>1, <1>1, <1>2, BeginGoes, OwnersOfPoints DEF Anyones
  <2>4. CASE PurgeExpiredLeads(c)
    BY <2>4, <1>2 DEF PurgeExpiredLeads, Anyones
  <2>5. QED
    BY <1>3, <2>1, <2>2, <2>3, <2>4 DEF LeadBegins
<1>4. CASE LeadSteps(c)
  <2>1. PICK p \in {"importing", "read"}, q \in Anyones : Step(c, p, q)
    BY <1>4 DEF LeadSteps, ImportCommit, ImportFails, UpdateLead, DeleteLead, LeadFails, Anyones
  <2>2. kind[c] \in {"import", "update", "delete"}
    BY <2>1, Whose DEF Step
  <2>3. QED
    BY <1>1, <2>1, <2>2, OwnStepGoes DEF Midway
<1>5. QED
  BY <1>3, <1>4 DEF LeadPart

LEMMA FlowGoes ==
    ASSUME CallsInv, NEW c \in Calls, FlowPart(c) PROVE Goes(c) /\ kind'[c] \in Pipelines
<1>1. CASE \E k \in Pipelines : StartPipeline(c, k)
  <2>1. PICK k \in Pipelines : Begin(c, k, "reading") /\ UNCHANGED taskVars
    BY <1>1 DEF StartPipeline
  <2>2. k \in Owners("reading") /\ TaskGoes(c)
    BY <2>1, TasksStay, OwnersKinds DEF Pipelines, Kinds
  <2>3. QED
    BY <2>1, <2>2, BeginGoes
<1>2. CASE \/ ReadInputs(c) \/ CreateJob(c) \/ SendMessage(c) \/ SendFails(c) \/ MarkRunning(c)
           \/ ReadWeights(c) \/ AdjustWeights(c) \/ LoopFails(c) \/ MarkCompleted(c) \/ MarkFailed(c)
  <2> DEFINE On == {"creating", "sending", "failing", "analysing", "adjusting", "adjusted"}
  <2>1. /\ UNCHANGED taskVars
        /\ \/ kind[c] \in Pipelines /\ Step(c, "reading", "creating")
           \/ \E p \in On, q \in On \cup {"ok"} : Step(c, p, q)
    BY <1>2 DEF ReadInputs, CreateJob, SendMessage, SendFails, MarkRunning, ReadWeights,
       AdjustWeights, LoopFails, MarkCompleted, MarkFailed
  <2>2. PICK p \in On \cup {"reading"}, q \in On \cup {"ok"} :
            Step(c, p, q) /\ (p = "reading" => kind[c] \in Pipelines)
    BY <2>1
  <2>3. kind[c] \in Pipelines /\ p \in Midway
    BY <2>2, Whose DEF Step, Midway
  <2>4. q \in Anyones \/ (q # "idle" /\ kind[c] \in Owners(q))
    BY <2>3, OwnersOfPoints DEF Anyones
  <2>5. QED
    BY <2>1, <2>2, <2>3, <2>4, OwnStepGoes
<1>3. CASE CampaignMissing(c) \/ CreateJobFails(c) \/ MarkFails(c)
  <2>1. PICK p \in {"reading", "creating", "failing"} :
            (Raise(c, p) \/ Outage(c, p)) /\ (p = "reading" => kind[c] = "l2c")
    BY <1>3 DEF CampaignMissing, CreateJobFails, MarkFails
  <2>2. Goes(c) /\ kind'[c] = kind[c] /\ pc[c] = p
    BY <2>1, RaiseGoes, MidwayGoesOn DEF Midway
  <2>3. QED
    BY <2>1, <2>2, Whose DEF Pipelines
<1>4. QED
  BY <1>1, <1>2, <1>3 DEF FlowPart, FlowSteps

LEMMA LedgerGoes ==
    ASSUME CallsInv, NEW c \in Calls, LedgerPart(c)
    PROVE  Goes(c) /\ kind'[c] \in {"text", "aggregate"}
<1>1. UNCHANGED taskVars /\ TaskGoes(c)
  BY TasksStay DEF LedgerPart, LedgerFrame
<1>2. CASE (\E r \in Requests : TextHit(c, r) \/ TextAsk(c, r))
           \/ \E act \in SUBSET Campaigns : Aggregate(c, act)
  <2>1. \/ Begin(c, "text", "ok") \/ Begin(c, "text", "asked")
        \/ Begin(c, "aggregate", "aggregating")
    BY <1>2 DEF TextHit, TextAsk, Aggregate
  <2>2. QED
    BY <1>1, <2>1, BeginGoes, OwnersKinds, OwnersOfPoints DEF Kinds
<1>3. CASE LedgerSteps(c)
  <2>1. PICK p \in {"asked", "priced", "booking", "aggregating"},
             q \in {"ok", "failed", "unrecorded", "priced", "booking", "recorded", "aggregating"} :
            /\ Step(c, p, q)
            /\ q \in {"priced", "booking", "recorded"} => p # "aggregating"
            /\ q = "aggregating" => p = "aggregating"
    BY <1>3 DEF LedgerSteps, TextAnswered, TextFallback, CostSelect, CostCommit, CostLost,
       AggregateRead, AggregateCommit, AggregateFails
  <2>2. /\ p # "aggregating" => kind[c] = "text"
        /\ p = "aggregating" => kind[c] = "aggregate"
    BY <2>1, Whose DEF Step
  <2>3. q \in Anyones \/ (q # "idle" /\ kind[c] \in Owners(q))
    BY <2>1, <2>2, OwnersOfPoints DEF Anyones
  <2>4. QED
    BY <1>1, <2>1, <2>2, <2>3, OwnStepGoes DEF Midway
<1>4. QED
  BY <1>2, <1>3 DEF LedgerPart

LEMMA LimitGoes ==
    ASSUME CallsInv, NEW c \in Calls, LimitPart(c) PROVE Goes(c) /\ kind'[c] = "limit"
<1>1. UNCHANGED taskVars /\ TaskGoes(c)
  BY TasksStay DEF LimitPart, RateFrame
<1>2. CASE Begin(c, "limit", "counted") \/ Begin(c, "limit", "open")
  BY <1>1, <1>2, BeginGoes, OwnersKinds, OwnersOfPoints DEF Kinds
<1>3. CASE \E p \in {"counted", "armed"}, q \in {"armed", "open", "refused", "admitted"} : Step(c, p, q)
  <2>1. PICK p \in {"counted", "armed"}, q \in {"armed", "open", "refused", "admitted"} : Step(c, p, q)
    BY <1>3
  <2>2. kind[c] = "limit"
    BY <2>1, Whose DEF Step
  <2>3. q \in Anyones \/ (q # "idle" /\ kind[c] \in Owners(q))
    BY <2>2, OwnersOfPoints DEF Anyones
  <2>4. QED
    BY <1>1, <2>1, <2>2, <2>3, OwnStepGoes DEF Midway
<1>4. QED
  BY <1>2, <1>3 DEF LimitPart, LimitCount, LimitSteps, LimitArm, LimitDecide, Verdict, LimitDown

Scorers == {"score", "rank", "rules", "account", "influencer", "format", "plan", "build"}

LEMMA AsksGo ==
    ASSUME CallsInv, NEW c \in Calls,
           ScoringBegins(c) \/ InsightBegins(c) \/ FormatBegins(c) \/ PlanBegins(c)
    PROVE  Goes(c) /\ kind'[c] \in Scorers
<1>1. PICK k \in Scorers : \E x : Ask(c, k, x)
  <2>1. CASE ScoringBegins(c)
    BY <2>1 DEF ScoringBegins, Scorers
  <2>2. CASE InsightBegins(c)
    BY <2>2 DEF InsightBegins, Scorers
  <2>3. CASE FormatBegins(c)
    BY <2>3 DEF FormatBegins, Scorers
  <2>4. CASE PlanBegins(c)
    BY <2>4 DEF PlanBegins, Scorers
  <2>5. QED
    BY <2>1, <2>2, <2>3, <2>4
<1>2. k \in Kinds \ {"none"}
  BY DEF Scorers, Kinds
<1>3. QED
  BY <1>1, <1>2, AskGoes

LEMMA ScoringGoes ==
    ASSUME CallsInv, NEW c \in Calls, ScoringSteps(c) PROVE Goes(c) /\ kind'[c] \in Scorers
<1>1. kind[c] \in {"score", "rank", "rules"}
  BY DEF ScoringSteps, ScoreLead, ScoreRaises, RankLeads, RankRaises, ApplyRules
<1>2. (\E y : Produce(c, "reading", "ok", y)) \/ Raise(c, "reading")
  BY DEF ScoringSteps, ScoreLead, ScoreRaises, RankLeads, RankRaises, ApplyRules
<1>3. QED
  BY <1>1, <1>2, OwnProduceGoes, RaiseGoes, MidwayGoesOn DEF Midway, Anyones, Scorers

LEMMA InsightGoes ==
    ASSUME CallsInv, NEW c \in Calls, InsightSteps(c) PROVE Goes(c) /\ kind'[c] \in Scorers
<1>1. CASE AccountRead(c)
  <2>1. kind[c] = "account" /\ \E y : Produce(c, "reading", "asking", y)
    BY <1>1 DEF AccountRead
  <2>2. QED
    BY <2>1, OwnProduceGoes, OwnersOfPoints DEF Midway, Scorers
<1>2. CASE PlatformAnswers(c) \/ AccountRated(c)
  <2>1. PICK p \in {"asking", "rating"}, q \in {"rating", "storing"} : \E y : Produce(c, p, q, y)
    BY <1>2 DEF PlatformAnswers, AccountRated
  <2>2. kind[c] = "account"
    BY <2>1, Whose DEF Produce, Step
  <2>3. QED
    BY <2>1, <2>2, OwnProduceGoes, OwnersOfPoints DEF Midway, Scorers
<1>3. CASE PlatformDown(c)
  <2>1. /\ Step(c, "asking", "rating") /\ kind[c] = "account"
        /\ UNCHANGED <<try, given>> /\ made' = [made EXCEPT ![c] = NoFigures]
        /\ trouble' = [trouble EXCEPT ![c] = TRUE]
    BY <1>3, Whose DEF PlatformDown, Step
  <2>2. TaskGoes(c) /\ given' = given
    BY <2>1 DEF TaskGoes, CallsInv
  <2>3. QED
    BY <2>1, <2>2, StepGoes, OwnersOfPoints, MidwayGoesOn DEF Midway, Scorers
<1>4. CASE AccountUnrated(c)
  <2>1. Escape(c, "rating") /\ UNCHANGED <<given, made, trouble>> /\ kind[c] = "account"
    BY <1>4, Whose DEF AccountUnrated
  <2>2. trouble' = [trouble EXCEPT ![c] = trouble'[c]] /\ trouble'[c] \in BOOLEAN
    BY <2>1 DEF CallsInv
  <2>3. QED
    BY <2>1, <2>2, EscapeGoes, MidwayGoesOn DEF Midway, Scorers
<1>5. CASE AccountMissing(c) \/ InsightRefused(c) \/ InfluencerUnrated(c)
  <2>1. PICK p \in {"reading", "storing"} :
            /\ Raise(c, p) \/ Outage(c, p)
            /\ p = "reading" => kind[c] \in {"account", "influencer"}
    BY <1>5 DEF AccountMissing, InsightRefused, InfluencerUnrated
  <2>2. Goes(c) /\ kind'[c] = kind[c] /\ pc[c] = p
    BY <2>1, RaiseGoes, MidwayGoesOn DEF Midway
  <2>3. QED
    BY <2>1, <2>2, Whose DEF Scorers
<1>6. CASE InfluencerRated(c)
  <2>1. kind[c] = "influencer" /\ \E y : Produce(c, "reading", "ok", y)
    BY <1>6 DEF InfluencerRated
  <2>2. QED
    BY <2>1, OwnProduceGoes DEF Midway, Anyones, Scorers
<1>7. QED
  BY <1>1, <1>2, <1>3, <1>4, <1>5, <1>6 DEF InsightSteps

LEMMA FormatGoes ==
    ASSUME CallsInv, NEW c \in Calls, FormatSteps(c) PROVE Goes(c) /\ kind'[c] \in Scorers
<1>1. CASE FormatText(c)
  <2>1. kind[c] = "format" /\ \E y : Produce(c, "reading", "tagging", y)
    BY <1>1 DEF FormatText
  <2>2. QED
    BY <2>1, OwnProduceGoes, OwnersOfPoints DEF Midway, Scorers
<1>2. CASE RewriteRaises(c) \/ TagsRaise(c)
  <2>1. PICK p \in {"reading", "tagging"} : Raise(c, p) /\ (p = "reading" => kind[c] = "format")
    BY <1>2 DEF RewriteRaises, TagsRaise
  <2>2. Goes(c) /\ kind'[c] = kind[c] /\ pc[c] = p
    BY <2>1, RaiseGoes, MidwayGoesOn DEF Midway
  <2>3. QED
    BY <2>1, <2>2, Whose DEF Scorers
<1>3. QED
  BY <1>1, <1>2 DEF FormatSteps

LEMMA PlanGoes ==
    ASSUME CallsInv, NEW c \in Calls, PlanSteps(c) PROVE Goes(c) /\ kind'[c] \in Scorers
<1>1. kind[c] \in {"plan", "build"}
  BY DEF PlanSteps, PromptBlank, ModelSilent, ReplyUnusable, ReplyVague, ReplyUnderstood,
     CalendarBuilt, BriefRefused, PlanBuilt
<1>2. CASE ReplyVague(c) \/ ReplyUnderstood(c) \/ CalendarBuilt(c) \/ PlanBuilt(c)
  <2>1. PICK p \in {"reading", "planning"}, q \in {"ok", "planning"} :
            (\E y : Produce(c, p, q, y)) /\ (q = "planning" => kind[c] = "plan")
    BY <1>2 DEF ReplyVague, ReplyUnderstood, CalendarBuilt, PlanBuilt
  <2>2. QED
    BY <1>1, <2>1, OwnProduceGoes, OwnersOfPoints DEF Midway, Anyones, Scorers
<1>3. CASE PromptBlank(c) \/ ModelSilent(c) \/ ReplyUnusable(c) \/ BriefRefused(c)
  <2>1. Raise(c, "reading") \/ Outage(c, "reading")
    BY <1>3 DEF PromptBlank, ModelSilent, ReplyUnusable, BriefRefused
  <2>2. QED
    BY <1>1, <2>1, RaiseGoes, MidwayGoesOn DEF Midway, Scorers
<1>4. QED
  BY <1>2, <1>3 DEF PlanSteps

LEMMA ScoreGoes ==
    ASSUME CallsInv, NEW c \in Calls, ScorePart(c) PROVE Goes(c) /\ kind'[c] \in Scorers
  BY AsksGo, ScoringGoes, InsightGoes, FormatGoes, PlanGoes DEF ScorePart

LEMMA MediaGoes ==
    ASSUME CallsInv, NEW c \in Calls, MediaPart(c)
    PROVE  Goes(c) /\ kind'[c] \in {"image", "script", "render"}
<1>1. CASE MediaBegins(c)
  <2>1. PICK k \in {"image", "script", "render"} : \E x : Ask(c, k, x)
    BY <1>1 DEF MediaBegins
  <2>2. k \in Kinds \ {"none"}
    BY DEF Kinds
  <2>3. QED
    BY <2>1, <2>2, AskGoes
<1>2. CASE ImageGenerated(c) \/ ImageDownloaded(c) \/ ImagePut(c) \/ ImageFails(c)
  <2>1. PICK p \in {"reading", "downloading", "putting"}, q \in {"downloading", "putting", "ok"} :
            /\ \E y : Produce(c, p, q, y)
            /\ p = "reading" => kind[c] = "image"
    BY <1>2 DEF ImageGenerated, ImageDownloaded, ImagePut, ImageFails
  <2>2. kind[c] = "image"
    BY <2>1, Whose DEF Produce, Step
  <2>3. QED
    BY <2>1, <2>2, OwnProduceGoes, OwnersOfPoints DEF Midway, Anyones
<1>3. CASE ScriptCached(c) \/ ScriptWritten(c) \/ ScriptKept(c) \/ VideoPut(c) \/ VideoFails(c)
  <2>1. PICK p \in {"reading", "caching"}, q \in {"caching", "ok"} :
            /\ \E y : Produce(c, p, q, y)
            /\ p = "reading" => kind[c] \in {"script", "render"}
            /\ q = "caching" => kind[c] = "script"
    BY <1>3 DEF ScriptCached, ScriptWritten, ScriptKept, VideoPut, VideoFails
  <2>2. kind[c] \in {"script", "render"}
    BY <2>1, Whose DEF Produce, Step
  <2>3. QED
    BY <2>1, <2>2, OwnProduceGoes, OwnersOfPoints DEF Midway, Anyones
<1>4. CASE ScriptLost(c)
  <2>1. PICK p \in {"reading", "caching"} : Outage(c, p) /\ (p = "reading" => kind[c] = "script")
    BY <1>4 DEF ScriptLost
  <2>2. Goes(c) /\ kind'[c] = kind[c] /\ pc[c] = p
    BY <2>1, RaiseGoes, MidwayGoesOn DEF Midway
  <2>3. QED
    BY <2>1, <2>2, Whose
<1>5. QED
  BY <1>1, <1>2, <1>3, <1>4 DEF MediaPart, MediaSteps

LEMMA ProjectGoes ==
    ASSUME CallsInv, NEW c \in Calls, ProjectPart(c)
    PROVE  Goes(c) /\ kind'[c] \in {"project", "edit", "trigger", "brand"}
<1>1. CASE (\E url \in BOOLEAN : CreateProject(c, url)) \/ BrandBegins(c)
           \/ (\E f \in {"url", "archived"}, x \in {"set", "cleared"} : EditBegins(c, Only(f, x)))
  <2>1. PICK k \in {"project", "edit", "brand"} : \E x : Ask(c, k, x)
    BY <1>1 DEF CreateProject, BrandBegins, EditBegins
  <2>2. k \in Kinds \ {"none"}
    BY DEF Kinds
  <2>3. QED
    BY <2>1, <2>2, AskGoes
<1>2. CASE BrokerAway(c) \/ TriggerAnalysis(c)
  <2>1. /\ UNCHANGED taskVars
        /\ \E k \in {"project", "trigger"}, q \in {"failed", "ok", "refused"} : Begin(c, k, q)
    BY <1>2 DEF BrokerAway, TriggerAnalysis
  <2>2. QED
    BY <2>1, TasksStay, BeginGoes, OwnersKinds DEF Kinds
<1>3. CASE \/ CreateCommit(c) \/ EditRead(c) \/ EditCommit(c) \/ BrandReads(c) \/ RobotsAllow(c)
           \/ PageFetched(c) \/ PageRendered(c) \/ BrandStubbed(c)
  <2>1. PICK p \in {"reading", "editing", "allowing", "fetching", "browsing", "judging"},
             q \in {"ok", "refused", "editing", "allowing", "fetching", "browsing", "judging"} :
            /\ \E y : Produce(c, p, q, y)
            /\ p = "reading" => /\ kind[c] \in {"project", "edit", "brand"}
                                /\ q = "editing" => kind[c] = "edit"
                                /\ q = "allowing" => kind[c] = "brand"
                                /\ q \notin {"fetching", "browsing", "judging"}
            /\ p = "editing" => q = "ok"
            /\ p \in {"allowing", "fetching", "browsing", "judging"} => q # "editing"
    BY <1>3 DEF CreateCommit, EditRead, EditCommit, BrandReads, RobotsAllow, PageFetched,
       PageRendered, BrandStubbed
  <2>2. kind[c] \in {"project", "edit", "brand"}
        /\ (p \in {"allowing", "fetching", "browsing", "judging"} => kind[c] = "brand")
    BY <2>1, Whose DEF Produce, Step
  <2>3. q \in Anyones \/ (q # "idle" /\ kind[c] \in Owners(q))
    BY <2>1, <2>2, OwnersOfPoints DEF Anyones
  <2>4. QED
    BY <2>1, <2>2, <2>3, OwnProduceGoes DEF Midway
<1>4. CASE CreateFails(c) \/ EditFails(c) \/ BrandReadFails(c)
  <2>1. PICK p \in {"reading", "editing"} :
            Outage(c, p) /\ (p = "reading" => kind[c] \in {"project", "brand"})
    BY <1>4 DEF CreateFails, EditFails, BrandReadFails
  <2>2. Goes(c) /\ kind'[c] = kind[c] /\ pc[c] = p
    BY <2>1, RaiseGoes, MidwayGoesOn DEF Midway
  <2>3. QED
    BY <2>1, <2>2, Whose
<1>5. QED
  BY <1>1, <1>2, <1>3, <1>4 DEF ProjectPart, ProjectBegins, ProjectSteps

LEMMA DiesGoes ==
    ASSUME CallsInv, NEW c \in Calls, ProcessDies(c)
    PROVE  /\ Goes(c) /\ kind'[c] = kind[c] /\ pc'[c] = "lost" /\ Lose(c) /\ UNCHANGED taskVars
           /\ UNCHANGED <<leadVars, flowVars, ledgerVars, rateVars, mediaVars, projectVars>>
<1>1. Step(c, pc[c], "lost") /\ pc[c] \notin Ended \cup {"idle"}
  BY DEF ProcessDies, Lose, Running, Step
<1>2. TaskGoes(c) /\ given' = given
  BY TasksStay DEF ProcessDies
<1>3. kind[c] \in Owners("lost")
  BY <1>1, Whose, OwnersKinds
<1>4. QED
  BY <1>1, <1>2, <1>3, StepGoes DEF ProcessDies, rowVars

----------------------------------------------------------------------------
\* The calls

LEMMA CallsStart == Init => CallsInv
<1> SUFFICES ASSUME CallsInit, TasksInit PROVE CallsInv
  BY DEF Init
<1>1. mix \in Mixes /\ aware \in BOOLEAN
  BY ServiceConstants DEF ServiceConstants, CallsInit
<1>2. /\ kind = [c \in Calls |-> "none"] /\ pc = [c \in Calls |-> "idle"]
      /\ before = [c \in Calls |-> {}]
  BY DEF CallsInit
<1>3. CallsTypeOK /\ OwnPoints /\ EndedBefore
  BY <1>2, OwnersKinds DEF CallsTypeOK, OwnPoints, EndedBefore
<1>4. /\ try \in [Calls -> Tries] /\ trouble \in [Calls -> BOOLEAN]
      /\ given = [c \in Calls |-> given[c]] /\ made = [c \in Calls |-> made[c]]
  BY DEF TasksInit, Tries
<1>5. QED
  BY <1>1, <1>2, <1>3, <1>4 DEF CallsInv

LEMMA TimeStays == ASSUME TimePasses PROVE UNCHANGED <<callVars, taskVars>>
  BY DEF TimePasses, NextDay, KeyExpires, LedgerFrame, RateFrame

LEMMA CallsStay ==
    ASSUME CallsInv, UNCHANGED <<callVars, taskVars>> PROVE CallsInv'
<1>1. UNCHANGED <<mix, aware, kind, pc, before, try, given, made, trouble>>
  BY DEF callVars, taskVars
<1>2. QED
  BY <1>1 DEF CallsInv, CallsTypeOK, OwnPoints, EndedBefore

LEMMA CallsNext == CallsInv /\ [Next]_vars => CallsInv'
<1> SUFFICES ASSUME CallsInv, [Next]_vars PROVE CallsInv'
  OBVIOUS
<1>1. CASE UNCHANGED vars
  BY <1>1, CallsStay DEF vars
<1>2. CASE Next
  <2>1. ASSUME NEW c \in Calls, Goes(c) PROVE CallsInv'
    BY <2>1 DEF Goes
  <2>2. QED
    BY <1>2, <2>1, NextParts, LeadGoes, FlowGoes, LedgerGoes, LimitGoes, ScoreGoes, MediaGoes,
       ProjectGoes, DiesGoes, TimeStays, CallsStay
<1>3. QED
  BY <1>1, <1>2

(* Every suspension point belongs to a call of its kind, and a call only     *)
(* counts as before another when it has ended: what each service relies on   *)
(* (connection.py:130-155, workflow.py:402-410).                             *)
THEOREM CallsInvariant == Spec => []CallsInv
  BY CallsStart, CallsNext, PTL DEF Spec

----------------------------------------------------------------------------
\* Each service beside the others

(* A call of another kind, seen from the limit, the ledger or the pipelines. *)
LEMMA AsideLimit ==
    ASSUME CallsInv, NEW c \in Calls, Goes(c), kind'[c] # "limit", UNCHANGED rateVars
    PROVE  OthersForLimit
<1>1. CallsInv' /\ CallsTypeOK'
  BY DEF Goes, CallsInv
<1>2. kind[c] # "limit"
  BY DEF Goes
<1>3. \A d \in Calls : kind'[d] # "limit" => pc'[d] \notin {"counted", "armed", "admitted"}
  BY <1>1, OwnersOfPoints DEF CallsInv, OwnPoints
<1>4. \A d \in Calls : "limit" \in {kind[d], kind'[d]} => kind'[d] = kind[d] /\ pc'[d] = pc[d]
  BY <1>2 DEF Goes
<1>5. QED
  BY <1>1, <1>3, <1>4 DEF OthersForLimit

LEMMA AsideLedger ==
    ASSUME CallsInv, NEW c \in Calls, Goes(c), kind'[c] \notin {"text", "aggregate"},
           UNCHANGED ledgerVars
    PROVE  OthersForLedger
<1>1. CallsInv' /\ CallsTypeOK' /\ mix' = mix
  BY DEF Goes, CallsInv
<1>2. kind[c] \notin {"text", "aggregate"}
  BY DEF Goes
<1>3. \A d \in Calls :
          kind'[d] \notin {"text", "aggregate"} =>
              pc'[d] \notin {"asked", "priced", "booking", "recorded", "aggregating"}
  BY <1>1, OwnersOfPoints DEF CallsInv, OwnPoints
<1>4. \A d \in Calls :
          {kind[d], kind'[d]} \cap {"text", "aggregate"} # {} => kind'[d] = kind[d] /\ pc'[d] = pc[d]
  BY <1>2 DEF Goes
<1>5. \A d \in Calls : pc[d] = "ok" => pc'[d] = "ok"
  BY DEF Goes, Running, Ended
<1>6. QED
  BY <1>1, <1>3, <1>4, <1>5 DEF OthersForLedger

LEMMA AsideFlow ==
    ASSUME CallsInv, NEW c \in Calls, Goes(c), kind'[c] \notin Pipelines, UNCHANGED flowVars
    PROVE  OthersForFlow
<1>1. CallsInv' /\ CallsTypeOK' /\ try' \in [Calls -> Tries]
  BY DEF Goes, CallsInv
<1>2. kind[c] \notin Pipelines
  BY DEF Goes, Pipelines
<1>3. \A d \in Calls :
          kind'[d] \notin Pipelines =>
              pc'[d] \notin {"creating", "sending", "failing", "analysing", "adjusting", "adjusted"}
  BY <1>1, OwnersOfPoints DEF CallsInv, OwnPoints
<1>4. \A d \in Calls :
          {kind[d], kind'[d]} \cap Pipelines # {} =>
              kind'[d] = kind[d] /\ pc'[d] = pc[d] /\ try'[d] = try[d]
  BY <1>2 DEF Goes
<1>5. QED
  BY <1>1, <1>3, <1>4 DEF OthersForFlow

LEMMA LimitStep ==
    CallsInv /\ [Next]_vars =>
        [RateNext \/ OthersForLimit \/ \E c \in Calls : LimitLost(c)]_limitVars
<1> SUFFICES ASSUME CallsInv, Next
             PROVE  RateNext \/ OthersForLimit \/ (\E c \in Calls : LimitLost(c))
                    \/ UNCHANGED limitVars
  BY DEF vars, rowVars, limitVars
<1>1. ASSUME NEW c \in Calls, LimitPart(c) PROVE RateNext
  BY <1>1 DEF LimitPart, RateNext
<1>2. ASSUME NEW c \in Calls, ProcessDies(c) PROVE LimitLost(c)
  BY <1>2, DiesGoes DEF LimitLost
<1>3. CASE TimePasses
  BY <1>3 DEF TimePasses, NextDay, LedgerFrame, RateNext, limitVars
<1>4. ASSUME NEW c \in Calls, LeadPart(c) \/ LedgerPart(c) PROVE OthersForLimit
  BY <1>4, LeadGoes, LedgerGoes, AsideLimit DEF LeadPart, LedgerPart, LeadFrame, LedgerFrame
<1>5. ASSUME NEW c \in Calls, FlowPart(c) PROVE OthersForLimit
  BY <1>5, FlowGoes, AsideLimit DEF FlowPart, FlowFrame, Pipelines
<1>6. ASSUME NEW c \in Calls, ScorePart(c) \/ MediaPart(c) \/ ProjectPart(c) PROVE OthersForLimit
  BY <1>6, ScoreGoes, MediaGoes, ProjectGoes, AsideLimit
  DEF ScorePart, MediaPart, ProjectPart, rowVars, Scorers
<1>7. QED
  BY <1>1, <1>2, <1>3, <1>4, <1>5, <1>6, NextParts

LEMMA LedgerStep ==
    CallsInv /\ [Next]_vars =>
        [LedgerNext \/ OthersForLedger \/ \E c \in Calls : LedgerLost(c)]_costVars
<1> SUFFICES ASSUME CallsInv, Next
             PROVE  LedgerNext \/ OthersForLedger \/ (\E c \in Calls : LedgerLost(c))
                    \/ UNCHANGED costVars
  BY DEF vars, rowVars, costVars
<1>1. ASSUME NEW c \in Calls, LedgerPart(c) PROVE LedgerNext
  BY <1>1 DEF LedgerPart, LedgerNext
<1>2. ASSUME NEW c \in Calls, ProcessDies(c) PROVE LedgerLost(c)
  BY <1>2, DiesGoes DEF LedgerLost
<1>3. CASE TimePasses
  BY <1>3 DEF TimePasses, KeyExpires, RateFrame, LedgerNext, costVars
<1>4. ASSUME NEW c \in Calls, LeadPart(c) \/ LimitPart(c) PROVE OthersForLedger
  BY <1>4, LeadGoes, LimitGoes, AsideLedger DEF LeadPart, LimitPart, LeadFrame, RateFrame
<1>5. ASSUME NEW c \in Calls, FlowPart(c) PROVE OthersForLedger
  BY <1>5, FlowGoes, AsideLedger DEF FlowPart, FlowFrame, Pipelines
<1>6. ASSUME NEW c \in Calls, ScorePart(c) \/ MediaPart(c) \/ ProjectPart(c) PROVE OthersForLedger
  BY <1>6, ScoreGoes, MediaGoes, ProjectGoes, AsideLedger
  DEF ScorePart, MediaPart, ProjectPart, rowVars, Scorers
<1>7. QED
  BY <1>1, <1>2, <1>3, <1>4, <1>5, <1>6, NextParts

LEMMA FlowStep == CallsInv /\ [Next]_vars => [FlowNext \/ OthersForFlow]_jobVars
<1> SUFFICES ASSUME CallsInv, Next PROVE FlowNext \/ OthersForFlow \/ UNCHANGED jobVars
  BY DEF vars, rowVars, jobVars
<1>1. ASSUME NEW c \in Calls, FlowPart(c) PROVE FlowNext
  BY <1>1 DEF FlowPart, FlowNext
<1>2. ASSUME NEW c \in Calls, ProcessDies(c) PROVE FlowNext
  BY <1>2, DiesGoes DEF FlowNext
<1>3. CASE TimePasses
  BY <1>3 DEF TimePasses, NextDay, KeyExpires, LedgerFrame, RateFrame, jobVars
<1>4. ASSUME NEW c \in Calls, LeadPart(c) \/ LedgerPart(c) \/ LimitPart(c) PROVE OthersForFlow
  BY <1>4, LeadGoes, LedgerGoes, LimitGoes, AsideFlow
  DEF LeadPart, LedgerPart, LimitPart, LeadFrame, LedgerFrame, RateFrame, Pipelines
<1>5. ASSUME NEW c \in Calls, ScorePart(c) \/ MediaPart(c) \/ ProjectPart(c) PROVE OthersForFlow
  BY <1>5, ScoreGoes, MediaGoes, ProjectGoes, AsideFlow
  DEF ScorePart, MediaPart, ProjectPart, rowVars, Scorers, Pipelines
<1>6. QED
  BY <1>1, <1>2, <1>3, <1>4, <1>5, NextParts

(* The back office is, to each of the three, that service beside calls of    *)
(* other kinds: their specifications are implemented, step by step.          *)
THEOREM ServicesImplemented == Spec => LimitSpec /\ LedgerSpec /\ FlowSpec
<1>1. Init => /\ CallsInit /\ RateInit /\ LedgerInit
              /\ TasksInit /\ LeadsInit /\ WorkflowInit
  BY DEF Init
<1>2. QED
  BY <1>1, CallsInvariant, LimitStep, LedgerStep, FlowStep, PTL
  DEF Spec, LimitSpec, LedgerSpec, FlowSpec

(* Beside everything else that runs, a window admits at most RateMax         *)
(* creations and no key is left without expiry by requests Redis served      *)
(* (campaigns_agent.py:180-200).                                             *)
THEOREM LimiterHolds == Spec => []LimiterSound
  BY ServicesImplemented, LimiterSafety, PTL

(* ... every row of the analytics holds the costs that were booked on it,    *)
(* and an aggregation is whole (bs_ai_text/service.py:76-107,                *)
(* workflow.py:473-538).                                                     *)
THEOREM LedgerHolds == Spec => []LedgerSound
  BY ServicesImplemented, LedgerSafety, PTL

(* ... and a job reads running only when all its messages were sent, of the  *)
(* last run of its task only (workflow.py:182-190, 402-410).                 *)
THEOREM JobsHold == Spec => []JobsTellTheTruth
  BY ServicesImplemented, JobsSafety, PTL

----------------------------------------------------------------------------
\* Leads

LeadKinds == {"create", "import", "update", "delete", "purge"}
LeadRows == [id : Ids, by : Calls \cup {Seed}, email : Addresses, optIn : BOOLEAN]

(* What has ended stays so, and stays before what it was before.             *)
LEMMA PastStays ==
    ASSUME CallsInv, NEW c \in Calls, Goes(c)
    PROVE  /\ \A d \in Calls \cup {Seed} : Past(d) => Past(d)'
           /\ \A d \in Calls : pc[d] \in Ended => pc'[d] = pc[d] /\ kind'[d] = kind[d] /\ d # c
           /\ ~Past(c) /\ c # Seed
<1>1. pc[c] \notin Ended /\ c # Seed
  BY DEF Goes, Running, Ended, Calls, Seed
<1>2. QED
  BY <1>1 DEF Goes, Past

(* A call that neither reads nor writes leads, or is lost.                   *)
LEMMA LeadsAside ==
    ASSUME CallsInv, LeadsInv, NEW c \in Calls, Goes(c), UNCHANGED leadVars,
           kind'[c] \notin LeadKinds \/ pc'[c] = "lost"
    PROVE  LeadsInv'
<1>1. UNCHANGED <<leads, known, file, target>>
  BY DEF leadVars
<1>2. LeadsTypeOK' /\ RowsByEnded'
  BY <1>1, PastStays DEF LeadsInv, LeadsTypeOK, RowsByEnded, Ids
<1>3. \A d \in Calls : pc'[d] = "read" \/ (kind'[d] \in {"update", "delete"} /\ pc'[d] = "ok") =>
          d # c /\ pc'[d] = pc[d] /\ kind'[d] = kind[d]
  BY OwnersOfPoints DEF Goes, CallsInv, OwnPoints, LeadKinds
<1>4. TargetsByEnded'
  BY <1>1, <1>3, PastStays DEF LeadsInv, LeadsTypeOK, TargetsByEnded, Ids
<1>5. \A r \in leads : Imported(r)' => Imported(r) /\ r.by # c
  BY PastStays DEF LeadsInv, RowsByEnded, Goes, Imported, Seed
<1>6. ImportsNew'
  BY <1>1, <1>5 DEF LeadsInv, ImportsNew
<1>7. ImportsKnow'
  <2>1. ASSUME NEW d \in Calls, NEW r \in leads, kind'[d] = "import", Imported(r)', r.by \in before'[d]
        PROVE  r.email \in known[d]
    <3>1. CASE d # c
      BY <3>1, <2>1, <1>5 DEF LeadsInv, ImportsKnow, Goes
    <3>2. CASE d = c
      <4>1. pc'[c] = "lost" /\ kind[c] = "import" /\ before'[c] = before[c]
        BY <3>2, <2>1, PastStays DEF LeadKinds, Goes
      <4>2. QED
        BY <3>2, <4>1, <2>1, <1>5 DEF LeadsInv, ImportsKnow
    <3>3. QED
      BY <3>1, <3>2
  <2>2. QED
    BY <1>1, <2>1 DEF ImportsKnow
<1>8. ErasedForGood'
  BY <1>1, <1>3 DEF LeadsInv, ErasedForGood, Targets
<1>9. QED
  BY <1>2, <1>4, <1>6, <1>7, <1>8 DEF LeadsInv

(* A call that reads or writes them: each row is as it was, or has the       *)
(* address this call has given it with its last step.                        *)
LEMMA LeadsChange ==
    ASSUME CallsInv, LeadsInv, NEW c \in Calls, Goes(c), LeadsTypeOK',
           \A r \in leads' :
               \/ r.by = c /\ pc'[c] \in Ended
               \/ \E s \in leads : s.by = r.by /\ s.email = r.email,
           \A r \in leads' :
               \/ r.id[1] = c /\ pc'[c] \in Ended
               \/ \E s \in leads : s.id = r.id,
           \A d \in Calls \ {c} : known'[d] = known[d] /\ target'[d] = target[d],
           kind'[c] = "import" =>
               /\ \A r \in leads' : r.by = c => r.email \notin known'[c]
               /\ IF pc[c] = "idle" THEN known'[c] = Emails(leads) ELSE known'[c] = known[c],
           pc'[c] = "read" \/ (kind'[c] \in {"update", "delete"} /\ pc'[c] = "ok") =>
               \A i \in target'[c] : Past(i[1])',
           kind'[c] = "delete" /\ pc'[c] = "ok" => Targets(c)' = {}
    PROVE  LeadsInv'
<1>1. \A s \in leads : /\ s.id[1] # c /\ s.by # c /\ Past(s.id[1])' /\ Past(s.by)'
                       /\ s.by \in Calls => kind'[s.by] = kind[s.by]
  <2>1. \A s \in leads : /\ s.id[1] \in Calls \cup {Seed} /\ s.by \in Calls \cup {Seed}
                         /\ Past(s.id[1]) /\ Past(s.by)
    BY DEF LeadsInv, LeadsTypeOK, RowsByEnded, Ids
  <2>2. QED
    BY <2>1, PastStays DEF Goes
<1>2. RowsByEnded'
  <2>1. pc'[c] \in Ended => Past(c)'
    BY DEF Past
  <2>2. QED
    BY <1>1, <2>1 DEF RowsByEnded
<1>3. TargetsByEnded'
  <2>1. ASSUME NEW d \in Calls \ {c},
               pc'[d] = "read" \/ (kind'[d] \in {"update", "delete"} /\ pc'[d] = "ok"),
               NEW i \in target'[d]
        PROVE  Past(i[1])'
    <3>1. i \in target[d] /\ i[1] \in Calls \cup {Seed}
      BY <2>1 DEF LeadsInv, LeadsTypeOK, Ids
    <3>2. Past(i[1])
      BY <3>1, <2>1 DEF LeadsInv, TargetsByEnded, Goes
    <3>3. QED
      BY <3>1, <3>2, PastStays
  <2>2. QED
    BY <2>1 DEF TargetsByEnded
<1>4. ImportsKnow'
  <2>1. ASSUME NEW d \in Calls, NEW r \in leads', kind'[d] = "import", Imported(r)', r.by \in before'[d]
        PROVE  r.email \in known'[d]
    <3>1. r.by # c
      <4>1. pc[r.by] \in Ended
        BY <2>1 DEF CallsInv, EndedBefore, Goes
      <4>2. QED
        BY <4>1, PastStays
    <3>2. PICK s \in leads : s.by = r.by /\ s.email = r.email
      BY <3>1
    <3>3. Imported(s)
      BY <3>2, <2>1, <1>1 DEF Imported
    <3>4. CASE d # c
      BY <2>1, <3>2, <3>3, <3>4 DEF LeadsInv, ImportsKnow, Goes
    <3>5. CASE d = c /\ pc[c] = "idle"
      BY <2>1, <3>2, <3>5 DEF Emails
    <3>6. CASE d = c /\ pc[c] # "idle"
      BY <2>1, <3>2, <3>3, <3>6 DEF LeadsInv, ImportsKnow, Goes
    <3>7. QED
      BY <3>4, <3>5, <3>6
  <2>2. QED
    BY <2>1 DEF ImportsKnow
<1>5. ImportsNew'
  <2>1. ASSUME NEW r \in leads', Imported(r)' PROVE r.email \notin known'[r.by]
    <3>1. CASE r.by = c
      BY <2>1, <3>1 DEF Imported
    <3>2. CASE r.by # c
      <4>1. PICK s \in leads : s.by = r.by /\ s.email = r.email
        BY <3>2
      <4>2. Imported(s) /\ known'[s.by] = known[s.by]
        BY <2>1, <3>2, <4>1, <1>1 DEF Imported
      <4>3. QED
        BY <4>1, <4>2 DEF LeadsInv, ImportsNew
    <3>3. QED
      BY <3>1, <3>2
  <2>2. QED
    BY <2>1 DEF ImportsNew
<1>6. ErasedForGood'
  <2>1. ASSUME NEW d \in Calls \ {c}, kind'[d] = "delete", pc'[d] = "ok",
               NEW r \in leads', r.id \in target'[d]
        PROVE  FALSE
    <3>1. kind[d] = "delete" /\ pc[d] = "ok" /\ r.id \in target[d]
      BY <2>1 DEF Goes
    <3>2. Past(r.id[1]) /\ \A s \in leads : s.id # r.id
      BY <3>1 DEF LeadsInv, TargetsByEnded, ErasedForGood, Targets
    <3>3. QED
      BY <3>2, PastStays
  <2>2. QED
    BY <2>1 DEF ErasedForGood, Targets
<1>7. QED
  BY <1>2, <1>3, <1>4, <1>5, <1>6 DEF LeadsInv

LEMMA LeadsBeginNext ==
    ASSUME CallsInv, LeadsInv, NEW c \in Calls, LeadPart(c), LeadBegins(c) PROVE LeadsInv'
<1>1. Goes(c) /\ c # Seed /\ pc[c] = "idle" /\ ~Past(c)
  BY LeadGoes, PastStays DEF LeadBegins, CreateLead, ImportRead, LeadRead, PurgeExpiredLeads, Begin, MayBegin
<1>2. /\ \A k, q : Begin(c, k, q) => kind'[c] = k /\ pc'[c] = q
  BY DEF Begin, CallsInv, CallsTypeOK
<1>3. \A r \in leads : r.by # c
  BY <1>1 DEF LeadsInv, RowsByEnded
<1>4. CASE \E a \in Addresses, optIn \in BOOLEAN : CreateLead(c, a, optIn)
  <2>1. PICK a \in Addresses, optIn \in BOOLEAN : CreateLead(c, a, optIn)
    BY <1>4
  <2>2. /\ kind'[c] = "create" /\ pc'[c] \in {"ok", "failed"} /\ UNCHANGED <<known, file, target>>
        /\ leads' \subseteq leads \cup {Lead(c, a, optIn)}
    BY <2>1, <1>2 DEF CreateLead
  <2>3. Lead(c, a, optIn) \in LeadRows /\ Lead(c, a, optIn).by = c /\ Lead(c, a, optIn).id[1] = c
    BY DEF Lead, LeadRows, Ids
  <2>4. LeadsTypeOK'
    BY <2>2, <2>3 DEF LeadsInv, LeadsTypeOK, LeadRows, Ids
  <2>5. QED
    BY <1>1, <2>2, <2>3, <2>4, LeadsChange DEF Ended
<1>5. CASE \E f \in SUBSET Addresses : ImportRead(c, f)
  <2>1. /\ kind'[c] = "import" /\ pc'[c] = "importing" /\ UNCHANGED <<leads, target>>
        /\ known' = [known EXCEPT ![c] = Emails(leads)]
        /\ \E f \in SUBSET Addresses : file' = [file EXCEPT ![c] = f]
    BY <1>5, <1>2 DEF ImportRead
  <2>2. Emails(leads) \subseteq Addresses
    BY DEF LeadsInv, LeadsTypeOK, Emails
  <2>3. LeadsTypeOK' /\ known'[c] = Emails(leads) /\ \A d \in Calls \ {c} : known'[d] = known[d]
    BY <2>1, <2>2 DEF LeadsInv, LeadsTypeOK, Ids
  <2>4. QED
    BY <1>1, <1>3, <2>1, <2>3, LeadsChange
<1>6. CASE \E k \in {"update", "delete"}, i \in Ids : LeadRead(c, k, i)
  <2>1. PICK k \in {"update", "delete"}, i \in Ids : LeadRead(c, k, i)
    BY <1>6
  <2>2. /\ kind'[c] = k /\ UNCHANGED <<leads, known, file>> /\ target' = [target EXCEPT ![c] = {i}]
        /\ IF \E r \in leads : r.id = i THEN pc'[c] = "read" ELSE pc'[c] = "refused"
    BY <2>1, <1>2 DEF LeadRead
  <2>3. LeadsTypeOK' /\ target'[c] = {i} /\ \A d \in Calls \ {c} : target'[d] = target[d]
    BY <2>2 DEF LeadsInv, LeadsTypeOK, Ids
  <2>4. pc'[c] = "read" => Past(i[1])'
    <3>1. pc'[c] = "read" => Past(i[1])
      BY <2>2 DEF LeadsInv, RowsByEnded
    <3>2. i[1] \in Calls \cup {Seed}
      BY DEF Ids
    <3>3. QED
      BY <1>1, <3>1, <3>2, PastStays
  <2>5. QED
    BY <1>1, <2>2, <2>3, <2>4, LeadsChange
<1>7. CASE PurgeExpiredLeads(c)
  <2>1. /\ kind'[c] = "purge" /\ leads' \subseteq leads /\ UNCHANGED <<known, file, target>>
        /\ pc'[c] \in {"ok", "failed"}
    BY <1>7, <1>2 DEF PurgeExpiredLeads
  <2>2. LeadsTypeOK'
    BY <2>1 DEF LeadsInv, LeadsTypeOK, Ids
  <2>3. QED
    BY <1>1, <2>1, <2>2, LeadsChange
<1>8. QED
  BY <1>4, <1>5, <1>6, <1>7 DEF LeadBegins

LEMMA LeadsStepNext ==
    ASSUME CallsInv, LeadsInv, NEW c \in Calls, LeadPart(c), LeadSteps(c) PROVE LeadsInv'
<1>1. Goes(c) /\ c # Seed /\ ~Past(c) /\ \A r \in leads : r.by # c
  BY LeadGoes, PastStays DEF LeadsInv, RowsByEnded
<1>2. \A p, q : Step(c, p, q) => /\ kind'[c] = kind[c] /\ pc[c] = p /\ pc'[c] = q
  BY DEF Step, CallsInv, CallsTypeOK
<1>3. CASE \E optIn \in BOOLEAN : ImportCommit(c, optIn)
  <2>1. PICK optIn \in BOOLEAN : ImportCommit(c, optIn)
    BY <1>3
  <2>2. /\ pc[c] = "importing" /\ pc'[c] = "ok" /\ UNCHANGED <<known, file, target>>
        /\ leads' = leads \cup {Lead(c, a, optIn) : a \in NewAddresses(c)}
        /\ kind[c] = "import" /\ kind'[c] = "import"
    BY <2>1, <1>2, Whose DEF ImportCommit
  <2>3. \A a \in NewAddresses(c) :
            /\ a \in Addresses /\ a \notin known[c]
            /\ Lead(c, a, optIn) \in LeadRows /\ Lead(c, a, optIn).by = c
            /\ Lead(c, a, optIn).id[1] = c /\ Lead(c, a, optIn).email = a
    BY DEF LeadsInv, LeadsTypeOK, NewAddresses, Lead, LeadRows, Ids
  <2>4. LeadsTypeOK'
    BY <2>2, <2>3 DEF LeadsInv, LeadsTypeOK, LeadRows, Ids
  <2>5. \A r \in leads' : r \in leads \/ (r.by = c /\ r.id[1] = c /\ r.email \notin known[c])
    BY <2>2, <2>3
  <2>6. QED
    BY <1>1, <2>2, <2>4, <2>5, LeadsChange DEF Ended
<1>4. CASE \E a \in Addresses, optIn \in BOOLEAN : UpdateLead(c, a, optIn)
  <2>1. PICK a \in Addresses, optIn \in BOOLEAN : UpdateLead(c, a, optIn)
    BY <1>4
  <2>2. /\ kind'[c] = "update" /\ pc[c] = "read" /\ pc'[c] \in {"ok", "failed"}
        /\ UNCHANGED <<known, file, target>> /\ leads' = Updated(c, a, optIn)
    BY <2>1, <1>2 DEF UpdateLead
  <2> DEFINE New(s) == [s EXCEPT !.by = IF a = s.email THEN @ ELSE c, !.email = a, !.optIn = optIn]
  <2>3. ASSUME NEW s \in leads
        PROVE  /\ New(s) \in LeadRows /\ New(s).id = s.id
               /\ New(s).by = c \/ (New(s).by = s.by /\ New(s).email = s.email)
    BY <2>3 DEF LeadsInv, LeadsTypeOK, LeadRows
  <2>4. \A r \in leads' :
            /\ r \in LeadRows /\ \E s \in leads : s.id = r.id
            /\ r.by = c \/ \E s \in leads : s.by = r.by /\ s.email = r.email
    <3>1. ASSUME NEW r \in leads', r \in leads
          PROVE  /\ r \in LeadRows /\ \E s \in leads : s.id = r.id
                 /\ r.by = c \/ \E s \in leads : s.by = r.by /\ s.email = r.email
      BY <3>1 DEF LeadsInv, LeadsTypeOK, LeadRows
    <3>2. ASSUME NEW r \in leads', r \notin leads
          PROVE  /\ r \in LeadRows /\ \E s \in leads : s.id = r.id
                 /\ r.by = c \/ \E s \in leads : s.by = r.by /\ s.email = r.email
      <4>1. PICK s \in leads : r = New(s)
        BY <2>2, <3>2 DEF Updated, Targets
      <4>2. QED
        BY <4>1, <2>3
    <3>3. QED
      BY <3>1, <3>2
  <2>5. LeadsTypeOK'
    BY <2>2, <2>4 DEF LeadsInv, LeadsTypeOK, LeadRows, Ids
  <2>6. \A i \in target'[c] : Past(i[1])'
    <3>1. \A i \in target[c] : Past(i[1]) /\ i[1] \in Calls \cup {Seed}
      BY <2>2 DEF LeadsInv, LeadsTypeOK, TargetsByEnded, Ids
    <3>2. QED
      BY <1>1, <2>2, <3>1, PastStays
  <2>7. QED
    BY <1>1, <2>2, <2>4, <2>5, <2>6, LeadsChange DEF Ended
<1>5. CASE ImportFails(c) \/ LeadFails(c)
  <2>1. /\ UNCHANGED <<leads, known, file, target>> /\ pc'[c] = "failed" /\ pc[c] # "idle"
        /\ kind'[c] = kind[c]
    BY <1>5, <1>2 DEF ImportFails, LeadFails, leadVars
  <2>2. LeadsTypeOK'
    BY <2>1 DEF LeadsInv, LeadsTypeOK, Ids
  <2>3. QED
    BY <1>1, <2>1, <2>2, LeadsChange
<1>6. CASE DeleteLead(c)
  <2>1. /\ kind'[c] = "delete" /\ pc[c] = "read" /\ pc'[c] = "ok"
        /\ UNCHANGED <<known, file, target>> /\ leads' = leads \ Targets(c)
    BY <1>6, <1>2 DEF DeleteLead
  <2>2. LeadsTypeOK' /\ Targets(c)' = {}
    BY <2>1 DEF LeadsInv, LeadsTypeOK, Ids, Targets
  <2>3. \A i \in target'[c] : Past(i[1])'
    <3>1. \A i \in target[c] : Past(i[1]) /\ i[1] \in Calls \cup {Seed}
      BY <2>1 DEF LeadsInv, LeadsTypeOK, TargetsByEnded, Ids
    <3>2. QED
      BY <1>1, <2>1, <3>1, PastStays
  <2>4. QED
    BY <1>1, <2>1, <2>2, <2>3, LeadsChange
<1>7. QED
  BY <1>3, <1>4, <1>5, <1>6 DEF LeadSteps

LEMMA FlowKeepsLeads == ASSUME NEW c \in Calls, FlowPart(c) PROVE UNCHANGED leadVars
<1>1. CASE \E k \in Pipelines : StartPipeline(c, k)
  BY <1>1 DEF StartPipeline
<1>2. CASE FlowSteps(c)
  BY <1>2 DEF FlowSteps, ReadInputs, CampaignMissing, CreateJob, CreateJobFails, SendMessage,
     SendFails, MarkRunning, ReadWeights, AdjustWeights, LoopFails, MarkCompleted, MarkFailed, MarkFails
<1>3. QED
  BY <1>1, <1>2 DEF FlowPart

LEMMA LeadsStart == Init => LeadsInv
<1> SUFFICES ASSUME CallsInit, LeadsInit PROVE LeadsInv
  BY DEF Init
<1>1. \A a \in OldLeads : /\ Lead(Seed, a, TRUE) \in LeadRows
                          /\ Lead(Seed, a, TRUE).id[1] = Seed /\ Lead(Seed, a, TRUE).by = Seed
  BY LeadConstants DEF LeadConstants, Lead, LeadRows, Ids
<1>2. \A r \in leads : r \in LeadRows /\ r.id[1] = Seed /\ r.by = Seed
  BY <1>1 DEF LeadsInit
<1>3. \A c \in Calls : c # Seed /\ pc[c] = "idle" /\ kind[c] = "none"
  BY DEF CallsInit, Calls, Seed
<1>4. LeadsTypeOK
  BY <1>2 DEF LeadsInit, LeadsTypeOK, LeadRows
<1>5. QED
  BY <1>2, <1>3, <1>4
  DEF LeadsInv, RowsByEnded, TargetsByEnded, ImportsKnow, ImportsNew, ErasedForGood, Imported, Past

LEMMA LeadsNextInv == CallsInv /\ LeadsInv /\ [Next]_vars => LeadsInv'
<1> SUFFICES ASSUME CallsInv, LeadsInv, [Next]_vars PROVE LeadsInv'
  OBVIOUS
<1>1. ASSUME UNCHANGED <<callVars, leadVars>> PROVE LeadsInv'
  <2>1. UNCHANGED <<kind, pc, before, leads, known, file, target>>
    BY <1>1 DEF callVars, leadVars
  <2>2. QED
    BY <2>1 DEF LeadsInv, LeadsTypeOK, RowsByEnded, TargetsByEnded, ImportsKnow, ImportsNew,
       ErasedForGood, Imported, Past, Targets, Ids
<1>2. CASE UNCHANGED vars \/ TimePasses
  BY <1>1, <1>2, TimeStays DEF vars, rowVars, TimePasses, LedgerFrame, RateFrame
<1>3. ASSUME NEW c \in Calls, LeadPart(c) PROVE LeadsInv'
  BY <1>3, LeadsBeginNext, LeadsStepNext DEF LeadPart
<1>4. ASSUME NEW c \in Calls, FlowPart(c) \/ LedgerPart(c) \/ LimitPart(c) PROVE LeadsInv'
  <2>1. UNCHANGED leadVars
    BY <1>4, FlowKeepsLeads DEF LedgerPart, LimitPart, LedgerFrame, RateFrame
  <2>2. Goes(c) /\ kind'[c] \notin LeadKinds
    BY <1>4, FlowGoes, LedgerGoes, LimitGoes DEF LeadKinds, Pipelines
  <2>3. QED
    BY <2>1, <2>2, LeadsAside
<1>5. ASSUME NEW c \in Calls, ScorePart(c) \/ MediaPart(c) \/ ProjectPart(c) PROVE LeadsInv'
  <2>1. UNCHANGED leadVars
    BY <1>5 DEF ScorePart, MediaPart, ProjectPart, rowVars
  <2>2. Goes(c) /\ kind'[c] \notin LeadKinds
    BY <1>5, ScoreGoes, MediaGoes, ProjectGoes DEF LeadKinds, Scorers
  <2>3. QED
    BY <2>1, <2>2, LeadsAside
<1>6. ASSUME NEW c \in Calls, ProcessDies(c) PROVE LeadsInv'
  BY <1>6, DiesGoes, LeadsAside
<1>7. QED
  BY <1>2, <1>3, <1>4, <1>5, <1>6, NextParts

LEMMA LeadsInvariant == Spec => []LeadsInv
  BY LeadsStart, LeadsNextInv, CallsInvariant, PTL DEF Spec

(* Two imports only store the same address when they overlap: an import      *)
(* knows every row of those that ended before it began                       *)
(* (lead_service.py:186-205).                                                *)
LEMMA ImportsDiffer == CallsInv /\ LeadsInv => ImportsSkipKnown
<1> SUFFICES ASSUME CallsInv, LeadsInv, NEW r \in leads, NEW s \in leads, r.email = s.email,
                    {r.by, s.by} \subseteq {c \in Calls : kind[c] = "import"}
             PROVE  Overlapped(r.by, s.by)
  BY DEF ImportsSkipKnown
<1>1. Imported(r) /\ Imported(s)
  BY DEF Imported
<1>2. r.by \notin before[s.by]
  BY <1>1 DEF LeadsInv, ImportsKnow, ImportsNew, Imported
<1>3. s.by \notin before[r.by]
  BY <1>1 DEF LeadsInv, ImportsKnow, ImportsNew, Imported
<1>4. QED
  BY <1>2, <1>3 DEF Overlapped

----------------------------------------------------------------------------
\* The weights of a project

LEMMA WeightsStart == Init => WeightsInv
<1> SUFFICES ASSUME CallsInit, WorkflowInit PROVE WeightsInv
  BY DEF Init
<1>1. \A v, w \in weights : v.by = Seed /\ v.by = w.by
  BY DEF WorkflowInit, After, Weights
<1>2. QED
  BY <1>1 DEF WritersBegan, CallsInit, WorkflowInit, WeightsInv, FoundThere, LoopsAlone, WeightsTwiceOverlap, WritersOf

(* Nothing of the weights changes, and nobody gets to where it adjusts them. *)
LEMMA WeightsAside ==
    ASSUME CallsInv, WeightsInv, NEW c \in Calls, Goes(c), UNCHANGED <<weights, found>>,
           pc'[c] = "adjusting" => pc[c] = "adjusting"
    PROVE  WeightsInv'
<1>1. FoundThere' /\ WritersBegan'
  BY DEF WeightsInv, FoundThere, WritersBegan, WritersOf, Goes
<1>2. \A d \in Calls : pc'[d] = "adjusting" => pc[d] = "adjusting" /\ before'[d] = before[d]
  BY DEF Goes
<1>3. LoopsAlone'
  BY <1>2 DEF WeightsInv, LoopsAlone, WritersOf
<1>4. WeightsTwiceOverlap'
  <2>1. ASSUME NEW v \in weights, NEW w \in weights, v.by # w.by PROVE Overlapped(v.by, w.by)'
    <3>1. /\ {v.by, w.by} \subseteq Calls /\ Overlapped(v.by, w.by)
          /\ pc[v.by] # "idle" /\ pc[w.by] # "idle"
      BY <2>1 DEF WeightsInv, WeightsTwiceOverlap, WritersBegan, WritersOf, Calls, Seed
    <3>2. QED
      BY <3>1 DEF Overlapped, Goes
  <2>2. QED
    BY <2>1 DEF WeightsInv, WeightsTwiceOverlap
<1>5. QED
  BY <1>1, <1>3, <1>4 DEF WeightsInv

LEMMA ReadWeightsNext ==
    ASSUME CallsInv, WeightsInv, NEW c \in Calls, Goes(c), ReadWeights(c)
    PROVE  WeightsInv'
<1>1. /\ weights' = weights /\ before' = before /\ found' = [found EXCEPT ![c] = weights]
      /\ pc[c] # "idle" /\ found = [d \in Calls |-> found[d]]
  BY DEF ReadWeights, Step, WeightsInv
<1>2. FoundThere' /\ WritersBegan'
  BY <1>1 DEF WeightsInv, FoundThere, WritersBegan, WritersOf, Goes
<1>3. LoopsAlone'
  BY <1>1 DEF WeightsInv, LoopsAlone, WritersOf, Goes
<1>4. WeightsTwiceOverlap'
  BY <1>1 DEF WeightsInv, WeightsTwiceOverlap, Overlapped
<1>5. found' = [d \in Calls |-> found'[d]]
  BY <1>1
<1>6. QED
  BY <1>2, <1>3, <1>4, <1>5 DEF WeightsInv

LEMMA AdjustWeightsNext ==
    ASSUME CallsInv, WeightsInv, NEW c \in Calls, Goes(c), AdjustWeights(c) PROVE WeightsInv'
<1>1. /\ weights' = WroteWeights(c) /\ UNCHANGED <<before, found>>
      /\ pc[c] = "adjusting" /\ pc'[c] # "adjusting"
  BY DEF AdjustWeights, Step, CallsInv, CallsTypeOK
<1>2. CASE found[c] # {}
  <2> DEFINE F == WritersOf(found[c])
  <2>1. \A v \in found[c] : Moved(v).by = v.by /\ v.by \in WritersOf(weights)
    BY DEF Moved, WeightsInv, FoundThere, WritersOf
  <2>2. weights' = {w \in weights : w.by \notin F} \cup {Moved(v) : v \in found[c]}
    BY <1>1, <1>2 DEF WroteWeights, WritersOf
  <2>3. ASSUME NEW w \in weights' PROVE w.by \in WritersOf(weights)
    BY <2>1, <2>2, <2>3 DEF WritersOf
  <2>4. ASSUME NEW w \in weights PROVE \E u \in weights' : u.by = w.by
    <3>1. CASE w.by \in F
      <4>1. PICK v \in found[c] : v.by = w.by
        BY <3>1 DEF WritersOf
      <4>2. Moved(v) \in weights'
        BY <2>2
      <4>3. QED
        BY <4>1, <4>2, <2>1
    <3>2. CASE w.by \notin F
      BY <3>2, <2>2
    <3>3. QED
      BY <3>1, <3>2
  <2>5. WritersOf(weights)' = WritersOf(weights)
    BY <2>3, <2>4 DEF WritersOf
  <2>6. FoundThere' /\ WritersBegan'
    BY <1>1, <2>5 DEF WeightsInv, FoundThere, WritersBegan, WritersOf, Goes
  <2>7. LoopsAlone'
    BY <1>1, <2>5 DEF WeightsInv, LoopsAlone, Goes
  <2>8. ASSUME NEW v \in weights', NEW w \in weights', v.by # w.by
        PROVE  {v.by, w.by} \subseteq Calls /\ Overlapped(v.by, w.by)
    <3>1. PICK x \in weights, y \in weights : x.by = v.by /\ y.by = w.by
      BY <2>3 DEF WritersOf
    <3>2. QED
      BY <2>8, <3>1 DEF WeightsInv, WeightsTwiceOverlap
  <2>9. WeightsTwiceOverlap'
    BY <1>1, <2>8 DEF WeightsTwiceOverlap, Overlapped
  <2>10. QED
    BY <1>1, <2>6, <2>7, <2>9 DEF WeightsInv
<1>3. CASE found[c] = {}
  <2>1. weights' = weights \cup {Defaults(c)} /\ Defaults(c).by = c
    BY <1>1, <1>3 DEF WroteWeights, Defaults, Weights
  <2>2. WritersOf(weights)' = WritersOf(weights) \cup {c}
    BY <2>1 DEF WritersOf
  <2>3. /\ WritersOf(weights) \subseteq Calls \ before[c]
        /\ \A d \in Calls : c \notin before[d]
    BY <1>1, <1>3 DEF WeightsInv, LoopsAlone, CallsInv, EndedBefore, Ended
  <2>4. FoundThere' /\ WritersBegan'
    BY <1>1, <2>2 DEF WeightsInv, FoundThere, WritersBegan, WritersOf, Goes
  <2>5. LoopsAlone'
    BY <1>1, <2>2, <2>3 DEF WeightsInv, LoopsAlone, Goes
  <2>6. ASSUME NEW w \in weights
        PROVE  w.by \in Calls /\ Overlapped(w.by, c) /\ Overlapped(c, w.by)
    BY <2>3 DEF WritersOf, Overlapped
  <2>7. ASSUME NEW v \in weights', NEW w \in weights', v.by # w.by
        PROVE  {v.by, w.by} \subseteq Calls /\ Overlapped(v.by, w.by)
    BY <2>1, <2>6, <2>7 DEF WeightsInv, WeightsTwiceOverlap
  <2>8. WeightsTwiceOverlap'
    BY <1>1, <2>7 DEF WeightsTwiceOverlap, Overlapped
  <2>9. QED
    BY <1>1, <2>4, <2>5, <2>8 DEF WeightsInv
<1>4. QED
  BY <1>2, <1>3

LEMMA WeightsNext == CallsInv /\ WeightsInv /\ [Next]_vars => WeightsInv'
<1> SUFFICES ASSUME CallsInv, WeightsInv, [Next]_vars PROVE WeightsInv'
  OBVIOUS
<1>1. ASSUME UNCHANGED <<callVars, flowVars>> PROVE WeightsInv'
  <2>1. UNCHANGED <<pc, before, weights, found>>
    BY <1>1 DEF callVars, flowVars
  <2>2. QED
    BY <2>1 DEF WeightsInv, FoundThere, WritersBegan, LoopsAlone, WeightsTwiceOverlap, WritersOf,
       Overlapped
<1>2. CASE UNCHANGED vars \/ TimePasses
  BY <1>1, <1>2, TimeStays DEF vars, rowVars, TimePasses, LedgerFrame, RateFrame
<1>3. ASSUME NEW c \in Calls, Goes(c), UNCHANGED flowVars, kind'[c] \notin Pipelines \/ pc'[c] = "lost"
      PROVE  WeightsInv'
  <2>1. pc'[c] # "adjusting"
    BY <1>3, OwnersOfPoints DEF Goes, CallsInv, OwnPoints
  <2>2. QED
    BY <1>3, <2>1, WeightsAside DEF flowVars
<1>4. ASSUME NEW c \in Calls, LeadPart(c) \/ LedgerPart(c) \/ LimitPart(c) PROVE WeightsInv'
  <2>1. UNCHANGED flowVars /\ Goes(c) /\ kind'[c] \notin Pipelines
    BY <1>4, LeadGoes, LedgerGoes, LimitGoes
    DEF LeadPart, LedgerPart, LimitPart, LeadFrame, LedgerFrame, RateFrame, Pipelines
  <2>2. QED
    BY <1>3, <2>1
<1>5. ASSUME NEW c \in Calls, ScorePart(c) \/ MediaPart(c) \/ ProjectPart(c) PROVE WeightsInv'
  <2>1. UNCHANGED flowVars /\ Goes(c) /\ kind'[c] \notin Pipelines
    BY <1>5, ScoreGoes, MediaGoes, ProjectGoes
    DEF ScorePart, MediaPart, ProjectPart, rowVars, Pipelines, Scorers
  <2>2. QED
    BY <1>3, <2>1
<1>6. ASSUME NEW c \in Calls, ProcessDies(c) PROVE WeightsInv'
  BY <1>3, <1>6, DiesGoes
<1>7. ASSUME NEW c \in Calls, FlowPart(c) PROVE WeightsInv'
  <2>1. Goes(c)
    BY <1>7, FlowGoes
  <2>2. CASE ReadWeights(c) \/ AdjustWeights(c)
    BY <2>1, <2>2, ReadWeightsNext, AdjustWeightsNext
  <2>3. ASSUME UNCHANGED <<weights, found>>, pc'[c] # "adjusting" PROVE WeightsInv'
    BY <2>1, <2>3, WeightsAside
  <2>4. CASE \E k \in Pipelines : StartPipeline(c, k)
    BY <2>3, <2>4 DEF StartPipeline, Begin, flowVars, CallsInv, CallsTypeOK
  <2>5. CASE \/ ReadInputs(c) \/ CreateJob(c) \/ SendMessage(c) \/ SendFails(c) \/ MarkRunning(c)
             \/ LoopFails(c) \/ MarkCompleted(c) \/ MarkFailed(c)
    BY <2>3, <2>5 DEF ReadInputs, CreateJob, SendMessage, SendFails, MarkRunning, LoopFails,
       MarkCompleted, MarkFailed, Step, flowVars, CallsInv, CallsTypeOK
  <2>6. CASE CampaignMissing(c) \/ CreateJobFails(c) \/ MarkFails(c)
    <3>1. UNCHANGED <<weights, found>> /\ pc'[c] \in {"reading", "failed"}
      BY <2>6, RaiseGoes, MidwayGoesOn DEF CampaignMissing, CreateJobFails, MarkFails, Midway
    <3>2. QED
      BY <2>3, <3>1
  <2>7. QED
    BY <1>7, <2>2, <2>4, <2>5, <2>6 DEF FlowPart, FlowSteps
<1>8. QED
  BY <1>2, <1>4, <1>5, <1>6, <1>7, NextParts

LEMMA WeightsInvariant == Spec => []WeightsInv
  BY WeightsStart, WeightsNext, CallsInvariant, PTL DEF Spec

(* What two calls wrote twice, a lead or the weights of a project, they      *)
(* wrote while they overlapped, however many calls there are                 *)
(* (lead_service.py:186-205, workflow.py:143-149).                           *)
THEOREM DuplicatesFromOverlaps == Spec => []DuplicatesOverlap
<1>1. CallsInv /\ LeadsInv /\ WeightsInv => DuplicatesOverlap
  BY ImportsDiffer DEF WeightsInv, DuplicatesOverlap
<1>2. QED
  BY <1>1, CallsInvariant, LeadsInvariant, WeightsInvariant, PTL

----------------------------------------------------------------------------
\* The archived project

LEMMA ArchiveStart == Init => ArchiveInv
<1> SUFFICES ASSUME CallsInit, ProjectsInit PROVE ArchiveInv
  BY DEF Init
<1>1. NoProject \in ProjectRows /\ ~NoProject.archived
  BY DEF NoProject, ProjectRows
<1>2. \A c \in Calls : kind[c] = "none" /\ pc[c] = "idle"
  BY DEF CallsInit
<1>3. QED
  BY <1>1, <1>2 DEF ProjectsInit, ArchiveInv, EditsAsk, FoundArchived, ArchiveStands, Edits

(* Whether the project is archived stays, and no edit reads or commits.      *)
LEMMA ArchiveAside ==
    ASSUME CallsInv, ArchiveInv, NEW c \in Calls, Goes(c),
           row' \in ProjectRows, row'.archived = row.archived, loaded' = loaded,
           kind'[c] = "edit" => pc'[c] \notin {"editing", "ok"},
           kind'[c] = "edit" /\ pc[c] = "idle" => given'[c] \in Fields
    PROVE  ArchiveInv'
<1>1. EditsAsk'
  BY DEF ArchiveInv, EditsAsk, Goes, Running
<1>2. \A d \in Calls : kind'[d] = "edit" /\ pc'[d] \in {"editing", "ok"} =>
          /\ kind[d] = "edit" /\ pc[d] = pc'[d] /\ given[d] = given'[d] /\ before[d] = before'[d]
  BY DEF Goes
<1>3. \A d \in Calls : pc[d] = "ok" => pc'[d] = "ok" /\ kind'[d] = kind[d] /\ given'[d] = given[d]
  BY DEF Goes, Running, Ended
<1>4. ASSUME NEW d \in Calls, before'[d] = before[d], StillArchived(d) PROVE StillArchived(d)'
  BY <1>3, <1>4 DEF StillArchived, Edits
<1>5. FoundArchived'
  <2>1. \A d \in Calls : pc'[d] = "editing" => kind'[d] = "edit"
    BY OwnersOfPoints DEF Goes, CallsInv, OwnPoints
  <2>2. QED
    BY <1>2, <1>4, <2>1 DEF ArchiveInv, FoundArchived
<1>6. ArchiveStands'
  <2>1. ASSUME NEW d \in Edits("archived", "set")' PROVE StillArchived(d)'
    BY <1>2, <1>4, <2>1 DEF ArchiveInv, ArchiveStands, StillArchived, Edits
  <2>2. QED
    BY <2>1 DEF ArchiveStands, StillArchived
<1>7. QED
  BY <1>1, <1>5, <1>6 DEF ArchiveInv, NoProject

LEMMA EditReadNext ==
    ASSUME CallsInv, ArchiveInv, NEW c \in Calls, Goes(c), EditRead(c) PROVE ArchiveInv'
<1>1. /\ row' = row /\ loaded' = [loaded EXCEPT ![c] = row] /\ loaded' \in [Calls -> ProjectRows]
      /\ kind[c] = "edit" /\ pc[c] = "reading" /\ pc'[c] # "ok" /\ before' = before
      /\ given' = given /\ kind' = kind
  BY DEF EditRead, Produce, Step, ArchiveInv, CallsInv, CallsTypeOK
<1>2. \A d \in Calls : pc[d] = "ok" => pc'[d] = "ok"
  BY <1>1 DEF Goes
<1>3. ASSUME NEW d \in Calls, StillArchived(d) PROVE StillArchived(d)'
  BY <1>1, <1>2, <1>3 DEF StillArchived, Edits
<1>4. FoundArchived'
  BY <1>1, <1>3 DEF ArchiveInv, FoundArchived, StillArchived, Goes
<1>5. ArchiveStands'
  <2>1. ASSUME NEW d \in Edits("archived", "set")' PROVE d \in Edits("archived", "set")
    BY <1>1, <2>1 DEF Edits, Goes
  <2>2. QED
    BY <1>3, <2>1 DEF ArchiveInv, ArchiveStands, StillArchived, Edits
<1>6. QED
  BY <1>1, <1>4, <1>5 DEF ArchiveInv, EditsAsk, NoProject

(* What an edit writes: the fields it would leave as it read them stay as    *)
(* they are.                                                                *)
LEMMA WrittenFields ==
    ASSUME NEW c \in Calls, row \in ProjectRows, loaded[c] \in ProjectRows
    PROVE  LET new == Wanted(loaded[c].archived, given[c].archived)
           IN /\ Written(c) \in ProjectRows
              /\ Written(c).archived = IF new = loaded[c].archived THEN row.archived ELSE new
  BY DEF Written, ProjectRows, Wanted

LEMMA EditCommitNext ==
    ASSUME CallsInv, ArchiveInv, NEW c \in Calls, Goes(c), EditCommit(c) PROVE ArchiveInv'
<1> DEFINE x == given[c].archived
           new == Wanted(loaded[c].archived, x)
<1>1. /\ row' = Written(c) /\ loaded' = loaded /\ before' = before /\ given' = given /\ kind' = kind
      /\ pc[c] = "editing" /\ pc'[c] = "ok" /\ kind[c] = "edit"
  BY Whose DEF EditCommit, Produce, Step, CallsInv, CallsTypeOK
<1>2. /\ row' \in ProjectRows /\ x \in {"kept", "set", "cleared"}
      /\ row'.archived = IF new = loaded[c].archived THEN row.archived ELSE new
  BY <1>1, WrittenFields DEF ArchiveInv, EditsAsk, Fields
<1>3. \A d \in Calls : pc[d] = "ok" => pc'[d] = "ok"
  BY <1>1 DEF Goes
<1>4. \A d \in Calls : c \notin before[d]
  BY <1>1 DEF CallsInv, EndedBefore, Ended
<1>5. ASSUME NEW d \in Calls, StillArchived(d) PROVE StillArchived(d)'
  <2>1. CASE row.archived /\ ~row'.archived
    <3>1. x = "cleared"
      BY <1>2, <2>1 DEF Wanted
    <3>2. c \in Edits("archived", "cleared")' /\ c \notin before'[d]
      BY <1>1, <1>4, <3>1 DEF Edits
    <3>3. QED
      BY <3>2 DEF StillArchived
  <2>2. CASE \E e \in Edits("archived", "cleared") : e \notin before[d]
    BY <1>1, <1>3, <2>2 DEF StillArchived, Edits
  <2>3. QED
    BY <1>5, <2>1, <2>2 DEF StillArchived
<1>6. FoundArchived'
  BY <1>1, <1>5 DEF ArchiveInv, FoundArchived, Goes
<1>7. ArchiveStands'
  <2>1. ASSUME NEW d \in Edits("archived", "set")' PROVE StillArchived(d)'
    <3>1. CASE d = c /\ ~loaded[c].archived
      BY <1>1, <1>2, <2>1, <3>1 DEF Edits, Wanted, StillArchived
    <3>2. CASE d = c /\ loaded[c].archived
      BY <1>1, <1>5, <3>2 DEF ArchiveInv, FoundArchived
    <3>3. CASE d # c
      BY <1>1, <1>5, <2>1, <3>3 DEF ArchiveInv, ArchiveStands, StillArchived, Edits, Goes
    <3>4. QED
      BY <3>1, <3>2, <3>3
  <2>2. QED
    BY <2>1 DEF ArchiveStands, StillArchived
<1>8. QED
  BY <1>1, <1>2, <1>6, <1>7 DEF ArchiveInv, EditsAsk, NoProject

LEMMA ProjectsNext ==
    ASSUME CallsInv, ArchiveInv, NEW c \in Calls, ProjectPart(c) PROVE ArchiveInv'
<1>1. Goes(c)
  BY ProjectGoes
<1>2. CASE EditRead(c) \/ EditCommit(c)
  BY <1>1, <1>2, EditReadNext, EditCommitNext
<1>3. ASSUME row' \in ProjectRows, row'.archived = row.archived, loaded' = loaded,
             kind'[c] = "edit" => pc'[c] \notin {"editing", "ok"},
             kind'[c] = "edit" /\ pc[c] = "idle" => given'[c] \in Fields
      PROVE  ArchiveInv'
  BY <1>1, <1>3, ArchiveAside
<1>4. CASE \E f \in {"url", "archived"}, x \in {"set", "cleared"} : EditBegins(c, Only(f, x))
  <2>1. PICK f \in {"url", "archived"}, x \in {"set", "cleared"} : Ask(c, "edit", Only(f, x))
    BY <1>4 DEF EditBegins
  <2>2. pc'[c] = "reading" /\ given'[c] = Only(f, x) /\ UNCHANGED projectVars
    BY <1>4, <2>1, AskGoes DEF EditBegins, Kinds
  <2>3. Only(f, x) \in Fields
    BY DEF Only, Fields
  <2>4. QED
    BY <1>3, <2>2, <2>3 DEF ArchiveInv, projectVars
<1>5. CASE \/ \E url \in BOOLEAN : CreateProject(c, url)
           \/ BrokerAway(c) \/ TriggerAnalysis(c) \/ BrandBegins(c)
  <2>1. UNCHANGED <<row, loaded>>
    BY <1>5 DEF CreateProject, BrokerAway, TriggerAnalysis, BrandBegins, projectVars
  <2>2. kind'[c] # "edit"
    BY <1>5 DEF CreateProject, BrokerAway, TriggerAnalysis, BrandBegins, Ask, Begin, CallsInv, CallsTypeOK
  <2>3. QED
    BY <1>3, <2>1, <2>2 DEF ArchiveInv
<1>6. CASE CreateCommit(c)
  <2>1. Project(given[c].url = "set", FALSE) \in ProjectRows
    BY DEF Project, ProjectRows
  <2>2. row'.archived = row.archived /\ row' \in ProjectRows /\ loaded' = loaded
    BY <1>6, <2>1 DEF CreateCommit, Project, NoProject
  <2>3. kind'[c] # "edit"
    BY <1>6 DEF CreateCommit, Produce, Step
  <2>4. QED
    BY <1>3, <2>2, <2>3
<1>7. CASE CreateFails(c) \/ EditFails(c) \/ BrandReadFails(c)
  <2>1. PICK p \in {"reading", "editing"} : Outage(c, p) /\ UNCHANGED projectVars
    BY <1>7 DEF CreateFails, EditFails, BrandReadFails
  <2>2. pc'[c] \in {"reading", "failed"} /\ pc[c] # "idle"
    BY <2>1, RaiseGoes, MidwayGoesOn DEF Midway
  <2>3. QED
    BY <1>3, <2>1, <2>2 DEF ArchiveInv, projectVars
<1>8. CASE BrandReads(c) \/ RobotsAllow(c) \/ PageFetched(c) \/ PageRendered(c) \/ BrandStubbed(c)
  <2>1. UNCHANGED projectVars /\ kind[c] = "brand" /\ kind' = kind
    BY <1>8, Whose DEF BrandReads, RobotsAllow, PageFetched, PageRendered, BrandStubbed, Produce, Step
  <2>2. QED
    BY <1>3, <2>1 DEF ArchiveInv, projectVars
<1>9. QED
  BY <1>2, <1>4, <1>5, <1>6, <1>7, <1>8 DEF ProjectPart, ProjectBegins, ProjectSteps

LEMMA ArchiveNext == CallsInv /\ ArchiveInv /\ [Next]_vars => ArchiveInv'
<1> SUFFICES ASSUME CallsInv, ArchiveInv, [Next]_vars PROVE ArchiveInv'
  OBVIOUS
<1>1. ASSUME UNCHANGED <<callVars, taskVars, projectVars>> PROVE ArchiveInv'
  <2>1. UNCHANGED <<kind, pc, before, given, row, loaded>>
    BY <1>1 DEF callVars, taskVars, projectVars
  <2>2. QED
    BY <2>1 DEF ArchiveInv, EditsAsk, FoundArchived, StillArchived, ArchiveStands, Edits, NoProject
<1>2. CASE UNCHANGED vars \/ TimePasses
  BY <1>1, <1>2, TimeStays DEF vars, TimePasses, LedgerFrame, RateFrame
<1>3. ASSUME NEW c \in Calls, Goes(c), UNCHANGED projectVars, kind'[c] # "edit" \/ pc'[c] = "lost"
      PROVE  ArchiveInv'
  <2>1. kind'[c] = "edit" => pc'[c] = "lost" /\ pc[c] # "idle"
    BY <1>3 DEF Goes, Running
  <2>2. QED
    BY <1>3, <2>1, ArchiveAside DEF projectVars, ArchiveInv
<1>4. ASSUME NEW c \in Calls, LeadPart(c) \/ FlowPart(c) \/ LedgerPart(c) \/ LimitPart(c) PROVE ArchiveInv'
  <2>1. UNCHANGED projectVars /\ Goes(c) /\ kind'[c] # "edit"
    BY <1>4, LeadGoes, FlowGoes, LedgerGoes, LimitGoes
    DEF LeadPart, FlowPart, LedgerPart, LimitPart, LeadFrame, FlowFrame, LedgerFrame, RateFrame, Pipelines
  <2>2. QED
    BY <1>3, <2>1
<1>5. ASSUME NEW c \in Calls, ScorePart(c) \/ MediaPart(c) PROVE ArchiveInv'
  <2>1. UNCHANGED projectVars /\ Goes(c) /\ kind'[c] # "edit"
    BY <1>5, ScoreGoes, MediaGoes DEF ScorePart, MediaPart, Scorers
  <2>2. QED
    BY <1>3, <2>1
<1>6. ASSUME NEW c \in Calls, ProcessDies(c) PROVE ArchiveInv'
  BY <1>3, <1>6, DiesGoes
<1>7. QED
  BY <1>2, <1>4, <1>5, <1>6, ProjectsNext, NextParts

LEMMA ArchiveInvariant == Spec => []ArchiveInv
  BY ArchiveStart, ArchiveNext, CallsInvariant, PTL DEF Spec

(* What a call has removed, a lead or a project from its lists, no other     *)
(* call's edit of something else brings back, whichever it read before       *)
(* (lead_service.py:108-126, project_service.py:139-157).                    *)
THEOREM RemovalsStand == Spec => []RemovalStands
<1>1. LeadsInv /\ ArchiveInv => RemovalStands
  BY DEF LeadsInv, ArchiveInv, RemovalStands
<1>2. QED
  BY <1>1, LeadsInvariant, ArchiveInvariant, PTL

----------------------------------------------------------------------------
\* What is answered

LEMMA ServedStart == Init => ServedInv
<1> SUFFICES ASSUME CallsInit, MediaInit PROVE ServedInv
  BY DEF Init
<1>1. \A c \in Calls : kind[c] = "none" /\ pc[c] = "idle" /\ answer[c].is = "nothing"
  BY DEF CallsInit, MediaInit, Unanswered, Answer
<1>2. ObjectsOwn /\ ScriptsOwn
  BY DEF MediaInit, ObjectsOwn, ScriptsOwn
<1>3. AskedMedia /\ AnswersOwn /\ AnswersServed
  BY <1>1 DEF AskedMedia, AnswersOwn, AnswersServed
<1>4. QED
  BY <1>2, <1>3 DEF MediaInit, ServedInv

(* What an answered image or video is, by its key alone.                     *)
ObjectsTell ==
    \A c \in Calls : answer[c].is = "object" =>
        /\ answer[c].of \in DOMAIN objects
        /\ IF kind[c] = "image" THEN objects[answer[c].of] = c
           ELSE objects[answer[c].of].script = given[c].script

LEMMA ObjectsTellOwn == ObjectsOwn /\ AnswersOwn => ObjectsTell
<1> SUFFICES ASSUME ObjectsOwn, AnswersOwn, NEW c \in Calls, answer[c].is = "object"
             PROVE  /\ answer[c].of \in DOMAIN objects
                    /\ IF kind[c] = "image" THEN objects[answer[c].of] = c
                       ELSE objects[answer[c].of].script = given[c].script
  BY DEF ObjectsTell
<1> DEFINE k == answer[c].of
<1>1. k \in DOMAIN objects
  BY DEF AnswersOwn
<1>2. CASE kind[c] = "image" /\ k = ImageKey(c)
  <2>1. \A s : ImageKey(c) # <<"videos", s>>
    BY DEF ImageKey
  <2>2. PICK d \in Calls : k = ImageKey(d) /\ objects[k] = d
    BY <1>1, <1>2, <2>1 DEF ObjectsOwn
  <2>3. QED
    BY <1>1, <1>2, <2>2 DEF ImageKey
<1>3. CASE kind[c] = "render" /\ k = VideoKey(given[c])
  <2>1. \A d : VideoKey(given[c]) # ImageKey(d)
    BY DEF ImageKey, VideoKey
  <2>2. PICK s \in Scripts, t \in Templates :
            k = <<"videos", s>> /\ objects[k] = [script |-> s, template |-> t]
    BY <1>1, <1>3, <2>1 DEF ObjectsOwn
  <2>3. QED
    BY <1>1, <1>3, <2>2 DEF VideoKey
<1>4. QED
  BY <1>2, <1>3 DEF AnswersOwn

(* Nothing is answered, and a script is written for whoever asked for it.    *)
LEMMA ServedAside ==
    ASSUME CallsInv, ServedInv, NEW c \in Calls, Goes(c), UNCHANGED mediaVars,
           pc'[c] = "ok" => kind'[c] \notin {"image", "script", "render"},
           pc[c] = "idle" /\ kind'[c] = "script" => given'[c] \in Scripts,
           pc[c] = "idle" /\ kind'[c] = "render" =>
               given'[c] \in [script : Scripts, template : Templates],
           pc'[c] = "caching" => made'[c] \in {given'[c], StockScript}
    PROVE  ServedInv'
<1>1. UNCHANGED <<objects, scripts, answer>>
  BY DEF mediaVars
<1>2. ObjectsOwn' /\ ScriptsOwn'
  BY <1>1 DEF ServedInv, ObjectsOwn, ScriptsOwn, ImageKey
<1>3. AskedMedia'
  BY DEF ServedInv, AskedMedia, Goes, Running
<1>4. AnswersOwn'
  BY <1>1 DEF ServedInv, AnswersOwn, Goes, ImageKey, VideoKey
<1>5. AnswersServed'
  BY <1>1 DEF ServedInv, AnswersServed, Goes
<1>6. QED
  BY <1>1, <1>2, <1>3, <1>4, <1>5 DEF ServedInv

(* A call answers x: what it names is there, and is its own.                 *)
LEMMA ServedAnswer ==
    ASSUME CallsInv, ServedInv, NEW c \in Calls, Goes(c), NEW x, answer' = [answer EXCEPT ![c] = x],
           pc[c] \in Midway, pc'[c] = "ok", ObjectsOwn', ScriptsOwn',
           DOMAIN objects \subseteq DOMAIN objects',
           x.is = "object" =>
               /\ x.of \in DOMAIN objects'
               /\ \/ kind[c] = "image" /\ x.of = ImageKey(c)
                  \/ kind[c] = "render" /\ x.of = VideoKey(given[c]),
           kind[c] = "script" => x.of \in {given[c], StockScript}
    PROVE  ServedInv'
<1>1. /\ answer'[c] = x /\ \A d \in Calls \ {c} : answer'[d] = answer[d]
      /\ answer' = [d \in Calls |-> answer'[d]]
  BY DEF ServedInv
<1>2. kind'[c] = kind[c] /\ given'[c] = given[c]
  BY MidwayGoesOn DEF Goes
<1>3. AskedMedia'
  BY <1>2 DEF ServedInv, AskedMedia, Goes
<1>4. AnswersOwn'
  BY <1>1, <1>2 DEF ServedInv, AnswersOwn, Goes, ImageKey, VideoKey
<1>5. AnswersServed'
  <2>1. ASSUME NEW d \in Calls, kind'[d] = "script", pc'[d] = "ok"
        PROVE  answer'[d].of \in {given'[d], StockScript}
    BY <1>1, <1>2, <2>1 DEF ServedInv, AnswersServed, Goes
  <2>2. ObjectsTell'
    <3>1. (ObjectsOwn /\ AnswersOwn)'
      BY <1>4
    <3>2. QED
      BY <3>1, ObjectsTellOwn, PTL
  <2>3. QED
    BY <2>1, <2>2 DEF AnswersServed, ObjectsTell
<1>6. QED
  BY <1>1, <1>3, <1>4, <1>5 DEF ServedInv

(* An object is put under the key of its call or its script.                 *)
LEMMA ObjectsPut ==
    ASSUME ObjectsOwn, NEW k, NEW x, Stored(k, x),
           \/ \E c \in Calls : k = ImageKey(c) /\ x = c
           \/ \E s \in Scripts, t \in Templates :
                  k = <<"videos", s>> /\ x = [script |-> s, template |-> t]
    PROVE  ObjectsOwn' /\ DOMAIN objects \subseteq DOMAIN objects' /\ k \in DOMAIN objects'
<1>1. /\ DOMAIN objects' = DOMAIN objects \cup {k}
      /\ \A j \in DOMAIN objects' : objects'[j] = IF j = k THEN x ELSE objects[j]
  BY DEF Stored, With
<1>2. ASSUME NEW j \in DOMAIN objects'
      PROVE  \/ \E c \in Calls : j = ImageKey(c) /\ objects'[j] = c
             \/ \E s \in Scripts, t \in Templates :
                    j = <<"videos", s>> /\ objects'[j] = [script |-> s, template |-> t]
  <2>1. CASE j = k
    BY <1>1, <2>1
  <2>2. CASE j # k
    BY <1>1, <2>2 DEF ObjectsOwn
  <2>3. QED
    BY <2>1, <2>2
<1>3. ObjectsOwn'
  BY <1>2 DEF ObjectsOwn, ImageKey
<1>4. QED
  BY <1>1, <1>3

LEMMA MediaNext ==
    ASSUME CallsInv, ServedInv, NEW c \in Calls, MediaPart(c) PROVE ServedInv'
<1>1. Goes(c)
  BY MediaGoes
<1>2. CASE MediaBegins(c)
  <2>1. PICK k, x :
            /\ k \in {"image", "script", "render"} /\ Ask(c, k, x)
            /\ k = "script" => x \in Scripts
            /\ k = "render" => x \in [script : Scripts, template : Templates]
    <3>1. CASE Ask(c, "image", Nothing)
      BY <3>1
    <3>2. CASE \E s \in Scripts : Ask(c, "script", s)
      BY <3>2
    <3>3. CASE \E s \in Scripts, t \in Templates : Ask(c, "render", [script |-> s, template |-> t])
      BY <3>3
    <3>4. QED
      BY <1>2, <3>1, <3>2, <3>3 DEF MediaBegins
  <2>2. kind'[c] = k /\ pc'[c] = "reading" /\ given'[c] = x /\ UNCHANGED mediaVars
    BY <1>2, <2>1, AskGoes DEF MediaBegins, Kinds
  <2>3. QED
    BY <1>1, <2>1, <2>2, ServedAside
<1>3. ASSUME UNCHANGED mediaVars, pc[c] # "idle", pc'[c] # "ok",
             pc'[c] = "caching" => made'[c] \in {given'[c], StockScript}
      PROVE  ServedInv'
  BY <1>1, <1>3, ServedAside
<1>4. CASE ImageGenerated(c) \/ ImageDownloaded(c)
  BY <1>3, <1>4 DEF ImageGenerated, ImageDownloaded, Produce, Step, CallsInv, CallsTypeOK
<1>5. CASE ScriptWritten(c)
  BY <1>3, <1>5 DEF ScriptWritten, Produce, Step, CallsInv, CallsTypeOK
<1>6. CASE ScriptLost(c)
  <2>1. PICK p \in {"reading", "caching"} : Outage(c, p) /\ UNCHANGED mediaVars
    BY <1>6 DEF ScriptLost
  <2>2. pc[c] # "idle" /\ pc'[c] \in {"reading", "failed"}
    BY <2>1, RaiseGoes, MidwayGoesOn DEF Midway
  <2>3. QED
    BY <1>3, <2>1, <2>2
<1>7. ASSUME NEW x, Answers(c, x), NEW p \in Midway, \E y : Produce(c, p, "ok", y),
             ObjectsOwn', ScriptsOwn', DOMAIN objects \subseteq DOMAIN objects',
             x.is = "object" =>
                 /\ x.of \in DOMAIN objects'
                 /\ \/ kind[c] = "image" /\ x.of = ImageKey(c)
                    \/ kind[c] = "render" /\ x.of = VideoKey(given[c]),
             kind[c] = "script" => x.of \in {given[c], StockScript}
      PROVE  ServedInv'
  <2>1. pc[c] = p /\ pc'[c] = "ok"
    BY <1>7 DEF Produce, Step, CallsInv, CallsTypeOK
  <2>2. QED
    BY <1>1, <1>7, <2>1, ServedAnswer DEF Answers
<1>8. CASE ImagePut(c)
  <2> DEFINE x == Answer("object", ImageKey(c))
  <2>1. ObjectsOwn' /\ DOMAIN objects \subseteq DOMAIN objects' /\ ImageKey(c) \in DOMAIN objects'
    BY <1>8, ObjectsPut DEF ImagePut, ServedInv
  <2>2. ScriptsOwn' /\ Answers(c, x) /\ kind[c] = "image" /\ Produce(c, "putting", "ok", ImageKey(c))
    BY <1>8 DEF ImagePut, ServedInv, ScriptsOwn
  <2>3. x.is = "object" /\ x.of = ImageKey(c) /\ "putting" \in Midway
    BY DEF Answer, Midway
  <2>4. QED
    BY <1>7, <2>1, <2>2, <2>3
<1>9. CASE VideoPut(c)
  <2> DEFINE x == Answer("object", VideoKey(given[c]))
  <2>1. given[c] \in [script : Scripts, template : Templates] /\ kind[c] = "render"
    BY <1>9 DEF VideoPut, ServedInv, AskedMedia
  <2>2. PICK s \in Scripts, t \in Templates : given[c] = [script |-> s, template |-> t]
    BY <2>1
  <2>3. VideoKey(given[c]) = <<"videos", s>>
    BY <2>2 DEF VideoKey
  <2>4. ObjectsOwn' /\ DOMAIN objects \subseteq DOMAIN objects' /\ VideoKey(given[c]) \in DOMAIN objects'
    BY <1>9, <2>2, <2>3, ObjectsPut DEF VideoPut, ServedInv
  <2>5. ScriptsOwn' /\ Answers(c, x) /\ Produce(c, "reading", "ok", Nothing)
    BY <1>9 DEF VideoPut, ServedInv, ScriptsOwn
  <2>6. x.is = "object" /\ x.of = VideoKey(given[c]) /\ "reading" \in Midway
    BY DEF Answer, Midway
  <2>7. QED
    BY <1>7, <2>1, <2>4, <2>5, <2>6
<1>10. CASE ImageFails(c) \/ VideoFails(c)
  <2>1. /\ Answers(c, Placeholder) /\ UNCHANGED <<objects, scripts>> /\ kind[c] # "script"
        /\ \E p \in {"reading", "downloading", "putting"} : \E y : Produce(c, p, "ok", y)
    BY <1>10 DEF ImageFails, VideoFails, InsteadOf
  <2>2. Placeholder.is # "object" /\ {"reading", "downloading", "putting"} \subseteq Midway
    BY DEF Placeholder, Answer, Midway
  <2>3. ObjectsOwn' /\ ScriptsOwn'
    BY <2>1 DEF ServedInv, ObjectsOwn, ScriptsOwn, ImageKey
  <2>4. QED
    BY <1>7, <2>1, <2>2, <2>3
<1>11. CASE ScriptCached(c) \/ ScriptKept(c)
  <2> DEFINE s == IF pc[c] = "reading" THEN scripts[given[c]] ELSE made[c]
  <2>1. /\ Answers(c, Answer("script", s)) /\ objects' = objects
        /\ kind[c] = "script" /\ given[c] \in Scripts
        /\ \E p \in {"reading", "caching"} : \E y : Produce(c, p, "ok", y)
    BY <1>11, Whose DEF ScriptCached, ScriptKept, Produce, Step, ServedInv, AskedMedia
  <2>2. s \in {given[c], StockScript}
    BY <1>11, <2>1 DEF ScriptCached, ScriptKept, Produce, Step, ServedInv, AskedMedia, ScriptsOwn
  <2>3. ScriptsOwn'
    BY <1>11, <2>1, <2>2 DEF ScriptCached, ScriptKept, Produce, Step, ServedInv, ScriptsOwn
  <2>4. ObjectsOwn'
    BY <2>1 DEF ServedInv, ObjectsOwn, ImageKey
  <2>5. Answer("script", s).is # "object" /\ Answer("script", s).of = s /\ {"reading", "caching"} \subseteq Midway
    BY DEF Answer, Midway
  <2>6. QED
    BY <1>7, <2>1, <2>2, <2>3, <2>4, <2>5
<1>12. QED
  BY <1>2, <1>4, <1>5, <1>6, <1>8, <1>9, <1>10, <1>11 DEF MediaPart, MediaSteps

LEMMA ServedNext == CallsInv /\ ServedInv /\ [Next]_vars => ServedInv'
<1> SUFFICES ASSUME CallsInv, ServedInv, [Next]_vars PROVE ServedInv'
  OBVIOUS
<1>1. ASSUME UNCHANGED <<callVars, taskVars, mediaVars>> PROVE ServedInv'
  <2>1. UNCHANGED <<kind, pc, given, made, objects, scripts, answer>>
    BY <1>1 DEF callVars, taskVars, mediaVars
  <2>2. QED
    BY <2>1 DEF ServedInv, ObjectsOwn, ScriptsOwn, AskedMedia, AnswersOwn, AnswersServed,
       ImageKey, VideoKey
<1>2. CASE UNCHANGED vars \/ TimePasses
  BY <1>1, <1>2, TimeStays DEF vars, TimePasses, LedgerFrame, RateFrame
<1>3. ASSUME NEW c \in Calls, Goes(c), UNCHANGED mediaVars,
             kind'[c] \notin {"image", "script", "render"} \/ pc'[c] = "lost"
      PROVE  ServedInv'
  <2>1. pc'[c] # "caching"
    BY <1>3, OwnersOfPoints DEF Goes, CallsInv, OwnPoints
  <2>2. pc'[c] = "lost" => pc[c] # "idle"
    BY <1>3 DEF Goes, Running
  <2>3. QED
    BY <1>3, <2>1, <2>2, ServedAside
<1>4. ASSUME NEW c \in Calls, LeadPart(c) \/ FlowPart(c) \/ LedgerPart(c) \/ LimitPart(c) PROVE ServedInv'
  <2>1. UNCHANGED mediaVars /\ Goes(c) /\ kind'[c] \notin {"image", "script", "render"}
    BY <1>4, LeadGoes, FlowGoes, LedgerGoes, LimitGoes
    DEF LeadPart, FlowPart, LedgerPart, LimitPart, LeadFrame, FlowFrame, LedgerFrame, RateFrame, Pipelines
  <2>2. QED
    BY <1>3, <2>1
<1>5. ASSUME NEW c \in Calls, ScorePart(c) \/ ProjectPart(c) PROVE ServedInv'
  <2>1. UNCHANGED mediaVars /\ Goes(c) /\ kind'[c] \notin {"image", "script", "render"}
    BY <1>5, ScoreGoes, ProjectGoes DEF ScorePart, ProjectPart, Scorers
  <2>2. QED
    BY <1>3, <2>1
<1>6. ASSUME NEW c \in Calls, ProcessDies(c) PROVE ServedInv'
  BY <1>3, <1>6, DiesGoes
<1>7. QED
  BY <1>2, <1>4, <1>5, <1>6, MediaNext, NextParts

LEMMA ServedInvariant == Spec => []ServedInv
  BY ServedStart, ServedNext, CallsInvariant, PTL DEF Spec

LEMMA LedgerStays == Spec => []LedgerInv
  BY ServicesImplemented, LedgerInvariant, PTL

LEMMA TextsStart == Init => TextsInv
<1> SUFFICES ASSUME CallsInit, LedgerInit PROVE TextsInv
  BY DEF Init
<1>1. DOMAIN cached = {}
  BY DEF LedgerInit
<1>2. QED
  BY <1>1 DEF CallsInit, LedgerInit, TextsInv, KeysAnswer, AskedTexts, AnswersGiven

LEMMA PromptKinds == \A r \in Requests : Prompt(r)[1] = r.content
  BY LedgerConstants DEF LedgerConstants, TextKinds, Prompt, PostPrompt, EmailPrompt, AdPrompt,
     NewsletterPrompt, ScriptPrompt

(* Under one key only answers about the same are kept.                       *)
LEMMA KeyTells ==
    ASSUME NEW r \in Requests, NEW s \in Requests, CacheKey(r) = CacheKey(s)
    PROVE  About(Prompt(r)) = About(Prompt(s))
<1> DEFINE Script(q) == q.content = "video_script"
           K(q) == <<"video_script", q.campaign, q.lead>>
<1>1. \A q \in Requests : IF Script(q) THEN CacheKey(q) = K(q) ELSE CacheKey(q) = Prompt(q)
  BY DEF CacheKey
<1>2. \A q \in Requests : Script(q) => About(Prompt(q)) = K(q)
  BY DEF About, Prompt, ScriptPrompt
<1>3. \A q \in Requests : ~Script(q) => Prompt(q)[1] # "video_script"
  BY PromptKinds
<1>4. \A q \in Requests : K(q)[1] = "video_script"
  OBVIOUS
<1>5. CASE Script(r) /\ Script(s)
  BY <1>1, <1>2, <1>5
<1>6. CASE ~Script(r) /\ ~Script(s)
  <2>1. Prompt(r) = Prompt(s)
    BY <1>1, <1>6
  <2>2. QED
    BY <2>1
<1>7. ASSUME NEW q \in Requests, NEW u \in Requests, Script(q), ~Script(u) PROVE CacheKey(q) # CacheKey(u)
  <2>1. CacheKey(q)[1] = "video_script"
    BY <1>1, <1>4, <1>7
  <2>2. CacheKey(u)[1] # "video_script"
    BY <1>1, <1>3, <1>7
  <2>3. QED
    BY <2>1, <2>2
<1>8. QED
  BY <1>5, <1>6, <1>7

(* Nobody asks for a text and none is served.                                *)
LEMMA TextsAside ==
    ASSUME CallsInv, TextsInv, NEW c \in Calls, Goes(c), UNCHANGED <<cached, request, served>>,
           kind'[c] = "text" => kind[c] = "text"
    PROVE  TextsInv'
<1>1. \A d \in Calls : kind'[d] = "text" => kind[d] = "text"
  BY DEF Goes
<1>2. \A d \in Calls : kind[d] = "text" => kind'[d] = "text"
  BY DEF Goes
<1>3. KeysAnswer' /\ AskedTexts'
  BY <1>1 DEF TextsInv, KeysAnswer, AskedTexts
<1>4. AnswersGiven'
  BY <1>2 DEF TextsInv, AnswersGiven
<1>5. QED
  BY <1>3, <1>4 DEF TextsInv

(* A call of a text is served p, or nothing yet.                             *)
LEMMA TextsGive ==
    ASSUME CallsInv, LedgerInv, TextsInv, NEW c \in Calls, Goes(c), kind'[c] = "text",
           KeysAnswer', request' \in [Calls -> Requests \cup {NoRequest}], request'[c] \in Requests,
           \A d \in Calls \ {c} : request'[d] = request[d] /\ served'[d] = served[d],
           served' = [d \in Calls |-> served'[d]],
           served'[c] = Template \/ About(served'[c]) = About(Prompt(request'[c]))
    PROVE  TextsInv'
<1>1. AskedTexts'
  BY DEF TextsInv, AskedTexts, Goes
<1>2. AnswersGiven'
  BY DEF TextsInv, AnswersGiven, Goes
<1>3. QED
  BY <1>1, <1>2 DEF TextsInv

LEMMA TextsLedgerNext ==
    ASSUME CallsInv, LedgerInv, TextsInv, NEW c \in Calls, LedgerPart(c) PROVE TextsInv'
<1>1. Goes(c)
  BY LedgerGoes
<1>2. request \in [Calls -> Requests \cup {NoRequest}] /\ served = [d \in Calls |-> served[d]]
  BY DEF LedgerInv, LedgerRows, TextsInv
<1>3. CASE \E r \in Requests : TextHit(c, r)
  <2>1. PICK r \in Requests : TextHit(c, r)
    BY <1>3
  <2>2. PICK s \in Requests : CacheKey(r) = CacheKey(s) /\ cached[CacheKey(r)] = Prompt(s)
    BY <2>1 DEF TextHit, TextsInv, KeysAnswer
  <2>3. About(cached[CacheKey(r)]) = About(Prompt(r))
    BY <2>2, KeyTells
  <2>4. /\ kind'[c] = "text" /\ request' = [request EXCEPT ![c] = r] /\ cached' = cached
        /\ served' = [served EXCEPT ![c] = cached[CacheKey(r)]]
    BY <2>1 DEF TextHit, Begin, CallsInv, CallsTypeOK
  <2>5. KeysAnswer'
    BY <2>4 DEF TextsInv, KeysAnswer
  <2>6. QED
    BY <1>1, <1>2, <2>3, <2>4, <2>5, TextsGive
<1>4. CASE \E r \in Requests : TextAsk(c, r)
  <2>1. PICK r \in Requests : TextAsk(c, r)
    BY <1>4
  <2>2. /\ kind'[c] = "text" /\ pc[c] = "idle" /\ request' = [request EXCEPT ![c] = r]
        /\ cached' = cached /\ served' = served
    BY <2>1 DEF TextAsk, Begin, MayBegin, CallsInv, CallsTypeOK
  <2>3. served[c] = Template
    BY <2>2, OwnersKinds DEF TextsInv, AnswersGiven, CallsInv, OwnPoints
  <2>4. KeysAnswer'
    BY <2>2 DEF TextsInv, KeysAnswer
  <2>5. QED
    BY <1>1, <1>2, <2>2, <2>3, <2>4, TextsGive
<1>5. CASE TextAnswered(c) \/ TextFallback(c)
  <2>1. /\ pc[c] = "asked" /\ request' = request /\ kind' = kind
        /\ \E p \in {Prompt(request[c]), Template} : served' = [served EXCEPT ![c] = p]
        /\ cached' \in {cached, With(cached, CacheKey(request[c]), Prompt(request[c]))}
    BY <1>5 DEF TextAnswered, TextFallback, Step
  <2>2. kind[c] = "text" /\ request[c] \in Requests
    BY <2>1, Whose DEF TextsInv, AskedTexts
  <2>3. ASSUME NEW k \in DOMAIN cached' PROVE \E r \in Requests : k = CacheKey(r) /\ cached'[k] = Prompt(r)
    <3>1. CASE k \in DOMAIN cached /\ cached'[k] = cached[k]
      BY <3>1 DEF TextsInv, KeysAnswer
    <3>2. CASE k = CacheKey(request[c]) /\ cached'[k] = Prompt(request[c])
      BY <2>2, <3>2
    <3>3. QED
      BY <2>1, <2>3, <3>1, <3>2 DEF With
  <2>4. KeysAnswer'
    BY <2>3 DEF KeysAnswer
  <2>5. /\ served'[c] \in {Prompt(request[c]), Template} /\ served' = [d \in Calls |-> served'[d]]
        /\ \A d \in Calls \ {c} : served'[d] = served[d]
    BY <1>2, <2>1
  <2>6. QED
    BY <1>1, <1>2, <2>1, <2>2, <2>4, <2>5, TextsGive
<1>6. CASE \/ CostSelect(c) \/ CostCommit(c) \/ CostLost(c) \/ (\E g \in Campaigns : AggregateRead(c, g))
           \/ AggregateCommit(c) \/ AggregateFails(c)
  BY <1>1, <1>6, TextsAside DEF CostSelect, CostCommit, CostLost, AggregateRead, AggregateCommit,
     AggregateFails, Step, ledgerVars, locals
<1>7. CASE \E act \in SUBSET Campaigns : Aggregate(c, act)
  <2>1. UNCHANGED <<cached, request, served>> /\ kind'[c] = "aggregate"
    BY <1>7 DEF Aggregate, Begin, CallsInv, CallsTypeOK
  <2>2. QED
    BY <1>1, <2>1, TextsAside
<1>8. QED
  BY <1>3, <1>4, <1>5, <1>6, <1>7 DEF LedgerPart, LedgerSteps

LEMMA TextsNext == CallsInv /\ LedgerInv /\ TextsInv /\ [Next]_vars => TextsInv'
<1> SUFFICES ASSUME CallsInv, LedgerInv, TextsInv, [Next]_vars PROVE TextsInv'
  OBVIOUS
<1>1. CASE UNCHANGED vars \/ TimePasses
  <2>1. UNCHANGED <<kind, cached, request, served>>
    BY <1>1, TimeStays
    DEF vars, rowVars, TimePasses, NextDay, LedgerFrame, RateFrame, ledgerVars, locals, callVars
  <2>2. QED
    BY <2>1 DEF TextsInv, KeysAnswer, AskedTexts, AnswersGiven
<1>2. ASSUME NEW c \in Calls, Goes(c), UNCHANGED ledgerVars, kind'[c] # "text" \/ kind'[c] = kind[c]
      PROVE  TextsInv'
  BY <1>2, TextsAside DEF ledgerVars
<1>3. ASSUME NEW c \in Calls, LeadPart(c) \/ FlowPart(c) \/ LimitPart(c) PROVE TextsInv'
  <2>1. UNCHANGED ledgerVars /\ Goes(c) /\ kind'[c] # "text"
    BY <1>3, LeadGoes, FlowGoes, LimitGoes
    DEF LeadPart, FlowPart, LimitPart, LeadFrame, FlowFrame, RateFrame, Pipelines
  <2>2. QED
    BY <1>2, <2>1
<1>4. ASSUME NEW c \in Calls, ScorePart(c) \/ MediaPart(c) \/ ProjectPart(c) PROVE TextsInv'
  <2>1. UNCHANGED ledgerVars /\ Goes(c) /\ kind'[c] # "text"
    BY <1>4, ScoreGoes, MediaGoes, ProjectGoes DEF ScorePart, MediaPart, ProjectPart, Scorers, rowVars
  <2>2. QED
    BY <1>2, <2>1
<1>5. ASSUME NEW c \in Calls, ProcessDies(c) PROVE TextsInv'
  BY <1>2, <1>5, DiesGoes
<1>6. QED
  BY <1>1, <1>3, <1>4, <1>5, TextsLedgerNext, NextParts

LEMMA TextsInvariant == Spec => []TextsInv
  BY TextsStart, TextsNext, CallsInvariant, LedgerStays, PTL DEF Spec

(* Whatever is answered without an error, a text from the model or from      *)
(* Redis, an image, a video or a script, is what this call asked for,        *)
(* whoever else is served (bs_ai_text/service.py:278-428,                    *)
(* bs_ai_image/service.py:95-120, bs_ai_video/service.py:67-135).            *)
THEOREM AnswersAsked == Spec => []ServedAsAsked
<1>1. CallsInv /\ TextsInv /\ ServedInv => ServedAsAsked
  BY DEF TextsInv, AnswersGiven, TextsServed, ServedInv, ServedAsAsked
<1>2. QED
  BY <1>1, CallsInvariant, TextsInvariant, ServedInvariant, PTL

----------------------------------------------------------------------------
\* Types

LEMMA FewLeads == LeadsTypeOK => IsFiniteSet(leads)
<1> DEFINE P == (Ids \X (Calls \cup {Seed})) \X (Addresses \X BOOLEAN)
           f == [r \in LeadRows |-> <<<<r.id, r.by>>, <<r.email, r.optIn>>>>]
<1>1. IsFiniteSet(Calls \cup {Seed}) /\ IsFiniteSet(Addresses) /\ IsFiniteSet(BOOLEAN)
  <2>1. IsFiniteSet(Calls)
    BY ServiceConstants, FS_Interval DEF ServiceConstants, Calls
  <2>2. IsFiniteSet(Calls \cup {Seed})
    BY <2>1, FS_AddElement
  <2>3. IsFiniteSet({TRUE}) /\ IsFiniteSet({TRUE} \cup {FALSE}) /\ {TRUE} \cup {FALSE} = BOOLEAN
    BY FS_Singleton, FS_AddElement
  <2>4. QED
    BY <2>2, <2>3, LeadConstants DEF LeadConstants
<1>2. IsFiniteSet(Ids)
  BY <1>1, FS_Product DEF Ids
<1>3. IsFiniteSet(Ids \X (Calls \cup {Seed})) /\ IsFiniteSet(Addresses \X BOOLEAN)
  BY <1>1, <1>2, FS_Product
<1>4. IsFiniteSet(P)
  BY <1>3, FS_Product
<1>5. f \in Injection(LeadRows, P)
  <2>1. \A r \in LeadRows : /\ r.id \in Ids /\ r.by \in Calls \cup {Seed}
                            /\ r.email \in Addresses /\ r.optIn \in BOOLEAN
    BY DEF LeadRows
  <2>2. f \in [LeadRows -> P]
    BY <2>1
  <2>3. \A r, s \in LeadRows :
            r.id = s.id /\ r.by = s.by /\ r.email = s.email /\ r.optIn = s.optIn => r = s
    BY DEF LeadRows
  <2>4. \A r, s \in LeadRows : f[r] = f[s] => r = s
    BY <2>3
  <2>5. QED
    BY <2>2, <2>4 DEF Injection, IsInjective
<1>6. IsFiniteSet(LeadRows)
  BY <1>4, <1>5, FS_Injection
<1>7. QED
  BY <1>6, FS_Subset DEF LeadsTypeOK, LeadRows

LEMMA Clamped == \A x \in Int : Clamp(x) \in 5..70
  BY DEF Clamp

LEMMA FlowTypesStart == Init => FlowTypes
<1> SUFFICES ASSUME CallsInit, WorkflowInit PROVE FlowTypes
  BY DEF Init
<1>1. \A n \in mix.starts : n \in Nat
  BY WorkflowConstants DEF WorkflowConstants, CallsInit
<1>2. \A n \in mix.starts : After(n) \in WeightRows
  BY <1>1, Clamped DEF After, Weights, WeightRows
<1>3. QED
  BY <1>2 DEF WorkflowInit, FlowTypes

LEMMA RowsStayWeights ==
    ASSUME NEW c \in Calls, FlowTypes PROVE WroteWeights(c) \subseteq WeightRows
<1>1. ASSUME NEW v \in WeightRows PROVE Moved(v) \in WeightRows
  <2>1. v.engagement + 5 \in Int /\ v.sector - 5 \in Int
    BY DEF WeightRows
  <2>2. Clamp(v.engagement + 5) \in 5..70 /\ Clamp(v.sector - 5) \in 5..70
    BY <2>1, Clamped
  <2>3. QED
    BY <2>2 DEF Moved, WeightRows
<1>2. Defaults(c) \in WeightRows
  BY DEF Defaults, Weights, WeightRows
<1>3. \A v \in found[c] : Moved(v) \in WeightRows
  BY <1>1 DEF FlowTypes
<1>4. QED
  BY <1>2, <1>3 DEF WroteWeights, FlowTypes

LEMMA FlowTypesNext == LeadsInv /\ FlowTypes /\ [Next]_vars => FlowTypes'
<1> SUFFICES ASSUME LeadsInv, FlowTypes, [Next]_vars PROVE FlowTypes'
  OBVIOUS
<1>1. ASSUME UNCHANGED flowVars PROVE FlowTypes'
  BY <1>1 DEF flowVars, FlowTypes
<1>2. CASE UNCHANGED vars \/ TimePasses
  BY <1>1, <1>2 DEF vars, rowVars, TimePasses, LedgerFrame, RateFrame
<1>3. ASSUME NEW c \in Calls, \/ LeadPart(c) \/ LedgerPart(c) \/ LimitPart(c)
                              \/ ScorePart(c) \/ MediaPart(c) \/ ProjectPart(c) \/ ProcessDies(c)
      PROVE  FlowTypes'
  BY <1>1, <1>3 DEF LeadPart, LedgerPart, LimitPart, ScorePart, MediaPart, ProjectPart, ProcessDies,
     LeadFrame, LedgerFrame, RateFrame, rowVars
<1>4. ASSUME NEW c \in Calls, FlowPart(c) PROVE FlowTypes'
  <2>1. CASE ReadInputs(c)
    <3>1. Messages(c) \in Nat
      <4>1. IsFiniteSet({r \in leads : r.optIn})
        BY FewLeads, FS_Subset DEF LeadsInv
      <4>2. QED
        BY <4>1, FS_CardinalityType DEF Messages
    <3>2. QED
      BY <2>1, <3>1 DEF ReadInputs, FlowTypes
  <2>2. CASE SendMessage(c)
    BY <2>2 DEF SendMessage, FlowTypes
  <2>3. CASE ReadWeights(c)
    BY <2>3 DEF ReadWeights, FlowTypes
  <2>4. CASE AdjustWeights(c)
    BY <2>4, RowsStayWeights DEF AdjustWeights, FlowTypes
  <2>5. ASSUME UNCHANGED <<left, weights, found>> PROVE FlowTypes'
    BY <2>5 DEF FlowTypes
  <2>6. CASE (\E k \in Pipelines : StartPipeline(c, k)) \/ SendFails(c) \/ LoopFails(c)
    BY <1>1, <2>6 DEF StartPipeline, SendFails, LoopFails
  <2>7. CASE \/ CampaignMissing(c) \/ CreateJob(c) \/ CreateJobFails(c) \/ MarkRunning(c)
             \/ MarkCompleted(c) \/ MarkFailed(c) \/ MarkFails(c)
    BY <2>5, <2>7 DEF CampaignMissing, CreateJob, CreateJobFails, MarkRunning, MarkCompleted,
       MarkFailed, MarkFails
  <2>8. QED
    BY <1>4, <2>1, <2>2, <2>3, <2>4, <2>6, <2>7 DEF FlowPart, FlowSteps
<1>5. QED
  BY <1>2, <1>3, <1>4, NextParts

LEMMA FlowTypesInvariant == Spec => []FlowTypes
  BY FlowTypesStart, FlowTypesNext, LeadsInvariant, PTL DEF Spec

LEMMA FlowTyped == JobsInv /\ FlowTypes => WorkflowTypeOK
<1> SUFFICES ASSUME JobsInv, FlowTypes PROVE WorkflowTypeOK
  OBVIOUS
<1>1. \A w \in WeightRows : w.by \in Calls \cup {Seed} /\ InRange(w)
  BY DEF WeightRows, InRange
<1>2. weights \cup UNION {found[c] : c \in Calls} \subseteq WeightRows
  BY DEF FlowTypes
<1>3. QED
  BY <1>1, <1>2 DEF WorkflowTypeOK, FlowTypes, JobsInv, JobRows

LEMMA LedgerTyped == LedgerInv /\ TextsInv => LedgerTypeOK
<1> SUFFICES ASSUME LedgerInv, TextsInv PROVE LedgerTypeOK
  OBVIOUS
<1>1. ASSUME NEW g \in Campaigns, NEW d \in Days PROVE analytics[g][d] \in [cost : 0..MaxCalls, by : -1..MaxCalls]
  <2>1. analytics[g][d] \in [cost : Nat, by : -1..MaxCalls]
    BY DEF LedgerInv, LedgerRows
  <2>2. analytics[g][d].cost = Cardinality(Booked(g, d))
    BY DEF LedgerInv, LedgerSound, CostConserved
  <2>3. IsFiniteSet(Calls) /\ Cardinality(Calls) = MaxCalls /\ MaxCalls \in Nat
    BY ServiceConstants, FS_Interval DEF ServiceConstants, Calls
  <2>4. Booked(g, d) \subseteq Calls
    BY DEF Booked
  <2>5. analytics[g][d].cost <= MaxCalls
    BY <2>2, <2>3, <2>4, FS_Subset
  <2>6. analytics[g][d].cost \in 0..MaxCalls
    BY <2>1, <2>3, <2>5
  <2>7. QED
    BY <2>1, <2>6
<1>2. analytics \in [Campaigns -> [Days -> [cost : 0..MaxCalls, by : -1..MaxCalls]]]
  BY <1>1 DEF LedgerInv, LedgerRows
<1>3. \A k \in DOMAIN cached : cached[k][1] \in TextKinds
  <2>1. \A r \in Requests : Prompt(r)[1] \in TextKinds
    BY PromptKinds, LedgerConstants DEF LedgerConstants
  <2>2. QED
    BY <2>1 DEF TextsInv, KeysAnswer
<1>4. QED
  BY <1>2, <1>3 DEF LedgerTypeOK, LedgerInv, LedgerRows

(* The types, and the inductive invariants of the pipelines, the ledger and  *)
(* the limit, hold beside all the other calls, whatever their number and     *)
(* arguments (campaigns_agent.py:180-200, bs_ai_text/service.py:76-107,      *)
(* workflow.py:182-190).                                                     *)
THEOREM PartsHold == Spec => []PartsInv
<1>1. Spec => []RateInv
  BY ServicesImplemented, RateInvariant, PTL
<1>2. Spec => []JobsInv
  BY ServicesImplemented, JobsInvariant, PTL
<1>3. CallsInv /\ LeadsInv /\ FlowTypes /\ TextsInv /\ RateInv /\ LedgerInv /\ JobsInv => PartsInv
  <2>1. RateInv => RateTypeOK
    BY DEF RateInv
  <2>2. QED
    BY <2>1, FlowTyped, LedgerTyped DEF PartsInv, TypeOK, CallsInv, LeadsInv
<1>4. QED
  BY <1>1, <1>2, <1>3, CallsInvariant, LeadsInvariant, FlowTypesInvariant, TextsInvariant,
     LedgerStays, PTL

----------------------------------------------------------------------------
\* Figures

LEMMA TableBounds ==
    \A x : /\ Of(SectorScores, x, 40) \in 40..100
           /\ Of(SizeScores, x, 40) \in 20..100
           /\ Of(SourceScores, x, 30) \in 30..100
<1> TAKE x
<1>1. Of(SectorScores, x, 40) \in 40..100
  BY DEF Of, SectorScores
<1>2. Of(SizeScores, x, 40) \in 20..100
  BY DEF Of, SizeScores
<1>3. Of(SourceScores, x, 30) \in 30..100
  BY DEF Of, SourceScores
<1>4. QED
  BY <1>1, <1>2, <1>3

LEMMA EngagementBounds ==
    ASSUME NEW l, Counts(l) \subseteq Int
    PROVE  /\ Engagement(l) \in Int /\ Engagement(l) <= 100
           /\ (\A n \in Counts(l) : n >= 0) => Engagement(l) >= 0
<1>1. l.opens \in Int /\ l.clicks \in Int /\ l.visits \in Int
  BY DEF Counts
<1> DEFINE o == AtMost(l.opens, 10)
           k == AtMost(l.clicks, 5)
           v == AtMost(l.visits, 10)
           n == o * 4 + k * 8 + v * 3
<1>2. o \in Int /\ k \in Int /\ v \in Int
  BY <1>1 DEF AtMost
<1>3. (\A m \in Counts(l) : m >= 0) => o >= 0 /\ k >= 0 /\ v >= 0
  BY <1>1 DEF AtMost, Counts
<1>4. Engagement(l) = AtMost(n, 100)
  BY Zenon DEF Engagement
<1> HIDE DEF o, k, v
<1>5. n \in Int /\ (o >= 0 /\ k >= 0 /\ v >= 0 => n >= 0)
  BY <1>2
<1> HIDE DEF n
<1>6. AtMost(n, 100) \in Int /\ AtMost(n, 100) <= 100 /\ (n >= 0 => AtMost(n, 100) >= 0)
  BY <1>5 DEF AtMost
<1>7. QED
  BY <1>3, <1>4, <1>5, <1>6

(* Rounding to whole points loses none of the points that were reached.      *)
Sums == {n \in Int : n <= 10000}
Percents == 0..100
Kept(r, n, k) == r \in Int /\ r <= 100 /\ (n >= 0 => r >= 0) /\ (n >= 100 * k => r >= k)

LEMMA Rounding == \A n \in Sums, k \in Percents : Kept(RoundedPercent(n), n, k)
<1> TAKE n \in Sums, k \in Percents
<1>1. n \in Int /\ n <= 10000 /\ k \in 0..100
  BY DEF Sums, Percents
<1>2. QED
  BY <1>1 DEF RoundedPercent, Kept

(* Under these weights a lead with nothing to improve has this many points.  *)
SectorPoints == 40..100
SizePoints == 20..100
EngagementPoints == {e \in Int : e <= 100}
SourcePoints == 30..100
Weighed(w, a, b, e, s) == a * w.sector + b * w.size + e * w.engagement + s * w.source
Enough(n, least, a, e, s) ==
    n \in Int /\ n <= 10000 /\ (e >= 0 => n >= 0) /\ (a >= 60 /\ e >= 50 /\ s >= 50 => n >= least)
Balanced(w, least) ==
    \A a \in SectorPoints, b \in SizePoints, e \in EngagementPoints, s \in SourcePoints :
        Enough(Weighed(w, a, b, e, s), least, a, e, s)

LEMMA BalancedFrom ==
    ASSUME NEW p, NEW q, NEW x, NEW y, NEW h, NEW m, NEW least,
           \A a \in SectorPoints, b \in SizePoints, e \in EngagementPoints, s \in SourcePoints :
               Enough(a * p + b * q + e * x + s * y, least, a, e, s)
    PROVE  Balanced(Weighting(p, q, x, y, h, m), least)
<1>1. \A a, b, e, s : Weighed(Weighting(p, q, x, y, h, m), a, b, e, s) = a * p + b * q + e * x + s * y
  BY DEF Weighed, Weighting
<1>2. ASSUME NEW a \in SectorPoints, NEW b \in SizePoints, NEW e \in EngagementPoints, NEW s \in SourcePoints
      PROVE  Enough(Weighed(Weighting(p, q, x, y, h, m), a, b, e, s), least, a, e, s)
  <2>1. Enough(a * p + b * q + e * x + s * y, least, a, e, s)
    BY Zenon
  <2>2. QED
    BY <1>1, <2>1
<1>3. QED
  BY <1>2, Zenon DEF Balanced

LEMMA WeightingBalanced ==
    /\ Balanced(Weighting(25, 20, 35, 20, 70, 40), 4400)
    /\ Balanced(Weighting(20, 35, 30, 15, 68, 40), 4100)
    /\ Balanced(Weighting(30, 30, 25, 15, 65, 42), 4400)
    /\ Balanced(Weighting(20, 15, 45, 20, 65, 38), 4100)
    /\ Balanced(Weighting(10, 5, 50, 35, 65, 38), 4100)
    /\ Balanced(Weighting(15, 30, 40, 15, 62, 35), 4100)
<1>1. Balanced(Weighting(25, 20, 35, 20, 70, 40), 4400)
  <2>1. \A a \in SectorPoints, b \in SizePoints, e \in EngagementPoints, s \in SourcePoints :
            Enough(a * 25 + b * 20 + e * 35 + s * 20, 4400, a, e, s)
    BY DEF SectorPoints, SizePoints, EngagementPoints, SourcePoints, Enough
  <2>2. QED
    BY <2>1, BalancedFrom
<1>2. Balanced(Weighting(20, 35, 30, 15, 68, 40), 4100)
  <2>1. \A a \in SectorPoints, b \in SizePoints, e \in EngagementPoints, s \in SourcePoints :
            Enough(a * 20 + b * 35 + e * 30 + s * 15, 4100, a, e, s)
    BY DEF SectorPoints, SizePoints, EngagementPoints, SourcePoints, Enough
  <2>2. QED
    BY <2>1, BalancedFrom
<1>3. Balanced(Weighting(30, 30, 25, 15, 65, 42), 4400)
  <2>1. \A a \in SectorPoints, b \in SizePoints, e \in EngagementPoints, s \in SourcePoints :
            Enough(a * 30 + b * 30 + e * 25 + s * 15, 4400, a, e, s)
    BY DEF SectorPoints, SizePoints, EngagementPoints, SourcePoints, Enough
  <2>2. QED
    BY <2>1, BalancedFrom
<1>4. Balanced(Weighting(20, 15, 45, 20, 65, 38), 4100)
  <2>1. \A a \in SectorPoints, b \in SizePoints, e \in EngagementPoints, s \in SourcePoints :
            Enough(a * 20 + b * 15 + e * 45 + s * 20, 4100, a, e, s)
    BY DEF SectorPoints, SizePoints, EngagementPoints, SourcePoints, Enough
  <2>2. QED
    BY <2>1, BalancedFrom
<1>5. Balanced(Weighting(10, 5, 50, 35, 65, 38), 4100)
  <2>1. \A a \in SectorPoints, b \in SizePoints, e \in EngagementPoints, s \in SourcePoints :
            Enough(a * 10 + b * 5 + e * 50 + s * 35, 4100, a, e, s)
    BY DEF SectorPoints, SizePoints, EngagementPoints, SourcePoints, Enough
  <2>2. QED
    BY <2>1, BalancedFrom
<1>6. Balanced(Weighting(15, 30, 40, 15, 62, 35), 4100)
  <2>1. \A a \in SectorPoints, b \in SizePoints, e \in EngagementPoints, s \in SourcePoints :
            Enough(a * 15 + b * 30 + e * 40 + s * 15, 4100, a, e, s)
    BY DEF SectorPoints, SizePoints, EngagementPoints, SourcePoints, Enough
  <2>2. QED
    BY <2>1, BalancedFrom
<1>7. QED
  BY <1>1, <1>2, <1>3, <1>4, <1>5, <1>6

LEMMA VerticalsAre ==
    /\ DOMAIN Verticals = {"generic", "compta", "esn", "formation", "immo", "rh"}
    /\ Fallback = Weighting(25, 20, 35, 20, 70, 40)
    /\ Verticals["generic"] = Fallback
    /\ Verticals["compta"] = Weighting(20, 35, 30, 15, 68, 40)
    /\ Verticals["esn"] = Weighting(30, 30, 25, 15, 65, 42)
    /\ Verticals["formation"] = Weighting(20, 15, 45, 20, 65, 38)
    /\ Verticals["immo"] = Weighting(10, 5, 50, 35, 65, 38)
    /\ Verticals["rh"] = Weighting(15, 30, 40, 15, 62, 35)
  BY DEF Verticals, Fallback

LEMMA WarmFrom ==
    /\ Fallback.warm = 40 /\ Verticals["compta"].warm = 40 /\ Verticals["esn"].warm = 42
    /\ Verticals["formation"].warm = 38 /\ Verticals["immo"].warm = 38 /\ Verticals["rh"].warm = 35
<1>1. \A p, q, x, y, h, m : Weighting(p, q, x, y, h, m).warm = m
  BY DEF Weighting
<1>2. Fallback.warm = 40 /\ Verticals["compta"].warm = 40
  BY <1>1, VerticalsAre
<1>3. Verticals["esn"].warm = 42 /\ Verticals["formation"].warm = 38
  BY <1>1, VerticalsAre
<1>4. Verticals["immo"].warm = 38 /\ Verticals["rh"].warm = 35
  BY <1>1, VerticalsAre
<1>5. QED
  BY <1>2, <1>3, <1>4

(* Whatever vertical is read, or not, for the weights or for the thresholds: *)
(* a lead with nothing to improve is not cold.                               *)
LEMMA VerticalsBalanced ==
    ASSUME NEW v \in DOMAIN Verticals, NEW w \in {Verticals[v], Fallback}, NEW t \in {Verticals[v], Fallback}
    PROVE  \E least \in Nat : Balanced(w, least) /\ t.warm \in 0..100 /\ least >= 100 * t.warm
<1>1. v \in {"generic", "compta", "esn", "formation", "immo", "rh"}
  BY VerticalsAre
<1>2. Balanced(Fallback, 4400)
  BY WeightingBalanced, VerticalsAre
<1>3. CASE v = "esn"
  <2>1. Balanced(Verticals["esn"], 4400)
    BY WeightingBalanced, VerticalsAre
  <2>2. Balanced(w, 4400)
    BY <1>2, <1>3, <2>1
  <2>3. t.warm = 40 \/ t.warm = 42
    BY <1>3, WarmFrom
  <2>4. QED
    BY <2>2, <2>3
<1>4. CASE v # "esn"
  <2>1. Balanced(Fallback, 4100)
    <3>1. \A n, a, e, s : Enough(n, 4400, a, e, s) => Enough(n, 4100, a, e, s)
      BY DEF Enough
    <3>2. QED
      BY <1>2, <3>1 DEF Balanced
  <2>2. Balanced(Verticals["compta"], 4100) /\ Balanced(Verticals["formation"], 4100)
    BY WeightingBalanced, VerticalsAre
  <2>3. Balanced(Verticals["immo"], 4100) /\ Balanced(Verticals["rh"], 4100)
    BY WeightingBalanced, VerticalsAre
  <2>4. Balanced(w, 4100)
    BY <1>1, <1>4, <2>1, <2>2, <2>3, VerticalsAre
  <2>5. t.warm \in {35, 38, 40}
    BY <1>1, <1>4, WarmFrom, VerticalsAre
  <2>6. QED
    BY <2>4, <2>5
<1>5. QED
  BY <1>3, <1>4

LEMMA ScoreIsSound ==
    ASSUME NEW v \in DOMAIN Verticals, NEW w \in {Verticals[v], Fallback}, NEW t \in {Verticals[v], Fallback},
           NEW l, Counts(l) \subseteq Int
    PROVE  /\ Score(l, w) \in Int /\ Score(l, w) <= 100
           /\ (\A i \in Counts(l) : i >= 0) => Score(l, w) >= 0
           /\ Tier(Score(l, w), t) = "cold" => Hints(l) # {}
<1> DEFINE f == Factors(l)
           n == Weighed(w, f.sector, f.size, f.engagement, f.source)
           z == RoundedPercent(n)
           m == t.warm
<1>1. f.sector \in SectorPoints /\ f.size \in SizePoints
      /\ f.engagement \in EngagementPoints /\ f.source \in SourcePoints
  BY TableBounds, EngagementBounds DEF Factors, SectorPoints, SizePoints, EngagementPoints, SourcePoints
<1>2. PICK least \in Nat : Balanced(w, least) /\ m \in 0..100 /\ least >= 100 * m
  BY VerticalsBalanced
<1>3. Enough(n, least, f.sector, f.engagement, f.source)
  <2> HIDE DEF f
  <2> QED
    BY <1>1, <1>2, Zenon DEF Balanced
<1>4. Score(l, w) = z
  BY ZenonT(20) DEF Score, Weighed
<1>5. Hints(l) = {} => f.sector >= 60 /\ f.engagement >= 50 /\ f.source >= 50
  <2>1. Hints(l) = {d \in {"engagement", "sector", "source"} : f[d] < (IF d = "sector" THEN 60 ELSE 50)}
    BY ZenonT(20) DEF Hints
  <2>2. f["sector"] = f.sector /\ f["engagement"] = f.engagement /\ f["source"] = f.source
    OBVIOUS
  <2> HIDE DEF f
  <2>3. ASSUME Hints(l) = {} PROVE ~(f.sector < 60) /\ ~(f.engagement < 50) /\ ~(f.source < 50)
    BY <2>1, <2>2, <2>3
  <2>4. QED
    BY <1>1, <2>3 DEF SectorPoints, EngagementPoints, SourcePoints
<1>6. Tier(Score(l, w), t) = "cold" => ~(z >= m)
  BY <1>4 DEF Tier
<1>11. (\A i \in Counts(l) : i >= 0) => f.engagement >= 0
  <2>1. f.engagement = Engagement(l)
    BY DEF Factors
  <2> HIDE DEF f
  <2>2. QED
    BY <2>1, EngagementBounds
<1> HIDE DEF f, n, z, m
<1>7. /\ n \in Int /\ n <= 10000 /\ (Hints(l) = {} => n >= least)
      /\ (\A i \in Counts(l) : i >= 0) => n >= 0
  BY <1>3, <1>5, <1>11 DEF Enough
<1>8. Hints(l) = {} => n >= 100 * m
  BY <1>2, <1>7
<1>9. z \in Int /\ z <= 100 /\ (n >= 0 => z >= 0) /\ (n >= 100 * m => z >= m)
  <2>1. n \in Sums /\ m \in Percents
    BY <1>2, <1>7 DEF Sums, Percents
  <2>2. Kept(RoundedPercent(n), n, m)
    BY <2>1, Rounding, Zenon
  <2>3. Kept(z, n, m)
    BY <2>2, Zenon DEF z
  <2>4. QED
    BY <2>3 DEF Kept
<1>10. QED
  BY <1>4, <1>6, <1>7, <1>8, <1>9

(* What comes before i in a list of n scores. Ranks are all different, so     *)
(* they are all taken.                                                       *)
Ahead(s, n, i) == {j \in 1..n : s[j] > s[i] \/ (s[j] = s[i] /\ j < i)}

LEMMA PlacesFollow ==
    ASSUME NEW n \in Nat, NEW s, DOMAIN s = 1..n, \A i \in 1..n : s[i] \in Int
    PROVE  /\ \A i \in 1..n : Place(s, i) \in 1..n
           /\ \A i, j \in 1..n : i \in Ahead(s, n, j) => Place(s, i) < Place(s, j)
           /\ \A i, j \in 1..n : i # j => i \in Ahead(s, n, j) \/ j \in Ahead(s, n, i)
<1>1. \A i \in 1..n : Place(s, i) = 1 + Cardinality(Ahead(s, n, i))
  BY DEF Place, Ahead
<1>2. IsFiniteSet(1..n) /\ Cardinality(1..n) = n
  BY FS_Interval
<1>3. \A i \in 1..n : IsFiniteSet(Ahead(s, n, i)) /\ Cardinality(Ahead(s, n, i)) \in Nat
  <2>1. \A i \in 1..n : Ahead(s, n, i) \subseteq 1..n
    BY DEF Ahead
  <2>2. QED
    BY <1>2, <2>1, FS_Subset, FS_CardinalityType
<1>4. ASSUME NEW i \in 1..n PROVE Place(s, i) \in 1..n
  <2>1. Ahead(s, n, i) \subseteq (1..n) \ {i}
    BY DEF Ahead
  <2>2. IsFiniteSet((1..n) \ {i}) /\ Cardinality((1..n) \ {i}) = n - 1
    BY <1>2, FS_RemoveElement
  <2>3. Cardinality(Ahead(s, n, i)) <= n - 1
    BY <2>1, <2>2, FS_Subset
  <2>4. Cardinality(Ahead(s, n, i)) \in Nat /\ Place(s, i) = 1 + Cardinality(Ahead(s, n, i))
    BY <1>1, <1>3
  <2> DEFINE a == Cardinality(Ahead(s, n, i))
  <2>5. a \in Nat /\ a <= n - 1 /\ Place(s, i) = 1 + a
    BY <2>3, <2>4
  <2> HIDE DEF a
  <2>6. 1 + a \in 1..n
    BY <2>5
  <2>7. QED
    BY <2>5, <2>6
<1>5. ASSUME NEW i \in 1..n, NEW j \in 1..n, i \in Ahead(s, n, j) PROVE Place(s, i) < Place(s, j)
  <2>1. Ahead(s, n, i) \subseteq Ahead(s, n, j) /\ i \notin Ahead(s, n, i)
    BY <1>5 DEF Ahead
  <2>2. Cardinality(Ahead(s, n, i)) <= Cardinality(Ahead(s, n, j))
        /\ Cardinality(Ahead(s, n, i)) # Cardinality(Ahead(s, n, j))
    BY <1>3, <1>5, <2>1, FS_Subset
  <2> DEFINE a == Cardinality(Ahead(s, n, i))
             b == Cardinality(Ahead(s, n, j))
  <2>3. a \in Nat /\ b \in Nat /\ a <= b /\ a # b /\ Place(s, i) = 1 + a /\ Place(s, j) = 1 + b
    BY <1>1, <1>3, <2>2
  <2> HIDE DEF a, b
  <2>4. 1 + a < 1 + b
    BY <2>3
  <2>5. QED
    BY <2>3, <2>4
<1>6. ASSUME NEW i \in 1..n, NEW j \in 1..n, i # j PROVE i \in Ahead(s, n, j) \/ j \in Ahead(s, n, i)
  BY <1>6 DEF Ahead
<1>7. QED
  BY <1>4, <1>5, <1>6

LEMMA PlacesTaken ==
    ASSUME NEW n \in Nat, NEW s, DOMAIN s = 1..n, \A i \in 1..n : s[i] \in Int
    PROVE  /\ \A p \in 1..n : \E i \in 1..n : Place(s, i) = p
           /\ \A i, j \in 1..n : Place(s, i) = Place(s, j) => i = j
<1>1. /\ \A i \in 1..n : Place(s, i) \in 1..n
      /\ \A i, j \in 1..n : i \in Ahead(s, n, j) => Place(s, i) < Place(s, j)
      /\ \A i, j \in 1..n : i # j => i \in Ahead(s, n, j) \/ j \in Ahead(s, n, i)
  BY PlacesFollow
<1>2. \A i, j \in 1..n : Place(s, i) = Place(s, j) => i = j
  <2>1. ASSUME NEW i \in 1..n, NEW j \in 1..n, Place(s, i) = Place(s, j), i # j PROVE FALSE
    <3>1. Place(s, i) < Place(s, j) \/ Place(s, j) < Place(s, i)
      BY <1>1, <2>1
    <3>2. Place(s, i) \in 1..n /\ Place(s, j) \in 1..n
      BY <1>1
    <3> QED
      BY <2>1, <3>1, <3>2
  <2>2. QED
    BY <2>1
<1> DEFINE f == [i \in 1..n |-> Place(s, i)]
<1>3. f \in Injection(1..n, 1..n)
  BY <1>1, <1>2 DEF Injection, IsInjective
<1>4. f \in Surjection(1..n, 1..n)
  BY <1>3, FS_Injection, FS_Interval
<1>5. \A p \in 1..n : \E i \in 1..n : f[i] = p
  BY <1>4 DEF Surjection
<1>6. \A p \in 1..n : \E i \in 1..n : Place(s, i) = p
  BY <1>5
<1>7. QED
  BY <1>2, <1>6

LEMMA OrderRanks ==
    ASSUME NEW n \in Nat, NEW s, DOMAIN s = 1..n, \A i \in 1..n : s[i] \in Int
    PROVE  LET o == Order(s)
           IN /\ {o[p] : p \in DOMAIN o} = 1..n
              /\ \A p, q \in DOMAIN o : p < q => s[o[p]] >= s[o[q]]
<1> DEFINE o == Order(s)
<1>1. /\ \A p \in 1..n : \E i \in 1..n : Place(s, i) = p
      /\ \A i, j \in 1..n : Place(s, i) = Place(s, j) => i = j
  BY PlacesTaken
<1>2. /\ \A i \in 1..n : Place(s, i) \in 1..n
      /\ \A i, j \in 1..n : i \in Ahead(s, n, j) => Place(s, i) < Place(s, j)
  BY PlacesFollow
<1>3. DOMAIN o = 1..n /\ \A p \in 1..n : o[p] \in 1..n /\ Place(s, o[p]) = p
  BY <1>1 DEF Order
<1> HIDE DEF o
<1>4. \A i \in 1..n : o[Place(s, i)] = i
  BY <1>1, <1>2, <1>3
<1>5. {o[p] : p \in DOMAIN o} = 1..n
  BY <1>2, <1>3, <1>4
<1>6. ASSUME NEW p \in 1..n, NEW q \in 1..n, p < q PROVE s[o[p]] >= s[o[q]]
  <2> DEFINE i == o[p]
             j == o[q]
  <2>1. i \in 1..n /\ j \in 1..n /\ Place(s, i) = p /\ Place(s, j) = q
    BY <1>3
  <2> HIDE DEF i, j
  <2>2. j \notin Ahead(s, n, i)
    BY <1>2, <1>6, <2>1
  <2>3. ~(s[j] > s[i])
    BY <2>1, <2>2 DEF Ahead
  <2>4. s[i] >= s[j]
    BY <2>1, <2>3
  <2>5. QED
    BY <2>4 DEF i, j
<1>7. QED
  BY <1>3, <1>5, <1>6 DEF o

(* Whoever refused mail has lost twenty of at most fifty points.             *)
LEMMA PointsHeld ==
    \A l : RulePoints(l) \in 0..60 /\ (l.optIn = "no" => RulePoints(l) <= 30)
<1> TAKE l
<1> DEFINE a == Points(l.verified, 15)
           b == Points(l.optIn = "yes", 10)
           d == Points(l.named, 10)
           e == Points(l.api, 10)
           f == Points(l.ageDays <= 30, 5)
           g == Points(l.opens >= 1, 10)
           h == Points(l.unsubscribed \/ l.optIn = "no", 20)
           i == Points(l.bounces >= 3, 10)
<1>1. a \in 0..15 /\ b \in 0..10 /\ d \in 0..10 /\ e \in 0..10
  BY DEF Points
<1>2. f \in 0..5 /\ g \in 0..10 /\ h \in 0..20 /\ i \in 0..10
  BY DEF Points
<1>3. l.optIn = "no" => b = 0 /\ h = 20
  BY DEF Points
<1>4. RulePoints(l) = IF a + b + d + e + f + g < h + i THEN 0
                      ELSE AtMost((a + b + d + e + f + g) - (h + i), 60)
  BY Zenon DEF RulePoints
<1> DEFINE p == l.optIn = "no"
<1> HIDE DEF a, b, d, e, f, g, h, i
<1> DEFINE gained == a + b + d + e + f + g
           lost == h + i
<1>5. gained \in 0..60 /\ lost \in 0..30
  BY <1>1, <1>2
<1>6. l.optIn = "no" => gained <= 50 /\ lost >= 20
  BY <1>1, <1>2, <1>3
<1>7. RulePoints(l) = IF gained < lost THEN 0 ELSE AtMost(gained - lost, 60)
  BY <1>4
<1> HIDE DEF gained, lost
<1>8. RulePoints(l) \in 0..60
  BY <1>5, <1>7 DEF AtMost
<1>9. ASSUME l.optIn = "no" PROVE RulePoints(l) <= 30
  <2>1. gained <= 50 /\ lost >= 20
    BY <1>6, <1>9
  <2>2. QED
    BY <1>5, <1>7, <2>1 DEF AtMost
<1>10. QED
  BY <1>8, <1>9

LEMMA StatsCounted ==
    ASSUME NEW p, NEW f \in FigureRows PROVE Stats(p, f) \in FigureRows
  BY DEF Stats, FigureRows, Figures, NoFigures, OrOne

LEMMA TypedCounted == FigureRows \subseteq TypedRows
  BY DEF FigureRows, TypedRows

(* Where a rate can be told, the benchmark of an excellent account pays.     *)
LEMMA InsightHolds ==
    ASSUME NEW p, NEW f \in TypedRows, NEW niche, NEW video, Rateable(p, f)
    PROVE  LET i == Insight(p, f, niche, video)
           IN /\ i.tier = "excellent" => i.bonus > 100
              /\ AtLeast(i.rate, 8) => i.bonus = 150
              /\ f.followers >= 0 => i.price.least <= i.price.most
              /\ f.followers < 0 => i.price.most < i.price.least
<1> DEFINE r == Rate(p, f)
           i == Insight(p, f, niche, video)
<1>1. p \in {"instagram", "tiktok", "youtube"}
  BY DEF Rateable, Audience
<1>2. r.num \in Int /\ r.den \in Int /\ r.den # 0
  BY DEF Rate, Rateable, Audience, TypedRows
<1>3. Excellent[p] \in {5, 6, 8}
  BY <1>1 DEF Excellent
<1>4. i.tier = EngagementTier(p, r) /\ i.bonus = Bonus(r) /\ i.rate = r /\ i.price = Price(p, f, r, niche, video)
  BY Zenon DEF Insight
<1> HIDE DEF r, i
<1>5. \A x \in {5, 6, 8} : AtLeast(r, x) => AtLeast(r, 5)
  BY <1>2 DEF AtLeast
<1>6. EngagementTier(p, r) = "excellent" => AtLeast(r, Excellent[p])
  BY DEF EngagementTier
<1>7. AtLeast(r, 5) => Bonus(r) > 100
  BY DEF Bonus
<1>8. AtLeast(r, 8) => Bonus(r) = 150
  BY DEF Bonus
<1>9. /\ f.followers >= 0 => Price(p, f, r, niche, video).least <= Price(p, f, r, niche, video).most
      /\ f.followers < 0 => Price(p, f, r, niche, video).most < Price(p, f, r, niche, video).least
  <2> DEFINE m == IF niche \in DOMAIN NicheMultiplier THEN NicheMultiplier[niche] ELSE 10
             base == f.followers * Cpm(p, video) * Bonus(r) * m
  <2>1. m \in Nat /\ m > 0
    BY DEF NicheMultiplier
  <2>2. Cpm(p, video) \in Nat /\ Cpm(p, video) > 0
    BY <1>1 DEF Cpm, VideoCpm, PostCpm
  <2>3. Bonus(r) \in Nat /\ Bonus(r) > 0
    BY DEF Bonus
  <2>4. f.followers \in Int
    BY DEF TypedRows
  <2>5. \A x \in Int, y \in Nat : y > 0 => /\ x * y \in Int /\ (x >= 0 => x * y >= 0)
                                          /\ (x < 0 => x * y < 0)
    OBVIOUS
  <2>6. base \in Int /\ (f.followers >= 0 => base >= 0) /\ (f.followers < 0 => base < 0)
    <3> HIDE DEF m
    <3>1. LET x == f.followers * Cpm(p, video)
          IN x \in Int /\ (f.followers >= 0 => x >= 0) /\ (f.followers < 0 => x < 0)
      BY <2>2, <2>4, <2>5
    <3>2. LET x == f.followers * Cpm(p, video) * Bonus(r)
          IN x \in Int /\ (f.followers >= 0 => x >= 0) /\ (f.followers < 0 => x < 0)
      BY <2>3, <2>4, <2>5, <3>1
    <3>3. QED
      BY <2>1, <2>4, <2>5, <3>2
  <2>7. Price(p, f, r, niche, video) = [least |-> 8 * base, most |-> 15 * base]
    BY Zenon DEF Price
  <2> HIDE DEF base
  <2>8. (base >= 0 => 8 * base <= 15 * base) /\ (base < 0 => 15 * base < 8 * base)
    BY <2>6
  <2>9. QED
    BY <2>6, <2>7, <2>8
<1>10. QED
  BY <1>3, <1>4, <1>5, <1>6, <1>7, <1>8, <1>9 DEF i

(* The step that shows figures: of a score, of a ranking.                    *)
LEMMA ScoreShown ==
    ASSUME CallsInv, NEW c \in Calls, FiguresOf(c), ScoreLead(c) PROVE ScoreSound(c)'
<1> DEFINE l == given[c].lead
           v == given[c].vertical
<1>1. PICK w \in Readable(c), t \in Readable(c) :
          Produce(c, "reading", "ok",
              [score |-> Score(l, w), tier |-> Tier(Score(l, w), t), hints |-> Hints(l), partial |-> Partial(l)])
  BY DEF ScoreLead
<1>2. l \in ScoredLeads /\ v \in DOMAIN Verticals
  BY DEF ScoreLead, FiguresOf
<1>3. w \in {Verticals[v], Fallback} /\ t \in {Verticals[v], Fallback}
  BY DEF Readable
<1>4. made'[c] = [score |-> Score(l, w), tier |-> Tier(Score(l, w), t), hints |-> Hints(l), partial |-> Partial(l)]
  BY <1>1 DEF Produce, CallsInv
<1> HIDE DEF l, v
<1>5. Counts(l) \subseteq Int
  BY <1>2, ScoringConstants, Zenon DEF ScoringConstants
<1>6. /\ Score(l, w) \in Int /\ Score(l, w) <= 100
      /\ (\A n \in Counts(l) : n >= 0) => Score(l, w) >= 0
      /\ Tier(Score(l, w), t) = "cold" => Hints(l) # {}
  BY <1>2, <1>3, <1>5, ScoreIsSound
<1>7. given'[c].lead = l
  BY <1>1 DEF Produce, l
<1>8. QED
  BY <1>4, <1>6, <1>7 DEF ScoreSound

LEMMA RankShown ==
    ASSUME CallsInv, NEW c \in Calls, FiguresOf(c), RankLeads(c), given'[c] = given[c] PROVE RankSound(c)'
<1> DEFINE list == given[c].list
           v == given[c].vertical
<1>1. PICK w \in Readable(c) :
          LET s == [i \in DOMAIN list |-> ScoreOf(list[i], w)]
          IN Produce(c, "reading", "ok", [order |-> Order(s), scores |-> s])
  BY DEF RankLeads
<1> DEFINE s == [i \in DOMAIN list |-> ScoreOf(list[i], w)]
<1>2. list \in Ranked /\ v \in DOMAIN Verticals
  BY DEF RankLeads, FiguresOf
<1>4. w \in {Verticals[v], Fallback}
  BY DEF Readable
<1>5. made'[c] = [order |-> Order(s), scores |-> s] /\ given'[c].list = list
  BY <1>1 DEF Produce, CallsInv
<1> HIDE DEF list, v
<1> DEFINE n == Len(list)
<1>6. n \in Nat /\ DOMAIN list = 1..n
      /\ \A i \in 1..n : list[i].score \in Int /\ Counts(list[i].lead) \subseteq Int
  BY <1>2, ScoringConstants DEF ScoringConstants
<1>7. ASSUME NEW i \in 1..n PROVE ScoreOf(list[i], w) \in Int
  <2>1. Score(list[i].lead, w) \in Int
    BY <1>2, <1>4, <1>6, ScoreIsSound
  <2>2. QED
    BY <1>6, <2>1 DEF ScoreOf
<1> HIDE DEF n
<1>8. DOMAIN s = 1..n /\ \A i \in 1..n : s[i] \in Int
  BY <1>6, <1>7
<1> HIDE DEF s
<1>9. /\ {Order(s)[p] : p \in DOMAIN Order(s)} = DOMAIN list
      /\ \A p, q \in DOMAIN Order(s) : p < q => s[Order(s)[p]] >= s[Order(s)[q]]
  BY <1>6, <1>8, OrderRanks
<1>10. made'[c].order = Order(s) /\ made'[c].scores = s
  BY <1>5
<1>11. QED
  BY <1>5, <1>9, <1>10, Zenon DEF RankSound

LEMMA RulesShown ==
    ASSUME CallsInv, NEW c \in Calls, ApplyRules(c), given'[c] = given[c] PROVE RulesSound(c)'
<1>1. made'[c].points = RulePoints(given[c])
  BY DEF ApplyRules, Produce, CallsInv
<1>2. QED
  BY <1>1, PointsHeld DEF RulesSound

LEMMA InsightShown ==
    ASSUME NEW c \in Calls, NEW p, NEW f \in TypedRows, NEW niche, NEW video, Rateable(p, f),
           made'[c] = Insight(p, f, niche, video),
           IF kind'[c] = "influencer" THEN f = given'[c].figures ELSE f \in FigureRows
    PROVE  InsightSound(c)'
<1>1. /\ made'[c].tier = "excellent" => made'[c].bonus > 100
      /\ AtLeast(made'[c].rate, 8) => made'[c].bonus = 150
      /\ f.followers >= 0 => made'[c].price.least <= made'[c].price.most
      /\ f.followers < 0 => made'[c].price.most < made'[c].price.least
  BY InsightHolds
<1>2. f.followers \in Int /\ (f \in FigureRows => f.followers >= 0)
  BY DEF TypedRows, FigureRows
<1>3. QED
  BY <1>1, <1>2 DEF InsightSound, AtLeast

(* What a step leaves of the figures: those of the other calls, of a call of *)
(* another service, and of one that does not show any now.                   *)
LEMMA FiguresAside ==
    ASSUME FiguresInv, NEW c \in Calls, Goes(c), FiguresOf(c)' PROVE FiguresInv'
<1>1. ASSUME NEW d \in Calls \ {c} PROVE FiguresOf(d)'
  <2>1. FiguresOf(d) /\ kind'[d] = kind[d] /\ pc'[d] = pc[d] /\ given'[d] = given[d] /\ made'[d] = made[d]
    BY DEF FiguresInv, Goes
  <2>2. QED
    BY <2>1 DEF FiguresOf, ScoreSound, RankSound, RulesSound, InsightSound
<1>2. QED
  BY <1>1 DEF FiguresInv

Shown == {"score", "rank", "rules", "account", "influencer"}

LEMMA NoFiguresShown ==
    ASSUME NEW c \in Calls, kind'[c] \notin Shown PROVE FiguresOf(c)'
  BY DEF Shown, FiguresOf, ScoreSound, RankSound, RulesSound, InsightSound

LEMMA FiguresUnshown ==
    ASSUME NEW c \in Calls, FiguresOf(c), kind'[c] = kind[c], given'[c] = given[c],
           pc'[c] \notin {"rating", "storing", "ok"}
    PROVE  FiguresOf(c)'
  BY DEF FiguresOf, InsightSound

LEMMA FiguresBegin ==
    ASSUME CallsInv, NEW c \in Calls, ScoringBegins(c) \/ InsightBegins(c) PROVE Goes(c) /\ FiguresOf(c)'
<1> DEFINE Fit(k, x) ==
              /\ k = "score" => x.lead \in ScoredLeads /\ x.vertical \in DOMAIN Verticals
              /\ k = "rank" => x.list \in Ranked /\ x.vertical \in DOMAIN Verticals
              /\ k = "account" => x \in Accounts
              /\ k = "influencer" => x \in Influencers
<1>1. PICK k \in Shown : \E x : Ask(c, k, x) /\ Fit(k, x)
  <2>1. CASE ScoringBegins(c)
    BY <2>1 DEF ScoringBegins, Shown
  <2>2. CASE InsightBegins(c)
    BY <2>2 DEF InsightBegins, Shown
  <2>3. QED
    BY <2>1, <2>2
<1>2. k \in Kinds \ {"none"}
  BY DEF Shown, Kinds
<1>3. PICK x : Ask(c, k, x) /\ Fit(k, x)
  BY <1>1
<1>4. Goes(c) /\ kind'[c] = k /\ pc'[c] = "reading" /\ given'[c] = x
  BY <1>2, <1>3, AskGoes
<1>5. QED
  BY <1>3, <1>4 DEF FiguresOf, InsightSound

LEMMA FiguresScored ==
    ASSUME CallsInv, NEW c \in Calls, FiguresOf(c), ScoringSteps(c) PROVE FiguresOf(c)'
<1>1. CASE ScoreRaises(c) \/ RankRaises(c)
  <2>1. Raise(c, "reading") /\ "reading" \in Midway
    BY <1>1 DEF ScoreRaises, RankRaises, Midway
  <2>2. QED
    BY <2>1, RaiseGoes, MidwayGoesOn, FiguresUnshown
<1>2. CASE ScoreLead(c) \/ RankLeads(c) \/ ApplyRules(c)
  <2>1. (\E y : Produce(c, "reading", "ok", y)) /\ kind[c] \in {"score", "rank", "rules"}
    BY <1>2 DEF ScoreLead, RankLeads, ApplyRules
  <2>2. kind'[c] = kind[c] /\ pc'[c] = "ok" /\ given'[c] = given[c]
    BY <2>1, OwnProduceGoes DEF Midway, Anyones
  <2>3. ScoreSound(c)' /\ RankSound(c)' /\ RulesSound(c)'
    <3>1. CASE ScoreLead(c)
      BY <2>2, <3>1, ScoreShown DEF ScoreLead, RankSound, RulesSound
    <3>2. CASE RankLeads(c)
      BY <2>2, <3>2, RankShown DEF RankLeads, ScoreSound, RulesSound
    <3>3. CASE ApplyRules(c)
      BY <2>2, <3>3, RulesShown DEF ApplyRules, ScoreSound, RankSound
    <3>4. QED
      BY <1>2, <3>1, <3>2, <3>3
  <2>4. QED
    BY <2>1, <2>2, <2>3 DEF FiguresOf, InsightSound
<1>3. QED
  BY <1>1, <1>2 DEF ScoringSteps

LEMMA FiguresRated ==
    ASSUME CallsInv, NEW c \in Calls, FiguresOf(c), InsightSteps(c) PROVE FiguresOf(c)'
<1>1. CASE AccountRead(c)
  <2>1. Produce(c, "reading", "asking", NoFigures) /\ kind[c] = "account"
    BY <1>1 DEF AccountRead
  <2>2. kind'[c] = kind[c] /\ pc'[c] = "asking" /\ given'[c] = given[c]
    BY <2>1, OwnProduceGoes, OwnersOfPoints DEF Midway
  <2>3. QED
    BY <2>2, FiguresUnshown
<1>2. CASE PlatformAnswers(c) \/ PlatformDown(c)
  <2>1. PICK y : /\ Step(c, "asking", "rating") /\ made' = [made EXCEPT ![c] = y] /\ given' = given
                 /\ y = NoFigures \/ y = Stats(given[c].platform, given[c].figures)
    BY <1>2 DEF PlatformAnswers, PlatformDown, Produce
  <2>2. kind[c] = "account" /\ kind'[c] = kind[c] /\ pc'[c] = "rating" /\ given'[c] = given[c] /\ made'[c] = y
    BY <2>1, Whose DEF Step, CallsInv, CallsTypeOK
  <2>3. given[c] \in Accounts /\ given[c].figures \in FigureRows
    BY <2>2, InsightConstants DEF FiguresOf, InsightConstants
  <2>4. y \in FigureRows
    BY <2>1, <2>3, StatsCounted DEF NoFigures, Figures, FigureRows
  <2>5. QED
    BY <2>2, <2>3, <2>4 DEF FiguresOf, InsightSound
<1>3. CASE AccountRated(c)
  <2>1. /\ Rateable(given[c].platform, made[c]) /\ pc[c] = "rating"
        /\ Produce(c, "rating", "storing", Insight(given[c].platform, made[c], given[c].niche, FALSE))
    BY <1>3 DEF AccountRated
  <2>2. kind[c] = "account"
    BY <2>1, Whose
  <2>3. /\ kind'[c] = kind[c] /\ pc'[c] = "storing" /\ given'[c] = given[c]
        /\ made'[c] = Insight(given[c].platform, made[c], given[c].niche, FALSE)
    <3> DEFINE y == Insight(given[c].platform, made[c], given[c].niche, FALSE)
    <3>1. Produce(c, "rating", "storing", y) /\ "rating" \in Midway /\ kind[c] \in Owners("storing")
      BY <2>1, <2>2, OwnersOfPoints DEF Midway
    <3> HIDE DEF y
    <3>2. kind'[c] = kind[c] /\ pc'[c] = "storing" /\ given' = given /\ made'[c] = y
      BY <3>1, OwnProduceGoes
    <3>3. QED
      BY <3>2 DEF y
  <2>4. made[c] \in FigureRows /\ given[c] \in Accounts
    BY <2>1, <2>2 DEF FiguresOf
  <2>5. InsightSound(c)'
    BY <2>1, <2>2, <2>3, <2>4, InsightShown, TypedCounted
  <2>6. QED
    BY <2>2, <2>3, <2>4, <2>5 DEF FiguresOf
<1>4. CASE InfluencerRated(c)
  <2>1. /\ Rateable(given[c].platform, given[c].figures) /\ kind[c] = "influencer"
        /\ Produce(c, "reading", "ok", Insight(given[c].platform, given[c].figures, given[c].niche, TRUE))
    BY <1>4 DEF InfluencerRated
  <2>2. /\ kind'[c] = kind[c] /\ pc'[c] = "ok" /\ given'[c] = given[c]
        /\ made'[c] = Insight(given[c].platform, given[c].figures, given[c].niche, TRUE)
    BY <2>1, OwnProduceGoes DEF Midway, Anyones
  <2>3. given[c] \in Influencers /\ given[c].figures \in TypedRows
    BY <2>1, InsightConstants DEF FiguresOf, InsightConstants
  <2>4. InsightSound(c)'
    BY <2>1, <2>2, <2>3, InsightShown
  <2>5. QED
    BY <2>1, <2>2, <2>3, <2>4 DEF FiguresOf, ScoreSound, RankSound, RulesSound
<1>5. CASE AccountUnrated(c)
  <2>1. Escape(c, "rating") /\ UNCHANGED <<given, made, trouble>>
    BY <1>5 DEF AccountUnrated
  <2>2. kind'[c] = kind[c] /\ pc'[c] \in {"reading", "failed"} /\ given'[c] = given[c]
    BY <2>1 DEF Escape, Step, CallsInv, CallsTypeOK
  <2>3. QED
    BY <2>2, FiguresUnshown
<1>6. CASE AccountMissing(c) \/ InsightRefused(c) \/ InfluencerUnrated(c)
  <2>1. PICK p \in {"reading", "storing"} : Raise(c, p) \/ Outage(c, p)
    BY <1>6 DEF AccountMissing, InsightRefused, InfluencerUnrated
  <2>2. kind'[c] = kind[c] /\ pc'[c] \in {"reading", "failed"} /\ given' = given
    BY <2>1, RaiseGoes, MidwayGoesOn DEF Midway
  <2>3. QED
    BY <2>2, FiguresUnshown
<1>7. QED
  BY <1>1, <1>2, <1>3, <1>4, <1>5, <1>6 DEF InsightSteps

LEMMA FormatsGo ==
    ASSUME CallsInv, NEW c \in Calls, FormatBegins(c) \/ PlanBegins(c) \/ FormatSteps(c) \/ PlanSteps(c)
    PROVE  kind'[c] \in {"format", "plan", "build"}
<1>1. CASE FormatBegins(c) \/ PlanBegins(c)
  <2>1. PICK k \in {"format", "plan", "build"} : \E x : Ask(c, k, x)
    BY <1>1 DEF FormatBegins, PlanBegins
  <2>2. k \in Kinds \ {"none"}
    BY DEF Kinds
  <2>3. QED
    BY <2>1, <2>2, AskGoes
<1>2. CASE FormatSteps(c) \/ PlanSteps(c)
  <2>1. kind'[c] = kind[c] /\ (kind[c] \in {"format", "plan", "build"} \/ pc[c] \in {"tagging", "planning"})
    BY <1>2 DEF FormatSteps, FormatText, RewriteRaises, TagsRaise, PlanSteps, PromptBlank, ModelSilent,
       ReplyUnusable, ReplyVague, ReplyUnderstood, CalendarBuilt, BriefRefused, PlanBuilt,
       Produce, Raise, Outage, Escape, Step
  <2>2. QED
    BY <2>1, Whose
<1>3. QED
  BY <1>1, <1>2

LEMMA FiguresStart == Init => FiguresInv
<1> SUFFICES ASSUME CallsInit PROVE FiguresInv
  BY DEF Init
<1>1. \A c \in Calls : kind[c] = "none" /\ pc[c] = "idle"
  BY DEF CallsInit
<1>2. QED
  BY <1>1 DEF FiguresInv, FiguresOf, InsightSound

LEMMA FiguresNext == CallsInv /\ FiguresInv /\ [Next]_vars => FiguresInv'
<1> SUFFICES ASSUME CallsInv, FiguresInv, [Next]_vars PROVE FiguresInv'
  OBVIOUS
<1>1. ASSUME UNCHANGED <<callVars, taskVars>> PROVE FiguresInv'
  <2>1. UNCHANGED <<kind, pc, given, made>>
    BY <1>1 DEF callVars, taskVars
  <2>2. QED
    BY <2>1 DEF FiguresInv, FiguresOf, ScoreSound, RankSound, RulesSound, InsightSound
<1>2. CASE UNCHANGED vars \/ TimePasses
  BY <1>1, <1>2, TimeStays DEF vars
<1>3. ASSUME NEW c \in Calls, Goes(c), kind'[c] \notin Shown PROVE FiguresInv'
  BY <1>3, NoFiguresShown, FiguresAside
<1>4. ASSUME NEW c \in Calls,
             LeadPart(c) \/ FlowPart(c) \/ LedgerPart(c) \/ LimitPart(c) \/ MediaPart(c) \/ ProjectPart(c)
      PROVE  FiguresInv'
  BY <1>3, <1>4, LeadGoes, FlowGoes, LedgerGoes, LimitGoes, MediaGoes, ProjectGoes DEF Shown, Pipelines
<1>5. ASSUME NEW c \in Calls, ScorePart(c) PROVE FiguresInv'
  <2>1. Goes(c) /\ FiguresOf(c)
    BY <1>5, ScoreGoes DEF FiguresInv
  <2>2. CASE ScoringBegins(c) \/ InsightBegins(c)
    BY <2>1, <2>2, FiguresBegin, FiguresAside
  <2>3. CASE ScoringSteps(c) \/ InsightSteps(c)
    BY <2>1, <2>3, FiguresScored, FiguresRated, FiguresAside
  <2>4. CASE FormatBegins(c) \/ PlanBegins(c) \/ FormatSteps(c) \/ PlanSteps(c)
    <3>1. kind'[c] \notin Shown
      BY <2>4, FormatsGo DEF Shown
    <3>2. QED
      BY <1>3, <2>1, <3>1
  <2>5. QED
    BY <1>5, <2>2, <2>3, <2>4 DEF ScorePart
<1>6. ASSUME NEW c \in Calls, ProcessDies(c) PROVE FiguresInv'
  <2>1. Goes(c) /\ kind'[c] = kind[c] /\ pc'[c] = "lost" /\ given' = given
    BY <1>6, DiesGoes DEF taskVars
  <2>2. FiguresOf(c)'
    BY <2>1, FiguresUnshown DEF FiguresInv
  <2>3. QED
    BY <2>1, <2>2, FiguresAside
<1>7. QED
  BY <1>2, <1>4, <1>5, <1>6, NextParts

LEMMA FiguresInvariant == Spec => []FiguresInv
  BY FiguresStart, FiguresNext, CallsInvariant, PTL DEF Spec

----------------------------------------------------------------------------
\* Plans: the days and hours of their posts

(* Hour a of the day q + 1 after hour now, and post n of a plan with k posts *)
(* a day, at the hours h of a day.                                           *)
At(now, q, a) == now + 24 * (q + 1) + a
Due(now, k, h, n) == At(now, (n - 1) \div k, h[(n - 1) % k])
Rising(h, k) ==
    /\ \A r \in 0..(k - 1) : h[r] \in 1..23
    /\ \A r, t \in 0..(k - 1) : r < t => h[r] < h[t]

LEMMA LaterAt ==
    \A now \in Nat, q \in Nat, u \in Nat, a \in 1..23, b \in 1..23 :
        q < u \/ (q = u /\ a < b) => At(now, q, a) < At(now, u, b)
  BY DEF At

LEMMA DuringDay ==
    \A now \in Nat, q \in Nat, a \in 1..23, days \in Int :
        /\ At(now, q, a) > now + 24
        /\ q < days => At(now, q, a) < now + 24 * (days + 1)
        /\ (At(now, q, a) - now) \div 24 = q + 1
<1> SUFFICES ASSUME NEW now \in Nat, NEW q \in Nat, NEW a \in 1..23, NEW days \in Int
             PROVE  /\ At(now, q, a) > now + 24
                    /\ q < days => At(now, q, a) < now + 24 * (days + 1)
                    /\ (At(now, q, a) - now) \div 24 = q + 1
  OBVIOUS
<1>1. At(now, q, a) - now = 24 * (q + 1) + a
  BY DEF At
<1>2. (24 * (q + 1) + a) \div 24 = q + 1
  OBVIOUS
<1>3. QED
  BY <1>1, <1>2 DEF At

LEMMA DaysOfPosts ==
    ASSUME NEW k \in 1..3, NEW days \in Int, NEW n \in 1..(days * k)
    PROVE  (n - 1) \div k \in Nat /\ (n - 1) % k \in 0..(k - 1) /\ (n - 1) \div k < days
<1>1. CASE k = 1
  BY <1>1
<1>2. CASE k = 2
  BY <1>2
<1>3. CASE k = 3
  BY <1>3
<1>4. QED
  BY <1>1, <1>2, <1>3

LEMMA LaterPosts ==
    ASSUME NEW k \in 1..3, NEW days \in Int, NEW m \in 1..(days * k), NEW n \in 1..(days * k), m < n
    PROVE  \/ (m - 1) \div k < (n - 1) \div k
           \/ (m - 1) \div k = (n - 1) \div k /\ (m - 1) % k < (n - 1) % k
<1>1. CASE k = 1
  BY <1>1
<1>2. CASE k = 2
  BY <1>2
<1>3. CASE k = 3
  BY <1>3
<1>4. QED
  BY <1>1, <1>2, <1>3

LEMMA FirstOfDay ==
    ASSUME NEW k \in 1..3, NEW days \in Int, NEW d \in 1..days
    PROVE  LET n == (d - 1) * k + 1
           IN n \in 1..(days * k) /\ (n - 1) \div k = d - 1 /\ (n - 1) % k = 0
<1>1. CASE k = 1
  BY <1>1
<1>2. CASE k = 2
  BY <1>2
<1>3. CASE k = 3
  BY <1>3
<1>4. QED
  BY <1>1, <1>2, <1>3

(* A plan of so many days, from now on.                                      *)
Follows(s, now, k, h, days) ==
    DOMAIN s = 1..(days * k) /\ \A n \in 1..(days * k) : s[n] = Due(now, k, h, n)
Spread(s, now, days) ==
    /\ InOrder(s)
    /\ \A n \in DOMAIN s : s[n] > now + 24 /\ s[n] < now + 24 * (days + 1)
    /\ \A d \in 1..days : \E n \in DOMAIN s : (s[n] - now) \div 24 = d

LEMMA PostsSpread ==
    ASSUME NEW now \in Nat, NEW k \in 1..3, NEW h, Rising(h, k), NEW days \in Int,
           NEW s, Follows(s, now, k, h, days)
    PROVE  Spread(s, now, days)
<1> DEFINE q(n) == (n - 1) \div k
           r(n) == (n - 1) % k
           posts == 1..(days * k)
<1>1. \A n \in posts : q(n) \in Nat /\ r(n) \in 0..(k - 1) /\ q(n) < days
  BY DaysOfPosts
<1>2. \A m, n \in posts : m < n => q(m) < q(n) \/ (q(m) = q(n) /\ r(m) < r(n))
  BY LaterPosts
<1>3. \A d \in 1..days : \E n \in posts : q(n) = d - 1 /\ r(n) = 0
  BY FirstOfDay
<1>4. \A n \in posts : s[n] = At(now, q(n), h[r(n)])
  BY DEF Follows, Due
<1> HIDE DEF q, r, posts
<1>5. \A n \in posts : h[r(n)] \in 1..23
  BY <1>1 DEF Rising
<1>6. ASSUME NEW m \in posts, NEW n \in posts, m < n PROVE s[m] < s[n]
  <2>1. q(m) = q(n) /\ r(m) < r(n) => h[r(m)] < h[r(n)]
    BY <1>1 DEF Rising
  <2>2. q(m) < q(n) \/ (q(m) = q(n) /\ h[r(m)] < h[r(n)])
    BY <1>2, <1>6, <2>1
  <2>3. At(now, q(m), h[r(m)]) < At(now, q(n), h[r(n)])
    BY <1>1, <1>5, <2>2, LaterAt
  <2>4. QED
    BY <1>4, <2>3
<1>7. \A n \in posts : s[n] > now + 24 /\ s[n] < now + 24 * (days + 1)
  BY <1>1, <1>4, <1>5, DuringDay
<1>8. ASSUME NEW d \in 1..days PROVE \E n \in posts : (s[n] - now) \div 24 = d
  <2>1. PICK n \in posts : q(n) = d - 1
    BY <1>3
  <2>2. (At(now, q(n), h[r(n)]) - now) \div 24 = q(n) + 1
    BY <1>1, <1>5, DuringDay
  <2>3. q(n) + 1 = d
    BY <2>1
  <2>4. QED
    BY <1>4, <2>2, <2>3
<1>9. QED
  BY <1>6, <1>7, <1>8 DEF InOrder, Spread, Follows, posts

LEMMA PostsADay == \A p : PostsPerDay(p) = IF p = "x" THEN 3 ELSE IF p = "tiktok" THEN 2 ELSE 1
  BY DEF PostsPerDay, OrDefault

LEMMA BestRise ==
    ASSUME NEW p PROVE Rising([r \in 0..(PostsPerDay(p) - 1) |-> BestTimes(p)[r + 1]], PostsPerDay(p))
<1>1. CASE p = "tiktok"
  <2>1. PostsPerDay(p) = 2 /\ BestTimes(p) = <<6, 14, 19>>
    BY <1>1 DEF PostsPerDay, BestTimes, OrDefault
  <2>2. QED
    BY <2>1 DEF Rising
<1>2. CASE p = "x"
  <2>1. PostsPerDay(p) = 3 /\ BestTimes(p) = <<8, 12, 17>>
    BY <1>2 DEF PostsPerDay, BestTimes, OrDefault
  <2>2. QED
    BY <2>1 DEF Rising
<1>3. CASE p \notin {"tiktok", "x"}
  <2>1. PostsPerDay(p) = 1 /\ BestTimes(p)[1] \in 1..23
    BY <1>3 DEF PostsPerDay, BestTimes, OrDefault
  <2>2. QED
    BY <2>1 DEF Rising
<1>4. QED
  BY <1>1, <1>2, <1>3

LEMMA RulesRise ==
    ASSUME NEW p
    PROVE  Rising([r \in 0..(PostsPerDay(p) - 1) |-> RulesOf(p).hours[r + 1]], PostsPerDay(p))
<1>1. CASE p = "tiktok"
  <2>1. PostsPerDay(p) = 2 /\ RulesOf(p).hours = <<7, 15, 21>>
    BY <1>1 DEF PostsPerDay, RulesOf, OrDefault, Rules
  <2>2. QED
    BY <2>1 DEF Rising
<1>2. CASE p = "x"
  <2>1. PostsPerDay(p) = 3 /\ RulesOf(p).hours = <<9, 13, 17>>
    BY <1>2 DEF PostsPerDay, RulesOf, OrDefault, Rules
  <2>2. QED
    BY <2>1 DEF Rising
<1>3. CASE p \notin {"tiktok", "x"}
  <2>1. PostsPerDay(p) = 1 /\ RulesOf(p).hours[1] \in 1..23
    BY <1>3 DEF PostsPerDay, RulesOf, OrDefault, Rules
  <2>2. QED
    BY <2>1 DEF Rising
<1>4. QED
  BY <1>1, <1>2, <1>3

LEMMA TimesFollow ==
    ASSUME NEW p, NEW i \in Nat
    PROVE  TimeOf(p, i) = BestTimes(p)[(i % PostsPerDay(p)) + 1]
<1>1. CASE p = "tiktok"
  <2>1. PostsPerDay(p) = 2 /\ Len(BestTimes(p)) = 3
    BY <1>1 DEF PostsPerDay, BestTimes, OrDefault
  <2>2. ((i % 2) % 3) = i % 2
    OBVIOUS
  <2>3. QED
    BY <2>1, <2>2 DEF TimeOf
<1>2. CASE p = "x"
  <2>1. PostsPerDay(p) = 3 /\ Len(BestTimes(p)) = 3
    BY <1>2 DEF PostsPerDay, BestTimes, OrDefault
  <2>2. ((i % 3) % 3) = i % 3
    OBVIOUS
  <2>3. QED
    BY <2>1, <2>2 DEF TimeOf
<1>3. CASE p \notin {"tiktok", "x"}
  <2>1. PostsPerDay(p) = 1 /\ Len(BestTimes(p)) \in {2, 3}
    BY <1>3 DEF PostsPerDay, BestTimes, OrDefault
  <2>2. i % 1 = 0 /\ 0 % 2 = 0 /\ 0 % 3 = 0
    OBVIOUS
  <2>3. QED
    BY <2>1, <2>2 DEF TimeOf
<1>4. QED
  BY <1>1, <1>2, <1>3

LEMMA CalendarHolds ==
    ASSUME NEW t, t.days \in Int, NEW now \in Nat,
           NEW x, x.of = Calendar(t, now), x.days = t.days
    PROVE  CalendarSound(now, x)
<1> DEFINE k == PostsPerDay(t.platform)
           h == [r \in 0..(k - 1) |-> BestTimes(t.platform)[r + 1]]
           s == Calendar(t, now)
           days == t.days
<1>1. k \in 1..3 /\ Rising(h, k)
  BY PostsADay, BestRise
<1>2. DOMAIN s = 1..(days * k)
  BY DEF Calendar
<1>3. ASSUME NEW n \in 1..(days * k) PROVE s[n] = Due(now, k, h, n)
  <2>1. n - 1 \in Nat /\ (n - 1) % k \in 0..(k - 1)
    BY <1>1, DaysOfPosts
  <2>2. s[n] = now + 24 * ((n - 1) \div k + 1) + TimeOf(t.platform, n - 1)
    BY DEF Calendar
  <2>3. TimeOf(t.platform, n - 1) = h[(n - 1) % k]
    BY <2>1, TimesFollow
  <2>4. QED
    BY <2>2, <2>3 DEF Due, At
<1>4. days \in Int
  OBVIOUS
<1> HIDE DEF k, h, s, days
<1>5. Follows(s, now, k, h, days)
  BY <1>2, <1>3 DEF Follows
<1>6. Spread(s, now, days)
  BY <1>1, <1>4, <1>5, PostsSpread, Zenon
<1>7. QED
  BY <1>6 DEF Spread, CalendarSound, s, days

LEMMA ScheduleHolds ==
    ASSUME NEW b, b.days \in Int
    PROVE  LET s == Schedule(b)
           IN /\ InOrder(s) /\ \A n \in DOMAIN s : s[n] >= 24
              /\ \A d \in 1..b.days : \E n \in DOMAIN s : s[n] \div 24 = d
<1> DEFINE k == PostsPerDay(b.platform)
           h == [r \in 0..(k - 1) |-> RulesOf(b.platform).hours[r + 1]]
           s == Schedule(b)
           days == b.days
<1>1. k \in 1..3 /\ Rising(h, k)
  BY PostsADay, RulesRise
<1>2. DOMAIN s = 1..(days * k)
  BY DEF Schedule
<1>3. ASSUME NEW n \in 1..(days * k) PROVE s[n] = Due(0, k, h, n) /\ s[n] \in Int
  <2>1. (n - 1) \div k \in Nat /\ (n - 1) % k \in 0..(k - 1)
    BY <1>1, DaysOfPosts
  <2>2. s[n] = 24 * ((n - 1) \div k + 1) + RulesOf(b.platform).hours[((n - 1) % k) + 1]
    BY DEF Schedule
  <2>3. RulesOf(b.platform).hours[((n - 1) % k) + 1] = h[(n - 1) % k]
    BY <2>1
  <2>4. h[(n - 1) % k] \in 1..23
    BY <1>1, <2>1 DEF Rising
  <2> DEFINE q == (n - 1) \div k
             a == h[(n - 1) % k]
  <2>5. q \in Nat /\ a \in 1..23 /\ s[n] = 24 * (q + 1) + a /\ Due(0, k, h, n) = At(0, q, a)
    BY <2>1, <2>2, <2>3, <2>4 DEF Due
  <2> HIDE DEF q, a, s, k, h
  <2>6. QED
    BY <2>5 DEF At
<1>4. days \in Int
  OBVIOUS
<1> HIDE DEF k, h, s, days
<1>5. Follows(s, 0, k, h, days)
  BY <1>2, <1>3 DEF Follows
<1>6. 0 \in Nat /\ Spread(s, 0, days)
  <2>1. 0 \in Nat
    OBVIOUS
  <2>2. QED
    BY <1>1, <1>4, <1>5, <2>1, PostsSpread, Zenon
<1>7. \A n \in DOMAIN s : s[n] \in Int /\ s[n] > 0 + 24
  BY <1>2, <1>3, <1>6 DEF Spread
<1>8. \A n \in DOMAIN s : s[n] >= 24 /\ s[n] - 0 = s[n]
  BY <1>7
<1>9. QED
  BY <1>6, <1>8 DEF Spread, s, days

----------------------------------------------------------------------------
\* Plans: questions and tags

LEMMA FiveQuestions == IsFiniteSet(Clarified) /\ Cardinality(Clarified) = 5
<1> DEFINE a == {"product_description"}
           b == a \cup {"platform"}
           c == b \cup {"objective"}
           d == c \cup {"audience_age"}
           e == d \cup {"audience_gender"}
<1>1. IsFiniteSet(a) /\ Cardinality(a) = 1
  BY FS_Singleton
<1>2. IsFiniteSet(b) /\ Cardinality(b) = 2
  BY <1>1, FS_AddElement
<1>3. IsFiniteSet(c) /\ Cardinality(c) = 3
  BY <1>2, FS_AddElement
<1>4. IsFiniteSet(d) /\ Cardinality(d) = 4
  BY <1>3, FS_AddElement
<1>5. IsFiniteSet(e) /\ Cardinality(e) = 5
  BY <1>4, FS_AddElement
<1>6. Clarified = e
  BY DEF Clarified
<1>7. QED
  BY <1>5, <1>6

(* Fewer than three names, however often, leave three questions at least.    *)
LEMMA QuestionsLeft ==
    ASSUME NEW r, IsList(r.extracted), Vague(r)
    PROVE  Cardinality(Questions(r)) >= Cardinality(Clarified) - MinExtracted + 1
<1> DEFINE s == r.extracted
<1>1. Len(s) \in 0..2 /\ DOMAIN s = 1..Len(s)
  <2>1. s \in Seq(Members(s)) /\ Len(s) < 3
    BY DEF IsList, Vague, MinExtracted
  <2> HIDE DEF s
  <2>2. Len(s) \in Nat /\ DOMAIN s = 1..Len(s)
    BY <2>1, LenProperties, Zenon
  <2>3. QED
    BY <2>1, <2>2
<1>2. PICK x, y : Members(s) \subseteq {x, y}
  <2>1. Members(s) \subseteq {s[1], s[2]}
    BY <1>1 DEF Members
  <2>2. QED
    BY <2>1
<1> DEFINE one == Clarified \ {x}
           two == one \ {y}
<1>3. IsFiniteSet(one) /\ Cardinality(one) \in {4, 5}
  BY FiveQuestions, FS_RemoveElement
<1>4. IsFiniteSet(two) /\ Cardinality(two) \in {3, 4, 5}
  BY <1>3, FS_RemoveElement
<1>5. two \subseteq Questions(r) /\ IsFiniteSet(Questions(r))
  BY <1>2, FiveQuestions, FS_Subset DEF Questions
<1>6. Cardinality(two) <= Cardinality(Questions(r)) /\ Cardinality(Questions(r)) \in Nat
  BY <1>5, FS_Subset, FS_CardinalityType
<1>7. QED
  BY <1>4, <1>6, FiveQuestions DEF MinExtracted

(* In a finite set of places there is a first one, a second one, and so on.  *)
LEMMA NthTaken ==
    ASSUME NEW places \in SUBSET Nat, IsFiniteSet(places), NEW n \in 1..Cardinality(places)
    PROVE  Nth(places, n) \in places /\ Cardinality({j \in places : j < Nth(places, n)}) = n - 1
<1> DEFINE below(i) == {j \in places : j < i}
           size == Cardinality(places)
           rank == [i \in places |-> Cardinality(below(i)) + 1]
<1>1. \A i \in places : IsFiniteSet(below(i)) /\ Cardinality(below(i)) \in Nat
  <2>1. \A i \in places : below(i) \subseteq places
    OBVIOUS
  <2>2. QED
    BY <2>1, FS_Subset, FS_CardinalityType
<1>2. size \in Nat /\ IsFiniteSet(1..size) /\ Cardinality(1..size) = size
  BY FS_CardinalityType, FS_Interval
<1>3. ASSUME NEW i \in places PROVE Cardinality(below(i)) + 1 \in 1..size
  <2>1. below(i) \subseteq places /\ i \notin below(i)
    OBVIOUS
  <2>2. Cardinality(below(i)) <= size /\ Cardinality(below(i)) # size
    BY <2>1, FS_Subset
  <2> DEFINE a == Cardinality(below(i))
  <2>3. a \in Nat /\ a <= size /\ a # size
    BY <1>1, <2>2
  <2> HIDE DEF a, size
  <2>4. a + 1 \in 1..size
    BY <1>2, <2>3
  <2>5. QED
    BY <2>4 DEF a
<1>4. ASSUME NEW i \in places, NEW j \in places, i < j PROVE Cardinality(below(i)) # Cardinality(below(j))
  <2>1. below(i) \subseteq below(j) /\ i \in below(j) /\ i \notin below(i)
    <3>1. \A e \in places : e \in Nat
      OBVIOUS
    <3>2. i \in Nat /\ j \in Nat /\ ~(i < i)
      BY <3>1
    <3>3. \A e \in places : e < i => e < j
      BY <1>4, <3>1, <3>2
    <3>4. QED
      BY <1>4, <3>2, <3>3
  <2>2. below(i) # below(j)
    BY <2>1
  <2>3. IsFiniteSet(below(j)) /\ below(i) \in SUBSET below(j)
    BY <1>1, <2>1
  <2> HIDE DEF below
  <2>4. QED
    BY <2>2, <2>3, FS_Subset, Zenon
<1>5. ASSUME NEW i \in places, NEW j \in places, rank[i] = rank[j] PROVE i = j
  <2>1. Cardinality(below(i)) = Cardinality(below(j))
    BY <1>1, <1>5
  <2>2. ~(i < j) /\ ~(j < i)
    BY <1>4, <2>1
  <2>3. QED
    BY <2>2
<1>6. rank \in Injection(places, 1..size)
  BY <1>3, <1>5 DEF Injection, IsInjective
<1> HIDE DEF size
<1>7. rank \in Surjection(places, 1..size)
  BY <1>2, <1>6, FS_Injection DEF size
<1>8. PICK i \in places : rank[i] = n
  BY <1>7 DEF Surjection, size
<1>9. Cardinality(below(i)) = n - 1
  <2> DEFINE a == Cardinality(below(i))
  <2>1. a \in Nat /\ a + 1 = n
    BY <1>1, <1>8
  <2> HIDE DEF a
  <2>2. a = n - 1
    BY <2>1
  <2>3. QED
    BY <2>2 DEF a
<1>10. QED
  BY <1>9 DEF Nth

LEMMA TagsDiffer == ASSUME NEW b, IsList(b.trending) PROVE IsInjective(Hashtags(b))
<1> DEFINE all == <<b.platform, b.objective, "brandscale", "marketing">> \o b.trending
           New(i) == all[i] # "" /\ \A j \in 1..(i - 1) : all[j] # all[i]
           kept == {i \in DOMAIN all : New(i)}
           shown == (1..Cardinality(kept)) \cap (1..RulesOf(b.platform).tags)
<1>1. Hashtags(b) = [n \in shown |-> all[Nth(kept, n)]]
  BY DEF Hashtags
<1>2. DOMAIN all = 1..Len(all) /\ Len(all) \in Nat
  <2> DEFINE S == Members(b.trending) \cup {b.platform, b.objective, "brandscale", "marketing"}
             own == <<b.platform, b.objective, "brandscale", "marketing">>
             t == b.trending
  <2>1. own \in Seq(S)
    OBVIOUS
  <2>2. t \in Seq(S)
    <3>1. t \in Seq(Members(t)) /\ Members(t) \subseteq S
      BY DEF IsList
    <3> HIDE DEF t, S
    <3>2. QED
      BY <3>1
  <2> HIDE DEF S, own, t
  <2>3. own \o t \in Seq(S)
    BY <2>1, <2>2
  <2>4. Len(own \o t) \in Nat /\ DOMAIN (own \o t) = 1..Len(own \o t)
    BY <2>3, LenProperties, Zenon
  <2>5. QED
    BY <2>4 DEF own, t
<1>3. \A i \in kept, j \in kept : i < j => all[i] # all[j]
  <2> HIDE DEF all
  <2>1. ASSUME NEW i \in kept, NEW j \in kept, i < j PROVE all[i] # all[j]
    <3>1. i \in DOMAIN all /\ j \in DOMAIN all
      OBVIOUS
    <3> HIDE DEF kept
    <3>2. i \in Nat /\ j \in Nat /\ 1 <= i
      BY <1>2, <3>1
    <3>3. i \in 1..(j - 1)
      BY <2>1, <3>2
    <3> USE DEF kept
    <3>4. QED
      BY <3>3
  <2>2. QED
    BY <2>1
<1>4. kept \in SUBSET Nat /\ IsFiniteSet(kept)
  <2> HIDE DEF all
  <2>1. kept \subseteq 1..Len(all)
    BY <1>2
  <2>2. IsFiniteSet(1..Len(all))
    BY <1>2, FS_Interval
  <2>3. IsFiniteSet(kept)
    BY <2>1, <2>2, FS_Subset
  <2> HIDE DEF kept
  <2>4. 1..Len(all) \subseteq Nat
    BY <1>2
  <2>5. QED
    BY <2>1, <2>3, <2>4
<1> HIDE DEF all, kept
<1>5. \A n \in shown : Nth(kept, n) \in kept /\ Cardinality({j \in kept : j < Nth(kept, n)}) = n - 1
  BY <1>4, NthTaken
<1>6. ASSUME NEW m \in shown, NEW n \in shown, all[Nth(kept, m)] = all[Nth(kept, n)] PROVE m = n
  <2>1. Nth(kept, m) = Nth(kept, n)
    <3>1. ~(Nth(kept, m) < Nth(kept, n)) /\ ~(Nth(kept, n) < Nth(kept, m))
      BY <1>3, <1>5, <1>6
    <3>2. Nth(kept, m) \in Nat /\ Nth(kept, n) \in Nat
      BY <1>4, <1>5
    <3>3. QED
      BY <3>1, <3>2
  <2>2. m - 1 = n - 1
    BY <1>5, <2>1
  <2>3. Cardinality(kept) \in Nat
    BY <1>4, FS_CardinalityType
  <2>4. QED
    BY <2>2, <2>3
<1>7. QED
  BY <1>1, <1>6 DEF IsInjective

----------------------------------------------------------------------------
\* Plans, as they are made

LEMMA PlansAside ==
    ASSUME PlansInv, NEW c \in Calls, Goes(c), PlansOf(c)' PROVE PlansInv'
<1>1. ASSUME NEW d \in Calls \ {c} PROVE PlansOf(d)'
  <2>1. PlansOf(d) /\ kind'[d] = kind[d] /\ pc'[d] = pc[d] /\ given'[d] = given[d] /\ made'[d] = made[d]
    BY DEF PlansInv, Goes
  <2>2. QED
    BY <2>1 DEF PlansOf
<1>2. QED
  BY <1>1 DEF PlansInv

LEMMA NoPlanShown ==
    ASSUME NEW c \in Calls, Goes(c), kind'[c] \notin {"plan", "build"} PROVE PlansOf(c)'
<1>1. kind'[c] \in Owners(pc'[c])
  BY DEF Goes, CallsInv, OwnPoints
<1>2. pc'[c] # "planning"
  BY <1>1, OwnersOfPoints
<1>3. QED
  BY <1>2 DEF PlansOf

LEMMA PlanUnshown ==
    ASSUME NEW c \in Calls, PlansOf(c), kind'[c] = kind[c], given'[c] = given[c],
           pc'[c] \notin {"planning", "ok"}
    PROVE  PlansOf(c)'
  BY DEF PlansOf

LEMMA PlanAsked ==
    ASSUME CallsInv, NEW c \in Calls, PlanBegins(c) PROVE PlansOf(c)'
<1>1. CASE \E b \in BOOLEAN, h \in Hours : Ask(c, "plan", [blank |-> b, at |-> h])
  <2>1. PICK b \in BOOLEAN, h \in Hours : Ask(c, "plan", [blank |-> b, at |-> h])
    BY <1>1
  <2>2. kind'[c] = "plan" /\ pc'[c] = "reading" /\ given'[c] = [blank |-> b, at |-> h]
    BY <2>1, AskGoes DEF Kinds
  <2>3. QED
    BY <2>2 DEF PlansOf
<1>2. CASE \E b \in Briefs : Ask(c, "build", b)
  <2>1. PICK b \in Briefs : Ask(c, "build", b)
    BY <1>2
  <2>2. kind'[c] = "build" /\ pc'[c] = "reading" /\ given'[c] = b
    BY <2>1, AskGoes DEF Kinds
  <2>3. QED
    BY <2>2 DEF PlansOf
<1>3. QED
  BY <1>1, <1>2 DEF PlanBegins

LEMMA PlanMade ==
    ASSUME CallsInv, NEW c \in Calls, PlansOf(c), PlanSteps(c) PROVE PlansOf(c)'
<1>1. CASE PromptBlank(c) \/ ModelSilent(c) \/ ReplyUnusable(c) \/ BriefRefused(c)
  <2>1. (Raise(c, "reading") \/ Outage(c, "reading")) /\ "reading" \in Midway
    BY <1>1 DEF PromptBlank, ModelSilent, ReplyUnusable, BriefRefused, Midway
  <2>2. kind'[c] = kind[c] /\ pc'[c] \in {"reading", "failed"} /\ given' = given
    BY <2>1, RaiseGoes, MidwayGoesOn
  <2>3. QED
    BY <2>2, PlanUnshown
<1>2. CASE ReplyVague(c)
  <2>1. PICK r \in Replies : Vague(r) /\ Produce(c, "reading", "ok", [is |-> "questions", asked |-> Questions(r)])
    BY <1>2 DEF ReplyVague
  <2>2. kind[c] = "plan" /\ kind'[c] = kind[c] /\ pc'[c] = "ok" /\ given' = given
        /\ made'[c] = [is |-> "questions", asked |-> Questions(r)]
    BY <1>2, <2>1, OwnProduceGoes DEF Midway, Anyones, ReplyVague
  <2>3. Cardinality(Questions(r)) >= Cardinality(Clarified) - MinExtracted + 1
    BY <2>1, PlanConstants, QuestionsLeft
  <2>4. made'[c].is = "questions" /\ made'[c].asked = Questions(r)
    BY <2>2
  <2>5. AskedBack(made'[c]) /\ CalendarSound(given'[c].at, made'[c])
    BY <2>3, <2>4 DEF AskedBack, CalendarSound
  <2>6. QED
    BY <2>2, <2>5 DEF PlansOf
<1>3. CASE ReplyUnderstood(c)
  <2>1. PICK r \in Replies : Produce(c, "reading", "planning", Intent(r))
    BY <1>3 DEF ReplyUnderstood
  <2>2. kind[c] = "plan" /\ kind'[c] = kind[c] /\ pc'[c] = "planning" /\ given' = given
        /\ made'[c] = Intent(r)
    BY <1>3, <2>1, OwnProduceGoes, OwnersOfPoints DEF Midway, ReplyUnderstood
  <2>3. made'[c].days = r.days /\ r.days \in Int
    BY <2>2, PlanConstants DEF Intent
  <2>4. QED
    BY <2>2, <2>3 DEF PlansOf
<1>4. CASE CalendarBuilt(c)
  <2> DEFINE t == made[c]
             y == [is |-> "calendar", of |-> Calendar(t, given[c].at), days |-> t.days]
  <2>1. kind[c] = "plan" /\ Produce(c, "planning", "ok", y)
    BY <1>4 DEF CalendarBuilt
  <2>2. pc[c] = "planning"
    BY <2>1 DEF Produce, Step
  <2>3. t.days \in Int /\ given[c].at \in Hours
    BY <2>1, <2>2 DEF PlansOf
  <2>4. y.of = Calendar(t, given[c].at) /\ y.days = t.days /\ y.is = "calendar"
    OBVIOUS
  <2> HIDE DEF y, t
  <2>5. kind'[c] = kind[c] /\ pc'[c] = "ok" /\ given' = given /\ made'[c] = y
    BY <2>1, OwnProduceGoes DEF Midway, Anyones
  <2>6. CalendarSound(given[c].at, y)
    <3>1. \A h \in Hours : h \in Nat
      BY PlanConstants
    <3>2. QED
      BY <2>3, <2>4, <3>1, CalendarHolds
  <2>7. AskedBack(y)
    BY <2>4 DEF AskedBack
  <2>8. QED
    BY <2>1, <2>5, <2>6, <2>7 DEF PlansOf
<1>5. CASE PlanBuilt(c)
  <2> DEFINE b == given[c]
             y == [is |-> "posts", tone |-> ToneOf(b.words), services |-> Services(b),
                   seconds |-> Seconds(Services(b)), tags |-> Hashtags(b), of |-> Schedule(b),
                   chars |-> Caption(b)]
  <2>1. kind[c] = "build" /\ Produce(c, "reading", "ok", y)
    BY <1>5 DEF PlanBuilt
  <2>2. b \in Briefs
    BY <2>1 DEF PlansOf
  <2>3. b.days \in Int /\ IsList(b.trending)
    BY <2>2, PlanConstants
  <2>4. y.of = Schedule(b) /\ y.tags = Hashtags(b) /\ b = given[c]
    OBVIOUS
  <2> HIDE DEF y, b
  <2>5. kind'[c] = kind[c] /\ pc'[c] = "ok" /\ given' = given /\ made'[c] = y
    BY <2>1, OwnProduceGoes DEF Midway, Anyones
  <2>6. PostsSound(b, y)
    BY <2>3, <2>4, ScheduleHolds, TagsDiffer DEF PostsSound
  <2>7. QED
    BY <2>1, <2>2, <2>4, <2>5, <2>6 DEF PlansOf
<1>6. QED
  BY <1>1, <1>2, <1>3, <1>4, <1>5 DEF PlanSteps

LEMMA NoPlansElse ==
    ASSUME CallsInv, NEW c \in Calls,
           \/ ScoringBegins(c) \/ InsightBegins(c) \/ FormatBegins(c)
           \/ ScoringSteps(c) \/ InsightSteps(c) \/ FormatSteps(c)
    PROVE  kind'[c] \notin {"plan", "build"}
<1>1. CASE ScoringBegins(c) \/ InsightBegins(c) \/ FormatBegins(c)
  <2>1. PICK k \in {"score", "rank", "rules", "account", "influencer", "format"} : \E x : Ask(c, k, x)
    BY <1>1 DEF ScoringBegins, InsightBegins, FormatBegins
  <2>2. k \in Kinds \ {"none"}
    BY DEF Kinds
  <2>3. QED
    BY <2>1, <2>2, AskGoes
<1>2. CASE ScoringSteps(c) \/ InsightSteps(c) \/ FormatSteps(c)
  <2>1. /\ kind'[c] = kind[c]
        /\ \/ kind[c] \in {"score", "rank", "rules", "account", "influencer", "format"}
           \/ pc[c] \in {"tagging", "asking", "rating", "storing"}
    BY <1>2 DEF ScoringSteps, InsightSteps, FormatSteps, ScoreRaises, RankRaises, ScoreLead, RankLeads,
       ApplyRules, AccountRead, PlatformAnswers, PlatformDown, AccountRated, InfluencerRated,
       AccountUnrated, AccountMissing, InsightRefused, InfluencerUnrated, FormatText, RewriteRaises,
       TagsRaise, Produce, Raise, Outage, Escape, Step
  <2>2. QED
    BY <2>1, Whose
<1>3. QED
  BY <1>1, <1>2

LEMMA PlansStart == Init => PlansInv
<1> SUFFICES ASSUME CallsInit PROVE PlansInv
  BY DEF Init
<1>1. \A c \in Calls : kind[c] = "none" /\ pc[c] = "idle"
  BY DEF CallsInit
<1>2. QED
  BY <1>1 DEF PlansInv, PlansOf

LEMMA PlansNext == CallsInv /\ PlansInv /\ [Next]_vars => PlansInv'
<1> SUFFICES ASSUME CallsInv, PlansInv, [Next]_vars PROVE PlansInv'
  OBVIOUS
<1>1. ASSUME UNCHANGED <<callVars, taskVars>> PROVE PlansInv'
  <2>1. UNCHANGED <<kind, pc, given, made>>
    BY <1>1 DEF callVars, taskVars
  <2>2. QED
    BY <2>1 DEF PlansInv, PlansOf
<1>2. CASE UNCHANGED vars \/ TimePasses
  BY <1>1, <1>2, TimeStays DEF vars
<1>3. ASSUME NEW c \in Calls, Goes(c), kind'[c] \notin {"plan", "build"} PROVE PlansInv'
  BY <1>3, NoPlanShown, PlansAside
<1>4. ASSUME NEW c \in Calls,
             LeadPart(c) \/ FlowPart(c) \/ LedgerPart(c) \/ LimitPart(c) \/ MediaPart(c) \/ ProjectPart(c)
      PROVE  PlansInv'
  BY <1>3, <1>4, LeadGoes, FlowGoes, LedgerGoes, LimitGoes, MediaGoes, ProjectGoes DEF Pipelines
<1>5. ASSUME NEW c \in Calls, ScorePart(c) PROVE PlansInv'
  <2>1. Goes(c) /\ PlansOf(c)
    BY <1>5, ScoreGoes DEF PlansInv
  <2>2. CASE PlanBegins(c) \/ PlanSteps(c)
    BY <2>1, <2>2, PlanAsked, PlanMade, PlansAside
  <2>3. CASE \/ ScoringBegins(c) \/ InsightBegins(c) \/ FormatBegins(c)
             \/ ScoringSteps(c) \/ InsightSteps(c) \/ FormatSteps(c)
    BY <1>3, <2>1, <2>3, NoPlansElse
  <2>4. QED
    BY <1>5, <2>2, <2>3 DEF ScorePart
<1>6. ASSUME NEW c \in Calls, ProcessDies(c) PROVE PlansInv'
  <2>1. Goes(c) /\ kind'[c] = kind[c] /\ pc'[c] = "lost" /\ given' = given
    BY <1>6, DiesGoes DEF taskVars
  <2>2. PlansOf(c)'
    BY <2>1, PlanUnshown DEF PlansInv
  <2>3. QED
    BY <2>1, <2>2, PlansAside
<1>7. QED
  BY <1>2, <1>4, <1>5, <1>6, NextParts

LEMMA PlansInvariant == Spec => []PlansInv
  BY PlansStart, PlansNext, CallsInvariant, PTL DEF Spec

(* Scores agree with tiers and hints, rankings with scores, engagement with  *)
(* bonus and price, for any leads, lists, accounts and influencers, also     *)
(* those with figures below zero, whichever configuration could be read: a   *)
(* score below zero and margins turned round come of such figures only. And  *)
(* any plan has its posts in order, at least one on each of its days and     *)
(* none on any other (scoring service.py:178-268, rules.py:104-149,          *)
(* engagement_calc.py:18-40, pricing_calc.py:48-96, worker.py:163-207,       *)
(* campaign_builder.py:214-245, 302-335).                                    *)
THEOREM FiguresHold == Spec => []FiguresAgree
<1>1. FiguresInv /\ PlansInv => FiguresAgree
  BY DEF FiguresInv, FiguresOf, FiguresAgree, ScoresMeet, InsightsSound, PlansInv, PlansOf, PlansMeet
<1>2. QED
  BY <1>1, FiguresInvariant, PlansInvariant, PTL

-----------------------------------------------------------------------------
(* Texts: the thread that is shown is the text that was asked for.           *)
(* What holds of 0 and passes to the next number holds up to any n.          *)
LEMMA FromZero ==
    ASSUME NEW n \in Nat, NEW T, 0 \in T, \A i \in 0..n : i # n /\ i \in T => i + 1 \in T
    PROVE  \A i \in 0..n : i \in T
<1> DEFINE U == (0..n) \ T
           R == OpToRel(<, Nat)
<1> SUFFICES ASSUME U # {} PROVE FALSE
  OBVIOUS
<1>1. PICK x \in U : \A y \in U : ~(<<y, x>> \in R)
  <2>1. IsWellFoundedOn(R, Nat)
    BY NatLessThanWellFounded
  <2>2. U \subseteq Nat
    OBVIOUS
  <2> HIDE DEF U, R
  <2>3. QED
    BY <2>1, <2>2, WFMin
<1>2. x \in Nat /\ x # 0 /\ x <= n
  OBVIOUS
<1>3. x - 1 \in 0..n /\ x - 1 # n /\ (x - 1) + 1 = x /\ x - 1 < x
  BY <1>2
<1>4. x - 1 \notin T
  BY <1>3
<1>5. <<x - 1, x>> \in R
  BY <1>2, <1>3 DEF OpToRel
<1>6. QED
  BY <1>1, <1>3, <1>4, <1>5

(* A function that is defined from its value one place before exists.        *)
Iterated(f, S, base, n, step) ==
    f \in [0..n -> S] /\ f[0] = base /\ \A i \in 1..n : f[i] = step[<<f[i - 1], i>>]
LEMMA Iterates ==
    ASSUME NEW S, NEW base \in S, NEW n \in Nat, NEW step \in [S \X (1..n) -> S]
    PROVE  \E f : Iterated(f, S, base, n, step)
<1> DEFINE Upto(f, m) == f[0] = base /\ \A i \in 1..m : f[i] = step[<<f[i - 1], i>>]
           T == {m \in 0..n : \E f \in [0..m -> S] : Upto(f, m)}
<1>1. 0 \in T
  <2> DEFINE f == [i \in 0..0 |-> base]
  <2>1. f \in [0..0 -> S] /\ Upto(f, 0)
    OBVIOUS
  <2> HIDE DEF f
  <2>2. 0 \in 0..n
    OBVIOUS
  <2>3. QED
    BY <2>1, <2>2
<1>2. ASSUME NEW m \in 0..n, m # n, m \in T PROVE m + 1 \in T
  <2>1. PICK f \in [0..m -> S] : Upto(f, m)
    BY <1>2
  <2> DEFINE g == [i \in 0..(m + 1) |-> IF i = m + 1 THEN step[<<f[m], m + 1>>] ELSE f[i]]
  <2>2. m + 1 \in 1..n /\ m \in 0..m /\ f[m] \in S
    BY <1>2
  <2>3. step[<<f[m], m + 1>>] \in S
    BY <2>2
  <2>4. g \in [0..(m + 1) -> S] /\ g[0] = base
    BY <2>1, <2>2, <2>3
  <2>5. ASSUME NEW i \in 1..(m + 1) PROVE g[i] = step[<<g[i - 1], i>>]
    <3>1. i - 1 \in 0..m /\ i - 1 # m + 1 /\ i - 1 \in 0..(m + 1)
      BY <2>2
    <3>2. g[i - 1] = f[i - 1]
      BY <3>1
    <3>3. CASE i = m + 1
      <4>1. i - 1 = m /\ g[i] = step[<<f[m], i>>]
        BY <2>2, <3>3
      <4>2. QED
        BY <3>2, <4>1
    <3>4. CASE i # m + 1
      <4>1. i \in 1..m /\ g[i] = f[i]
        BY <3>4
      <4>2. QED
        BY <2>1, <3>2, <4>1
    <3>5. QED
      BY <3>3, <3>4
  <2>6. m + 1 \in 0..n
    BY <2>2
  <2> HIDE DEF g
  <2>7. QED
    BY <2>4, <2>5, <2>6
<1> HIDE DEF T
<1>3. \A i \in 0..n : i \in T
  BY <1>1, <1>2, FromZero
<1>4. QED
  BY <1>3 DEF T, Iterated

(* The lengths of words have a sum, and a word's is its own.                 *)
LEMMA Totals ==
    ASSUME NEW lengths \in Seq(Nat)
    PROVE  Total(lengths) \in Int /\ (Len(lengths) = 1 => Total(lengths) = lengths[1])
<1> DEFINE n == Len(lengths)
           SumsUp(f) == f = [i \in 0..n |-> IF i = 0 THEN 0 ELSE f[i - 1] + lengths[i]]
           step == [p \in Int \X (1..n) |-> p[1] + lengths[p[2]]]
<1>1. n \in Nat /\ \A i \in 1..n : lengths[i] \in Int
  OBVIOUS
<1>2. \E f : SumsUp(f)
  <2>1. step \in [Int \X (1..n) -> Int]
    BY <1>1
  <2>2. \A x \in Int, i \in 1..n : step[<<x, i>>] = x + lengths[i]
    BY <1>1
  <2> HIDE DEF step, n
  <2>3. PICK f \in [0..n -> Int] : f[0] = 0 /\ \A i \in 1..n : f[i] = step[<<f[i - 1], i>>]
    <3> DEFINE S == Int
    <3>1. 0 \in S /\ n \in Nat /\ step \in [S \X (1..n) -> S]
      BY <1>1, <2>1
    <3> HIDE DEF S
    <3>2. \E f : Iterated(f, S, 0, n, step)
      BY <3>1, Iterates
    <3>3. QED
      BY <3>2 DEF S, Iterated
  <2>4. ASSUME NEW i \in 0..n, i # 0 PROVE f[i] = f[i - 1] + lengths[i]
    <3>1. i \in 1..n /\ i - 1 \in 0..n
      BY <1>1, <2>4
    <3>2. QED
      BY <2>2, <2>3, <2>4, <3>1
  <2>5. QED
    BY <2>3, <2>4
<1> DEFINE sum == CHOOSE f : SumsUp(f)
<1>3. SumsUp(sum)
  BY <1>2
<1>4. Total(lengths) = sum[n]
  BY DEF Total
<1> HIDE DEF sum, n
<1>5. sum[0] = 0 /\ \A i \in 0..n : i # 0 => sum[i] = sum[i - 1] + lengths[i]
  BY <1>1, <1>3
<1> DEFINE T == {i \in 0..n : sum[i] \in Int}
<1>6. \A i \in 0..n : i \in T
  <2>1. 0 \in T
    BY <1>1, <1>5
  <2>2. ASSUME NEW i \in 0..n, i # n, i \in T PROVE i + 1 \in T
    <3>1. i + 1 \in 1..n /\ i + 1 \in 0..n /\ i + 1 # 0 /\ (i + 1) - 1 = i
      BY <1>1, <2>2
    <3>2. QED
      BY <1>1, <1>5, <2>2, <3>1
  <2> HIDE DEF T
  <2>3. QED
    BY <1>1, <2>1, <2>2, FromZero
<1>7. n \in 0..n /\ 0 \in 0..n
  BY <1>1
<1>8. ASSUME n = 1 PROVE sum[n] = lengths[1]
  BY <1>1, <1>5, <1>7, <1>8
<1>9. QED
  BY <1>4, <1>6, <1>7, <1>8 DEF n

(* FlattenSeq puts one list behind the other.                                *)
Flattened(f, S, lists) ==
    /\ f \in [1..Len(lists) -> S] /\ f[1] = lists[1]
    /\ \A i \in 2..Len(lists) : f[i] = f[i - 1] \o lists[i]

LEMMA Flattens ==
    ASSUME NEW W, NEW lists \in Seq(Seq(W)), lists # <<>>
    PROVE  \E f : Flattened(f, Seq(W), lists) /\ FlattenSeq(lists) = f[Len(lists)]
<1> DEFINE S == Seq(W)
           n == Len(lists)
           Flat(f) == f = [i \in 1..n |-> IF i = 1 THEN lists[i] ELSE f[i - 1] \o lists[i]]
           step == [p \in S \X (1..(n - 1)) |-> p[1] \o lists[p[2] + 1]]
<1>1. n \in Nat /\ n # 0 /\ n - 1 \in Nat /\ \A i \in 1..n : lists[i] \in S
  <2>1. n \in Nat /\ n # 0
    BY EmptySeq
  <2>2. QED
    BY <2>1, ElementOfSeq
<1>2. \A x \in S, y \in S : x \o y \in S
  BY ConcatProperties
<1>3. \A x \in S, i \in 1..(n - 1) : step[<<x, i>>] = x \o lists[i + 1]
  OBVIOUS
<1>4. ASSUME NEW p \in S \X (1..(n - 1)) PROVE p[1] \o lists[p[2] + 1] \in S
  <2>1. p[1] \in S /\ p[2] \in 1..(n - 1)
    OBVIOUS
  <2>2. p[2] + 1 \in 1..n
    BY <1>1, <2>1
  <2> HIDE DEF S, n
  <2>3. QED
    BY <1>1, <1>2, <2>1, <2>2
<1>5. step \in [S \X (1..(n - 1)) -> S]
  BY <1>4
<1> HIDE DEF S, n, step
<1>6. PICK h : Iterated(h, S, lists[1], n - 1, step)
  <2>1. lists[1] \in S
    BY <1>1
  <2>2. QED
    BY <1>1, <1>5, <2>1, Iterates
<1> DEFINE f == [i \in 1..n |-> h[i - 1]]
<1>7. \A i \in 1..n : f[i] = IF i = 1 THEN lists[i] ELSE f[i - 1] \o lists[i]
  <2> TAKE i \in 1..n
  <2>1. CASE i = 1
    <3>1. f[i] = h[0]
      BY <1>1, <2>1
    <3>2. QED
      BY <1>6, <2>1, <3>1 DEF Iterated
  <2>2. CASE i # 1
    <3>1. i - 1 \in 1..(n - 1) /\ i - 1 \in 1..n /\ (i - 1) + 1 = i /\ (i - 1) - 1 \in 0..(n - 1)
      BY <1>1, <2>2
    <3>2. f[i] = h[i - 1] /\ f[i - 1] = h[(i - 1) - 1]
      BY <3>1
    <3>3. h[i - 1] = step[<<h[(i - 1) - 1], i - 1>>] /\ h[(i - 1) - 1] \in S
      BY <1>6, <3>1 DEF Iterated
    <3>4. h[i - 1] = h[(i - 1) - 1] \o lists[(i - 1) + 1]
      BY <1>3, <3>1, <3>3
    <3>5. QED
      BY <2>2, <3>1, <3>2, <3>4
  <2>3. QED
    BY <2>1, <2>2
<1>8. Flat(f)
  BY <1>7
<1> HIDE DEF f
<1> DEFINE flatten == CHOOSE g : Flat(g)
<1>9. Flat(flatten)
  BY <1>8
<1>10. FlattenSeq(lists) = flatten[n]
  BY <1>1 DEF FlattenSeq, n
<1> HIDE DEF flatten
<1>11. flatten[1] = lists[1] /\ \A i \in 2..n : flatten[i] = flatten[i - 1] \o lists[i]
  <2>1. \A i \in 2..n : i \in 1..n /\ i # 1
    BY <1>1
  <2>2. 1 \in 1..n
    BY <1>1
  <2>3. QED
    BY <1>9, <2>1, <2>2
<1> DEFINE T == {i \in 0..n : i = 0 \/ flatten[i] \in S}
<1>12. \A i \in 0..n : i \in T
  <2>1. 0 \in T
    BY <1>1
  <2>2. ASSUME NEW i \in 0..n, i # n, i \in T PROVE i + 1 \in T
    <3>1. i + 1 \in 1..n /\ i + 1 \in 0..n /\ (i + 1) - 1 = i
      BY <1>1, <2>2
    <3>2. CASE i = 0
      <4>1. flatten[i + 1] = lists[1] /\ 1 \in 1..n
        BY <1>11, <3>1, <3>2
      <4>2. QED
        BY <1>1, <3>1, <4>1
    <3>3. CASE i # 0
      <4>1. i + 1 \in 2..n
        BY <3>1, <3>3
      <4>2. flatten[i + 1] = flatten[i] \o lists[i + 1] /\ flatten[i] \in S
        BY <1>11, <2>2, <3>1, <3>3, <4>1
      <4>3. QED
        BY <1>1, <1>2, <3>1, <4>2
    <3>4. QED
      BY <3>2, <3>3
  <2> HIDE DEF T
  <2>3. QED
    BY <1>1, <2>1, <2>2, FromZero
<1>13. \A i \in 1..n : flatten[i] \in S
  <2>1. \A i \in 1..n : i \in 0..n /\ i # 0
    BY <1>1
  <2>2. QED
    BY <1>12, <2>1
<1>14. flatten \in [1..n -> S]
  BY <1>9, <1>13
<1>15. QED
  BY <1>10, <1>11, <1>14 DEF Flattened, n, S

LEMMA FlattenAppend ==
    ASSUME NEW W, NEW lists \in Seq(Seq(W)), NEW t \in Seq(W)
    PROVE  /\ FlattenSeq(lists) \in Seq(W)
           /\ FlattenSeq(Append(lists, t)) = FlattenSeq(lists) \o t
<1> DEFINE n == Len(lists)
           more == Append(lists, t)
<1>1. n \in Nat /\ more \in Seq(Seq(W)) /\ Len(more) = n + 1 /\ more # <<>>
      /\ (\A i \in 1..n : more[i] = lists[i]) /\ more[n + 1] = t
  BY AppendProperties
<1>2. PICK g : Flattened(g, Seq(W), more) /\ FlattenSeq(more) = g[n + 1]
  <2> HIDE DEF more, n
  <2>1. \E g : Flattened(g, Seq(W), more) /\ FlattenSeq(more) = g[Len(more)]
    BY <1>1, Flattens
  <2>2. QED
    BY <1>1, <2>1
<1>3. CASE lists = <<>>
  <2>1. n = 0 /\ FlattenSeq(lists) = <<>>
    BY <1>3 DEF FlattenSeq
  <2>2. g[n + 1] = t
    BY <1>1, <1>2, <2>1 DEF Flattened
  <2>3. QED
    BY <1>2, <2>1, <2>2, ConcatEmptySeq
<1>4. CASE lists # <<>>
  <2>1. PICK f : Flattened(f, Seq(W), lists) /\ FlattenSeq(lists) = f[n]
    BY <1>4, Flattens
  <2>2. n # 0
    BY <1>4, EmptySeq
  <2> HIDE DEF n, more
  <2> DEFINE T == {i \in 0..n : i = 0 \/ g[i] = f[i]}
  <2>3. \A i \in 0..n : i \in T
    <3>1. 0 \in T
      BY <1>1
    <3>2. ASSUME NEW i \in 0..n, i # n, i \in T PROVE i + 1 \in T
      <4>1. i + 1 \in 1..n /\ i + 1 \in 0..n /\ i + 1 \in 1..(n + 1) /\ (i + 1) - 1 = i
        BY <1>1, <3>2
      <4>2. more[i + 1] = lists[i + 1]
        BY <1>1, <4>1
      <4>3. CASE i = 0
        <5>1. g[1] = more[1] /\ f[1] = lists[1]
          BY <1>2, <2>1 DEF Flattened
        <5>2. QED
          BY <4>1, <4>2, <4>3, <5>1
      <4>4. CASE i # 0
        <5>1. i + 1 \in 2..n /\ i + 1 \in 2..(n + 1)
          BY <1>1, <4>1, <4>4
        <5>2. g[i + 1] = g[i] \o more[i + 1]
          BY <1>1, <1>2, <4>1, <5>1 DEF Flattened
        <5>3. f[i + 1] = f[i] \o lists[i + 1]
          BY <2>1, <4>1, <5>1 DEF Flattened, n
        <5>4. g[i] = f[i]
          BY <3>2, <4>4
        <5>5. QED
          BY <4>1, <4>2, <5>2, <5>3, <5>4
      <4>5. QED
        BY <4>3, <4>4
    <3> HIDE DEF T
    <3>3. QED
      BY <1>1, <3>1, <3>2, FromZero
  <2>4. n \in 0..n /\ n + 1 \in 2..(n + 1) /\ (n + 1) - 1 = n /\ n \in 1..n
    BY <1>1, <2>2
  <2>5. g[n] = f[n]
    BY <2>2, <2>3, <2>4
  <2>6. g[n + 1] = g[n] \o more[n + 1]
    BY <1>1, <1>2, <2>4 DEF Flattened
  <2>7. f[n] \in Seq(W)
    BY <2>1, <2>4 DEF Flattened, n
  <2>8. QED
    BY <1>1, <1>2, <2>1, <2>5, <2>6, <2>7 DEF more
<1>5. QED
  BY <1>3, <1>4

LEMMA JoinedLength ==
    ASSUME NEW t \in Seq(Nat)
    PROVE  Joined(t) \in Int /\ (Len(t) = 1 => Joined(t) = t[1])
<1>1. Total(t) \in Int /\ (Len(t) = 1 => Total(t) = t[1]) /\ Len(t) \in Nat
  BY Totals, LenProperties
<1>2. CASE t = <<>>
  <2>1. Len(t) = 0
    BY <1>2
  <2>2. QED
    BY <1>2, <2>1 DEF Joined
<1>3. CASE t # <<>>
  <2> DEFINE m == Total(t)  n == Len(t)
  <2>1. Joined(t) = m + n - 1
    BY <1>3 DEF Joined
  <2>2. m \in Int /\ n \in Nat /\ (n = 1 => m = t[1])
    BY <1>1
  <2> HIDE DEF m, n
  <2>3. m + n - 1 \in Int /\ (n = 1 => m + n - 1 = m)
    BY <2>2
  <2>4. QED
    BY <2>1, <2>2, <2>3 DEF n
<1>4. QED
  BY <1>2, <1>3

(* A tweet leaves room for its numbering unless it is a single word; and no  *)
(* word is dropped, repeated or moved while a text is split.                 *)
KeptWhole(t) == t \in Seq(Nat) /\ t # <<>> /\ (Fits(Joined(t)) \/ Len(t) = 1)
Spelt(s) == FlattenSeq(s.tweets) \o s.current
SplitSound(s) ==
    /\ s \in Splits
    /\ \A k \in 1..Len(s.tweets) : KeptWhole(s.tweets[k])
    /\ s.current # <<>> => KeptWhole(s.current)

LEMMA ClosedSound ==
    ASSUME NEW s, SplitSound(s)
    PROVE  /\ Closed(s) \in Seq(Seq(Nat))
           /\ \A k \in 1..Len(Closed(s)) : KeptWhole(Closed(s)[k])
           /\ FlattenSeq(Closed(s)) = Spelt(s)
<1> DEFINE ts == s.tweets
           t == s.current
<1>1. ts \in Seq(Seq(Nat)) /\ t \in Seq(Nat)
  BY DEF SplitSound, Splits
<1> HIDE DEF ts, t
<1>2. FlattenSeq(ts) \in Seq(Nat) /\ FlattenSeq(Append(ts, t)) = FlattenSeq(ts) \o t
  BY <1>1, FlattenAppend
<1>3. CASE t = <<>>
  <2>1. Closed(s) = ts
    BY <1>3 DEF Closed, ts, t
  <2>2. FlattenSeq(ts) \o t = FlattenSeq(ts)
    BY <1>2, <1>3, ConcatEmptySeq
  <2>3. QED
    BY <1>1, <2>1, <2>2 DEF SplitSound, Spelt, ts, t
<1>4. CASE t # <<>>
  <2>1. Closed(s) = Append(ts, t)
    BY <1>4 DEF Closed, ts, t
  <2>2. Append(ts, t) \in Seq(Seq(Nat)) /\ Len(Append(ts, t)) = Len(ts) + 1 /\ Len(ts) \in Nat
        /\ (\A k \in 1..Len(ts) : Append(ts, t)[k] = ts[k]) /\ Append(ts, t)[Len(ts) + 1] = t
    BY <1>1, AppendProperties, LenProperties
  <2>3. KeptWhole(t) /\ \A k \in 1..Len(ts) : KeptWhole(ts[k])
    BY <1>4 DEF SplitSound, ts, t
  <2>4. \A k \in 1..(Len(ts) + 1) : k \in 1..Len(ts) \/ k = Len(ts) + 1
    BY <2>2
  <2>5. \A k \in 1..Len(Append(ts, t)) : KeptWhole(Append(ts, t)[k])
    BY <2>2, <2>3, <2>4
  <2>6. Spelt(s) = FlattenSeq(ts) \o t
    BY DEF Spelt, ts, t
  <2>7. QED
    BY <1>2, <2>1, <2>2, <2>5, <2>6
<1>5. QED
  BY <1>3, <1>4

LEMMA AddedSound ==
    ASSUME NEW s, SplitSound(s), NEW w \in Nat
    PROVE  SplitSound(Added[s][w]) /\ Spelt(Added[s][w]) = Spelt(s) \o <<w>>
<1> DEFINE ts == s.tweets
           t == s.current
           more == Append(t, w)
           r == Added[s][w]
<1>1. ts \in Seq(Seq(Nat)) /\ t \in Seq(Nat) /\ s \in Splits
  BY DEF SplitSound, Splits
<1>2. r = IF Fits(Joined(more)) THEN [tweets |-> ts, current |-> more]
          ELSE [tweets |-> Closed(s), current |-> <<w>>]
  BY <1>1 DEF Added
<1>3. <<w>> \in Seq(Nat) /\ <<w>> # <<>> /\ Len(<<w>>) = 1
  OBVIOUS
<1>4. CASE Fits(Joined(more))
  <2>1. r.tweets = ts /\ r.current = more /\ r = [tweets |-> ts, current |-> more]
    BY <1>2, <1>4
  <2> HIDE DEF r
  <2>2. more \in Seq(Nat) /\ more # <<>> /\ more = t \o <<w>>
    BY <1>1, AppendProperties, AppendIsConcat
  <2> HIDE DEF more
  <2>3. r \in Splits
    BY <1>1, <2>1, <2>2 DEF Splits
  <2>4. SplitSound(r)
    BY <1>4, <2>1, <2>2, <2>3 DEF SplitSound, KeptWhole
  <2> HIDE DEF ts, t
  <2>5. FlattenSeq(ts) \in Seq(Nat)
    BY <1>1, FlattenAppend
  <2>6. FlattenSeq(ts) \o more = (FlattenSeq(ts) \o t) \o <<w>>
    BY <1>1, <1>3, <2>2, <2>5, ConcatAssociative
  <2>7. QED
    BY <2>1, <2>4, <2>6 DEF Spelt, r, ts, t
<1>5. CASE ~Fits(Joined(more))
  <2>1. r.tweets = Closed(s) /\ r.current = <<w>> /\ r = [tweets |-> Closed(s), current |-> <<w>>]
    BY <1>2, <1>5
  <2> HIDE DEF r
  <2>2. /\ Closed(s) \in Seq(Seq(Nat))
        /\ \A k \in 1..Len(Closed(s)) : KeptWhole(Closed(s)[k])
        /\ FlattenSeq(Closed(s)) = Spelt(s)
    BY ClosedSound
  <2>3. KeptWhole(<<w>>)
    BY <1>3 DEF KeptWhole
  <2>4. r \in Splits
    BY <1>3, <2>1, <2>2 DEF Splits
  <2>5. SplitSound(r)
    BY <2>1, <2>2, <2>3, <2>4 DEF SplitSound
  <2>6. Spelt(r) = Spelt(s) \o <<w>>
    BY <2>1, <2>2 DEF Spelt
  <2>7. QED
    BY <2>5, <2>6 DEF r
<1>6. QED
  BY <1>4, <1>5

LEMMA TweetsSound ==
    ASSUME NEW words \in Seq(Nat)
    PROVE  /\ Tweets(words) \in Seq(Seq(Nat))
           /\ \A k \in 1..Len(Tweets(words)) : KeptWhole(Tweets(words)[k])
           /\ FlattenSeq(Tweets(words)) = words
<1> DEFINE n == Len(words)
           none == [tweets |-> <<>>, current |-> <<>>]
           Split(f) == f = [i \in 0..n |-> IF i = 0 THEN none ELSE Added[f[i - 1]][words[i]]]
           step == [p \in Splits \X (1..n) |-> Added[p[1]][words[p[2]]]]
<1>1. n \in Nat /\ \A i \in 1..n : words[i] \in Nat
  OBVIOUS
<1>2. SplitSound(none) /\ Spelt(none) = <<>>
  <2>1. <<>> \in Seq(Nat) /\ <<>> \in Seq(Seq(Nat)) /\ Len(<<>>) = 0
    OBVIOUS
  <2>2. FlattenSeq(<<>>) = <<>>
    BY <2>1 DEF FlattenSeq
  <2>3. <<>> \o <<>> = <<>>
    BY <2>1, ConcatEmptySeq
  <2>4. none.tweets = <<>> /\ none.current = <<>> /\ none \in Splits
    BY <2>1 DEF Splits
  <2> HIDE DEF none
  <2>5. QED
    BY <2>1, <2>2, <2>3, <2>4 DEF SplitSound, Spelt
<1>3. \A s \in Splits, w \in Nat : Added[s][w] \in Splits
  <2> TAKE s \in Splits, w \in Nat
  <2>1. s.tweets \in Seq(Seq(Nat)) /\ s.current \in Seq(Nat)
    BY DEF Splits
  <2>2. Append(s.current, w) \in Seq(Nat) /\ <<w>> \in Seq(Nat)
        /\ Append(s.tweets, s.current) \in Seq(Seq(Nat))
    BY <2>1, AppendProperties
  <2>3. Closed(s) \in Seq(Seq(Nat))
    BY <2>1, <2>2 DEF Closed
  <2>4. PICK ts \in Seq(Seq(Nat)), t \in Seq(Nat) : Added[s][w] = [tweets |-> ts, current |-> t]
    <3>1. CASE Fits(Joined(Append(s.current, w)))
      <4>1. Added[s][w] = [tweets |-> s.tweets, current |-> Append(s.current, w)]
        BY <3>1 DEF Added
      <4>2. QED
        BY <2>1, <2>2, <4>1
    <3>2. CASE ~Fits(Joined(Append(s.current, w)))
      <4>1. Added[s][w] = [tweets |-> Closed(s), current |-> <<w>>]
        BY <3>2 DEF Added
      <4>2. QED
        BY <2>2, <2>3, <4>1
    <3>3. QED
      BY <3>1, <3>2
  <2>5. QED
    BY <2>4 DEF Splits
<1>4. \E f : Split(f)
  <2>1. \A s \in Splits, i \in 1..n : step[<<s, i>>] = Added[s][words[i]]
    OBVIOUS
  <2>2. step \in [Splits \X (1..n) -> Splits]
    <3>1. ASSUME NEW p \in Splits \X (1..n) PROVE Added[p[1]][words[p[2]]] \in Splits
      <4>1. p[1] \in Splits /\ words[p[2]] \in Nat
        BY <1>1
      <4>2. QED
        BY <1>3, <4>1
    <3>2. QED
      BY <3>1
  <2>3. none \in Splits
    BY <1>2 DEF SplitSound
  <2> HIDE DEF step, n, none
  <2>4. PICK f : Iterated(f, Splits, none, n, step)
    BY <1>1, <2>2, <2>3, Iterates
  <2>5. ASSUME NEW i \in 0..n, i # 0 PROVE f[i] = Added[f[i - 1]][words[i]]
    <3>1. i \in 1..n /\ i - 1 \in 0..n
      BY <1>1, <2>5
    <3>2. QED
      BY <2>1, <2>4, <3>1 DEF Iterated
  <2>6. f = [i \in 0..n |-> f[i]] /\ f[0] = none
    BY <2>4 DEF Iterated
  <2>7. QED
    BY <2>5, <2>6
<1> DEFINE split == CHOOSE f : Split(f)
<1>5. Split(split)
  BY <1>4
<1>6. Tweets(words) = Closed(split[n])
  BY DEF Tweets
<1> HIDE DEF split, n, none
<1>7. split[0] = none /\ \A i \in 0..n : i # 0 => split[i] = Added[split[i - 1]][words[i]]
  BY <1>1, <1>5
<1> DEFINE T == {i \in 0..n : SplitSound(split[i]) /\ Spelt(split[i]) = SubSeq(words, 1, i)}
<1>8. \A i \in 0..n : i \in T
  <2>1. 0 \in T
    <3>1. SubSeq(words, 1, 0) = <<>>
      BY SubSeqEmpty
    <3>2. 0 \in 0..n
      BY <1>1
    <3>3. SplitSound(split[0]) /\ Spelt(split[0]) = SubSeq(words, 1, 0)
      BY <1>2, <1>7, <3>1
    <3> HIDE DEF none
    <3>4. QED
      BY <3>2, <3>3
  <2>2. ASSUME NEW i \in 0..n, i # n, i \in T PROVE i + 1 \in T
    <3>1. i + 1 \in 1..n /\ i + 1 \in 0..n /\ i + 1 # 0 /\ (i + 1) - 1 = i /\ words[i + 1] \in Nat
      BY <1>1, <2>2
    <3>2. split[i + 1] = Added[split[i]][words[i + 1]]
      BY <1>7, <3>1
    <3>3. SplitSound(split[i + 1]) /\ Spelt(split[i + 1]) = SubSeq(words, 1, i) \o <<words[i + 1]>>
      BY <2>2, <3>1, <3>2, AddedSound
    <3>4. SubSeq(words, 1, i + 1) = SubSeq(words, 1, (i + 1) - 1) \o <<words[i + 1]>>
      <4>1. 1 \in 1..Len(words) /\ i + 1 \in 1..Len(words)
        BY <1>1, <3>1 DEF n
      <4>2. QED
        BY <4>1, SubSeqRecursiveSecond
    <3>5. QED
      BY <3>1, <3>3, <3>4
  <2> HIDE DEF T
  <2>3. QED
    BY <1>1, <2>1, <2>2, FromZero
<1>9. SplitSound(split[n]) /\ Spelt(split[n]) = SubSeq(words, 1, n)
  BY <1>1, <1>8
<1>10. SubSeq(words, 1, n) = words
  BY SubSeqFull DEF n
<1>11. QED
  BY <1>6, <1>9, <1>10, ClosedSound

LEMMA ThreadHolds ==
    ASSUME NEW t \in Contents PROVE ThreadSound(t, Formatted(t))
<1> DEFINE thread == Formatted(t).thread
           lengths == Numbered(thread)
<1>1. t.words \in Seq(Nat) /\ MaxTweet \in Nat /\ Reserve \in 4..MaxTweet
  BY FormatConstants
<1>2. thread = <<>> \/ thread = Tweets(t.words)
  BY DEF Formatted
<1> HIDE DEF thread
<1>3. CASE thread = <<>>
  <2>1. QED
    BY <1>3 DEF ThreadSound, thread
<1>4. CASE thread = Tweets(t.words)
  <2>1. /\ thread \in Seq(Seq(Nat))
        /\ \A k \in 1..Len(thread) : KeptWhole(thread[k])
        /\ FlattenSeq(thread) = t.words
    BY <1>1, <1>4, TweetsSound
  <2>2. DOMAIN thread = 1..Len(thread) /\ Len(thread) \in Nat
    BY <2>1, LenProperties
  <2>3. ASSUME NEW i \in DOMAIN thread
        PROVE  /\ thread[i] # <<>>
               /\ lengths[i] > MaxTweet =>
                      Len(thread) >= 10 \/ (Len(thread[i]) = 1 /\ ~Fits(thread[i][1]))
    <3>1. KeptWhole(thread[i]) /\ i \in Nat /\ i <= Len(thread)
      BY <2>1, <2>2
    <3>2. lengths[i] = Joined(thread[i]) + 2 + Digits(i) + Digits(Len(thread))
      BY DEF Numbered
    <3>3. Joined(thread[i]) \in Int /\ (Len(thread[i]) = 1 => Joined(thread[i]) = thread[i][1])
      BY <3>1, JoinedLength DEF KeptWhole
    <3>4. Len(thread) < 10 => Digits(i) = 1 /\ Digits(Len(thread)) = 1
      BY <2>2, <3>1 DEF Digits
    <3> DEFINE j == Joined(thread[i])
    <3> HIDE DEF lengths, j
    <3>5. ASSUME lengths[i] > MaxTweet, ~(Len(thread) >= 10) PROVE Len(thread[i]) = 1 /\ ~Fits(thread[i][1])
      <4>1. lengths[i] = j + 4 /\ j \in Int
        <5>1. Digits(i) = 1 /\ Digits(Len(thread)) = 1
          BY <2>2, <3>4, <3>5
        <5>2. lengths[i] = j + 2 + 1 + 1 /\ j \in Int
          BY <3>2, <3>3, <5>1 DEF j
        <5>3. QED
          BY <5>2
      <4>2. ~(j <= MaxTweet - Reserve)
        BY <1>1, <3>5, <4>1
      <4>3. ~Fits(j)
        BY <4>2 DEF Fits
      <4>4. Len(thread[i]) = 1
        BY <3>1, <4>3 DEF KeptWhole, j
      <4>5. QED
        BY <3>3, <4>3, <4>4 DEF j
    <3>6. QED
      BY <3>1, <3>5 DEF KeptWhole
  <2>4. QED
    BY <2>1, <2>3 DEF ThreadSound, thread
<1>5. QED
  BY <1>2, <1>3, <1>4

LEMMA ThreadsAside ==
    ASSUME ThreadsInv, NEW c \in Calls, Goes(c), ThreadsOf(c)' PROVE ThreadsInv'
<1>1. ASSUME NEW d \in Calls \ {c} PROVE ThreadsOf(d)'
  <2>1. ThreadsOf(d) /\ kind'[d] = kind[d] /\ pc'[d] = pc[d] /\ given'[d] = given[d] /\ made'[d] = made[d]
    BY DEF ThreadsInv, Goes
  <2>2. QED
    BY <2>1 DEF ThreadsOf
<1>2. QED
  BY <1>1 DEF ThreadsInv

LEMMA ThreadAsked ==
    ASSUME CallsInv, NEW c \in Calls, FormatBegins(c) PROVE ThreadsOf(c)'
<1>1. PICK t \in Contents : Ask(c, "format", t)
  BY DEF FormatBegins
<1>2. pc'[c] = "reading" /\ given'[c] = t
  BY <1>1, AskGoes DEF Kinds
<1>3. QED
  BY <1>2 DEF ThreadsOf

LEMMA ThreadMade ==
    ASSUME CallsInv, NEW c \in Calls, ThreadsOf(c), FormatSteps(c) PROVE ThreadsOf(c)'
<1>1. CASE RewriteRaises(c) \/ TagsRaise(c)
  <2>1. PICK p \in {"reading", "tagging"} : Raise(c, p)
    BY <1>1 DEF RewriteRaises, TagsRaise
  <2>2. kind'[c] = kind[c] /\ pc'[c] # "tagging" /\ given' = given
    BY <2>1, RaiseGoes DEF Ended
  <2>3. QED
    BY <2>2 DEF ThreadsOf
<1>2. CASE FormatText(c)
  <2>1. kind[c] = "format" /\ Produce(c, "reading", "tagging", Formatted(given[c]))
    BY <1>2 DEF FormatText
  <2>2. kind'[c] = kind[c] /\ given' = given /\ made'[c] = Formatted(given[c])
    BY <2>1, OwnProduceGoes, OwnersOfPoints DEF Midway
  <2>3. given[c] \in Contents
    BY <2>1 DEF ThreadsOf
  <2>4. QED
    BY <2>1, <2>2, <2>3, ThreadHolds DEF ThreadsOf
<1>3. QED
  BY <1>1, <1>2 DEF FormatSteps

LEMMA NoThreadsElse ==
    ASSUME CallsInv, NEW c \in Calls,
           \/ ScoringBegins(c) \/ InsightBegins(c) \/ PlanBegins(c)
           \/ ScoringSteps(c) \/ InsightSteps(c) \/ PlanSteps(c)
    PROVE  kind'[c] # "format"
<1>1. CASE ScoringBegins(c) \/ InsightBegins(c) \/ PlanBegins(c)
  <2>1. PICK k \in {"score", "rank", "rules", "account", "influencer", "plan", "build"} : \E x : Ask(c, k, x)
    BY <1>1 DEF ScoringBegins, InsightBegins, PlanBegins
  <2>2. k \in Kinds \ {"none"}
    BY DEF Kinds
  <2>3. QED
    BY <2>1, <2>2, AskGoes
<1>2. CASE ScoringSteps(c) \/ InsightSteps(c) \/ PlanSteps(c)
  <2>1. /\ kind'[c] = kind[c]
        /\ \/ kind[c] \in {"score", "rank", "rules", "account", "influencer", "plan", "build"}
           \/ pc[c] \in {"planning", "asking", "rating", "storing"}
    BY <1>2 DEF ScoringSteps, InsightSteps, PlanSteps, ScoreRaises, RankRaises, ScoreLead, RankLeads,
       ApplyRules, AccountRead, PlatformAnswers, PlatformDown, AccountRated, InfluencerRated,
       AccountUnrated, AccountMissing, InsightRefused, InfluencerUnrated, PromptBlank, ModelSilent,
       ReplyUnusable, ReplyVague, ReplyUnderstood, CalendarBuilt, BriefRefused, PlanBuilt,
       Produce, Raise, Outage, Escape, Step
  <2>2. QED
    BY <2>1, Whose
<1>3. QED
  BY <1>1, <1>2

LEMMA ThreadsStart == Init => ThreadsInv
<1> SUFFICES ASSUME CallsInit PROVE ThreadsInv
  BY DEF Init
<1>1. \A c \in Calls : kind[c] = "none"
  BY DEF CallsInit
<1>2. QED
  BY <1>1 DEF ThreadsInv, ThreadsOf

LEMMA ThreadsNext == CallsInv /\ ThreadsInv /\ [Next]_vars => ThreadsInv'
<1> SUFFICES ASSUME CallsInv, ThreadsInv, [Next]_vars PROVE ThreadsInv'
  OBVIOUS
<1>1. ASSUME UNCHANGED <<callVars, taskVars>> PROVE ThreadsInv'
  <2>1. UNCHANGED <<kind, pc, given, made>>
    BY <1>1 DEF callVars, taskVars
  <2>2. QED
    BY <2>1 DEF ThreadsInv, ThreadsOf
<1>2. CASE UNCHANGED vars \/ TimePasses
  BY <1>1, <1>2, TimeStays DEF vars
<1>3. ASSUME NEW c \in Calls, Goes(c), kind'[c] # "format" PROVE ThreadsInv'
  BY <1>3, ThreadsAside DEF ThreadsOf
<1>4. ASSUME NEW c \in Calls,
             LeadPart(c) \/ FlowPart(c) \/ LedgerPart(c) \/ LimitPart(c) \/ MediaPart(c) \/ ProjectPart(c)
      PROVE  ThreadsInv'
  BY <1>3, <1>4, LeadGoes, FlowGoes, LedgerGoes, LimitGoes, MediaGoes, ProjectGoes DEF Pipelines
<1>5. ASSUME NEW c \in Calls, ScorePart(c) PROVE ThreadsInv'
  <2>1. Goes(c) /\ ThreadsOf(c)
    BY <1>5, ScoreGoes DEF ThreadsInv
  <2>2. CASE FormatBegins(c) \/ FormatSteps(c)
    BY <2>1, <2>2, ThreadAsked, ThreadMade, ThreadsAside
  <2>3. CASE \/ ScoringBegins(c) \/ InsightBegins(c) \/ PlanBegins(c)
             \/ ScoringSteps(c) \/ InsightSteps(c) \/ PlanSteps(c)
    BY <1>3, <2>1, <2>3, NoThreadsElse
  <2>4. QED
    BY <1>5, <2>2, <2>3 DEF ScorePart
<1>6. ASSUME NEW c \in Calls, ProcessDies(c) PROVE ThreadsInv'
  <2>1. Goes(c) /\ kind'[c] = kind[c] /\ pc'[c] = "lost" /\ given' = given
    BY <1>6, DiesGoes DEF taskVars
  <2>2. ThreadsOf(c)'
    BY <2>1 DEF ThreadsInv, ThreadsOf
  <2>3. QED
    BY <2>1, <2>2, ThreadsAside
<1>7. QED
  BY <1>2, <1>4, <1>5, <1>6, NextParts

LEMMA ThreadsInvariant == Spec => []ThreadsInv
  BY ThreadsStart, ThreadsNext, CallsInvariant, PTL DEF Spec

(* A thread spells its text, every word once and in order, and a tweet of    *)
(* fewer than ten, numbered, is too long for X only if it is a single word   *)
(* that was too long before: for any texts and any lengths of words          *)
(* (text_formatter.py:103-132).                                              *)
THEOREM TextsHold == Spec => []TextsMeet
<1>1. ThreadsInv => TextsMeet
  BY DEF ThreadsInv, ThreadsOf, TextsMeet
<1>2. QED
  BY <1>1, ThreadsInvariant, PTL
=============================================================================
