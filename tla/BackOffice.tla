------------------------------- MODULE BackOffice -------------------------------
(***************************************************************************)
(* The services behind the campaign screens as they run together: leads,    *)
(* pipelines, text generation with its ledger of costs, the nightly tasks,  *)
(* the rate limit, projects, plans, scores, insights, formats and media.    *)
(* Any mix of calls overlaps, steps in any order and can die between two of *)
(* them.                                                                   *)
(***************************************************************************)
EXTENDS Workflow, CostLedger, RateLimit, Scoring, AudienceInsights, ContentFormat,
        MediaServices, CampaignPlans, Projects

rowVars == <<leadVars, flowVars, ledgerVars, rateVars>>
vars == <<callVars, taskVars, rowVars, mediaVars, projectVars>>

Init ==
    /\ CallsInit /\ TasksInit
    /\ LeadsInit /\ WorkflowInit /\ LedgerInit /\ RateInit /\ MediaInit /\ ProjectsInit

LeadFrame == UNCHANGED <<taskVars, flowVars, ledgerVars, rateVars, mediaVars, projectVars>>
FlowFrame == UNCHANGED <<ledgerVars, rateVars, mediaVars, projectVars>>
LedgerFrame == UNCHANGED <<taskVars, leadVars, flowVars, rateVars, mediaVars, projectVars>>
RateFrame == UNCHANGED <<taskVars, leadVars, flowVars, ledgerVars, mediaVars, projectVars>>

(* A call begins.                                                            *)
Begins(c) ==
    \/ LeadBegins(c) /\ LeadFrame
    \/ (\E k \in Pipelines : StartPipeline(c, k)) /\ FlowFrame
    \/ (\E r \in Requests : TextHit(c, r) \/ TextAsk(c, r)) /\ LedgerFrame
    \/ (\E act \in SUBSET Campaigns : Aggregate(c, act)) /\ LedgerFrame
    \/ LimitCount(c) /\ RateFrame
    \/ (ScoringBegins(c) \/ InsightBegins(c) \/ FormatBegins(c) \/ PlanBegins(c))
       /\ UNCHANGED <<rowVars, mediaVars, projectVars>>
    \/ MediaBegins(c) /\ UNCHANGED <<rowVars, projectVars>>
    \/ ProjectBegins(c) /\ UNCHANGED <<rowVars, mediaVars>>

(* It goes on.                                                               *)
Steps(c) ==
    \/ LeadSteps(c) /\ LeadFrame
    \/ FlowSteps(c) /\ FlowFrame
    \/ LedgerSteps(c) /\ LedgerFrame
    \/ LimitSteps(c) /\ RateFrame
    \/ (ScoringSteps(c) \/ InsightSteps(c) \/ FormatSteps(c) \/ PlanSteps(c))
       /\ UNCHANGED <<rowVars, mediaVars, projectVars>>
    \/ MediaSteps(c) /\ UNCHANGED <<rowVars, projectVars>>
    \/ ProjectSteps(c) /\ UNCHANGED <<rowVars, mediaVars>>

RedisDown(c) == LimitDown(c) /\ RateFrame

ProcessDies(c) == Lose(c) /\ UNCHANGED <<taskVars, rowVars, mediaVars, projectVars>>

TimePasses ==
    \/ NextDay /\ LedgerFrame
    \/ KeyExpires /\ RateFrame

Next ==
    \/ \E c \in Calls : Begins(c) \/ Steps(c) \/ RedisDown(c) \/ ProcessDies(c)
    \/ TimePasses

(* A call whose process lives takes its next step: each step ends by itself, *)
(* as the clients of the database, of Redis and of the model have timeouts.  *)
Spec == Init /\ [][Next]_vars /\ \A c \in Calls : WF_vars(Steps(c))

TypeOK ==
    /\ CallsTypeOK /\ aware \in BOOLEAN /\ before \in [Calls -> SUBSET Calls]
    /\ try \in [Calls -> Tries] /\ trouble \in [Calls -> BOOLEAN]
    /\ LeadsTypeOK /\ WorkflowTypeOK /\ LedgerTypeOK /\ RateTypeOK

(* The types, and the inductive invariants of the pipelines, the ledger and  *)
(* the limit, beside all the other calls (campaigns_agent.py:180-200,        *)
(* bs_ai_text/service.py:76-107, workflow.py:182-190).                       *)
PartsInv == TypeOK /\ JobsInv /\ LedgerInv /\ RateInv

(* What two calls wrote twice, a lead or the weights of a project, they      *)
(* wrote while they overlapped.                                              *)
DuplicatesOverlap == ImportsSkipKnown /\ WeightsTwiceOverlap

(* What a call has removed, a lead or a project from its lists, no other     *)
(* call's edit of something else brings back.                                *)
RemovalStands == ErasedForGood /\ ArchiveStands

(* The figures that are shown agree with each other, scores with tiers and   *)
(* hints, rankings with scores, engagement with bonus and price              *)
(* (service.py:178-268, engagement_calc.py:18-40, pricing_calc.py:48-96);    *)
(* and plans with their days, hours and tags (worker.py:188-193,             *)
(* campaign_builder.py:214-245, 302-335).                                    *)
FiguresAgree == ScoresMeet /\ InsightsSound /\ PlansMeet

(* Why: every figure is made of what was asked for, in the step that shows it.*)
FiguresOf(c) ==
    /\ kind[c] = "score" => given[c].lead \in ScoredLeads /\ given[c].vertical \in DOMAIN Verticals
    /\ kind[c] = "rank" => given[c].list \in Ranked /\ given[c].vertical \in DOMAIN Verticals
    /\ kind[c] = "account" => given[c] \in Accounts
    /\ kind[c] = "influencer" => given[c] \in Influencers
    /\ kind[c] = "account" /\ pc[c] = "rating" => made[c] \in FigureRows
    /\ pc[c] = "ok" => ScoreSound(c) /\ RankSound(c) /\ RulesSound(c)
    /\ InsightSound(c)
FiguresInv == \A c \in Calls : FiguresOf(c)

(* Every plan is made of a usable reply or of a brief, at a known hour.      *)
PlansOf(c) ==
    /\ kind[c] = "plan" => given[c].at \in Hours
    /\ kind[c] = "build" => given[c] \in Briefs
    /\ pc[c] = "planning" => made[c].days \in Int
    /\ kind[c] = "plan" /\ pc[c] = "ok" => AskedBack(made[c]) /\ CalendarSound(given[c].at, made[c])
    /\ kind[c] = "build" /\ pc[c] = "ok" => PostsSound(given[c], made[c])
PlansInv == \A c \in Calls : PlansOf(c)

(* Every thread is made of the text that was asked for.                      *)
ThreadsOf(c) ==
    kind[c] = "format" =>
        given[c] \in Contents /\ (pc[c] = "tagging" => ThreadSound(given[c], made[c]))
ThreadsInv == \A c \in Calls : ThreadsOf(c)

(* Whatever is answered without an error, a text, an image, a video or a     *)
(* script, is what this call asked for (bs_ai_text/service.py:76-107).       *)
ServedAsAsked == TextsServed /\ AnswersServed

(* What the services need of each other: whose suspension point each is, and *)
(* that only a call that has ended is before another.                        *)
Kinds ==
    {"none", "create", "import", "update", "delete", "purge", "l2c", "campaign", "loop",
     "text", "aggregate", "limit", "score", "rank", "rules", "account", "influencer", "format",
     "plan", "build", "image", "script", "render", "project", "edit", "trigger", "brand"}
Owners(p) ==
    CASE p = "idle" -> {"none"}
      [] p = "importing" -> {"import"}
      [] p = "read" -> {"update", "delete"}
      [] p \in {"creating", "sending", "failing", "analysing", "adjusting", "adjusted"} -> Pipelines
      [] p \in {"asked", "priced", "booking", "recorded"} -> {"text"}
      [] p = "aggregating" -> {"aggregate"}
      [] p \in {"counted", "armed", "admitted"} -> {"limit"}
      [] p \in {"asking", "rating", "storing"} -> {"account"}
      [] p = "tagging" -> {"format"}
      [] p = "planning" -> {"plan"}
      [] p \in {"downloading", "putting"} -> {"image"}
      [] p = "caching" -> {"script"}
      [] p = "editing" -> {"edit"}
      [] p \in {"allowing", "fetching", "browsing", "judging"} -> {"brand"}
      [] OTHER -> Kinds \ {"none"}
OwnPoints == \A c \in Calls : kind[c] \in Owners(pc[c])
EndedBefore == \A c \in Calls : before[c] \subseteq {d \in Calls \ {c} : pc[d] \in Ended}

CallsInv ==
    /\ CallsTypeOK /\ OwnPoints /\ EndedBefore
    /\ mix \in Mixes /\ aware \in BOOLEAN /\ before \in [Calls -> SUBSET Calls]
    /\ try \in [Calls -> Tries] /\ trouble \in [Calls -> BOOLEAN]
    /\ given = [c \in Calls |-> given[c]] /\ made = [c \in Calls |-> made[c]]

(* Every call that begins ends, whatever fails and however often its task is *)
(* tried again (workflow.py:402-410, bs_ai_text/service.py:113-118).         *)
CallsEnd == \A c \in Calls : Running(c) ~> ~Running(c)
=============================================================================
