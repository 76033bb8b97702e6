# BrandPilot: TLA+ verification project

BrandPilot (the code calls itself BRANDSCALE) is a marketing platform: a FastAPI
backend, Celery workers on a Redis broker, and PostgreSQL. An agent generates the
posts of a campaign with AI models, a person approves or cancels the plan, and
workers publish the posts, send e-mails under the RGPD (GDPR), score leads and
collect statistics. This directory models the parts of it where several actors
share rows, tokens or messages, checks them with TLC and proves the most important
invariants with TLAPS.

Contents: [inventory](#1-inventory), [modules](#2-modules-and-their-correspondence-to-the-code),
[runs](#3-runs-bounds-and-what-they-show), [fairness](#4-fairness), [proofs](#5-proofs),
[model-checked only](#6-only-model-checked), [disagreements](#7-disagreements-between-the-code-and-its-text),
[not modelled](#8-not-modelled), [plan](#9-plan), [how to run](#10-how-to-run).

Paths are relative to the repository; `CA` is `microservices/campaign_agent`, `SP`
is `microservices/bs_social_publisher`, `API` is `backend/api/v1`.

## 1. Inventory

| Component | State | Operations | Talks to |
|---|---|---|---|
| Campaign agent (`CA/agent.py`, `API/routes/campaigns_agent.py`) | `campaigns`, `workflow_jobs.result` (a JSON plan with the status of each post), Celery task ids inside it | create, status, approve, cancel, regenerate | dispatches the generation chord, sends and revokes publication tasks |
| Generation workers (`CA/worker.py:350-1030`) | the same job row; Celery retries | analyse brand, audience, influencers (a chord), build the plan, captions, visuals, assemble | each other through the chord and chain, AI services |
| Publication tasks (`CA/worker.py:1045-1281`) | the post inside the job's JSON | publish at an ETA, collect analytics a day later, optimise | platform, broker |
| Campaign routes (`API/controllers/campaign_controller.py`, `API/services/campaign_service.py`) | `campaigns.status` | create, update, launch, delete | the same campaign row as the agent; launch dispatches the lead pipeline |
| E-mail and RGPD (`microservices/bs_email`) | `emails`, `leads.opt_in` and counters, opt-in tokens in Redis | sequence, send, track, unsubscribe (two of them), double opt-in | SMTP, Redis |
| Authentication (`API/services/auth_service.py`, `API/routes/auth.py`) | `refresh_tokens`, `users` | register, login, refresh (rotation), logout | - |
| OAuth manager (`SP/oauth_manager.py`) | `social_accounts` | exchange, refresh, read, delete | the token endpoint of five platforms |
| Social publisher (`SP`) | `content.status` | publish a post, collect its metrics | OAuth manager, five platforms |
| Workflow (`microservices/workflow.py`) | `workflow_jobs`, `scoring_weights`, `analytics` | lead pipeline, campaign pipeline, feedback loop, daily aggregation, purge | scoring, text, image and e-mail workers |
| Leads (`API/services/lead_service.py`) | `leads`, addresses encrypted, no constraint on them | create, import a CSV file, update, erase | the purge of `workflow.py`, consent |
| Lead scoring (`microservices/bs_scoring`) | none (the verticals' settings) | score, classify, rank, point rules | the tasks of the lead pipeline |
| Plan algorithms (`CA/intent_parser.py`, `campaign_builder.py`, `execution_planner.py`, `context_builder.py`, calendar in `worker.py`) | none | intent, questions, calendar; context, services, schedule, hashtags | AI model |
| Rate limiter (`API/routes/campaigns_agent.py:160-215`) | a counter with a TTL in Redis | count one request | Redis |
| Text generation (`microservices/bs_ai_text`) | answers cached in Redis, `analytics.ai_cost_usd` | five kinds of text | models, Redis, the row that the aggregation writes too |
| Image and video generation (`bs_ai_image`, `bs_ai_video`) | objects in S3, scripts cached in Redis | image, script, render | models, S3 |
| Projects and brand analyser (`API/services/project_service.py`, `bs_brand_analyzer`) | `projects` | create, edit, archive, ask for an analysis; analyse | the worker reads the row the request commits |
| Audience insights (`bs_audience_insights`) | `influencer_analyses` (never written) | analyse an account, an influencer | platforms |
| Content formatter (`bs_content_formatter`) | none | count, cut into threads, rewrite, tag | models |
| Content and analytics routes | `content`, `analytics` | generate and insert, read | text generation |
| Frontend, configuration, scripts, prompt packs | - | - | the API |

What is hard here, and what makes each part correct:

* **Sessions are optimistic.** A request reads rows under READ COMMITTED, works on a
  copy for as long as its network calls take and writes back only the columns that
  differ from the copy (SQLAlchemy's unit of work). Few statements lock, so two
  requests overlap freely. Correct: whatever overlaps, only the owner's approval of a
  plan under review schedules posts, and the stored plan is the outcome of one
  decision.
* **Messages leave before commits.** The chord and the publication tasks go to the
  broker inside the transaction that records them. Correct: a recorded task is one the
  broker has, and generation ends whether or not the commit succeeds.
* **At-least-once tasks.** Acknowledgement is late, the broker redelivers what waits
  longer than an hour, tasks retry from their start. Correct: approvals are read again,
  and the number of publications is bounded.
* **Consent over time.** Consent is read, the SMTP server is slow, a withdrawal may
  commit in between, and sequences are built from lists that were read earlier. Correct:
  after a withdrawal only what was being handed over goes out, nothing stored since.
* **Row locks in different orders.** Correct: every call ends, deadlocks included.
* **Rotating tokens.** Ours (refresh tokens of users) and the platforms'. Correct:
  revocation and successor are one step; a stored token is one that works unless its
  replacement was lost.
* **Several requests per publication.** Correct: a row that says published is a post
  the platform has, all of it.
* **Rows found, then written.** Imports, feedback loops, cost booking and the nightly
  aggregation each look for a row and write it a step later. Correct: duplicates come
  from calls that overlapped and from nothing else, costs are neither lost nor counted
  twice, an aggregation is whole.
* **Commands that belong together, apart.** INCR and EXPIRE of the rate limit, dispatch
  and job status, cache and model. Correct: a window admits no more than its limit and
  nobody is locked out, a job that reads running was dispatched, a cached answer is
  about what is asked.

`PROJECT.json` lists 40 hazards with the line where each bites, the properties that
cover it and, where these only bound what the code lets happen, a note that says so.

## 2. Modules and their correspondence to the code

`PROJECT.json` maps each definition to its lines. One action stands for one
transaction or one step between two awaits, with everything the handler does there.

### CampaignPipeline, HumanGate

One campaign from `POST /create` to the decision on its plan.

| Code | TLA+ |
|---|---|
| `campaigns.status`, `workflow_jobs` (status, `result.agent_status`, posts) | `campaign`, `job` |
| `POST /create`: chord, then commit | `CreateDispatch`, `CreateCommit` or `CreateRollback` |
| chord header, callback, chain (`worker.py`) | `HeaderRun`, `TaskRetry`, `TaskFail`, `BuildLaunch`, `StageRun`, `Assemble`; `Redelivery` for a message delivered again |
| approve, cancel (`agent.py:430-870`) | read of the job, gate, sending or revoking loop, commit or abort, each its own action; `seenJob` and `work` are the copies |
| launch, update, delete | `LaunchRead`, `UpdateRead`, their commit, `Delete` |

A commit writes, column by column, what differs from the copy. The deployed workers
store posts with keys `SocialPost` does not have; the tests and the dataclass store
another shape. `rowShape` is one or the other, and both are checked. Commits may fail:
`datetime.now(UTC)` is bound to columns without time zone (`agent.py:796`, `:870`,
`worker.py:1003`), which the deployed driver refuses and others accept.

`HumanGate` is the abstract specification: a plan is offered, the owner opens the gate
while it is under review, and only a request that opened it hands over tasks, each once.
`CampaignPipeline!ImplementsHumanGate` states the refinement: the plan is
`job.agent`, the gate was opened by the requests in the sending loop or past it.

### PublishTask

`publish_post_at_scheduled_time`: each attempt reads the post, the campaign and the
project in three sessions, calls the platform, and updates the post in a fourth, then
dispatches the analytics task and maybe the optimisation. `pc` is where a delivery
stands between them, `Update` the read-modify-write of the JSON plan (which writes
nothing: the post is marked inside the very list that was loaded, and the value then
assigned compares equal to the loaded one, `Flush`), `Redeliver` the broker's second copy, `WorkerLost` a worker that dies after an
acknowledged step, `People` whatever users do to the rows meanwhile. `writable` is what
the approval flow may store: with and without `"approved"`, which the publication task
requires and the deployed flow never writes.

### EmailConsent

One lead and the e-mails of its sequences. A call of any kind holds a transaction:
`rest` are the rows it still has to lock, in the order its UPDATEs take them, `lock`
who holds each row, `Deadlocked` the cycle PostgreSQL breaks by aborting one member.
`SendMail` is the message accepted in the middle of the transaction, `ConfirmGet` and
`ConfirmDel` the two Redis commands of a confirmation. `aware` says whether the
driver takes time zone aware datetimes; the UPDATEs of `Timestamped` calls fail if not.
`create_sequence` believes the `opt_in` of the dictionaries it is given, which may be old
or typed into a request, so `CreateList` does not look at the row. `mailed` is the history
of the calls whose message the server took, and `due` what it was, together with the runs
past the check, when the consent was withdrawn (`Consent`).

### RefreshTokens

`/login`, `/refresh` and `/logout` of one user. A refresh validates (`Refresh`), selects
the row to revoke and updates it (`Select`, waiting for whoever holds it), and stores
its successor; `Commit` and `Abort` end the session, before or after the answer left.

### SocialPublisher

One content row, its campaign, and the account of one (project, platform) with its
OAuth tokens. A run is a `publish_post` task, a `collect_metrics` task or an OAuth
callback. `Load`, `TokenRead`, `RefreshRead`, `Ask`, `Store`, `Call`, `MarkPublished`,
`Dispatch` are its sessions and network calls in order; `Requests` and `Showing` say how
many requests each publisher makes and which of them makes the post visible (X shows
the first tweet of a thread at once, TikTok publishes even when polling gives up).
Retries (`Raised`), crashes (`Crash`), lost answers (`AnswerLost`) and failed writes
(`StoreFails`) happen anywhere the code lets them. `rotates` is whether the platform
accepts a refresh token once; refresh tokens are numbered as the platform issues them.
The SQL names columns the migrations do not create (`content.status`,
`social_accounts.access_token_enc`, ...). `migrated` chooses between the database the
migrations make, where every post is blocked and no account can be stored, and the one
the SQL expects. The UPDATE of an outcome holds `:ppid::jsonb` (`service.py:204`,
`:224`), which SQLAlchemy's `text()` does not take for a parameter, so that PostgreSQL
refuses the statement and the task retries; `recordable` is false there and true for a
library that binds it, without which nothing after the first outcome would be reached. On X the PKCE verifier is never kept (`oauth_manager.py:153`), so the
exchange is refused.

### ServiceCalls, Tasks

What the services behind the screens share. A *call* is one execution of an operation:
a request, a Celery task, a generation. `kind` is the operation, `pc` the suspension
point it stands at (`Begin`, `Step`), `before` the calls that had ended when it began,
and `Lose` the death of its process. `Tasks` adds what Celery does around a body:
`Raise` and `Outage` let an exception out, and `Escape` runs the task again with its
arguments until its `max_retries` are used up. `aware` says whether the database driver
takes time zone aware datetimes for naive columns.

### Leads, Workflow

| Code | TLA+ |
|---|---|
| `create_lead`, `import_leads_from_csv` (read, then insert), `update_lead`, `delete_lead`, `purge_expired_leads` | `CreateLead`, `ImportRead` and `ImportCommit`, `LeadRead` and `UpdateLead` or `DeleteLead`, `PurgeExpiredLeads` |
| `run_lead_pipeline`, `run_campaign_pipeline`: read, insert the job, send, write its status | `ReadInputs` or `CampaignMissing`, `CreateJob`, `SendMessage` and `SendFails`, `MarkRunning` or `MarkFailed` |
| the feedback loop and `_adjust_scoring_weights` | `ReadWeights`, `AdjustWeights`, `LoopFails`, `MarkCompleted` |

`jobs[c][n]` is the job of run `n` of task `c`: a task that is tried again inserts
another one. A row of a lead remembers who inserted it (`id`) and who gave it its
address (`by`), a row of weights who inserted it. The weights are percentages.

### CostLedger, Prompts

A generation looks into the cache (`TextHit`), asks the model (`TextAsk`,
`TextAnswered`, `TextFallback`), and books what it cost on the row of campaign and day
with a SELECT (`CostSelect`) and an UPDATE or INSERT (`CostCommit`, `CostLost`). The
aggregation of yesterday reads row after row (`AggregateRead`) and commits all of them
(`AggregateCommit`) or none. `NextDay` may fall anywhere. `Prompts` says what each kind
of text asks and under which key it is kept.

### RateLimit

`LimitCount` is the pipeline of INCR and TTL, `LimitArm` EXPIRE, `LimitDecide` the
verdict, `KeyExpires` the end of the hour, `LimitDown` each way Redis fails: away, its
answer lost, or gone before EXPIRE. `got`, `bare` and `inLife` are what each request was
answered, and in which life of the key.

### Projects, MediaServices, Scoring, AudienceInsights, ContentFormat, CampaignPlans

`Projects`: the requests of a project with their reads, messages and commits, and the
worker's analysis of the brand, which nothing gets past `analyze_tone`.
`MediaServices`: what is put in S3 and in the cache under which key, and what is
answered. The other four are functions inside calls: `Score`, `Tier`, `Hints`, `Order`,
`RulePoints`; `Rate`, `EngagementTier`, `Bonus`, `Price`; `Counted`, `Tweets`;
`Questions`, `Calendar`, `ToneOf`, `Services`, `Schedule`, `Hashtags`. The tables are
those of the code; texts are lengths, times are hours, rates are fractions. The scoring
and insight routes look at no sign: counters of a lead and typed figures are integers,
`RoundedPercent` rounds on both sides of zero, and a rate over a negative audience is
compared with the sign it has. What a platform answers are counts.

### BackOffice

The composition: any call may begin where `mix` (the kinds and number of calls of a
behaviour) allows, each takes its steps in any order against the others, dies at any
suspension point, is tried again, while days pass and keys expire.

### MC modules and proofs

`MCCampaignPipeline` and `MCSocialPublisher` add symmetry sets for TLC, `MCBackOffice`
the mixes and the inputs. The other modules are checked directly. `*Proofs` modules hold
the theorems of their namesake.

## 3. Runs, bounds and what they show

| Run | Question | Bounds |
|---|---|---|
| `campaign_pipeline` | Do concurrent approvals, cancellations, launches, updates and deletions, with generation and redeliveries going on, keep the human gate, the plan and the broker's tasks consistent? | 2 requests, 2 users, 2 plans, up to 2 slots, both row shapes, no retries: 1.4 million states |
| `campaign_generation` | Does generation end, with retries? | no requests, 2 plans, 2 retries |
| `publish_task` | Is every publication under a fresh approval, is their number bounded, do deliveries end? | 1 post, 2 deliveries, 1 retry, 1 worker lost, rows with and without `"approved"` |
| `email_consent` | What goes out after a withdrawal; records and deadlocks | 3 calls of any kind, 2 e-mails, 1 token, both drivers: 0.36 million states |
| `refresh_tokens` | Is rotation atomic, who gets a successor, do requests end? | 3 requests, their tokens and 1 older one |
| `social_publisher` | What is published, recorded and stored | 2 runs, Instagram, TikTok and X, threads of 2, 1 retry, both databases, outcomes that can be recorded or not, rotating platforms or not: 2.9 million states |
| `back_office` | Do the services behind the screens keep their rows, caches, jobs and answers consistent, and do calls end? | mixes of up to 3 calls (below), up to 1 retry (2 in one mix), 2 campaigns, 2 days, 2 addresses, 2 windows of the rate limit: 0.26 million states |
| `review_rewritten`, `publish_status_lost`, `token_single_use`, `creation_analysed`, `score_below_zero` | A sentence of the repository that the code does not keep (section 7) | as small as shows it |

Why the bounds are enough for what is asked: the properties of the first run speak of
one post and one or two requests, and a violation needs one copy that is stale, so two
overlapping requests and one overlapping chain; two plans let a redelivered callback
overwrite the first, two slots tell a part of a plan from all of it. Retries do not
change what a request can see, only when a stage ends, so they are left to
`campaign_generation`. One post suffices in `publish_task` because deliveries of
different posts share only the campaign row, which `People` writes at will. Deadlocks
in `email_consent` involve two calls at least; the third is there to show longer cycles,
and two e-mails give the two withdrawals a set to lock. In `refresh_tokens` three
requests give a refresh, another one of the same token, and one of its successor. In
`social_publisher` the three platforms show a post at the last, the middle and the first
request; the two others (LinkedIn, YouTube) are covered by the proofs, as are more runs,
retries and longer threads. In `back_office` a mix is a set of kinds that meet in the
same rows: leads with their import, update, erasure and purge; pipelines with imports;
feedback loops, two with retries and three without; generations with aggregations;
requests against the limit; projects with edits and analyses; media. Kinds of different
mixes share no row that both write, but for the leads: a pipeline only counts those who
opted in, once, which an import beside it changes as well as an update would. Two calls give every
overlap of a reader and a writer, the third what a later call finds (two rows of
weights, a full window, an archive taken back). The rate limit is 1 with three requests
and two windows, so that the limit, its excess and the key's expiry all happen. The
functions of plans, scores, insights and formats are checked on one call each, over
inputs chosen on both sides of every threshold and table entry (lengths around 140 and
280 characters, words that fit no tweet, counters that are null or below zero, typed
figures below zero, replies with nulls and
with no day); the limits of the code are the constants of the configuration. Account ids and tokens are not bounded by a guard: the runs
are, and each issues few.

Every run lets the system stop: users need not act, each request or task is one life
and finished ones stay finished, so the configurations say `CHECK_DEADLOCK FALSE`.
That calls which began do not stop half-way is what the liveness properties say.

Every property of a passing run has a mutant in `PROJECT.json`: a plausible bug (a
dropped guard, a swapped order, a missing reset) under which TLC finds it violated.

## 4. Fairness

Liveness is asserted only under `FairSpec`, with weak fairness of the steps the code
itself takes once begun: a worker that is up consumes its queue (`HeaderStep`,
`BuildStep`, `StageStep`, `DeliveryStep`), and the event loop and the database carry a
transaction they began to its end (`Progress` of e-mail calls and of requests). Each
fair action offers every outcome the step has, success or failure, so fairness never
forces success. No fairness on users, expiry, crashes or failures. A worker that never
comes back is outside what the liveness properties claim. In `BackOffice` the steps of
each call are fair (`Steps(c)`): the clients of the database, of Redis, of the models
and of the platforms have timeouts, so an await ends with an answer or an exception; a
call may also be lost instead. `BackOffice!CallsEnd` then says that no call, whatever
fails and however often it is tried again, goes on for ever. `SocialPublisher` has no
liveness property.

## 5. Proofs

All theorems are for every value of the constants, from the named assumptions of the
modules only (`ConstantsOK`, `PublishConstants`, `RowStatusesOK`, `EmailConstants`,
`TokenConstants`, `SocialConstants`, `ServiceConstants`, `RateConstants`,
`LedgerConstants`, `LeadConstants`, `WorkflowConstants`, `ScoringConstants`,
`InsightConstants`, `FormatConstants`, `PlanConstants`): any number of requests, runs, users, posts,
plans, retries, calls and platforms. The assumptions say what the inputs are: the
platforms' figures count from zero, while counters and figures in a request are any
integers; what `int()` has read is
an integer, a list is a list, a word has a length, and what a tweet keeps free takes a
numbering up to nine (the code keeps five characters). TLC evaluates each of them on the constants of its run.
Safety is proved by an inductive invariant `IInv`: `Init => IInv`,
`IInv /\ [Next]_vars => IInv'` with one step per action, `IInv => Inv`, and a temporal
step. Every one of these invariants was first checked by TLC on the instance of its run.

* **CampaignPipelineProofs.** `TypeCorrect`; then `GateInv` is inductive. The gate
  cannot be argued from the stored row alone, because any copy may be written back: so
  `CopiesSound` speaks of the row and of every request's two copies (the tasks they name
  were sent, worker-shaped rows were never scheduled), and `TasksGated` of the owner at
  each program point after the gate. From it `GateSafety` (OnlyOwnerSchedules),
  `ScheduledSafety` (ScheduledHasTask), `PublishGuardNeverPasses` (NeverApprovedRow),
  `WorkerRowsNeverScheduled`. `GateRefinement` shows that the specification implements
  `HumanGate`: each step is one of its actions or a stutter. `PlanInv` relates every copy
  to the plan: copies are whole plans of one generation (`CopiesWhole`), what a request
  still has to send or revoke is in its copy (`InHand`), and before the creation there is
  nothing to copy. From it `DecisionSafety` (PlanMatchesDecision) and `OnePlanStored`
  (SinglePlan).
* **PublishTaskProofs.** `PublishInv`: what a delivery copied was the row of this
  attempt (`CopiesFresh`), no stored row learns of a publication (`RowsUnmarked`), and
  without `"approved"` nothing has it. From it `ApprovalFresh`, `NeverPublishes`,
  `NeverOptimises`. The sums over deliveries are counted as sets: a post's
  publications map into the attempts its deliveries have made and the workers lost
  (`Accounted`), its analytics into the publications (`Answered`); a delivery's step adds
  at most one element to either side. From them `PublicationsBounded` and
  `AnalyticsPaired`.
* **EmailConsentProofs.** `EmailInv` adds to the properties that the one row a send
  locks is the e-mail it mailed (`SendRow`), that a refused statement never gets its
  row (`RowsRefused`), and that without consent every run still past the check was so at
  the withdrawal (`DueSends`): `WithdrawalHeeded` alone is not inductive, because it does
  not speak of messages about to go out. From it `WithdrawalHolds`, `SentAreMailed`,
  `NothingRecorded`. `LockOrder`: every call
  but an unsubscribe locks rows in one order, and an unsubscribe takes the lead first. In
  a cycle of waits without an unsubscribe, the call that waits for the last row would
  wait for a later one (well-founded on the places of rows); two unsubscribes would both
  hold the lead: `OneUnsubscribe`.
* **RefreshTokensProofs.** `TokenInv`: a request that has written holds its token or
  finds it revoked, and whoever committed the end of a token is earlier than no refresh
  of it. From it `RotationIsAtomic`, `NoLateSuccessor`, `FailureKeepsToken`.
* **SocialPublisherProofs.** `SocialInv`: a run past its checks has seen the row before
  any outcome (`SeenFit`), an outcome is never undone (`SettledStatus`); a token a run
  brings is known to it alone (`NewIsPrivate`), one it has presented is spent
  (`Presented`), and a run presents the token in force only for the row it belongs to
  (`OwnRow`), without which a stale run could overwrite a newer token. From it
  `PublicationSafety`, `SettledPostsStay`, `MarksWholePosts`, `AccountsStayRefreshable`,
  `DisconnectedStays`. A second, smaller invariant (`Silent`: without a record no run
  reaches the dispatch) gives `UnrecordedNeverMeasured`.
* **CountersProofs.** The rate limit: `RateInv`, counts answered in one life of the key
  differ and are at most the counter; whoever passed has seen the key expire or made it.
  So the admitted of a window map one to one into `1..RateMax`: `LimiterSafety`. The key's
  expiry between INCR and EXPIRE is why the invariant speaks of lives. The ledger:
  `LedgerInv`, a cost on its way has a campaign to go to, and only generations and
  aggregations stand at their suspension points. The UPDATE adds to the column as it is
  and the INSERT meets the unique constraint, which is why no SELECT need be fresh:
  `LedgerSafety`.
* **WorkflowProofs.** `JobsInv`: a run closes its job with its last step, and the runs to
  come have none. From it `JobsSafety`.

These two prove about their components beside *any* other calls: `OthersForLimit`,
`OthersForLedger` and `OthersForFlow` let calls of other kinds begin, move, be tried
again and be lost as they like, as long as they leave the component's variables and
suspension points alone.

* **BackOfficeProofs** proves about the composition.
  - `CallsInvariant`: `CallsInv`, types and *whose point it is*: a suspension point tells
    the kind of the call that stands there (`OwnPoints`), and only a call that has ended
    is before another (`EndedBefore`). Every step is a step of one call (`Goes`), so each
    later invariant has one lemma for what a step leaves alone and one per service.
  - `ServicesImplemented`: `BackOffice` implies the three specifications proved about
    above (`LimitSpec`, `LedgerSpec`, `FlowSpec`), each step being one of theirs or one
    of the others'. So `LimiterHolds`, `LedgerHolds`, `JobsHold` and, with the types of
    the rows, `PartsHold`.
  - `DuplicatesFromOverlaps`: `LeadsInv` says which imported rows a later import must
    know, `WeightsInv` which writers of weights a feedback loop may have missed; both
    argue from `before`, so that whatever was written twice was written by calls that
    overlap.
  - `RemovalsStand`: a row was inserted by a call that has ended or has just done so, and
    who erased it leaves no later copy (`LeadsInv`); an edit that loaded an archived
    project either finds it so or overlaps the edit that cleared it (`ArchiveInv`).
  - `AnswersAsked`: `TextsInv` and `ServedInv`, every key of a cache or of S3 answers what
    it was made for, and every answer is the value of the key of its own request.
  - `FiguresHold`: `FiguresInv` holds each shown figure to its input through the tables:
    bounds of each table and of the rounding of the score (from above always, from below for
    counters that are counts), any vertical's weights balanced
    so that who is warm has nothing to improve, the order of a ranking as a permutation
    (an injection of a finite set into itself), points of the rules, and engagement, tier,
    bonus and price from one rate, the margins of the price in the order the sign of the
    followers gives them. `PlansInv` does the same for plans: a post falls on the
    day and at the hour its number divides into, quotient by quotient, for one, two and
    three posts a day, so that posts are in order and every day has one; fewer than three
    names leave three questions; the places of the tags that are kept are ranked, so no
    tag is shown twice.
  - `TextsHold`: `ThreadsInv`, a thread that is shown was cut out of the text that was asked
    for. The loop of `split_into_thread` keeps `SplitSound` with every word: what is closed
    and what is being made are tweets with room for their numbering or single words
    (`AddedSound`), and together they spell the words so far (`Spelt`). The library's
    induction cannot be used (it takes an operator), so the argument is by the least place
    at which it fails, over a set (`FromZero`); that the recursive functions exist (the sum
    of lengths, the loop, `FlattenSeq`) is proved from a step that is a function on a set
    (`Iterates`).

## 6. Only model-checked

Liveness (`GenerationEnds`, `DeliveriesEnd`, `CallsEnd`) is beyond the prover. Every
safety property of the passing runs is stated by a theorem.

## 7. Disagreements between the code and its text

Each has a run that ends in a counterexample, quoted in `PROJECT.json`:

* `review_rewritten`: "This task is the final write gate before human review"
  (`CA/worker.py:920`), but an assembly that
  comes after the decision on a plan puts it back under review.
* `publish_status_lost`: `_update_post_status` "Update[s] a post's status field inside
  its parent WorkflowJob JSONB result" (`CA/worker.py:263`), but the row is not changed. The run needs a row whose status is
  `"approved"`: no code writes one, so somebody has set it by hand; with the rows the code
  writes the task stops earlier.
* `token_single_use`: "Consumes the token on success (single-use via Redis DEL)"
  (`microservices/bs_email/double_optin.py:70`), but two confirmations can both GET it.
* `creation_analysed`: `brand_url` says "When provided, triggers automatic brand analysis
  (tone, colours, keywords, competitors) in the background."
  (`API/models/project.py:32-33`), but the message leaves before the project is
  committed, and a worker that is quick finds no project, answers that there is no URL
  and is not tried again.
* `score_below_zero`: "Compute a composite lead quality score from 0 to 100."
  (`bs_scoring/service.py:180`), but the counters of a request are clamped from above only
  and a negative one takes the score below zero.

Met while reading and modelled as they are, without a run:

* a plan of the deployed workers can be neither approved nor cancelled
  (`DeployedNothingScheduled`), and nothing writes the status publication requires
  (`PublishTaskProofs!NeverPublishes`, `NeverOptimises`);
* "Status can ONLY transition to `scheduled` or `published` inside
  `worker.publish_post_at_scheduled_time()`, never here" (`CA/agent.py:320-322`), but it is
  the agent's `_schedule_posts` that writes `"scheduled"` (`:768`);
* for rows of the dataclass shape, which the workers never store, an approval whose commit
  fails leaves publication tasks that no row names, and a later cancellation leaves them
  running although "Tasks scheduled more than 5 minutes in the future are revoked"
  (`CA/agent.py:513`);
* typed followers below zero turn the margins of a price round (`pricing_calc.py:94-96`);
* where the driver refuses aware datetimes nothing is recorded as sent
  (`EmailConsentProofs!NothingRecorded`), no lead is purged and no pipeline gets past its
  job;
* the social publisher's outcomes are refused by PostgreSQL
  (`SocialPublisherProofs!UnrecordedNeverMeasured`); `revoke_token` says it revokes the
  platform's token and only deletes the row;
* `get_model_config()` takes an argument and gets none in `tone_analyzer.py:59`,
  `hashtag_engine.py:78` and `adaptive_writer.py:84`: the brand analysis always ends in
  its stub, and no formatting task ends well;
* the campaign pipeline gives the first post's task nine arguments where it takes four
  (`workflow.py:229`), so a pipeline with leads fails before it has sent anything; its check of the budget reads
  `ai_spent_usd`, which no code writes (`workflow.py:107`);
* the weights that the feedback loop stores are read for a project, and no caller of the
  scoring names one (`bs_scoring/service.py:48`);
* the INSERT of an audience analysis names a column that is not there and gives no id;
* the calendar of the workers adds the best hours to the present hour instead of to a
  midnight (`CA/worker.py:188-193`), so posts fall at the best hours only for a plan made
  at midnight;
* the script of a video is cached without its language (`bs_ai_text/service.py:425`) and
  the video is named without its template: the properties say what holds nonetheless;
* a thread of ten tweets or more may have one that is too long (`text_formatter.py:103`);
* the nightly tasks say "UTC" and run on the clock of Europe/Paris (`workflow.py:46-53`).

## 8. Not modelled

Wording: prompts, templates, texts, images, the fetched pages and the frontend; password
hashing, registration and access tokens; column encryption; export and deletion of a
user's data, which name columns and models that do not exist; regeneration of a post,
which sends a task no worker defines; the job row that `POST /workflows` inserts beside
the pipeline's own, which nothing ever updates. Code that is never reached: what follows
`analyze_tone` in the brand analysis (colours, competitors, storing) and the resizing and
grid of the formatter. Code that nothing calls: `bs_ai_image/s3_uploader.py`, the
platform adapter, `_parse_duration` and `_parse_frequency`. Listing and reading of rows;
the INSERT of a content request; the rounding of rates and prices, the heat map and the
audience hint of the insights. The social publisher is
not mounted in the application and has no worker in `docker-compose.yml`; it is
modelled as its code would run.

Failures in the middle of what is one step here: the revoking loop of a cancellation is
one step, so a `revoke` that raises half-way (`CA/agent.py:833-846`) is the abort before or
after it; a commit of a job's status either happens or fails, and is never both stored and
reported as failed (`workflow.py`); EXPIRE arrives or does not, and its answer is never
lost after it has arrived; `self.retry` itself reaches the broker. Scores that come with a
lead to be ranked are numbers.

External systems are modelled by what the code relies on: PostgreSQL row locks and
deadlock detection, Redis commands, Celery's acknowledgement, retry and redelivery,
and the platforms' token endpoints.

## 9. Plan

Done, in this order, the most important behaviour first: the human gate
(`CampaignPipeline`, `HumanGate`), publication (`PublishTask`), consent
(`EmailConsent`), sessions of users (`RefreshTokens`), accounts and publishers
(`SocialPublisher`); then the services behind the screens (`ServiceCalls`, `Tasks`,
`Leads`, `Workflow`, `CostLedger`, `RateLimit`, `Projects`, `MediaServices`, and the
algorithms of plans, scores, insights and formats), composed in `BackOffice`, with the
theorems about each of them and about the composition.

Next:

1. Liveness of `SocialPublisher` (every run ends under fairness of its own steps).
2. Registration, and the content routes as calls of `BackOffice` when they do more than
   one INSERT.

## 10. How to run

    tlc -config CampaignPipeline.cfg MCCampaignPipeline.tla
    tlc -config CampaignGeneration.cfg MCCampaignPipeline.tla
    tlc -config PublishTask.cfg PublishTask.tla
    tlc -config EmailConsent.cfg EmailConsent.tla
    tlc -config RefreshTokens.cfg RefreshTokens.tla
    tlc -config SocialPublisher.cfg MCSocialPublisher.tla
    tlc -config BackOffice.cfg MCBackOffice.tla
    tlc -config CreationAnalysed.cfg MCBackOffice.tla
    tlc -config ScoreBelowZero.cfg MCBackOffice.tla
    tlapm CampaignPipelineProofs.tla      # and the other *Proofs modules

`PROJECT.json` names the module and the configuration of every run.
