--------------------------- MODULE SocialPublisher ---------------------------
(***************************************************************************)
(* bs_social_publisher: one content row, its campaign, and the social      *)
(* account of one (project, platform) with its OAuth tokens. Runs are the  *)
(* Celery tasks publish_post and collect_metrics and the requests of the   *)
(* OAuth callback. Every SELECT and every UPDATE is a session of its own,  *)
(* with network calls between: nothing is locked from the checks of a run  *)
(* to its last write. A run ends early where the code gives up, is retried *)
(* by Celery where it raises, and is lost when its process dies (tasks are *)
(* acknowledged before they run).                                          *)
(* The SQL names columns the migrations do not create (content.status,     *)
(* social_accounts.access_token_enc, ...). Both databases are modelled:    *)
(* where the columns are missing no content row has a status and no        *)
(* account can be stored. The UPDATEs of an outcome hold `:ppid::jsonb`,   *)
(* which SQLAlchemy's text() does not take for a parameter and PostgreSQL  *)
(* refuses: both this and a library that binds it are modelled.            *)
(***************************************************************************)
EXTENDS Integers, FiniteSets

CONSTANTS
    Runs,           \* tasks and callback requests
    Platforms,      \* the platforms the account may be on
    ThreadLength,   \* tweets of the post on X
    MaxRetries      \* bound on the retries of a task (2 and 3 in the code)

ASSUME SocialConstants ==
    /\ Platforms \subseteq {"instagram", "linkedin", "tiktok", "x", "youtube"}
    /\ ThreadLength \in Nat \ {0} /\ MaxRetries \in Nat

(* The requests a publisher makes one after the other, and the one that      *)
(* shows the post to the public.                                             *)
Requests == [instagram |-> 3, linkedin |-> 2, tiktok |-> 3,
             x |-> ThreadLength, youtube |-> 2]
Showing == [instagram |-> 3, linkedin |-> 2, tiktok |-> 2, x |-> 1, youtube |-> 2]

VARIABLES
    migrated,       \* only the migrations made the tables
    recordable,     \* the UPDATE of an outcome is a statement that runs
    platform,       \* platform of the account
    rotates,        \* it accepts a refresh token once
    post,           \* content.status
    campaign,       \* campaigns.status, as far as the checks look
    account,        \* id of the account's row, 0 without one
    lastId,         \* the last id given to a row
    stored,         \* refresh token in the row, 0 for NULL
    expiry,         \* its token_expires_at: NULL, later, within 5 minutes
    issued,         \* last refresh token issued by the platform
    spent,          \* refresh tokens it has replaced
    due,            \* collect_metrics tasks in their 24 hours' countdown
    kind, pc,       \* what each run is and where it stands
    row,            \* the account id it was given
    used,           \* refresh token it read
    new,            \* refresh token the platform answered
    at,             \* requests made to publish
    tries,          \* retries so far
    seen,           \* what its SELECT saw: publishable, already settled
    live,           \* publications: run, attempt, and what it had seen
    whole,          \* attempts whose every request was answered
    settled,        \* some attempt has committed its outcome
    lost,           \* refresh tokens whose replacement was never stored
    disconnected    \* ids of the accounts disconnected

token == <<account, lastId, stored, expiry>>
provider == <<issued, spent, lost>>
content == <<post, settled>>
fixed == <<migrated, recordable, platform, rotates>>
shown == <<live, whole>>
vars == <<fixed, content, campaign, token, provider, due, kind, pc, row, used,
          new, at, tries, seen, shown, disconnected>>

Unseen == [fit |-> FALSE, late |-> FALSE]
TokenSteps == {"token", "refresh", "ask", "store"}
Running == {"load", "call", "published", "failed", "dispatch", "exchange",
            "persist"} \cup TokenSteps

Init ==
    /\ migrated \in BOOLEAN /\ recordable \in BOOLEAN
    /\ platform \in Platforms /\ rotates \in BOOLEAN
    /\ post \in IF migrated THEN {"unset"} ELSE {"draft", "approved"}
    /\ campaign \in {"active", "other"}
    /\ account = 1 /\ lastId = 1
    /\ stored \in IF migrated THEN {0} ELSE {0, 1}
    /\ expiry \in {"null", "later"}
    /\ issued = 1 /\ spent = {} /\ lost = {}
    /\ due = {}
    /\ kind = [r \in Runs |-> "none"]
    /\ pc = [r \in Runs |-> "idle"]
    /\ row = [r \in Runs |-> 0]
    /\ used = [r \in Runs |-> 0]
    /\ new = [r \in Runs |-> 0]
    /\ at = [r \in Runs |-> 0]
    /\ tries = [r \in Runs |-> 0]
    /\ seen = [r \in Runs |-> Unseen]
    /\ live = {} /\ whole = {}
    /\ settled = FALSE
    /\ disconnected = {}

(* Run r goes on to q.                                                       *)
Goto(r, q) == pc' = [pc EXCEPT ![r] = q]

-----------------------------------------------------------------------------
(* A request of the API or the end of a countdown begins a run.              *)
Begin(r, k, q, a) ==
    /\ pc[r] = "idle"
    /\ kind' = [kind EXCEPT ![r] = k]
    /\ row' = [row EXCEPT ![r] = a]
    /\ Goto(r, q)
    /\ UNCHANGED <<fixed, content, campaign, token, provider, used, new, at,
                   tries, seen, shown, disconnected>>

PublishBegin(r, a) == Begin(r, "publish", "load", a) /\ UNCHANGED due

MetricsBegin(r, m) ==
    /\ due' = due \ {m}
    /\ Begin(r, "metrics", "token", m.row)

ConnectBegin(r) == Begin(r, "connect", "exchange", 0) /\ UNCHANGED due

-----------------------------------------------------------------------------
(* An attempt ends, and with it what it had in memory.                       *)
Forget(r) ==
    /\ used' = [used EXCEPT ![r] = 0]
    /\ new' = [new EXCEPT ![r] = 0]
    /\ at' = [at EXCEPT ![r] = 0]
    /\ seen' = [seen EXCEPT ![r] = Unseen]

(* An exception that leaves a task makes Celery run it again, from its       *)
(* start, up to its max_retries.                                             *)
Tries_twice(r) == [tries EXCEPT ![r] = @ + 2]
Tries(r) == [tries EXCEPT ![r] = @ + 1]

Restart(r) == IF kind[r] = "publish" THEN "load" ELSE "token"

Finish(r) ==
    /\ Goto(r, "ended")
    /\ Forget(r)
    /\ kind' = [kind EXCEPT ![r] = "none"]
    /\ row' = [row EXCEPT ![r] = 0]
    /\ tries' = [tries EXCEPT ![r] = 0]

Raised(r) ==
    \/ /\ tries[r] < MaxRetries
       /\ tries' = Tries(r)
       /\ Goto(r, Restart(r))
       /\ Forget(r)
       /\ UNCHANGED <<kind, row>>
    \/ /\ tries[r] = MaxRetries
       /\ Finish(r)

(* A failure on the way to the token: publish_post catches it and answers a  *)
(* summary without touching the content row, collect_metrics raises it.      *)
GiveUp(r) == IF kind[r] = "metrics" THEN Raised(r) ELSE Finish(r)

(* The exceptions outside the try block of publish_post, and a message that  *)
(* cannot be dispatched.                                                     *)
Fail(r) ==
    /\ pc[r] \in {"load", "published", "failed", "dispatch"}
    /\ Raised(r)
    /\ UNCHANGED <<fixed, content, campaign, token, provider, due, shown,
                   disconnected>>

(* A platform that rotates answers a new refresh token and drops the old     *)
(* one; the others answer none, and the code keeps the one it had.           *)
Replaced(t) == IF rotates THEN {t} ELSE {}

(* A token the platform answered and nobody stored leaves a dead one in the  *)
(* row.                                                                      *)
Crash(r) ==
    /\ pc[r] \in Running
    /\ Finish(r)
    /\ lost' = lost \cup IF pc[r] = "store" THEN Replaced(used[r]) ELSE {}
    /\ UNCHANGED <<fixed, content, campaign, token, issued, spent, due, shown,
                   disconnected>>

-----------------------------------------------------------------------------
(* publish_post reads the content row, its campaign and the account, then    *)
(* the publisher checks them. A row that is missing raises.                  *)
Publishable_anyCampaign == post = "approved"
Publishable == post = "approved" /\ campaign = "active"

Load(r) ==
    /\ pc[r] = "load" /\ post # "gone" /\ row[r] = account /\ Publishable
    /\ seen' = [seen EXCEPT ![r] =
                   [fit |-> post = "approved" /\ campaign = "active",
                    late |-> settled]]
    /\ Goto(r, "token")
    /\ UNCHANGED <<fixed, content, campaign, token, provider, due, kind, row,
                   used, new, at, tries, shown, disconnected>>

Blocked(r) ==
    /\ pc[r] = "load" /\ post # "gone" /\ row[r] = account /\ ~Publishable
    /\ Finish(r)
    /\ UNCHANGED <<fixed, content, campaign, token, provider, due, shown,
                   disconnected>>

-----------------------------------------------------------------------------
(* get_valid_token, then refresh_platform_token, which reads the row again.  *)
ReadOnly == UNCHANGED <<fixed, content, campaign, token, provider, due, kind,
                        row, new, at, tries, seen, shown, disconnected>>

TokenRead(r) ==
    /\ pc[r] = "token" /\ account = row[r] /\ ~migrated
    /\ Goto(r, IF expiry = "soon" THEN "refresh" ELSE "call")
    /\ UNCHANGED used /\ ReadOnly

RefreshRead(r) ==
    /\ pc[r] = "refresh" /\ account = row[r] /\ stored # 0
    /\ used' = [used EXCEPT ![r] = stored]
    /\ Goto(r, "ask") /\ ReadOnly

(* No row, no refresh token, no usable column; the database, the network or  *)
(* the platform fails.                                                       *)
TokenFails(r) ==
    /\ pc[r] \in {"token", "refresh", "ask"}
    /\ GiveUp(r)
    /\ UNCHANGED <<fixed, content, campaign, token, provider, due, shown,
                   disconnected>>

Ask(r) ==
    /\ pc[r] = "ask" /\ used[r] \notin spent
    /\ issued' = IF rotates THEN issued + 1 ELSE issued
    /\ spent' = spent \cup Replaced(used[r])
    /\ new' = [new EXCEPT ![r] = IF rotates THEN issued + 1 ELSE used[r]]
    /\ Goto(r, "store")
    /\ UNCHANGED <<fixed, content, campaign, token, lost, due, kind, row, used,
                   at, tries, seen, shown, disconnected>>

(* The platform replaced the token, its answer never arrived.                *)
AnswerLost(r) ==
    /\ pc[r] = "ask" /\ used[r] \notin spent
    /\ GiveUp(r)
    /\ issued' = IF rotates THEN issued + 1 ELSE issued
    /\ spent' = spent \cup Replaced(used[r])
    /\ lost' = lost \cup Replaced(used[r])
    /\ UNCHANGED <<fixed, content, campaign, token, due, shown, disconnected>>

(* UPDATE ... WHERE id = :id: nothing when the account has gone meanwhile;   *)
(* the run goes on with its token all the same.                              *)
RowAfterUpdate_upsert(r) == row[r]
RowAfterUpdate(r) == account

Fresh_old(r) == used[r]
Fresh(r) == new[r]

Store(r, e) ==
    /\ pc[r] = "store"
    /\ account' = RowAfterUpdate(r)
    /\ stored' = IF account = row[r] THEN Fresh(r) ELSE stored
    /\ expiry' = IF account = row[r] THEN e ELSE expiry
    /\ Goto(r, "call")
    /\ used' = [used EXCEPT ![r] = 0]
    /\ new' = [new EXCEPT ![r] = 0]
    /\ UNCHANGED <<fixed, content, campaign, lastId, provider, due, kind, row,
                   at, tries, seen, shown, disconnected>>

StoreFails(r) ==
    /\ pc[r] = "store"
    /\ GiveUp(r)
    /\ lost' = lost \cup Replaced(used[r])
    /\ UNCHANGED <<fixed, content, campaign, token, issued, spent, due, shown,
                   disconnected>>

-----------------------------------------------------------------------------
(* The publisher's requests. X shows the first tweet of a thread at once;    *)
(* TikTok publishes what was uploaded even when the polling gives up.        *)
Publication(r) == [run |-> r, try |-> tries[r], fit |-> seen[r].fit,
                   late |-> seen[r].late]

Shows(r) == at[r] + 1 = Showing[platform]

Publishing(r) == pc[r] = "call" /\ kind[r] = "publish"

LastRequest_shown(r) == Shows(r)
LastRequest(r) == at[r] + 1 = Requests[platform]

AfterLast == "published"

Call(r) ==
    /\ Publishing(r)
    /\ at' = [at EXCEPT ![r] = @ + 1]
    /\ live' = IF Shows(r) THEN live \cup {Publication(r)} ELSE live
    /\ whole' = IF at[r] + 1 = Requests[platform]
                THEN whole \cup {[run |-> r, try |-> tries[r]]} ELSE whole
    /\ Goto(r, IF LastRequest(r) THEN AfterLast ELSE "call")
    /\ UNCHANGED <<fixed, content, campaign, token, provider, due, kind, row,
                   used, new, tries, seen, disconnected>>

(* A request that fails, for the code: the platform may have carried it out. *)
CallFails(r, done) ==
    /\ Publishing(r)
    /\ live' = IF done /\ Shows(r) THEN live \cup {Publication(r)} ELSE live
    /\ Goto(r, "failed")
    /\ UNCHANGED <<fixed, content, campaign, token, provider, due, kind, row,
                   used, new, at, tries, seen, whole, disconnected>>

(* The outcome is one more UPDATE, whatever the status is by then.           *)
Outcome_again(s) == IF s = "failed" THEN "approved" ELSE s
Outcome(s) == s

Mark(s) ==
    /\ recordable
    /\ post' = IF post = "gone" THEN post ELSE Outcome(s)
    /\ settled' = TRUE
    /\ UNCHANGED <<fixed, campaign, token, provider, due, shown, disconnected>>

MarkPublished(r) ==
    /\ pc[r] = "published"
    /\ Mark("published")
    /\ Goto(r, "dispatch")
    /\ UNCHANGED <<kind, row, used, new, at, tries, seen>>

MarkFailed(r) == pc[r] = "failed" /\ Mark("failed") /\ Finish(r)

Dispatch(r) ==
    /\ pc[r] = "dispatch"
    /\ due' = due \cup {[run |-> r, row |-> row[r]]}
    /\ Finish(r)
    /\ UNCHANGED <<fixed, content, campaign, token, provider, shown,
                   disconnected>>

(* collect_post_metrics swallows every error and stores nothing.             *)
Collect(r) ==
    /\ pc[r] = "call" /\ kind[r] = "metrics"
    /\ Finish(r)
    /\ UNCHANGED <<fixed, content, campaign, token, provider, due, shown,
                   disconnected>>

-----------------------------------------------------------------------------
(* The OAuth callback. On X the authorization promises a PKCE verifier that  *)
(* is never kept, so the exchange is refused.                                *)
Exchange(r, refreshable) ==
    /\ pc[r] = "exchange" /\ platform # "x"
    /\ issued' = IF refreshable THEN issued + 1 ELSE issued
    /\ new' = [new EXCEPT ![r] = IF refreshable THEN issued + 1 ELSE 0]
    /\ Goto(r, "persist")
    /\ UNCHANGED <<fixed, content, campaign, token, spent, lost, due, kind, row,
                   used, at, tries, seen, shown, disconnected>>

(* INSERT ... ON CONFLICT DO UPDATE.                                         *)
Persist(r, e) ==
    /\ pc[r] = "persist" /\ ~migrated
    /\ lastId' = IF account = 0 THEN lastId + 1 ELSE lastId
    /\ account' = lastId'
    /\ stored' = new[r]
    /\ expiry' = e
    /\ Finish(r)
    /\ UNCHANGED <<fixed, content, campaign, provider, due, shown, disconnected>>

ConnectFails(r) ==
    /\ pc[r] \in {"exchange", "persist"}
    /\ Finish(r)
    /\ UNCHANGED <<fixed, content, campaign, token, provider, due, shown,
                   disconnected>>

-----------------------------------------------------------------------------
(* Disconnecting deletes the row and tells the platform nothing.             *)
Others == UNCHANGED <<fixed, provider, due, kind, pc, row, used, new, at, tries,
                      seen, shown, settled>>

Disconnect ==
    /\ account # 0
    /\ account' = 0
    /\ disconnected' = disconnected \cup {account}
    /\ UNCHANGED <<post, campaign, lastId, stored, expiry>> /\ Others

(* Time passes; the campaign is launched, paused or deleted by its routes.   *)
Age ==
    /\ expiry = "later" /\ expiry' = "soon"
    /\ UNCHANGED <<post, campaign, account, lastId, stored, disconnected>> /\ Others

CampaignChange(s) ==
    /\ campaign' = s
    /\ UNCHANGED <<post, token, disconnected>> /\ Others

CampaignDelete ==
    /\ post' = "gone"
    /\ UNCHANGED <<campaign, token, disconnected>> /\ Others

-----------------------------------------------------------------------------
Arrive(r) == \/ \E a \in 1..lastId : PublishBegin(r, a)
             \/ \E m \in due : MetricsBegin(r, m)
             \/ ConnectBegin(r)

Progress(r) ==
    \/ Load(r) \/ Blocked(r) \/ Fail(r)
    \/ TokenRead(r) \/ RefreshRead(r) \/ TokenFails(r) \/ Ask(r) \/ AnswerLost(r)
    \/ \E e \in {"null", "later"} : Store(r, e) \/ Persist(r, e)
    \/ StoreFails(r)
    \/ Call(r) \/ (\E done \in BOOLEAN : CallFails(r, done)) \/ Collect(r)
    \/ MarkPublished(r) \/ MarkFailed(r) \/ Dispatch(r)
    \/ (\E b \in BOOLEAN : Exchange(r, b)) \/ ConnectFails(r)

Next == \/ \E r \in Runs : Arrive(r) \/ Progress(r) \/ Crash(r)
        \/ Disconnect \/ Age \/ CampaignDelete
        \/ \E s \in {"active", "other"} : CampaignChange(s)

Spec == Init /\ [][Next]_vars

-----------------------------------------------------------------------------
(* The variables keep their types.                                           *)
TypeOK ==
    /\ migrated \in BOOLEAN /\ recordable \in BOOLEAN
    /\ platform \in Platforms /\ rotates \in BOOLEAN
    /\ post \in {"unset", "draft", "approved", "published", "failed", "gone"}
    /\ campaign \in {"active", "other"}
    /\ lastId \in Nat /\ account \in {0, lastId}
    /\ issued \in Nat /\ stored \in 0..issued /\ spent \subseteq 1..issued
    /\ expiry \in {"null", "later", "soon"}
    /\ lost \subseteq 1..issued
    /\ due \subseteq [run : Runs, row : Nat]
    /\ kind \in [Runs -> {"none", "publish", "metrics", "connect"}]
    /\ pc \in [Runs -> {"idle", "ended"} \cup Running]
    /\ row \in [Runs -> Nat]
    /\ used \in [Runs -> 0..issued]
    /\ new \in [Runs -> 0..issued]
    /\ at \in [Runs -> Nat]
    /\ tries \in [Runs -> 0..MaxRetries]
    /\ seen \in [Runs -> [fit : BOOLEAN, late : BOOLEAN]]
    /\ live \subseteq [run : Runs, try : Nat, fit : BOOLEAN, late : BOOLEAN]
    /\ whole \subseteq [run : Runs, try : Nat]
    /\ settled \in BOOLEAN
    /\ disconnected \subseteq 1..lastId

(* Nothing appears on the platform but by an attempt that found the post     *)
(* approved and its campaign active when it began: a retry reads them again. *)
PublishedWhenApproved == \A l \in live : l.fit

(* Once an attempt has recorded how it ended, whichever it was, no attempt   *)
(* that begins later publishes the post: a second publication needs runs     *)
(* that overlap, or an outcome that was never recorded.                      *)
SettledIsFinal == \A l \in live : ~l.late

(* A post is recorded as published only when all of it, every tweet of a     *)
(* thread included, was accepted in one attempt.                             *)
PublishedIsWhole == post = "published" => whole # {}

(* Where the UPDATE of an outcome does not run, the metrics of a post are    *)
(* never asked for either, and its row stays as it was, however often it     *)
(* appears on the platform: the task counts on what it has recorded.         *)
UnrecordedUnmeasured ==
    ~recordable => due = {} /\ post \notin {"published", "failed"}

(* The refresh token of a connected account is dead at the platform only     *)
(* while a run brings its replacement, or when that replacement was lost:    *)
(* runs that refresh and connect side by side never store a used one.        *)
RowRefreshable ==
    account # 0 /\ stored \in spent =>
        \/ stored \in lost
        \/ \E r \in Runs : pc[r] = "store" /\ used[r] = stored /\ row[r] = account

(* No run that still holds a token of a disconnected account brings its row  *)
(* back.                                                                     *)
DisconnectIsFinal == account \notin disconnected

(* What the proofs need besides: a run that is past its checks has seen the  *)
(* row as it is before any outcome; an outcome is never undone; a run that   *)
(* reports success has had every request answered.                           *)
SeenFit ==
    \A r \in Runs : kind[r] = "publish" /\ pc[r] \in TokenSteps \cup {"call"}
        => seen[r].fit /\ ~seen[r].late

SettledStatus == settled => post \in {"published", "failed", "gone"}

SuccessIsWhole == \A r \in Runs : pc[r] = "published" => whole # {}

DispatchRecorded == ~recordable => \A r \in Runs : pc[r] # "dispatch"

(* And of the tokens of a platform that rotates: what a run brings is known  *)
(* to it alone, what a run has presented is spent, and a run presents the    *)
(* token of the row in force only if it works for that row.                  *)
NothingSpent == ~rotates => spent = {}

Presented ==
    \A r \in Runs :
        /\ pc[r] \in {"ask", "store"} => used[r] # 0
        /\ rotates /\ pc[r] = "store" => used[r] \in spent

Brings(r, n) == pc[r] \in {"store", "persist"} /\ new[r] = n /\ n # 0

NewIsPrivate ==
    rotates => \A r \in Runs, n \in 1..issued : Brings(r, n) =>
        /\ n \notin spent /\ n # stored
        /\ \A q \in Runs : /\ pc[q] = "ask" => used[q] # n
                           /\ Brings(q, n) => q = r

OwnRow ==
    rotates /\ account # 0 => \A r \in Runs :
        pc[r] \in {"ask", "store"} /\ used[r] = stored => row[r] = account

SocialInv ==
    /\ TypeOK /\ PublishedWhenApproved /\ SettledIsFinal /\ PublishedIsWhole
    /\ RowRefreshable /\ DisconnectIsFinal
    /\ SeenFit /\ SettledStatus /\ SuccessIsWhole
    /\ NothingSpent /\ Presented /\ NewIsPrivate /\ OwnRow
=============================================================================
