------------------------------- MODULE CostLedger -------------------------------
(***************************************************************************)
(* The analytics rows, one per campaign and day, written by two sides: each *)
(* generation of text adds its cost to the row of today, and the nightly    *)
(* aggregation writes the statistics of yesterday for every active          *)
(* campaign in one transaction.                                            *)
(***************************************************************************)
EXTENDS ServiceCalls, Prompts, Integers

CONSTANTS
    Campaigns,
    OldRows,    \* those that have a row of day 0 at the start
    Requests,   \* what may be asked for
    MaxDay      \* bound: days 0..MaxDay

ASSUME LedgerConstants ==
    /\ MaxDay \in Nat /\ OldRows \subseteq Campaigns
    /\ \A r \in Requests : r.content \in TextKinds /\ r.campaign \in Campaigns
    /\ \A m \in Mixes : m.asks \subseteq Requests

VARIABLES
    day,        \* the date, UTC
    analytics,  \* campaign -> day -> the row, or NoRow
    cached,     \* Redis: cache key -> prompt the text there answers
    request,    \* what a generation was asked for
    served,     \* history: the prompt whose answer it returned
    onDay,      \* the date a call works on
    seen,       \* campaigns whose row a call's SELECT found
    batch,      \* campaigns of an aggregation
    todo        \* those it has still to read

ledgerVars == <<day, analytics, cached, request, served, onDay, seen, batch, todo>>
locals == <<request, served, onDay, seen, batch, todo>>

NoCampaign == "no campaign"
NoRequest == [content |-> "none", campaign |-> NoCampaign]
Template == <<"template">>      \* the text without a model
Row(cost, by) == [cost |-> cost, by |-> by]     \* by: whose statistics it has
NoRow == Row(0, -1)                             \* 0: of none of these calls
Days == 0..MaxDay
HasRow(g, d) == analytics[g][d] # NoRow

LedgerInit ==
    /\ day = 0
    /\ analytics = [g \in Campaigns |->
           [d \in Days |-> IF d = 0 /\ g \in OldRows THEN Row(0, 0) ELSE NoRow]]
    /\ cached = <<>>
    /\ request = [c \in Calls |-> NoRequest]
    /\ served = [c \in Calls |-> Template]
    /\ onDay = [c \in Calls |-> 0]
    /\ seen = [c \in Calls |-> {}]
    /\ batch = [c \in Calls |-> {}]
    /\ todo = [c \in Calls |-> {}]

----------------------------------------------------------------------------
\* Text generation

(* _get_cached finds a text: nothing is asked and nothing costs.             *)
TextHit(c, r) ==
    /\ r \in mix.asks /\ CacheKey(r) \in DOMAIN cached
    /\ Begin(c, "text", "ok")
    /\ request' = [request EXCEPT ![c] = r]
    /\ served' = [served EXCEPT ![c] = cached[CacheKey(r)]]
    /\ UNCHANGED <<day, analytics, cached, onDay, seen, batch, todo>>

(* No text there (any more), or Redis is away.                               *)
TextAsk(c, r) ==
    /\ r \in mix.asks
    /\ Begin(c, "text", "asked")
    /\ request' = [request EXCEPT ![c] = r]
    /\ UNCHANGED <<day, analytics, cached, served, onDay, seen, batch, todo>>

(* The tasks and routes of posts and ads name no campaign.                   *)
BookedOn(r) == IF r.content \in {"email", "newsletter", "video_script"} THEN r.campaign ELSE NoCampaign
Account(c) == BookedOn(request[c])

(* The model answers: the text is cached if Redis takes it, and an answer    *)
(* that costs something is booked when there is a campaign to book it on.    *)
TextAnswered(c) ==
    /\ \/ Step(c, "asked", "ok")
       \/ Account(c) # NoCampaign /\ Step(c, "asked", "priced")
    /\ cached' \in {cached, With(cached, CacheKey(request[c]), Prompt(request[c]))}
    /\ served' = [served EXCEPT ![c] = Prompt(request[c])]
    /\ UNCHANGED <<day, analytics, request, onDay, seen, batch, todo>>

(* The model fails: the local model or the template serves, uncached.        *)
TextFallback(c) ==
    /\ Step(c, "asked", "ok")
    /\ \E p \in {Prompt(request[c]), Template} : served' = [served EXCEPT ![c] = p]
    /\ UNCHANGED <<day, analytics, cached, request, onDay, seen, batch, todo>>

(* _accumulate_ai_cost: a SELECT, then UPDATE or INSERT and the commit.      *)
CostSelect(c) ==
    /\ Step(c, "priced", "booking")
    /\ onDay' = [onDay EXCEPT ![c] = day]
    /\ seen' = [seen EXCEPT ![c] = {g \in {Account(c)} : HasRow(g, day)}]
    /\ UNCHANGED <<day, analytics, cached, request, served, batch, todo>>

(* The row with one more cost. SQL adds to the column as it is now.          *)
CostAdded_absolute(c) ==
    IF seen[c] # {} THEN [analytics[Account(c)][onDay[c]] EXCEPT !.cost = 1] ELSE Row(1, 0)
CostAdded(c) ==
    IF seen[c] # {} THEN [analytics[Account(c)][onDay[c]] EXCEPT !.cost = @ + 1] ELSE Row(1, 0)

(* UPDATE binds an aware updated_at, INSERT meets the unique constraint.     *)
CostStored(c) == IF seen[c] # {} THEN aware ELSE ~HasRow(Account(c), onDay[c])

CostCommit(c) ==
    /\ Step(c, "booking", "recorded")
    /\ CostStored(c)
    /\ analytics' = [analytics EXCEPT ![Account(c)][onDay[c]] = CostAdded(c)]
    /\ UNCHANGED <<day, cached, locals>>

(* Refused, or the database fails: logged and swallowed, the text is served. *)
CostLost(c) ==
    /\ Step(c, "priced", "unrecorded") \/ Step(c, "booking", "unrecorded")
    /\ UNCHANGED ledgerVars

----------------------------------------------------------------------------
\* The aggregation of yesterday

(* act: the campaigns whose status is active at this moment.                 *)
Aggregate(c, act) ==
    /\ day > 0
    /\ Begin(c, "aggregate", "aggregating")
    /\ onDay' = [onDay EXCEPT ![c] = day - 1]
    /\ todo' = [todo EXCEPT ![c] = act]
    /\ batch' = [batch EXCEPT ![c] = act]
    /\ UNCHANGED <<day, analytics, cached, request, served, seen>>

AggregateRead(c, g) ==
    /\ g \in todo[c]
    /\ Step(c, "aggregating", "aggregating")
    /\ todo' = [todo EXCEPT ![c] = @ \ {g}]
    /\ seen' = [seen EXCEPT ![c] = @ \cup {h \in {g} : HasRow(h, onDay[c])}]
    /\ UNCHANGED <<day, analytics, cached, request, served, onDay, batch>>

Conflict(c) == \E g \in batch[c] \ seen[c] : HasRow(g, onDay[c])

(* One commit for all of them; the cost of a row that was there stays.       *)
Aggregated(c, g) ==
    IF g \in seen[c] THEN [analytics[g][onDay[c]] EXCEPT !.by = c] ELSE Row(0, c)

AggregateCommit(c) ==
    /\ todo[c] = {} /\ ~Conflict(c)
    /\ Step(c, "aggregating", "ok")
    /\ analytics' = [g \in Campaigns |->
           IF g \in batch[c] THEN [analytics[g] EXCEPT ![onDay[c]] = Aggregated(c, g)]
                           ELSE analytics[g]]
    /\ UNCHANGED <<day, cached, locals>>

(* One conflict, or one failing statement, and the day is lost for all.      *)
AggregateFails(c) ==
    /\ Step(c, "aggregating", "failed")
    /\ UNCHANGED ledgerVars

(* Midnight, where somebody looks at the date.                               *)
NextDay ==
    /\ day < MaxDay /\ mix.kinds \cap {"text", "aggregate"} # {}
    /\ day' = day + 1
    /\ UNCHANGED <<callVars, analytics, cached, locals>>

LedgerSteps(c) ==
    \/ TextAnswered(c) \/ TextFallback(c) \/ CostSelect(c) \/ CostCommit(c) \/ CostLost(c)
    \/ (\E g \in Campaigns : AggregateRead(c, g)) \/ AggregateCommit(c) \/ AggregateFails(c)

LedgerNext ==
    \/ \E c \in Calls :
           \/ \E r \in Requests : TextHit(c, r) \/ TextAsk(c, r)
           \/ \E act \in SUBSET Campaigns : Aggregate(c, act)
           \/ LedgerSteps(c)
    \/ NextDay

Booked(g, d) ==
    {c \in Calls : pc[c] = "recorded" /\ Account(c) = g /\ onDay[c] = d}

LedgerTypeOK ==
    /\ day \in Days
    /\ analytics \in [Campaigns -> [Days ->
           [cost : 0..MaxCalls, by : -1..MaxCalls]]]
    /\ \A k \in DOMAIN cached : cached[k][1] \in TextKinds
    /\ request \in [Calls -> Requests \cup {NoRequest}] /\ onDay \in [Calls -> Days]
    /\ {seen, batch, todo} \subseteq [Calls -> SUBSET Campaigns]

(* The cost of a row is what the calls that report it booked have booked,    *)
(* no more, no less, whatever generations and aggregations overlap           *)
(* (bs_ai_text/service.py:76-107, workflow.py:518-538).                      *)
CostConserved ==
    \A g \in Campaigns, d \in Days : analytics[g][d].cost = Cardinality(Booked(g, d))

(* An aggregation that succeeded has left statistics, its own or those of a  *)
(* later one, in the row of every campaign that was active when it began;    *)
(* one that failed has left none (workflow.py:473-538).                      *)
AggregationWhole ==
    \A c \in Calls :
        /\ kind[c] = "aggregate" /\ pc[c] = "ok" =>
              \A g \in batch[c] : analytics[g][onDay[c]].by \in Calls
        /\ pc[c] # "ok" =>
              \A g \in Campaigns, d \in Days : analytics[g][d].by # c

LedgerSound == CostConserved /\ AggregationWhole

(* What it takes: each side of the ledger moves its own calls, and a cost on *)
(* its way has a campaign to go to.                                          *)
LedgerRows ==
    /\ mix \in Mixes /\ day \in Days
    /\ analytics \in [Campaigns -> [Days -> [cost : Nat, by : -1..MaxCalls]]]
    /\ request \in [Calls -> Requests \cup {NoRequest}] /\ onDay \in [Calls -> Days]
    /\ {seen, batch, todo} \subseteq [Calls -> SUBSET Campaigns]
LedgerKinds ==
    \A c \in Calls :
        /\ pc[c] \in {"asked", "priced", "booking", "recorded"} => kind[c] = "text"
        /\ pc[c] = "aggregating" => kind[c] = "aggregate"
CostsDestined == \A c \in Calls : pc[c] \in {"priced", "booking"} => Account(c) \in Campaigns

LedgerInv == CallsTypeOK /\ LedgerRows /\ LedgerKinds /\ CostsDestined /\ LedgerSound

(* A text that is served, from the model or from Redis, answers the prompt   *)
(* of whoever gets it, or is the template; a script may be in the language   *)
(* of whoever asked for it first (bs_ai_text/service.py:278-428).            *)
TextsServed ==
    \A c \in Calls :
        kind[c] = "text" /\ pc[c] \in Ended /\ served[c] # Template =>
            About(served[c]) = About(Prompt(request[c]))

(* Why: what is under a key answers a prompt that has this key, and a call   *)
(* that has been served nothing yet has the template.                        *)
KeysAnswer == \A k \in DOMAIN cached : \E r \in Requests : k = CacheKey(r) /\ cached[k] = Prompt(r)
AskedTexts == \A c \in Calls : kind[c] = "text" => request[c] \in Requests
AnswersGiven ==
    \A c \in Calls :
        \/ served[c] = Template
        \/ kind[c] = "text" /\ About(served[c]) = About(Prompt(request[c]))

TextsInv == served = [c \in Calls |-> served[c]] /\ KeysAnswer /\ AskedTexts /\ AnswersGiven
=============================================================================
