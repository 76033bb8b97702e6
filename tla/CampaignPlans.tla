------------------------------- MODULE CampaignPlans -------------------------------
(***************************************************************************)
(* From a prompt to a plan: the model's reading of the prompt, the          *)
(* questions that a vague one is answered with, the editorial calendar; and *)
(* the library that builds context, services and posts out of an intent.    *)
(* Times are hours; hour 0 is a midnight.                                  *)
(***************************************************************************)
EXTENDS Tasks, Integers, Sequences, SequencesExt

CONSTANTS
    Replies,    \* what the model may answer to a prompt
    Briefs,     \* [project, words, platform, objective, days, budget, text, trending]
    Hours       \* hours of the day at which a plan is made

Members(s) == {s[i] : i \in DOMAIN s}
IsList(s) == s \in Seq(Members(s))

(* int() reads the days of a reply (intent_parser.py:306-335); below one     *)
(* there is no post.                                                        *)
ASSUME PlanConstants ==
    /\ Hours \subseteq 0..23
    /\ \A r \in Replies : r.days \in Int /\ IsList(r.extracted)
    /\ \A b \in Briefs : b.days \in Int /\ IsList(b.trending)

----------------------------------------------------------------------------
\* parse_intent

MinExtracted == 3
Clarified == {"product_description", "platform", "objective", "audience_age", "audience_gender"}

(* A reply is [form, platform, days, nulls, extracted]; a field that it does *)
(* not have has the default already, one in nulls is there and null.         *)
Usable(r) == r.form = "object" /\ r.nulls \cap {"days", "budget", "extracted"} = {}

Intent(r) ==
    [is |-> "intent", platform |-> IF "platform" \in r.nulls THEN "None" ELSE r.platform, days |-> r.days]

(* Names are counted as often as they are listed.                            *)
Vague(r) == Len(r.extracted) < MinExtracted
Questions(r) == Clarified \ Members(r.extracted)

PromptBlank(c) ==
    /\ kind[c] = "plan" /\ given[c].blank
    /\ Raise(c, "reading")

(* Ten seconds without an answer, or an error of the client.                 *)
ModelSilent(c) ==
    /\ kind[c] = "plan" /\ ~given[c].blank
    /\ Outage(c, "reading")

(* Empty, no JSON, no object; or a null where a number or a list is wanted.  *)
ReplyUnusable(c) ==
    /\ kind[c] = "plan" /\ ~given[c].blank
    /\ \E r \in Replies : ~Usable(r)
    /\ Raise(c, "reading")

ReplyVague(c) ==
    /\ kind[c] = "plan" /\ ~given[c].blank
    /\ \E r \in Replies :
           /\ Usable(r) /\ Vague(r)
           /\ Produce(c, "reading", "ok", [is |-> "questions", asked |-> Questions(r)])

ReplyUnderstood(c) ==
    /\ kind[c] = "plan" /\ ~given[c].blank
    /\ \E r \in Replies :
           /\ Usable(r) /\ ~Vague(r)
           /\ Produce(c, "reading", "planning", Intent(r))

----------------------------------------------------------------------------
\* _build_editorial_calendar, with the hours of _analyze_audience_data

OrDefault(table, x, default) == IF x \in DOMAIN table THEN table[x] ELSE default
PostsPerDay(p) == OrDefault([tiktok |-> 2, x |-> 3], p, 1)
BestTimes(p) ==
    OrDefault([instagram |-> <<7, 12, 18>>, tiktok |-> <<6, 14, 19>>,
               youtube |-> <<9, 15, 20>>, x |-> <<8, 12, 17>>], p, <<9, 18>>)

(* Post i of the plan: counted from now, not from a midnight. Without days   *)
(* there are no posts.                                                      *)
TimeOf(p, i) == BestTimes(p)[((i % PostsPerDay(p)) % Len(BestTimes(p))) + 1]
Calendar(t, now) ==
    [n \in 1..(t.days * PostsPerDay(t.platform)) |->
        now + 24 * ((n - 1) \div PostsPerDay(t.platform) + 1) + TimeOf(t.platform, n - 1)]

CalendarBuilt(c) ==
    /\ kind[c] = "plan"
    /\ LET t == made[c]
       IN Produce(c, "planning", "ok",
                  [is |-> "calendar", of |-> Calendar(t, given[c].at), days |-> t.days])

----------------------------------------------------------------------------
\* ContextBuilder, ExecutionPlanner, CampaignBuilder

Tones == <<"luxury", "playful", "energetic", "inspirational", "professional", "sustainable", "innovative">>

(* The first tone in this order that a word of the description calls for.    *)
ToneOf(words) ==
    IF Members(Tones) \cap words = {} THEN "professional"
    ELSE Tones[CHOOSE i \in DOMAIN Tones :
                  Tones[i] \in words /\ \A j \in 1..(i - 1) : Tones[j] \notin words]

If(b, s) == IF b THEN <<s>> ELSE <<>>
Services(b) ==
    <<"bs_ai_text">> \o If(b.platform \in {"tiktok", "youtube"}, "bs_ai_video")
    \o <<"bs_ai_image", "bs_scheduling">>
    \o If(b.budget > 0, "bs_influencer_match")
    \o If(b.objective \in {"conversion", "traffic"}, "bs_ads_targeting")
    \o <<"bs_hashtag_research">>
Seconds(services) ==
    FoldLeft(LAMBDA n, s : n + OrDefault([bs_ai_text |-> 8, bs_ai_image |-> 15, bs_ai_video |-> 25,
                 bs_scheduling |-> 3, bs_hashtag_research |-> 4], s, 5), 5, services)

Rules(chars, tags, hours) == [chars |-> chars, tags |-> tags, hours |-> hours]
RulesOf(p) ==
    OrDefault([instagram |-> Rules(2200, 30, <<8, 12, 18>>), tiktok |-> Rules(2200, 20, <<7, 15, 21>>),
               youtube |-> Rules(5000, 15, <<14, 17>>), x |-> Rules(280, 5, <<9, 13, 17>>),
               linkedin |-> Rules(3000, 10, <<8, 12, 17>>), facebook |-> Rules(63206, 10, <<9, 13, 19>>)],
              p, Rules(2200, 20, <<9, 15>>))

(* Tomorrow is the first day; the best hours of each in their order.         *)
Schedule(b) ==
    LET k == PostsPerDay(b.platform)
    IN [n \in 1..(b.days * k) |->
           24 * ((n - 1) \div k + 1) + RulesOf(b.platform).hours[((n - 1) % k) + 1]]

(* The n-th place of a set of places.                                        *)
Nth(places, n) == CHOOSE i \in places : Cardinality({j \in places : j < i}) = n - 1

(* Tags lose what is not alphanumeric, then duplicates.                      *)
Hashtags(b) ==
    LET all == <<b.platform, b.objective, "brandscale", "marketing">> \o b.trending
        New(i) == all[i] # "" /\ \A j \in 1..(i - 1) : all[j] # all[i]
        kept == {i \in DOMAIN all : New(i)}
    IN [n \in (1..Cardinality(kept)) \cap (1..RulesOf(b.platform).tags) |-> all[Nth(kept, n)]]

(* A caption is as long as its text, cut at the platform's limit.            *)
Caption(b) == IF b.text > RulesOf(b.platform).chars THEN RulesOf(b.platform).chars ELSE b.text

BriefRefused(c) ==
    /\ kind[c] = "build" /\ given[c].project \in {"missing", "archived"}
    /\ Raise(c, "reading")

PlanBuilt(c) ==
    /\ kind[c] = "build" /\ given[c].project = "live"
    /\ LET b == given[c]
       IN Produce(c, "reading", "ok",
              [is |-> "posts", tone |-> ToneOf(b.words), services |-> Services(b),
               seconds |-> Seconds(Services(b)), tags |-> Hashtags(b), of |-> Schedule(b),
               chars |-> Caption(b)])

PlanBegins(c) ==
    \/ \E b \in BOOLEAN, h \in Hours : Ask(c, "plan", [blank |-> b, at |-> h])
    \/ MayBegin(c, "build") /\ \E b \in Briefs : Ask(c, "build", b)

PlanSteps(c) ==
    \/ PromptBlank(c) \/ ModelSilent(c) \/ ReplyUnusable(c) \/ ReplyVague(c) \/ ReplyUnderstood(c)
    \/ CalendarBuilt(c) \/ BriefRefused(c) \/ PlanBuilt(c)

(* A vague prompt is always asked about, three questions at least.           *)
AskedBack(x) == x.is = "questions" => Cardinality(x.asked) >= Cardinality(Clarified) - MinExtracted + 1

(* No two posts of a plan fall together or out of order, none is due before  *)
(* a day has passed, or the day is over, and every day of the campaign has   *)
(* posts. The worker counts days and hours from the present hour, so its     *)
(* posts fall at the best hours only for a plan made at midnight             *)
(* (worker.py:188-193, campaign_builder.py:234-245).                         *)
InOrder(s) == \A i, j \in DOMAIN s : i < j => s[i] < s[j]
CalendarSound(now, x) ==
    x.is = "calendar" =>
        /\ InOrder(x.of) /\ \A n \in DOMAIN x.of : x.of[n] > now + 24
        /\ \A n \in DOMAIN x.of : x.of[n] < now + 24 * (x.days + 1)
        /\ \A d \in 1..x.days : \E n \in DOMAIN x.of : (x.of[n] - now) \div 24 = d
PostsSound(b, x) ==
    x.is = "posts" =>
        /\ InOrder(x.of) /\ \A n \in DOMAIN x.of : x.of[n] >= 24
        /\ \A d \in 1..b.days : \E n \in DOMAIN x.of : x.of[n] \div 24 = d
        /\ IsInjective(x.tags)

PlansMeet ==
    \A c \in Calls :
        /\ kind[c] = "plan" /\ pc[c] = "ok" => AskedBack(made[c]) /\ CalendarSound(given[c].at, made[c])
        /\ kind[c] = "build" /\ pc[c] = "ok" => PostsSound(given[c], made[c])
=============================================================================
