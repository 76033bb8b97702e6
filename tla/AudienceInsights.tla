---------------------------- MODULE AudienceInsights ----------------------------
(***************************************************************************)
(* Engagement, price and posting times of an account: for a connected       *)
(* account from what its platform answers, for an influencer from figures   *)
(* that are typed in. Rates are fractions num / den; a price is counted in  *)
(* millionths of a euro before its margins. The rounding of rates to four   *)
(* digits and of prices to cents is left out.                              *)
(***************************************************************************)
EXTENDS Tasks, Integers

CONSTANTS
    Accounts,       \* rows of social_accounts, with what their platform knows
    Influencers     \* figures that may be typed in

Platforms == {"instagram", "tiktok", "youtube", "x", "linkedin"}
Figures(followers, likes, comments, views) ==
    [followers |-> followers, likes |-> likes, comments |-> comments, views |-> views]
NoFigures == Figures(0, 0, 0, 0)
FigureRows == [followers : Nat, likes : Nat, comments : Nat, views : Nat]
TypedRows == [followers : Int, likes : Int, comments : Int, views : Int]

(* What a platform answers are counts; the route of the typed figures takes  *)
(* any number.                                                               *)
ASSUME InsightConstants ==
    (\A a \in Accounts : a.figures \in FigureRows) /\ \A i \in Influencers : i.figures \in TypedRows
OrOne(n) == IF n = 0 THEN 1 ELSE n

(* get_platform_stats: what each analyzer keeps of the answer. The number of *)
(* views comes from YouTube only, that of likes from Instagram only.         *)
Stats(p, f) ==
    CASE p = "instagram" -> Figures(OrOne(f.followers), f.likes, f.comments, 0)
      [] p \in {"tiktok", "x"} -> Figures(OrOne(f.followers), 0, 0, 0)
      [] p = "youtube" -> Figures(OrOne(f.followers), 0, 0, f.views)
      [] OTHER -> NoFigures

(* calculate_engagement_rate: what the rate is a share of; zero, or a        *)
(* platform it has no formula for, raises. No caller passes impressions.     *)
Audience(p, f) ==
    CASE p = "instagram" -> f.followers
      [] p \in {"tiktok", "youtube"} -> f.views
      [] OTHER -> 0
Rateable(p, f) == Audience(p, f) # 0

Rate(p, f) == [num |-> f.likes + f.comments, den |-> Audience(p, f)]
AtLeast(r, percent) == IF r.den > 0 THEN r.num * 100 >= percent * r.den ELSE r.num * 100 <= percent * r.den

Excellent == [instagram |-> 6, tiktok |-> 8, youtube |-> 5, x |-> 3]
Good == [instagram |-> 3, tiktok |-> 4, youtube |-> 2, x |-> 1]
EngagementTier(p, r) ==
    IF AtLeast(r, Excellent[p]) THEN "excellent" ELSE IF AtLeast(r, Good[p]) THEN "good" ELSE "low"

(* The rate pays: hundredths.                                                *)
Bonus(r) == IF AtLeast(r, 8) THEN 150 ELSE IF AtLeast(r, 5) THEN 125
            ELSE IF AtLeast(r, 3) THEN 110 ELSE 100

(* Euros for a thousand followers, of a post or, where there is one and an   *)
(* influencer is asked for it, of a video; tenths for the niche.             *)
PostCpm == [instagram |-> 10, tiktok |-> 12, youtube |-> 8, x |-> 4, linkedin |-> 10]
VideoCpm == [tiktok |-> 16, youtube |-> 20]
Cpm(p, video) == IF video /\ p \in DOMAIN VideoCpm THEN VideoCpm[p] ELSE PostCpm[p]
NicheMultiplier == [finance |-> 30, tech |-> 25, beauty |-> 18, gaming |-> 15, food |-> 13, general |-> 10]
Price(p, f, r, niche, video) ==
    LET base == f.followers * Cpm(p, video) * Bonus(r)
                * (IF niche \in DOMAIN NicheMultiplier THEN NicheMultiplier[niche] ELSE 10)
    IN [least |-> 8 * base, most |-> 15 * base]

(* get_best_posting_times: the five best of the windows of the platform.     *)
Windows == [instagram |-> 6, tiktok |-> 6, youtube |-> 4, x |-> 4, linkedin |-> 4]
TopTimes(p) == IF p \notin DOMAIN Windows THEN 0 ELSE IF Windows[p] > 5 THEN 5 ELSE Windows[p]

Insight(p, f, niche, video) ==
    LET r == Rate(p, f)
    IN [tier |-> EngagementTier(p, r), bonus |-> Bonus(r), rate |-> r,
        price |-> Price(p, f, r, niche, video), times |-> TopTimes(p)]

----------------------------------------------------------------------------
\* A connected account

AccountRead(c) ==
    /\ kind[c] = "account" /\ given[c].known
    /\ Produce(c, "reading", "asking", NoFigures)

AccountMissing(c) ==
    /\ kind[c] = "account"
    /\ (~given[c].known /\ Raise(c, "reading")) \/ Outage(c, "reading")

(* The platform answers. A row without access_token_enc, which no migration  *)
(* gives it, is a KeyError that the analyzer turns into zeros, as it does    *)
(* with any trouble of the platform.                                         *)
PlatformAnswers(c) ==
    Produce(c, "asking", "rating",
            IF given[c].tokened THEN Stats(given[c].platform, given[c].figures) ELSE NoFigures)

PlatformDown(c) ==
    /\ Step(c, "asking", "rating")
    /\ made' = [made EXCEPT ![c] = NoFigures]
    /\ trouble' = [trouble EXCEPT ![c] = TRUE]
    /\ UNCHANGED <<try, given>>

AccountRated(c) ==
    /\ pc[c] = "rating" /\ Rateable(given[c].platform, made[c])
    /\ Produce(c, "rating", "storing", Insight(given[c].platform, made[c], given[c].niche, FALSE))

AccountUnrated(c) ==
    /\ pc[c] = "rating" /\ ~Rateable(given[c].platform, made[c])
    /\ Escape(c, "rating")
    /\ UNCHANGED <<given, made, trouble>>

(* _persist_insights names a column that influencer_analyses does not have,  *)
(* and gives no id: the statement never succeeds.                            *)
InsightRefused(c) == Raise(c, "storing") \/ Outage(c, "storing")

----------------------------------------------------------------------------
\* An influencer

InfluencerRated(c) ==
    /\ kind[c] = "influencer" /\ Rateable(given[c].platform, given[c].figures)
    /\ Produce(c, "reading", "ok", Insight(given[c].platform, given[c].figures, given[c].niche, TRUE))

InfluencerUnrated(c) ==
    /\ kind[c] = "influencer" /\ ~Rateable(given[c].platform, given[c].figures)
    /\ Raise(c, "reading")

InsightBegins(c) ==
    \/ MayBegin(c, "account") /\ \E a \in Accounts : Ask(c, "account", a)
    \/ MayBegin(c, "influencer") /\ \E i \in Influencers : Ask(c, "influencer", i)

InsightSteps(c) ==
    \/ AccountRead(c) \/ AccountMissing(c) \/ PlatformAnswers(c) \/ PlatformDown(c)
    \/ AccountRated(c) \/ AccountUnrated(c) \/ InsightRefused(c)
    \/ InfluencerRated(c) \/ InfluencerUnrated(c)

(* An excellent account is paid a bonus: the benchmarks of every platform    *)
(* and the bonus steps agree, whatever was typed. The margins of a price are *)
(* in order unless there are fewer than no followers, which turn them round  *)
(* (engagement_calc.py:18-40, pricing_calc.py:48-96).                        *)
InsightSound(c) ==
    kind[c] \in {"account", "influencer"} /\ pc[c] \in {"storing", "ok"} =>
        /\ made[c].tier = "excellent" => made[c].bonus > 100
        /\ AtLeast(made[c].rate, 8) => made[c].bonus = 150
        /\ IF kind[c] = "influencer" /\ given[c].figures.followers < 0
           THEN made[c].price.most < made[c].price.least
           ELSE made[c].price.least <= made[c].price.most

InsightsSound == \A c \in Calls : InsightSound(c)
=============================================================================
