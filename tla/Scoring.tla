--------------------------------- MODULE Scoring ---------------------------------
(***************************************************************************)
(* Scores of leads: four factors out of tables, weighted with the weights   *)
(* of the vertical (percentages here), rounded, and put in a tier. The      *)
(* weights that the feedback loop stores are asked for by project, and no   *)
(* caller names one: they never reach a score.                              *)
(***************************************************************************)
EXTENDS Tasks, Integers, Sequences

CONSTANTS
    ScoredLeads,    \* leads that may be scored
    Ranked,         \* lists that may be ranked
    RuledLeads      \* leads the point rules may be applied to

Counts(l) == {l.opens, l.clicks, l.visits}

(* The routes take any dictionary for a lead: its counters need not come     *)
(* from the database, where they start at zero and are only added to. Each   *)
(* is an integer of any sign, or the lead is not countable. A score that a   *)
(* lead to be ranked comes with is a number too.                             *)
ASSUME ScoringConstants ==
    /\ \A l \in ScoredLeads : Counts(l) \subseteq Int
    /\ \A s \in Ranked :
           /\ Len(s) \in Nat /\ DOMAIN s = 1..Len(s)
           /\ \A i \in DOMAIN s : s[i].score \in Int /\ Counts(s[i].lead) \subseteq Int

(* verticals/*/vertical.yaml; settings.active_vertical names one.            *)
Weighting(se, si, en, so, hot, warm) ==
    [sector |-> se, size |-> si, engagement |-> en, source |-> so, hot |-> hot, warm |-> warm]
Fallback == Weighting(25, 20, 35, 20, 70, 40)
Verticals ==
    [generic   |-> Fallback,
     compta    |-> Weighting(20, 35, 30, 15, 68, 40),
     esn       |-> Weighting(30, 30, 25, 15, 65, 42),
     formation |-> Weighting(20, 15, 45, 20, 65, 38),
     immo      |-> Weighting(10, 5, 50, 35, 65, 38),
     rh        |-> Weighting(15, 30, 40, 15, 62, 35)]

SectorScores == [saas |-> 100, fintech |-> 90, healthtech |-> 85, ecommerce |-> 80,
                 consulting |-> 70, retail |-> 60, other |-> 40]
SizeScores == [enterprise |-> 100, midmarket |-> 80, smb |-> 60, startup |-> 40, individual |-> 20]
SourceScores == [referral |-> 100, inbound |-> 85, linkedin |-> 75, webinar |-> 70,
                 coldoutreach |-> 50, ads |-> 40, other |-> 30]
Of(table, x, default) == IF x \in DOMAIN table THEN table[x] ELSE default

AtMost(x, m) == IF x > m THEN m ELSE x
Engagement_uncapped(l) == AtMost(l.opens, 10) * 4 + AtMost(l.clicks, 5) * 8 + AtMost(l.visits, 10) * 3
Engagement(l) ==
    AtMost(AtMost(l.opens, 10) * 4 + AtMost(l.clicks, 5) * 8 + AtMost(l.visits, 10) * 3, 100)

Factors(l) == [sector |-> Of(SectorScores, l.sector, 40), size |-> Of(SizeScores, l.size, 40),
               engagement |-> Engagement(l), source |-> Of(SourceScores, l.source, 30)]

(* round(), of either sign: to the nearest, a half to the even side.         *)
RoundedPercent(n) ==
    LET q == n \div 100  r == n % 100
    IN IF r > 50 \/ (r = 50 /\ q % 2 = 1) THEN q + 1 ELSE q

Score(l, w) ==
    LET f == Factors(l)
    IN RoundedPercent(f.sector * w.sector + f.size * w.size
                      + f.engagement * w.engagement + f.source * w.source)

Tier(s, w) == IF s >= w.hot THEN "hot" ELSE IF s >= w.warm THEN "warm" ELSE "cold"

(* improvement_hints of explain_score, which works from the same sum.        *)
Hints(l) ==
    LET f == Factors(l)
    IN {d \in {"engagement", "sector", "source"} : f[d] < (IF d = "sector" THEN 60 ELSE 50)}

Partial(l) == l.size = "" \/ (l.opens = 0 /\ l.clicks = 0)

(* Settings that cannot be read leave the weights, or the thresholds, at     *)
(* those of the generic vertical.                                            *)
Readable(c) == {Verticals[given[c].vertical], Fallback}

ScoreLead(c) ==
    /\ kind[c] = "score" /\ given[c].lead.countable
    /\ \E w, t \in Readable(c) :
           LET l == given[c].lead  s == Score(l, w)
           IN Produce(c, "reading", "ok",
                  [score |-> s, tier |-> Tier(s, t), hints |-> Hints(l), partial |-> Partial(l)])

ScoreRaises(c) ==
    /\ kind[c] = "score" /\ ~given[c].lead.countable
    /\ Raise(c, "reading")

(* rank_leads: a lead that has a score keeps it; a stable sort, best first.  *)
ScoreOf(x, w) == IF x.scored THEN x.score ELSE Score(x.lead, w)
Place(s, i) ==
    1 + Cardinality({j \in DOMAIN s : s[j] > s[i] \/ (s[j] = s[i] /\ j < i)})
Order(s) == [p \in DOMAIN s |-> CHOOSE i \in DOMAIN s : Place(s, i) = p]

RankLeads(c) ==
    /\ kind[c] = "rank"
    /\ \A i \in DOMAIN given[c].list : given[c].list[i].scored \/ given[c].list[i].lead.countable
    /\ \E w \in Readable(c) :
           LET s == [i \in DOMAIN given[c].list |-> ScoreOf(given[c].list[i], w)]
           IN Produce(c, "reading", "ok", [order |-> Order(s), scores |-> s])

RankRaises(c) ==
    /\ kind[c] = "rank"
    /\ \E i \in DOMAIN given[c].list : ~given[c].list[i].scored /\ ~given[c].list[i].lead.countable
    /\ Raise(c, "reading")

(* ScoringRules.apply: points and penalties, held between 0 and 60.          *)
Points(b, n) == IF b THEN n ELSE 0
RulePoints(l) ==
    LET gained == Points(l.verified, 15) + Points(l.optIn = "yes", 10) + Points(l.named, 10)
                  + Points(l.api, 10) + Points(l.ageDays <= 30, 5) + Points(l.opens >= 1, 10)
        lost == Points(l.unsubscribed \/ l.optIn = "no", 20) + Points(l.bounces >= 3, 10)
    IN IF gained < lost THEN 0 ELSE AtMost(gained - lost, 60)

ApplyRules(c) ==
    /\ kind[c] = "rules"
    /\ Produce(c, "reading", "ok", [points |-> RulePoints(given[c])])

ScoringBegins(c) ==
    \/ /\ MayBegin(c, "score")
       /\ \E v \in DOMAIN Verticals, l \in ScoredLeads : Ask(c, "score", [lead |-> l, vertical |-> v])
    \/ /\ MayBegin(c, "rank")
       /\ \E v \in DOMAIN Verticals, s \in Ranked : Ask(c, "rank", [list |-> s, vertical |-> v])
    \/ MayBegin(c, "rules") /\ \E l \in RuledLeads : Ask(c, "rules", l)

ScoringSteps(c) ==
    ScoreLead(c) \/ ScoreRaises(c) \/ RankLeads(c) \/ RankRaises(c) \/ ApplyRules(c)

(* No score is above a hundred under the weights of any vertical, none is    *)
(* below zero for a lead whose counters are counts, and whoever is cold is   *)
(* told something to improve, although the size of the company has no hint   *)
(* of its own (scoring service.py:178-268).                                  *)
ScoreSound(c) ==
    kind[c] = "score" =>
        /\ made[c].score <= 100
        /\ (\A n \in Counts(given[c].lead) : n >= 0) => made[c].score >= 0
        /\ made[c].tier = "cold" => made[c].hints # {}

(* A ranking lists every lead once, and nobody comes before a better one.    *)
RankSound(c) ==
    kind[c] = "rank" =>
        LET o == made[c].order  s == made[c].scores
        IN /\ {o[p] : p \in DOMAIN o} = DOMAIN given[c].list
           /\ \A p, q \in DOMAIN o : p < q => s[o[p]] >= s[o[q]]

(* The penalties outweigh any one merit: whoever refused mail stays below    *)
(* the points of a lead with all the others (rules.py:104-149).              *)
RulesSound(c) ==
    kind[c] = "rules" =>
        /\ made[c].points \in 0..60
        /\ given[c].optIn = "no" => made[c].points <= 30

(* "Compute a composite lead quality score from 0 to 100."                   *)
ScoreInRange ==
    \A c \in Calls : kind[c] = "score" /\ pc[c] = "ok" => made[c].score \in 0..100

ScoresMeet ==
    \A c \in Calls : pc[c] = "ok" => ScoreSound(c) /\ RankSound(c) /\ RulesSound(c)
=============================================================================
