------------------------------ MODULE MCBackOffice ------------------------------
(* The kinds of call that meet in the same rows, together.                   *)
EXTENDS BackOffice

Text(content, lead, campaign, lang) ==
    [content |-> content, lead |-> lead, campaign |-> campaign, lang |-> lang,
     tone |-> "bold", platform |-> "x"]
Letter(g) == Text("email", "l1", g, "en")
Variety(g) == {Text(k, "l1", g, "en") : k \in {"ad", "email", "newsletter", "video_script"}}
              \cup {Text("email", "l2", g, "en"), Text("video_script", "l1", g, "fr")}
Bookings == {Letter(g) : g \in Campaigns} \cup {Text("post", "l1", g, "en") : g \in OldRows}
MCRequests == Bookings \cup UNION {Variety(g) : g \in OldRows}

Mix(kinds, n, retries) ==
    [kinds |-> kinds, calls |-> n, retries |-> retries, drivers |-> {TRUE}, starts |-> {}, asks |-> {}]
AnyDriver(m) == [m EXCEPT !.drivers = BOOLEAN]
Asking(m, requests) == [m EXCEPT !.asks = requests]
MCMixes == {Mix({"create", "import", "update", "delete", "purge"}, 2, 0), AnyDriver(Mix({"purge"}, 1, 0)),
            AnyDriver(Mix({"import", "l2c", "campaign"}, 2, 1)),
            [AnyDriver(Mix({"loop"}, 2, 1)) EXCEPT !.starts = {0, 4}],
            Mix({"loop"}, 3, 0),
            Asking(AnyDriver(Mix({"text", "aggregate"}, 2, 0)), Bookings),
            Asking(Mix({"text"}, 2, 0), UNION {Variety(g) : g \in OldRows}),
            Mix({"limit"}, 3, 0),
            Mix({"score", "rank", "rules", "account", "influencer", "format", "plan", "build"}, 1, 1),
            Mix({"image", "script", "render"}, 2, 1),
            Mix({"project", "edit", "trigger", "brand"}, 3, 0), Mix({"project", "brand"}, 2, 2)}

ScoreMixes == {Mix({"score"}, 1, 0)}
ProjectMixes == {Mix({"project", "brand"}, 2, 1)}

ALead(sector, size, source, opens, clicks, visits) ==
    [sector |-> sector, size |-> size, source |-> source, opens |-> opens, clicks |-> clicks, visits |-> visits,
     countable |-> TRUE]
Uncountable == [ALead("saas", "", "ads", 0, 0, 0) EXCEPT !.countable = FALSE]
MCScoredLeads ==
    {ALead(se, si, so, n, k, n) : se \in {"saas", "retail", "other"}, si \in {"enterprise", "individual"},
        so \in {"referral", "coldoutreach"}, n \in {0, 5, 12}, k \in {0, 1, 7}}
    \cup {Uncountable, ALead("saas", "smb", "ads", -100, 0, 0), ALead("other", "smb", "ads", 12, -1, 0)}
Cold == ALead("other", "", "nowhere", 0, 0, 0)
Ranks(lead, scored, score) == [lead |-> lead, scored |-> scored, score |-> score]
MCRanked == [1..2 -> {Ranks(Cold, FALSE, 0), Ranks(ALead("other", "", "ads", -100, 0, 0), FALSE, 0),
                      Ranks(Cold, TRUE, -5), Ranks(Cold, TRUE, 90)}]
            \cup {<<Ranks(Uncountable, FALSE, 0)>>}
MCRuledLeads ==
    [verified : BOOLEAN, named : BOOLEAN, api : BOOLEAN, unsubscribed : BOOLEAN,
     optIn : {"yes", "no", "unset"}, ageDays : {10, 40}, opens : {0, 2}, bounces : {0, 4}]

MCFigures == {Figures(0, 0, 0, 0), Figures(1000, 40, 9, 1000), Figures(1000, 60, 20, 1000), Figures(900, 5, 0, 400)}
MCAccounts == [known : BOOLEAN, tokened : BOOLEAN, platform : Platforms, figures : MCFigures, niche : {"tech"}]
MCTyped == MCFigures \cup {Figures(-1000, 60, 20, -1000), Figures(-1000, -60, -20, 1000), Figures(-900, -90, 0, -400)}
MCInfluencers == [platform : Platforms, figures : MCTyped, niche : {"tech", "cars"}]

AText(to, from, words, links, paragraphs) ==
    [target |-> to, source |-> from, words |-> words, links |-> links, paragraphs |-> paragraphs]
Of5(n, w) == [i \in 1..n |-> w]
MCContents ==
    {AText("x", "x", Of5(n, w), {}, 1) : n \in {1, 2, 11}, w \in {5, 137, 139, 275, 300}}
    \cup {AText("x", "x", Of5(3, 137), {1, 3}, 1), AText("x", "linkedin", Of5(2, 5), {}, 1),
          AText("instagram", "instagram", Of5(8, 275), {}, 3), AText("linkedin", "linkedin", Of5(11, 300), {}, 2),
          AText("blog", "blog", Of5(2, 5), {2}, 1)}

AReply(form, platform, days, nulls, extracted) ==
    [form |-> form, platform |-> platform, days |-> days, nulls |-> nulls, extracted |-> extracted]
MCReplies ==
    {AReply("text", "x", 1, {}, <<>>), AReply("object", "x", 1, {"days"}, <<>>)}
    \cup {AReply("object", p, d, nulls, <<"platform", "objective", "budget">>) :
            p \in {"instagram", "tiktok", "youtube", "x", "multi"}, d \in 0..2, nulls \in {{}, {"platform"}}}
    \cup {AReply("object", "x", 1, {}, e) :
            e \in {<<>>, <<"platform">>, <<"platform", "objective">>, <<"platform", "platform", "platform">>}}
MCBriefs ==
    [project : {"live", "missing", "archived"}, words : {{}, {"playful", "luxury"}, {"innovative"}},
     platform : {"instagram", "tiktok", "youtube", "x", "facebook", "blog"}, objective : {"awareness", "conversion"},
     days : 0..2, budget : {0, 500}, text : {100, 3000}, trending : {<<>>, <<"", "x", "deals", "deals">>}]
=============================================================================
