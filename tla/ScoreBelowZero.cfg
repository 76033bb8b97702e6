SPECIFICATION Spec
CONSTANTS
  MaxCalls = 3
  Mixes <- ScoreMixes
  OldLeads = {a1}
  Addresses = {a1, a2}
  Campaigns = {g1, g2}
  OldRows = {g1}
  Requests <- MCRequests
  ScoredLeads <- MCScoredLeads
  Ranked <- MCRanked
  RuledLeads <- MCRuledLeads
  Accounts <- MCAccounts
  Influencers <- MCInfluencers
  Contents <- MCContents
  MaxTweet = 280
  Reserve = 5
  Scripts = {s1, s2}
  Templates = {t1, t2}
  Replies <- MCReplies
  Briefs <- MCBriefs
  Hours = {0, 23}
  MaxDay = 1
  RateMax = 1
  MaxLives = 2
INVARIANTS
  ScoreInRange
CHECK_DEADLOCK FALSE
