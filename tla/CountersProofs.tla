----------------------------- MODULE CountersProofs -----------------------------
(***************************************************************************)
(* Proofs about the two counters that calls share, the rate limit of        *)
(* RateLimit and the costs of CostLedger: for any number of calls, any      *)
(* limit, campaigns, requests and days, and any other calls beside them.    *)
(***************************************************************************)
EXTENDS RateLimit, CostLedger, FiniteSetTheorems, TLAPS

----------------------------------------------------------------------------
\* The rate limit

limitVars == <<callVars, rateVars>>

(* What the rest of the back office does: it begins, moves and loses calls   *)
(* of other kinds, none of which touches the key.                            *)
OthersForLimit ==
    /\ UNCHANGED rateVars /\ CallsTypeOK'
    /\ \A c \in Calls :
           /\ "limit" \in {kind[c], kind'[c]} => kind'[c] = kind[c] /\ pc'[c] = pc[c]
           /\ kind'[c] # "limit" => pc'[c] \notin {"counted", "armed", "admitted"}

LimitLost(c) == Lose(c) /\ UNCHANGED rateVars

LimitSpec ==
    /\ CallsInit /\ RateInit
    /\ [][RateNext \/ OthersForLimit \/ \E c \in Calls : LimitLost(c)]_limitVars

LEMMA RateStarts == CallsInit /\ RateInit => RateInv
<1> SUFFICES ASSUME CallsInit, RateInit PROVE RateInv
  OBVIOUS
<1>1. CallsTypeOK
  BY DEF CallsInit, CallsTypeOK
<1>2. RateTypeOK
  <2>1. 0 \in 0..MaxLives /\ 1 \in 1..MaxLives
    BY RateConstants DEF RateConstants
  <2>2. QED
    BY <2>1 DEF RateInit, RateTypeOK
<1>3. \A c \in Calls : kind[c] = "none" /\ pc[c] = "idle" /\ inLife[c] = 0
  BY DEF CallsInit, RateInit
<1>4. life = 1
  BY DEF RateInit
<1>5. QED
  BY <1>1, <1>2, <1>3, <1>4
  DEF RateInv, CountsDiffer, CountsBelow, AdmittedLow, SeenExpiring, OnlyLimits, LivesPast,
      SeenCounted

(* A step that only moves one call on, to q.                                 *)
LEMMA MovesOn ==
    ASSUME RateInv, NEW c \in Calls, NEW q,
           kind' = kind, pc' = [pc EXCEPT ![c] = q],
           UNCHANGED <<count, life, got, bare, inLife>>, expires' \in BOOLEAN,
           \A d \in Calls : inLife[d] = life /\ expires => expires',
           q # "counted", q = "armed" => inLife[c] # 0 /\ got[c] # 0,
           q \in {"armed", "admitted", "refused"} /\ inLife[c] = life => expires',
           q = "admitted" => inLife[c] # 0 /\ got[c] \in 1..RateMax,
           q \in {"armed", "admitted"} => kind[c] = "limit"
    PROVE  RateInv'
<1> USE DEF RateInv
<1>0. pc'[c] = q /\ \A d \in Calls \ {c} : pc'[d] = pc[d]
  BY DEF CallsTypeOK
<1>1. CallsTypeOK'
  BY DEF CallsTypeOK
<1>2. RateTypeOK'
  BY DEF RateTypeOK
<1>3. CountsDiffer'
  BY DEF CountsDiffer
<1>4. CountsBelow'
  BY DEF CountsBelow
<1>5. AdmittedLow'
  BY <1>0 DEF AdmittedLow
<1>6. LivesPast' /\ SeenCounted'
  BY <1>0 DEF LivesPast, SeenCounted
<1>7. SeenExpiring'
  BY <1>0 DEF SeenExpiring
<1>8. OnlyLimits'
  BY <1>0 DEF OnlyLimits
<1>9. QED
  BY <1>1, <1>2, <1>3, <1>4, <1>5, <1>6, <1>7, <1>8

LEMMA CountInv == ASSUME RateInv, NEW c \in Calls, LimitCount(c) PROVE RateInv'
<1> USE DEF RateInv
<1>0. /\ kind' = [kind EXCEPT ![c] = "limit"] /\ pc' = [pc EXCEPT ![c] = "counted"]
      /\ count' = count + 1 /\ expires' = expires /\ life' = life
      /\ got' = [got EXCEPT ![c] = count + 1]
      /\ bare' = [bare EXCEPT ![c] = ~expires]
      /\ inLife' = [inLife EXCEPT ![c] = life]
  BY DEF LimitCount, Begin, Incremented
<1>1. CallsTypeOK'
  BY <1>0 DEF CallsTypeOK
<1>2. RateTypeOK'
  <2>1. count + 1 \in Nat /\ life \in 0..MaxLives
    BY RateConstants DEF RateConstants, RateTypeOK
  <2>2. (~expires) \in BOOLEAN
    OBVIOUS
  <2>3. QED
    BY <1>0, <2>1, <2>2 DEF RateTypeOK
<1>3. /\ pc'[c] = "counted" /\ kind'[c] = "limit"
      /\ \A d \in Calls \ {c} : pc'[d] = pc[d] /\ kind'[d] = kind[d]
  BY <1>0 DEF CallsTypeOK
<1>4. /\ got'[c] = count + 1 /\ bare'[c] = ~expires /\ inLife'[c] = life
      /\ \A d \in Calls \ {c} :
             got'[d] = got[d] /\ bare'[d] = bare[d] /\ inLife'[d] = inLife[d]
  BY <1>0 DEF RateTypeOK
<1>5. life \in Nat /\ life # 0
  BY RateConstants DEF RateConstants, RateTypeOK
<1>6. CountsBelow'
  <2> SUFFICES ASSUME NEW d \in Calls, inLife'[d] = life' PROVE got'[d] \in 1..count'
    BY DEF CountsBelow
  <2>1. CASE d = c
    BY <2>1, <1>0, <1>4 DEF RateTypeOK
  <2>2. CASE d # c
    BY <2>2, <1>0, <1>4 DEF RateTypeOK, CountsBelow
  <2>3. QED
    BY <2>1, <2>2
<1>7. CountsDiffer'
  <2>1. \A d \in Calls \ {c} : inLife[d] = life => got[d] # count + 1
    BY DEF CountsBelow, RateTypeOK
  <2>2. QED
    BY <1>4, <2>1 DEF CountsDiffer
<1>8. AdmittedLow'
  BY <1>3, <1>4 DEF AdmittedLow
<1>9. OnlyLimits'
  BY <1>3, <1>4 DEF OnlyLimits
<1>10. LivesPast'
  BY <1>0, <1>3, <1>4, <1>5 DEF LivesPast
<1>13. SeenCounted'
  BY <1>3, <1>4, <1>5 DEF SeenCounted, RateTypeOK
<1>11. SeenExpiring'
  BY <1>0, <1>3, <1>4 DEF SeenExpiring
<1>12. QED
  BY <1>1, <1>2, <1>6, <1>7, <1>8, <1>9, <1>10, <1>11, <1>13

LEMMA ArmInv == ASSUME RateInv, NEW c \in Calls, LimitArm(c) PROVE RateInv'
<1>0. /\ pc[c] = "counted" /\ pc' = [pc EXCEPT ![c] = "armed"] /\ kind' = kind
      /\ expires' = (count > 0)
      /\ UNCHANGED <<count, life, got, bare, inLife>>
  BY DEF LimitArm, Step
<1>1. kind[c] = "limit"
  BY <1>0 DEF RateInv, OnlyLimits
<1>2. \A d \in Calls : inLife[d] = life => expires'
  <2>1. \A d \in Calls : inLife[d] = life => count > 0
    BY DEF RateInv, CountsBelow, RateTypeOK
  <2>2. QED
    BY <1>0, <2>1, Zenon
<1>3. expires' \in BOOLEAN
  BY <1>0
<1>4. inLife[c] # 0 /\ got[c] # 0
  BY <1>0 DEF RateInv, SeenCounted
<1>5. QED
  BY <1>0, <1>1, <1>2, <1>3, <1>4, MovesOn

LEMMA DecideInv == ASSUME RateInv, NEW c \in Calls, LimitDecide(c) PROVE RateInv'
<1>0. /\ pc[c] = IF bare[c] THEN "armed" ELSE "counted"
      /\ pc' = [pc EXCEPT ![c] = Verdict(c)] /\ kind' = kind
      /\ UNCHANGED <<count, expires, life, got, bare, inLife>>
  BY DEF LimitDecide, Step, rateVars
<1>1. kind[c] = "limit"
  BY <1>0 DEF RateInv, OnlyLimits
<1>2. inLife[c] = life => expires
  BY <1>0 DEF RateInv, SeenExpiring
<1>3. Verdict(c) \in {"refused", "admitted"}
  BY DEF Verdict
<1>4. Verdict(c) = "admitted" => inLife[c] # 0 /\ got[c] \in 1..RateMax
  BY <1>0, RateConstants DEF RateConstants, Verdict, RateInv, SeenCounted, RateTypeOK
<1>5. expires' \in BOOLEAN
  BY <1>0 DEF RateInv, RateTypeOK
<1>6. QED
  BY <1>0, <1>1, <1>2, <1>3, <1>4, <1>5, MovesOn

LEMMA DownInv == ASSUME RateInv, NEW c \in Calls, LimitDown(c) PROVE RateInv'
<1>1. CASE Begin(c, "limit", "open") /\ count' \in {count, Incremented(c)}
  <2> USE DEF RateInv
  <2>0. /\ kind' = [kind EXCEPT ![c] = "limit"] /\ pc' = [pc EXCEPT ![c] = "open"]
        /\ count' \in {count, count + 1}
        /\ UNCHANGED <<expires, life, got, bare, inLife>>
    BY <1>1 DEF LimitDown, Begin, Incremented
  <2>1. CallsTypeOK'
    BY <2>0 DEF CallsTypeOK
  <2>2. RateTypeOK' /\ CountsBelow'
    BY <2>0 DEF RateTypeOK, CountsBelow
  <2>3. /\ pc'[c] = "open" /\ kind'[c] = "limit"
        /\ \A d \in Calls \ {c} : pc'[d] = pc[d] /\ kind'[d] = kind[d]
    BY <2>0 DEF CallsTypeOK
  <2>4. CountsDiffer' /\ AdmittedLow' /\ SeenExpiring'
    BY <2>0, <2>3 DEF CountsDiffer, AdmittedLow, SeenExpiring
  <2>5. OnlyLimits' /\ LivesPast' /\ SeenCounted'
    BY <2>0, <2>3 DEF OnlyLimits, LivesPast, SeenCounted
  <2>6. QED
    BY <2>1, <2>2, <2>4, <2>5
<1>2. CASE bare[c] /\ Step(c, "counted", "open") /\ UNCHANGED count
  <2>1. /\ pc' = [pc EXCEPT ![c] = "open"] /\ kind' = kind
        /\ UNCHANGED <<count, expires, life, got, bare, inLife>>
    BY <1>2 DEF LimitDown, Step
  <2>2. expires' \in BOOLEAN
    BY <2>1 DEF RateInv, RateTypeOK
  <2>3. QED
    BY <2>1, <2>2, MovesOn
<1>3. QED
  BY <1>1, <1>2 DEF LimitDown

(* The next window: no request has been answered in it yet.                  *)
LEMMA ExpiresInv == ASSUME RateInv, KeyExpires PROVE RateInv'
<1> USE DEF RateInv
<1>0. /\ count' = 0 /\ expires' = FALSE /\ life' = life + 1 /\ life < MaxLives
      /\ UNCHANGED <<kind, pc, got, bare, inLife>>
  BY DEF KeyExpires, callVars
<1>1. \A c \in Calls : inLife[c] \in Nat /\ inLife[c] <= life /\ inLife[c] # life'
  BY <1>0 DEF LivesPast, RateTypeOK
<1>2. CallsTypeOK'
  BY <1>0 DEF CallsTypeOK
<1>3. RateTypeOK'
  <2>1. life + 1 \in 1..MaxLives
    BY <1>0, RateConstants DEF RateConstants, RateTypeOK
  <2>2. QED
    BY <1>0, <2>1 DEF RateTypeOK
<1>4. CountsDiffer' /\ CountsBelow' /\ AdmittedLow'
  BY <1>0, <1>1 DEF CountsDiffer, CountsBelow, AdmittedLow
<1>5. SeenExpiring' /\ OnlyLimits' /\ SeenCounted'
  BY <1>0, <1>1 DEF SeenExpiring, OnlyLimits, SeenCounted
<1>6. LivesPast'
  BY <1>0, <1>1 DEF LivesPast, RateTypeOK
<1>7. QED
  BY <1>2, <1>3, <1>4, <1>5, <1>6

LEMMA LostInv == ASSUME RateInv, NEW c \in Calls, LimitLost(c) PROVE RateInv'
<1>1. /\ pc' = [pc EXCEPT ![c] = "lost"] /\ kind' = kind
      /\ UNCHANGED <<count, expires, life, got, bare, inLife>>
  BY DEF LimitLost, Lose, rateVars
<1>2. expires' \in BOOLEAN
  BY <1>1 DEF RateInv, RateTypeOK
<1>3. QED
  BY <1>1, <1>2, MovesOn

LEMMA LimitOthersInv == ASSUME RateInv, OthersForLimit PROVE RateInv'
<1> USE DEF RateInv, OthersForLimit
<1>0. UNCHANGED <<count, expires, life, got, bare, inLife>>
  BY DEF rateVars
<1>1. \A c \in Calls :
          pc'[c] \in {"counted", "armed", "admitted"} => pc'[c] = pc[c] /\ kind[c] = "limit"
  OBVIOUS
<1>2. \A c \in Calls : pc'[c] = "refused" /\ inLife[c] # 0 => pc[c] = "refused"
  BY DEF OnlyLimits
<1>3. RateTypeOK' /\ CountsDiffer' /\ CountsBelow' /\ LivesPast'
  BY <1>0 DEF RateTypeOK, CountsDiffer, CountsBelow, LivesPast
<1>4. AdmittedLow' /\ SeenCounted'
  BY <1>0, <1>1 DEF AdmittedLow, SeenCounted
<1>5. SeenExpiring'
  <2>1. life # 0
    BY DEF RateTypeOK
  <2>2. QED
    BY <1>0, <1>1, <1>2, <2>1 DEF SeenExpiring
<1>6. OnlyLimits'
  BY <1>0, <1>1 DEF OnlyLimits
<1>7. QED
  BY <1>3, <1>4, <1>5, <1>6

(* The counts of one window differ and nobody passes before the key expires: *)
(* this holds of the limiter at every moment (campaigns_agent.py:180-200).   *)
THEOREM RateInvariant == LimitSpec => []RateInv
<1>1. RateInv /\ [RateNext \/ OthersForLimit \/ \E c \in Calls : LimitLost(c)]_limitVars => RateInv'
  <2> SUFFICES ASSUME RateInv,
                      [RateNext \/ OthersForLimit \/ \E c \in Calls : LimitLost(c)]_limitVars
               PROVE  RateInv'
    OBVIOUS
  <2>1. ASSUME NEW c \in Calls, LimitCount(c) \/ LimitDown(c) \/ LimitSteps(c) PROVE RateInv'
    BY <2>1, CountInv, DownInv, ArmInv, DecideInv DEF LimitSteps
  <2>2. CASE UNCHANGED limitVars
    BY <2>2 DEF limitVars, callVars, rateVars, RateInv, CallsTypeOK, RateTypeOK, CountsDiffer,
                CountsBelow, AdmittedLow, SeenExpiring, OnlyLimits, LivesPast, SeenCounted
  <2>3. QED
    BY <2>1, <2>2, ExpiresInv, LimitOthersInv, LostInv DEF RateNext
<1>2. QED
  BY <1>1, RateStarts, PTL DEF LimitSpec

(* Distinct counts between 1 and the limit: there are at most RateMax.       *)
LEMMA FewAdmitted == ASSUME RateInv, NEW n \in 1..life PROVE Cardinality(Admitted(n)) <= RateMax
<1> DEFINE f == [c \in Admitted(n) |-> got[c]]
<1> USE RateConstants DEF RateConstants
<1>1. IsFiniteSet(1..RateMax) /\ Cardinality(1..RateMax) = RateMax
  BY FS_Interval
<1>2. f \in Injection(Admitted(n), 1..RateMax)
  <2>1. n # 0
    BY DEF RateInv, RateTypeOK
  <2>2. \A c \in Admitted(n) : f[c] \in 1..RateMax
    BY DEF Admitted, RateInv, AdmittedLow
  <2>3. \A c, d \in Admitted(n) : f[c] = f[d] => c = d
    BY <2>1 DEF Admitted, RateInv, CountsDiffer
  <2>4. QED
    BY <2>2, <2>3 DEF Injection, IsInjective
<1>3. QED
  BY <1>1, <1>2, FS_Injection

(* Within a window at most RateMax creations are admitted, and no request    *)
(* that Redis served leaves a key that never expires.                        *)
THEOREM LimiterSafety == LimitSpec => []LimiterSound
<1>1. RateInv => LimiterSound
  <2> SUFFICES ASSUME RateInv PROVE LimiterSound
    OBVIOUS
  <2>1. \A c \in Calls : pc[c] \in {"admitted", "refused"} /\ inLife[c] = life => expires
    BY DEF RateInv, SeenExpiring
  <2>2. QED
    BY <2>1, FewAdmitted DEF LimiterSound
<1>2. QED
  BY <1>1, RateInvariant, PTL

----------------------------------------------------------------------------
\* The ledger

costVars == <<callVars, ledgerVars>>

(* What the rest of the back office does: it begins, moves and loses calls   *)
(* of other kinds, none of which touches the ledger.                         *)
OthersForLedger ==
    /\ UNCHANGED <<ledgerVars, mix>> /\ CallsTypeOK'
    /\ \A c \in Calls :
           /\ {kind[c], kind'[c]} \cap {"text", "aggregate"} # {} =>
                  kind'[c] = kind[c] /\ pc'[c] = pc[c]
           /\ kind'[c] \notin {"text", "aggregate"} =>
                  pc'[c] \notin {"asked", "priced", "booking", "recorded", "aggregating"}
           /\ pc[c] = "ok" => pc'[c] = "ok"

LedgerLost(c) == Lose(c) /\ UNCHANGED ledgerVars

LedgerSpec ==
    /\ CallsInit /\ LedgerInit
    /\ [][LedgerNext \/ OthersForLedger \/ \E c \in Calls : LedgerLost(c)]_costVars

LEMMA LedgerStarts == CallsInit /\ LedgerInit => LedgerInv
<1> SUFFICES ASSUME CallsInit, LedgerInit PROVE LedgerInv
  OBVIOUS
<1>1. CallsTypeOK
  BY DEF CallsInit, CallsTypeOK
<1>2. \A c \in Calls : pc[c] = "idle"
  BY DEF CallsInit
<1>3. LedgerRows
  <2>1. 0 \in Days
    BY LedgerConstants DEF LedgerConstants, Days
  <2>2. \A n \in {0, -1} : Row(0, n) \in [cost : Nat, by : -1..MaxCalls]
    BY ServiceConstants DEF ServiceConstants, Row
  <2>3. analytics \in [Campaigns -> [Days -> [cost : Nat, by : -1..MaxCalls]]]
    BY <2>2 DEF LedgerInit, NoRow
  <2>4. mix \in Mixes /\ day \in Days
    BY <2>1 DEF CallsInit, LedgerInit
  <2>5. QED
    BY <2>1, <2>3, <2>4 DEF LedgerInit, LedgerRows
<1>4. LedgerKinds /\ CostsDestined
  BY <1>2 DEF LedgerKinds, CostsDestined
<1>5. CostConserved
  <2>1. \A g \in Campaigns, d \in Days : Booked(g, d) = {}
    BY <1>2 DEF Booked
  <2>2. \A g \in Campaigns, d \in Days : analytics[g][d].cost = 0
    BY DEF LedgerInit, NoRow, Row
  <2>3. QED
    BY <2>1, <2>2, FS_EmptySet DEF CostConserved
<1>6. AggregationWhole
  <2>1. \A g \in Campaigns, d \in Days : analytics[g][d].by \in {0, -1}
    BY DEF LedgerInit, NoRow, Row
  <2>2. QED
    BY <1>2, <2>1 DEF AggregationWhole, Calls
<1>7. QED
  BY <1>1, <1>3, <1>4, <1>5, <1>6 DEF LedgerInv, LedgerSound

(* A step of one call that writes no row.                                    *)
LEMMA WritesNoRow ==
    ASSUME LedgerInv, NEW c \in Calls, NEW q, LedgerRows', CallsTypeOK', analytics' = analytics,
           pc'[c] = q, pc[c] \notin {"ok", "recorded"}, q # "recorded",
           \A d \in Calls \ {c} :
               /\ pc'[d] = pc[d] /\ kind'[d] = kind[d]
               /\ request'[d] = request[d] /\ onDay'[d] = onDay[d] /\ batch'[d] = batch[d],
           q \in {"asked", "priced", "booking"} => kind'[c] = "text",
           q = "aggregating" => kind'[c] = "aggregate",
           q = "ok" => kind'[c] # "aggregate",
           q \in {"priced", "booking"} => Account(c)' \in Campaigns
    PROVE  LedgerInv'
<1>1. \A g \in Campaigns, d \in Days : Booked(g, d)' = Booked(g, d)
  BY DEF Booked, Account
<1>2. CostConserved'
  BY <1>1 DEF LedgerInv, LedgerSound, CostConserved
<1>3. AggregationWhole'
  BY DEF LedgerInv, LedgerSound, AggregationWhole
<1>4. LedgerKinds'
  BY DEF LedgerInv, LedgerKinds
<1>5. CostsDestined'
  BY DEF LedgerInv, CostsDestined, Account
<1>6. QED
  BY <1>2, <1>3, <1>4, <1>5 DEF LedgerInv, LedgerSound

(* Begin and Step, one call at a time.                                       *)
LEMMA OneBegins ==
    ASSUME CallsTypeOK, NEW c \in Calls, NEW k, NEW q, Begin(c, k, q)
    PROVE  /\ CallsTypeOK' /\ mix' = mix /\ pc[c] = "idle" /\ pc'[c] = q /\ kind'[c] = k
           /\ \A d \in Calls \ {c} : pc'[d] = pc[d] /\ kind'[d] = kind[d]
<1>1. kind' = [kind EXCEPT ![c] = k] /\ pc' = [pc EXCEPT ![c] = q]
  BY DEF Begin
<1>2. QED
  BY <1>1 DEF Begin, MayBegin, CallsTypeOK

LEMMA OneMoves ==
    ASSUME CallsTypeOK, NEW c \in Calls, NEW p, NEW q, Step(c, p, q)
    PROVE  /\ CallsTypeOK' /\ mix' = mix /\ kind' = kind /\ pc[c] = p /\ pc'[c] = q
           /\ \A d \in Calls \ {c} : pc'[d] = pc[d]
  BY DEF Step, CallsTypeOK

LEMMA HitInv == ASSUME LedgerInv, NEW c \in Calls, NEW r, TextHit(c, r) PROVE LedgerInv'
<1>1. r \in Requests
  BY LedgerConstants DEF LedgerConstants, TextHit, LedgerInv, LedgerRows
<1>2. LedgerRows'
  BY <1>1 DEF LedgerInv, LedgerRows, TextHit, Begin
<1>3. Begin(c, "text", "ok")
  BY DEF TextHit
<1>4. \A d \in Calls \ {c} : request'[d] = request[d] /\ onDay'[d] = onDay[d] /\ batch'[d] = batch[d]
  BY DEF TextHit, LedgerInv, LedgerRows
<1>5. QED
  BY <1>2, <1>3, <1>4, OneBegins, WritesNoRow DEF LedgerInv, TextHit

LEMMA AskInv == ASSUME LedgerInv, NEW c \in Calls, NEW r, TextAsk(c, r) PROVE LedgerInv'
<1>1. r \in Requests
  BY LedgerConstants DEF LedgerConstants, TextAsk, LedgerInv, LedgerRows
<1>2. LedgerRows'
  BY <1>1 DEF LedgerInv, LedgerRows, TextAsk, Begin
<1>3. Begin(c, "text", "asked")
  BY DEF TextAsk
<1>4. \A d \in Calls \ {c} : request'[d] = request[d] /\ onDay'[d] = onDay[d] /\ batch'[d] = batch[d]
  BY DEF TextAsk, LedgerInv, LedgerRows
<1>5. QED
  BY <1>2, <1>3, <1>4, OneBegins, WritesNoRow DEF LedgerInv, TextAsk

(* Only the campaigns that are there are paid from.                          *)
LEMMA AccountKnown ==
    ASSUME LedgerInv, NEW c \in Calls, Account(c) # NoCampaign PROVE Account(c) \in Campaigns
  BY LedgerConstants
  DEF LedgerConstants, LedgerInv, LedgerRows, Account, BookedOn, NoRequest

LEMMA AnsweredInv == ASSUME LedgerInv, NEW c \in Calls, TextAnswered(c) PROVE LedgerInv'
<1>0. UNCHANGED <<day, analytics, request, onDay, seen, batch, todo>>
  BY DEF TextAnswered
<1>1. PICK q \in {"ok", "priced"} :
          Step(c, "asked", q) /\ (q = "priced" => Account(c) # NoCampaign)
  BY DEF TextAnswered
<1>2. CallsTypeOK' /\ LedgerRows' /\ kind[c] = "text" /\ kind' = kind
  BY <1>0, <1>1, OneMoves DEF LedgerInv, LedgerRows, LedgerKinds
<1>3. Account(c)' = Account(c)
  BY <1>0 DEF Account
<1>4. q = "priced" => Account(c)' \in Campaigns
  BY <1>1, <1>3, AccountKnown
<1>5. /\ pc[c] = "asked" /\ pc'[c] = q
      /\ \A d \in Calls \ {c} : pc'[d] = pc[d]
  BY <1>1, OneMoves DEF LedgerInv
<1>6. QED
  BY <1>0, <1>1, <1>2, <1>4, <1>5, WritesNoRow

(* A step to an end that is neither a booked cost nor an aggregation.        *)
LEMMA EndsQuietly ==
    ASSUME LedgerInv, NEW c \in Calls, NEW p, NEW q, Step(c, p, q),
           UNCHANGED <<day, analytics, request, onDay, seen, batch, todo>>,
           p \notin {"ok", "recorded"}, q \in {"ok", "unrecorded", "failed", "lost"},
           q = "ok" => kind[c] # "aggregate"
    PROVE  LedgerInv'
<1>1. /\ CallsTypeOK' /\ mix' = mix /\ kind' = kind /\ pc[c] = p /\ pc'[c] = q
      /\ \A d \in Calls \ {c} : pc'[d] = pc[d]
  BY OneMoves DEF LedgerInv
<1>2. LedgerRows'
  BY <1>1 DEF LedgerInv, LedgerRows
<1>3. QED
  BY <1>1, <1>2, WritesNoRow

LEMMA FallbackInv == ASSUME LedgerInv, NEW c \in Calls, TextFallback(c) PROVE LedgerInv'
<1>1. Step(c, "asked", "ok") /\ kind[c] # "aggregate"
  BY DEF TextFallback, Step, LedgerInv, LedgerKinds
<1>2. QED
  BY <1>1, EndsQuietly DEF TextFallback

LEMMA SelectInv == ASSUME LedgerInv, NEW c \in Calls, CostSelect(c) PROVE LedgerInv'
<1>1. /\ CallsTypeOK' /\ mix' = mix /\ kind' = kind /\ pc[c] = "priced" /\ pc'[c] = "booking"
      /\ \A d \in Calls \ {c} : pc'[d] = pc[d]
  BY OneMoves DEF LedgerInv, CostSelect
<1>2. LedgerRows'
  <2>1. Account(c) \in Campaigns
    BY <1>1 DEF LedgerInv, CostsDestined
  <2>2. seen' \in [Calls -> SUBSET Campaigns]
    BY <2>1 DEF CostSelect, LedgerInv, LedgerRows
  <2>3. QED
    BY <1>1, <2>2 DEF LedgerInv, LedgerRows, CostSelect
<1>3. Account(c)' \in Campaigns
  BY <1>1 DEF CostSelect, Account, LedgerInv, CostsDestined
<1>4. kind'[c] = "text"
  BY <1>1 DEF LedgerInv, LedgerKinds
<1>5. \A d \in Calls \ {c} : request'[d] = request[d] /\ onDay'[d] = onDay[d] /\ batch'[d] = batch[d]
  BY DEF CostSelect, LedgerInv, LedgerRows
<1>6. QED
  BY <1>1, <1>2, <1>3, <1>4, <1>5, WritesNoRow DEF CostSelect

LEMMA CostLostInv == ASSUME LedgerInv, NEW c \in Calls, CostLost(c) PROVE LedgerInv'
<1>1. UNCHANGED <<day, analytics, request, onDay, seen, batch, todo>>
  BY DEF CostLost, ledgerVars
<1>2. QED
  BY <1>1, EndsQuietly DEF CostLost

LEMMA AggregateInv == ASSUME LedgerInv, NEW c \in Calls, NEW act \in SUBSET Campaigns, Aggregate(c, act)
                      PROVE LedgerInv'
<1>1. /\ CallsTypeOK' /\ mix' = mix /\ pc[c] = "idle" /\ pc'[c] = "aggregating"
      /\ kind'[c] = "aggregate"
      /\ \A d \in Calls \ {c} : pc'[d] = pc[d] /\ kind'[d] = kind[d]
  BY OneBegins DEF LedgerInv, Aggregate
<1>2. day - 1 \in Days
  BY LedgerConstants DEF LedgerConstants, Aggregate, LedgerInv, LedgerRows, Days
<1>3. LedgerRows'
  BY <1>1, <1>2 DEF LedgerInv, LedgerRows, Aggregate
<1>4. \A d \in Calls \ {c} : request'[d] = request[d] /\ onDay'[d] = onDay[d] /\ batch'[d] = batch[d]
  BY DEF Aggregate, LedgerInv, LedgerRows
<1>5. QED
  BY <1>1, <1>3, <1>4, WritesNoRow DEF Aggregate

LEMMA ReadInv == ASSUME LedgerInv, NEW c \in Calls, NEW g, AggregateRead(c, g) PROVE LedgerInv'
<1>1. /\ CallsTypeOK' /\ mix' = mix /\ kind' = kind
      /\ pc[c] = "aggregating" /\ pc'[c] = "aggregating"
      /\ \A d \in Calls \ {c} : pc'[d] = pc[d]
  BY OneMoves DEF LedgerInv, AggregateRead
<1>2. LedgerRows'
  <2>1. g \in Campaigns
    BY DEF AggregateRead, LedgerInv, LedgerRows
  <2>2. seen' \in [Calls -> SUBSET Campaigns] /\ todo' \in [Calls -> SUBSET Campaigns]
    BY <2>1 DEF AggregateRead, LedgerInv, LedgerRows
  <2>3. QED
    BY <1>1, <2>2 DEF LedgerInv, LedgerRows, AggregateRead
<1>3. kind'[c] = "aggregate"
  BY <1>1 DEF LedgerInv, LedgerKinds
<1>4. QED
  BY <1>1, <1>2, <1>3, WritesNoRow DEF AggregateRead

LEMMA AggregateFailsInv == ASSUME LedgerInv, NEW c \in Calls, AggregateFails(c) PROVE LedgerInv'
<1>1. UNCHANGED <<day, analytics, request, onDay, seen, batch, todo>>
  BY DEF AggregateFails, ledgerVars
<1>2. QED
  BY <1>1, EndsQuietly DEF AggregateFails

(* The one step that books a cost: its row and its account grow together.    *)
LEMMA CostCommitInv == ASSUME LedgerInv, NEW c \in Calls, CostCommit(c) PROVE LedgerInv'
<1> DEFINE a == Account(c)
           d0 == onDay[c]
<1>1. /\ CallsTypeOK' /\ mix' = mix /\ kind' = kind /\ pc[c] = "booking" /\ pc'[c] = "recorded"
      /\ \A d \in Calls \ {c} : pc'[d] = pc[d]
  BY OneMoves DEF LedgerInv, CostCommit
<1>2. /\ UNCHANGED <<day, request, onDay, seen, batch, todo>> /\ CostStored(c)
      /\ analytics' = [analytics EXCEPT ![a][d0] = CostAdded(c)]
  BY DEF CostCommit, locals
<1>3. a \in Campaigns /\ d0 \in Days
  BY <1>1 DEF LedgerInv, CostsDestined, LedgerRows
<1>4. /\ analytics[a][d0].cost \in Nat /\ analytics[a][d0].by \in -1..MaxCalls
      /\ analytics[a][d0] \in [cost : Nat, by : -1..MaxCalls]
  BY <1>3 DEF LedgerInv, LedgerRows
<1>5. /\ CostAdded(c) \in [cost : Nat, by : -1..MaxCalls]
      /\ CostAdded(c).cost = analytics[a][d0].cost + 1
      /\ CostAdded(c).by \in {analytics[a][d0].by, 0}
      /\ analytics[a][d0].by # -1 => CostAdded(c).by = analytics[a][d0].by
  <2>1. CASE seen[c] # {}
    BY <2>1, <1>4 DEF CostAdded
  <2>2. CASE seen[c] = {}
    <3>1. analytics[a][d0] = [cost |-> 0, by |-> -1]
      BY <2>2, <1>2 DEF CostStored, HasRow, NoRow, Row
    <3>2. CostAdded(c) = [cost |-> 1, by |-> 0]
      BY <2>2 DEF CostAdded, Row
    <3>3. QED
      BY <3>1, <3>2, ServiceConstants DEF ServiceConstants
  <2>3. QED
    BY <2>1, <2>2
<1>6. LedgerRows'
  <2>1. analytics' \in [Campaigns -> [Days -> [cost : Nat, by : -1..MaxCalls]]]
    BY <1>2, <1>3, <1>5 DEF LedgerInv, LedgerRows
  <2>2. QED
    BY <1>1, <1>2, <2>1 DEF LedgerInv, LedgerRows
<1>7. /\ analytics'[a][d0] = CostAdded(c)
      /\ \A g \in Campaigns, d \in Days :
             g # a \/ d # d0 => analytics'[g][d] = analytics[g][d]
  BY <1>2, <1>3 DEF LedgerInv, LedgerRows
<1>8. CostConserved'
  <2>1. \A g \in Campaigns, d \in Days :
            Booked(g, d)' = IF g = a /\ d = d0 THEN Booked(g, d) \cup {c} ELSE Booked(g, d)
    BY <1>1, <1>2 DEF Booked, Account
  <2>2. c \notin Booked(a, d0) /\ IsFiniteSet(Booked(a, d0))
    <3>1. IsFiniteSet(Calls)
      BY ServiceConstants, FS_Interval DEF ServiceConstants, Calls
    <3>2. QED
      BY <1>1, <3>1, FS_Subset DEF Booked
  <2>3. Cardinality(Booked(a, d0) \cup {c}) = Cardinality(Booked(a, d0)) + 1
    BY <2>2, FS_AddElement
  <2>4. QED
    BY <1>3, <1>5, <1>7, <2>1, <2>3 DEF LedgerInv, LedgerSound, CostConserved
<1>9. AggregationWhole'
  <2>1. \A g \in Campaigns, d \in Days : analytics'[g][d].by \in {analytics[g][d].by, 0}
    BY <1>5, <1>7
  <2>2. \A g \in Campaigns, d \in Days :
            analytics[g][d].by \in Calls => analytics'[g][d].by \in Calls
    BY <1>5, <1>7 DEF Calls
  <2>3. \A x \in Calls : x # 0
    BY DEF Calls
  <2>4. ASSUME NEW x \in Calls, kind'[x] = "aggregate", pc'[x] = "ok", NEW g \in batch'[x]
        PROVE  analytics'[g][onDay'[x]].by \in Calls
    BY <1>1, <1>2, <2>2, <2>4 DEF LedgerInv, LedgerRows, LedgerSound, AggregationWhole
  <2>5. ASSUME NEW x \in Calls, pc'[x] # "ok", NEW g \in Campaigns, NEW d \in Days
        PROVE  analytics'[g][d].by # x
    BY <1>1, <2>1, <2>3, <2>5 DEF LedgerInv, LedgerSound, AggregationWhole
  <2>6. QED
    BY <2>4, <2>5 DEF AggregationWhole
<1>10. LedgerKinds' /\ CostsDestined'
  BY <1>1, <1>2 DEF LedgerInv, LedgerKinds, CostsDestined, Account
<1>11. QED
  BY <1>1, <1>6, <1>8, <1>9, <1>10 DEF LedgerInv, LedgerSound

(* The commit of an aggregation keeps every cost and signs every row.        *)
LEMMA AggregateCommitInv == ASSUME LedgerInv, NEW c \in Calls, AggregateCommit(c) PROVE LedgerInv'
<1> DEFINE d0 == onDay[c]
<1>1. /\ CallsTypeOK' /\ mix' = mix /\ kind' = kind /\ pc[c] = "aggregating" /\ pc'[c] = "ok"
      /\ \A d \in Calls \ {c} : pc'[d] = pc[d]
  BY OneMoves DEF LedgerInv, AggregateCommit
<1>2. /\ UNCHANGED <<day, request, onDay, seen, batch, todo>> /\ ~Conflict(c)
      /\ analytics' = [g \in Campaigns |->
             IF g \in batch[c] THEN [analytics[g] EXCEPT ![d0] = Aggregated(c, g)]
                             ELSE analytics[g]]
  BY DEF AggregateCommit, locals
<1>3. d0 \in Days /\ batch[c] \subseteq Campaigns
  BY DEF LedgerInv, LedgerRows
<1>4. c \in -1..MaxCalls /\ c # -1
  BY ServiceConstants DEF ServiceConstants, Calls
<1>5. ASSUME NEW g \in batch[c]
      PROVE  /\ Aggregated(c, g) \in [cost : Nat, by : -1..MaxCalls]
             /\ Aggregated(c, g).cost = analytics[g][d0].cost
             /\ Aggregated(c, g).by = c
  <2>1. analytics[g][d0] \in [cost : Nat, by : -1..MaxCalls]
    BY <1>3 DEF LedgerInv, LedgerRows
  <2>2. CASE g \in seen[c]
    BY <2>1, <2>2, <1>4 DEF Aggregated
  <2>3. CASE g \notin seen[c]
    <3>1. analytics[g][d0] = [cost |-> 0, by |-> -1]
      BY <2>3, <1>2 DEF Conflict, HasRow, NoRow, Row
    <3>2. Aggregated(c, g) = [cost |-> 0, by |-> c]
      BY <2>3 DEF Aggregated, Row
    <3>3. QED
      BY <3>1, <3>2, <1>4
  <2>4. QED
    BY <2>2, <2>3
<1>6. \A g \in Campaigns, d \in Days :
          analytics'[g][d] = IF g \in batch[c] /\ d = d0 THEN Aggregated(c, g) ELSE analytics[g][d]
  BY <1>2, <1>3 DEF LedgerInv, LedgerRows
<1>7. LedgerRows'
  <2>1. analytics' \in [Campaigns -> [Days -> [cost : Nat, by : -1..MaxCalls]]]
    BY <1>2, <1>3, <1>5 DEF LedgerInv, LedgerRows
  <2>2. QED
    BY <1>1, <1>2, <2>1 DEF LedgerInv, LedgerRows
<1>8. CostConserved'
  <2>1. \A g \in Campaigns, d \in Days : Booked(g, d)' = Booked(g, d)
    BY <1>1, <1>2 DEF Booked, Account
  <2>2. \A g \in Campaigns, d \in Days : analytics'[g][d].cost = analytics[g][d].cost
    BY <1>5, <1>6
  <2>3. QED
    BY <2>1, <2>2 DEF LedgerInv, LedgerSound, CostConserved
<1>9. AggregationWhole'
  <2>1. \A g \in Campaigns, d \in Days :
            analytics'[g][d].by = IF g \in batch[c] /\ d = d0 THEN c ELSE analytics[g][d].by
    BY <1>5, <1>6
  <2>2. ASSUME NEW x \in Calls, kind'[x] = "aggregate", pc'[x] = "ok", NEW g \in batch'[x]
        PROVE  analytics'[g][onDay'[x]].by \in Calls
    <3>1. g \in Campaigns /\ onDay[x] \in Days
      BY <1>2, <2>2 DEF LedgerInv, LedgerRows
    <3>2. CASE x = c
      BY <1>2, <2>1, <3>1, <3>2
    <3>3. CASE x # c
      BY <1>1, <1>2, <2>1, <2>2, <3>1, <3>3 DEF LedgerInv, LedgerSound, AggregationWhole
    <3>4. QED
      BY <3>2, <3>3
  <2>3. ASSUME NEW x \in Calls, pc'[x] # "ok", NEW g \in Campaigns, NEW d \in Days
        PROVE  analytics'[g][d].by # x
    BY <1>1, <2>1, <2>3 DEF LedgerInv, LedgerSound, AggregationWhole
  <2>4. QED
    BY <2>2, <2>3 DEF AggregationWhole
<1>10. LedgerKinds' /\ CostsDestined'
  BY <1>1, <1>2 DEF LedgerInv, LedgerKinds, CostsDestined, Account
<1>11. QED
  BY <1>1, <1>7, <1>8, <1>9, <1>10 DEF LedgerInv, LedgerSound

(* No call moves and no row changes.                                         *)
LEMMA NothingMoves ==
    ASSUME LedgerInv, LedgerRows', UNCHANGED <<kind, pc, analytics, request, onDay, batch>>
    PROVE  LedgerInv'
<1>1. CallsTypeOK' /\ LedgerKinds' /\ CostsDestined'
  BY DEF LedgerInv, CallsTypeOK, LedgerKinds, CostsDestined, Account
<1>2. LedgerSound'
  BY DEF LedgerInv, LedgerSound, CostConserved, AggregationWhole, Booked, Account
<1>3. QED
  BY <1>1, <1>2 DEF LedgerInv

LEMMA LedgerStepsInv == ASSUME LedgerInv, LedgerNext PROVE LedgerInv'
<1>1. ASSUME NEW c \in Calls, LedgerSteps(c) PROVE LedgerInv'
  BY <1>1, AnsweredInv, FallbackInv, SelectInv, CostCommitInv, CostLostInv, ReadInv,
     AggregateCommitInv, AggregateFailsInv DEF LedgerSteps
<1>2. CASE NextDay
  <2>1. day + 1 \in Days
    BY <1>2, LedgerConstants DEF LedgerConstants, NextDay, LedgerInv, LedgerRows, Days
  <2>2. LedgerRows'
    BY <1>2, <2>1 DEF NextDay, LedgerInv, LedgerRows, callVars, locals
  <2>3. UNCHANGED <<kind, pc, analytics, request, onDay, batch>>
    BY <1>2 DEF NextDay, callVars, locals
  <2>4. QED
    BY <2>2, <2>3, NothingMoves
<1>3. QED
  BY <1>1, <1>2, HitInv, AskInv, AggregateInv DEF LedgerNext

LEMMA LedgerLostInv == ASSUME LedgerInv, NEW c \in Calls, LedgerLost(c) PROVE LedgerInv'
<1>1. Step(c, pc[c], "lost") /\ pc[c] \notin {"ok", "recorded"}
  BY DEF LedgerLost, Lose, Step, Running, Ended
<1>2. UNCHANGED <<day, analytics, request, onDay, seen, batch, todo>>
  BY DEF LedgerLost, ledgerVars
<1>3. QED
  BY <1>1, <1>2, EndsQuietly

LEMMA LedgerOthersInv == ASSUME LedgerInv, OthersForLedger PROVE LedgerInv'
<1>1. /\ CallsTypeOK' /\ mix' = mix
      /\ UNCHANGED <<day, analytics, request, onDay, seen, batch, todo>>
  BY DEF OthersForLedger, ledgerVars
<1>2. \A c \in Calls :
          /\ pc'[c] = "recorded" <=> pc[c] = "recorded"
          /\ pc'[c] \in {"asked", "priced", "booking", "recorded", "aggregating"} =>
                 pc'[c] = pc[c] /\ kind'[c] = kind[c]
  BY DEF OthersForLedger, LedgerInv, LedgerKinds
<1>3. \A g \in Campaigns, d \in Days : Booked(g, d)' = Booked(g, d)
  BY <1>1, <1>2 DEF Booked, Account
<1>4. LedgerRows' /\ CostConserved'
  BY <1>1, <1>3 DEF LedgerInv, LedgerRows, LedgerSound, CostConserved
<1>5. AggregationWhole'
  BY <1>1 DEF OthersForLedger, LedgerInv, LedgerSound, AggregationWhole
<1>6. LedgerKinds' /\ CostsDestined'
  BY <1>1, <1>2 DEF LedgerInv, LedgerKinds, CostsDestined, Account
<1>7. QED
  BY <1>1, <1>4, <1>5, <1>6 DEF LedgerInv, LedgerSound

(* The inductive invariant, whatever generations and aggregations overlap,   *)
(* fail or die.                                                              *)
THEOREM LedgerInvariant == LedgerSpec => []LedgerInv
<1> DEFINE Step_ == LedgerNext \/ OthersForLedger \/ \E c \in Calls : LedgerLost(c)
<1>1. LedgerInv /\ [Step_]_costVars => LedgerInv'
  <2>1. ASSUME LedgerInv, UNCHANGED costVars PROVE LedgerInv'
    <3>1. LedgerRows' /\ UNCHANGED <<kind, pc, analytics, request, onDay, batch>>
      BY <2>1 DEF costVars, callVars, ledgerVars, LedgerInv, LedgerRows
    <3>2. QED
      BY <2>1, <3>1, NothingMoves
  <2>2. QED
    BY <2>1, LedgerStepsInv, LedgerOthersInv, LedgerLostInv
<1>2. QED
  BY <1>1, LedgerStarts, PTL DEF LedgerSpec

(* Costs are conserved and aggregations are whole, whatever generations and  *)
(* aggregations overlap, fail or die (bs_ai_text/service.py:76-107,          *)
(* workflow.py:473-538).                                                     *)
THEOREM LedgerSafety == LedgerSpec => []LedgerSound
<1>1. LedgerInv => LedgerSound
  BY DEF LedgerInv
<1>2. QED
  BY <1>1, LedgerInvariant, PTL
=============================================================================
