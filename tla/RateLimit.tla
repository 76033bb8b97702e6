------------------------------- MODULE RateLimit -------------------------------
(***************************************************************************)
(* The limit on campaign creations of one user: a counter in Redis with a   *)
(* time to live. INCR and TTL are one pipeline, EXPIRE is a command of its  *)
(* own, and any trouble with Redis lets the request through.                *)
(***************************************************************************)
EXTENDS ServiceCalls

CONSTANTS
    RateMax,    \* _RATE_LIMIT_MAX
    MaxLives    \* bound: keys the window may go through

ASSUME RateConstants == RateMax \in Nat /\ MaxLives \in Nat \ {0}

VARIABLES
    count,      \* the counter, 0 when there is no key
    expires,    \* the key has a time to live
    life,       \* which key this is: one per window
    got,        \* the count each request was answered
    bare,       \* ... with a TTL below zero
    inLife      \* ... in this life of the key

rateVars == <<count, expires, life, got, bare, inLife>>

RateInit ==
    /\ count = 0
    /\ expires = FALSE
    /\ life = 1
    /\ got = [c \in Calls |-> 0]
    /\ bare = [c \in Calls |-> FALSE]
    /\ inLife = [c \in Calls |-> 0]

(* The pipeline: Redis runs INCR and TTL together.                           *)
Incremented_lost(c) == IF \E d \in Calls : pc[d] = "counted" THEN count ELSE count + 1
Incremented(c) == count + 1

LimitCount(c) ==
    /\ Begin(c, "limit", "counted")
    /\ count' = Incremented(c)
    /\ got' = [got EXCEPT ![c] = count']
    /\ bare' = [bare EXCEPT ![c] = ~expires]
    /\ inLife' = [inLife EXCEPT ![c] = life]
    /\ UNCHANGED <<expires, life>>

(* EXPIRE, which does nothing to a key that is gone by now.                  *)
LimitArm(c) ==
    /\ bare[c]
    /\ Step(c, "counted", "armed")
    /\ expires' = (count > 0)
    /\ UNCHANGED <<count, life, got, bare, inLife>>

Verdict(c) == IF got[c] > RateMax THEN "refused" ELSE "admitted"

LimitDecide(c) ==
    /\ Step(c, IF bare[c] THEN "armed" ELSE "counted", Verdict(c))
    /\ UNCHANGED rateVars

(* Fail-open: Redis is away before the pipeline, its answer is lost, or it   *)
(* is away before EXPIRE.                                                    *)
LimitDown(c) ==
    /\ \/ Begin(c, "limit", "open") /\ count' \in {count, Incremented(c)}
       \/ bare[c] /\ Step(c, "counted", "open") /\ UNCHANGED count
    /\ UNCHANGED <<expires, life, got, bare, inLife>>

(* The hour is over.                                                         *)
KeyExpires ==
    /\ expires /\ life < MaxLives
    /\ count' = 0
    /\ expires' = FALSE
    /\ life' = life + 1
    /\ UNCHANGED <<callVars, got, bare, inLife>>

LimitSteps(c) == LimitArm(c) \/ LimitDecide(c)

RateNext ==
    \/ \E c \in Calls : LimitCount(c) \/ LimitDown(c) \/ LimitSteps(c)
    \/ KeyExpires

RateTypeOK ==
    /\ count \in Nat /\ expires \in BOOLEAN /\ life \in 1..MaxLives
    /\ got \in [Calls -> Nat] /\ bare \in [Calls -> BOOLEAN]
    /\ inLife \in [Calls -> 0..MaxLives]

(* Within one window no more than RateMax requests are admitted, however     *)
(* many run at once, those that Redis failed not counted; and no request     *)
(* that went all the way leaves a key without a time to live, which would    *)
(* keep the user out for good (campaigns_agent.py:180-200).                  *)
Admitted(n) == {c \in Calls : pc[c] = "admitted" /\ inLife[c] = n}
LimiterSound ==
    /\ \A n \in 1..life : Cardinality(Admitted(n)) <= RateMax
    /\ \A c \in Calls : pc[c] \in {"admitted", "refused"} /\ inLife[c] = life => expires

(* Why: within one window no two requests were answered the same count, and  *)
(* nobody goes on before it has seen the key expire or made it.              *)
CountsDiffer ==
    \A c, d \in Calls : inLife[c] # 0 /\ inLife[c] = inLife[d] /\ c # d => got[c] # got[d]
CountsBelow == \A c \in Calls : inLife[c] = life => got[c] \in 1..count
AdmittedLow == \A c \in Calls : pc[c] = "admitted" => inLife[c] # 0 /\ got[c] \in 1..RateMax
SeenExpiring ==
    \A c \in Calls :
        /\ inLife[c] = life
        /\ pc[c] \in {"armed", "admitted", "refused"} \/ (pc[c] = "counted" /\ ~bare[c])
        => expires
OnlyLimits ==
    \A c \in Calls : kind[c] # "limit" =>
        inLife[c] = 0 /\ pc[c] \notin {"counted", "armed", "admitted"}
LivesPast == \A c \in Calls : inLife[c] <= life
SeenCounted == \A c \in Calls : pc[c] \in {"counted", "armed"} => inLife[c] # 0 /\ got[c] # 0

RateInv ==
    /\ CallsTypeOK /\ RateTypeOK /\ CountsDiffer /\ CountsBelow /\ AdmittedLow /\ SeenExpiring
    /\ OnlyLimits /\ LivesPast /\ SeenCounted
=============================================================================
