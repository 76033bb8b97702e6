------------------------------ MODULE HumanGate ------------------------------
(***************************************************************************)
(* What the campaign agent promises about publication, without the         *)
(* database, the workers or the sessions: a plan is offered for review, a  *)
(* request opens the gate only while the plan is under review and only for *)
(* the owner, and only a request that opened the gate hands publish tasks  *)
(* to the broker, at most one per post.                                    *)
(***************************************************************************)
CONSTANTS Requests, Users, Owner, Posts

VARIABLES
    plan,    \* result.agent_status of the campaign's job
    opened,  \* requests that passed the gate
    by,      \* who makes each request
    sent     \* publish tasks, <<request, post>>

vars == <<plan, opened, by, sent>>

Init ==
    /\ plan = "none"
    /\ opened = {}
    /\ by \in [Requests -> Users]
    /\ sent = {}

(* Generation, whenever it completes, puts a plan up for review.             *)
Offer ==
    /\ plan' = "pending_validation"
    /\ UNCHANGED <<opened, by, sent>>

(* A request still outside the gate may be anybody's.                        *)
Call(r, u) ==
    /\ r \notin opened
    /\ by' = [by EXCEPT ![r] = u]
    /\ UNCHANGED <<plan, opened, sent>>

Open(r) ==
    /\ r \notin opened
    /\ plan = "pending_validation"
    /\ by[r] = Owner
    /\ opened' = opened \cup {r}
    /\ UNCHANGED <<plan, by, sent>>

Send(r, p) ==
    /\ r \in opened
    /\ <<r, p>> \notin sent
    /\ sent' = sent \cup {<<r, p>>}
    /\ UNCHANGED <<plan, opened, by>>

(* Only a request that opened the gate closes the review by approving.       *)
Approve(r) ==
    /\ r \in opened
    /\ plan' = "approved"
    /\ UNCHANGED <<opened, by, sent>>

Cancel(r) ==
    /\ by[r] = Owner
    /\ plan' = "cancelled"
    /\ UNCHANGED <<opened, by, sent>>

Next == \/ Offer
        \/ \E r \in Requests :
              \/ \E u \in Users : Call(r, u)
              \/ Open(r) \/ Approve(r) \/ Cancel(r)
              \/ \E p \in Posts : Send(r, p)

Spec == Init /\ [][Next]_vars
=============================================================================
