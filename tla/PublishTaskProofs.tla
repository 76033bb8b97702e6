-------------------------- MODULE PublishTaskProofs --------------------------
(***************************************************************************)
(* Proofs about PublishTask, for any set of posts, any number of           *)
(* deliveries, retries and lost workers, and any statuses written.         *)
(***************************************************************************)
EXTENDS PublishTask, FiniteSetTheorems, TLAPS

LEMMA InitInv == Init => TypeOK /\ PublishInv
<1> SUFFICES ASSUME Init PROVE TypeOK /\ PublishInv
  OBVIOUS
<1> USE PublishConstants, RowStatusesOK
<1>1. TypeOK
  <2>1. losses \in 0..MaxLosses /\ tries \in [Deliveries -> 0..MaxRetries]
    BY DEF Init
  <2>2. row \in [Posts -> Row] /\ seenPost \in [Deliveries -> Status]
    BY DEF Init, Row, Status
  <2>3. QED
    BY <2>1, <2>2 DEF Init, TypeOK, CampaignStatus
<1>2. CopiesFresh
  BY DEF Init, CopiesFresh, Running
<1>3. RowsUnmarked /\ NoApproval
  BY DEF Init, RowsUnmarked, NoApproval
<1>4. QED
  BY <1>1, <1>2, <1>3 DEF PublishInv

(* What people write keeps the types and the invariant.                      *)
LEMMA PeopleInv ==
    ASSUME TypeOK, PublishInv, People
    PROVE  TypeOK' /\ PublishInv'
<1> USE RowStatusesOK DEF reads, analytics
<1>1. ASSUME NEW p \in Posts, NEW s \in Status, WriteStatus(p, s)
      PROVE  TypeOK' /\ PublishInv'
  <2>1. TypeOK'
    BY <1>1 DEF WriteStatus, TypeOK, Row
  <2>2. CopiesFresh'
    BY <1>1 DEF WriteStatus, PublishInv, CopiesFresh, TypeOK
  <2>3. RowsUnmarked'
    BY <1>1 DEF WriteStatus, PublishInv, RowsUnmarked, TypeOK, Row
  <2>4. NoApproval'
    BY <1>1 DEF WriteStatus, PublishInv, NoApproval, TypeOK, Row
  <2>5. QED
    BY <2>1, <2>2, <2>3, <2>4 DEF PublishInv
<1>2. ASSUME UNCHANGED <<row, writable, pc, tries, reads, losses, posted,
                         analytics, approvedIn>>,
             campaign' \in CampaignStatus \cup {"deleted"}, project' \in BOOLEAN
      PROVE  TypeOK' /\ PublishInv'
  BY <1>2 DEF TypeOK, PublishInv, CopiesFresh, RowsUnmarked, NoApproval
<1>3. ASSUME NEW s \in CampaignStatus, WriteCampaign(s)
      PROVE  TypeOK' /\ PublishInv'
  <2>1. campaign' \in CampaignStatus \cup {"deleted"} /\ project' \in BOOLEAN
    BY <1>3 DEF WriteCampaign, TypeOK
  <2>2. QED
    BY <1>2, <1>3, <2>1 DEF WriteCampaign
<1>4. CASE DeleteCampaign
  <2>1. campaign' \in CampaignStatus \cup {"deleted"} /\ project' \in BOOLEAN
    BY <1>4 DEF DeleteCampaign, TypeOK
  <2>2. QED
    BY <1>2, <1>4, <2>1 DEF DeleteCampaign
<1>5. QED
  BY <1>1, <1>3, <1>4 DEF People

(* The deliveries keep the types.                                            *)
LEMMA DeliveryType ==
    ASSUME TypeOK, NEW d \in Deliveries,
           \/ Send(d) \/ Redeliver(d) \/ DeliveryStep(d)
           \/ WorkerLost(d) \/ DispatchLost(d)
    PROVE  TypeOK'
<1> USE PublishConstants DEF people, reads, analytics, Running, Ended
<1>0. d[1] \in Posts
  BY DEF Deliveries
<1>1. CASE Send(d) \/ Redeliver(d)
  BY <1>1 DEF Send, Redeliver, Begin, TypeOK
<1>2. CASE LoadPost(d)
  BY <1>0, <1>2 DEF LoadPost, TypeOK, Row
<1>3. CASE LoadCampaign(d)
  BY <1>3 DEF LoadCampaign, TypeOK
<1>4. CASE GuardPass(d)
  BY <1>4 DEF GuardPass, TypeOK
<1>5. CASE GuardBlock(d)
  BY <1>5 DEF GuardBlock, End, TypeOK, Status
<1>6. CASE Publish(d)
  BY <1>0, <1>6 DEF Publish, TypeOK
<1>7. CASE Update(d)
  <2>1. row' = row
    BY <1>0, <1>7 DEF Update, Flush, LoadedValue, TypeOK
  <2>2. QED
    BY <1>7, <2>1 DEF Update, TypeOK
<1>8. CASE Dispatch(d)
  BY <1>0, <1>8 DEF Dispatch, End, TypeOK, Status
<1>9. CASE Retry(d)
  <2>1. Tried(d) \in 0..MaxRetries
    BY <1>9 DEF Retry, MayRetry, Tried, TypeOK
  <2>2. QED
    BY <1>9, <2>1 DEF Retry, RetryAt, Begin, TypeOK
<1>10. CASE Fail(d)
  BY <1>10 DEF Fail, End, TypeOK, Status
<1>11. CASE WorkerLost(d)
  BY <1>11 DEF WorkerLost, Begin, TypeOK
<1>12. CASE DispatchLost(d)
  BY <1>0, <1>12 DEF DispatchLost, Begin, TypeOK
<1>13. QED
  BY <1>1, <1>2, <1>3, <1>4, <1>5, <1>6, <1>7, <1>8, <1>9, <1>10, <1>11,
     <1>12 DEF DeliveryStep

(* The update reaches no row: the value it sets is the one it compares with. *)
LEMMA UpdateWritesNothing ==
    ASSUME TypeOK, NEW d \in Deliveries, Update(d)
    PROVE  row' = row
BY DEF Update, Flush, LoadedValue, TypeOK, Deliveries

(* A delivery that starts over is no longer past its reads.                  *)
LEMMA BeginKeeps ==
    ASSUME TypeOK, PublishInv, NEW d \in Deliveries, Begin(d, "queued"),
           UNCHANGED <<people, reads, posted, optimised>>
    PROVE  PublishInv'
<1>1. CopiesFresh'
  BY DEF Begin, PublishInv, CopiesFresh, TypeOK, people, reads, Running
<1>2. QED
  BY <1>1 DEF PublishInv, RowsUnmarked, NoApproval, people, reads

(* One that ends forgets what it read.                                       *)
LEMMA EndKeeps ==
    ASSUME TypeOK, PublishInv, NEW d \in Deliveries,
           NEW q \in Ended, End(d, q),
           UNCHANGED <<people, posted, optimised>>
    PROVE  PublishInv'
<1>1. CopiesFresh'
  BY DEF End, PublishInv, CopiesFresh, TypeOK, people, Running, Ended
<1>2. NoApproval'
  BY DEF End, PublishInv, NoApproval, TypeOK, people
<1>3. QED
  BY <1>1, <1>2 DEF PublishInv, RowsUnmarked, people

(* What the deliveries read is what the attempt found, and the guards let    *)
(* through only an approved copy.                                            *)
LEMMA DeliveryInv ==
    ASSUME TypeOK, PublishInv, NEW d \in Deliveries,
           \/ Send(d) \/ Redeliver(d) \/ DeliveryStep(d)
           \/ WorkerLost(d) \/ DispatchLost(d)
    PROVE  PublishInv'
<1> USE DEF reads, analytics
<1>0. d[1] \in Posts
  BY DEF Deliveries
<1>1. CASE Send(d) \/ Redeliver(d) \/ Retry(d) \/ WorkerLost(d) \/ DispatchLost(d)
  BY <1>1, BeginKeeps DEF Send, Redeliver, Retry, RetryAt, WorkerLost, DispatchLost
<1>2. CASE GuardBlock(d) \/ Dispatch(d) \/ Fail(d)
  BY <1>2, EndKeeps DEF GuardBlock, Dispatch, Fail, Ended
<1>3. CASE LoadPost(d)
  <2>1. CopiesFresh'
    BY <1>3 DEF LoadPost, people, PublishInv, CopiesFresh, TypeOK, Running
  <2>2. NoApproval'
    BY <1>0, <1>3 DEF LoadPost, people, PublishInv, NoApproval, TypeOK
  <2>3. QED
    BY <1>3, <2>1, <2>2 DEF LoadPost, people, PublishInv, RowsUnmarked
<1>4. CASE LoadCampaign(d) \/ GuardPass(d)
  <2>1. CopiesFresh'
    BY <1>4 DEF LoadCampaign, GuardPass, Publishable, people, PublishInv,
                CopiesFresh, TypeOK, Running
  <2>2. QED
    BY <1>4, <2>1 DEF LoadCampaign, GuardPass, people, PublishInv, RowsUnmarked,
                      NoApproval
<1>5. CASE Publish(d)
  <2>1. CopiesFresh'
    BY <1>5 DEF Publish, people, PublishInv, CopiesFresh, TypeOK, Running
  <2>2. "approved" \notin writable => seenPost[d] # "approved"
    BY DEF PublishInv, NoApproval
  <2>3. NoApproval'
    BY <1>0, <1>5, <2>2 DEF Publish, people, PublishInv, CopiesFresh, NoApproval,
                            TypeOK
  <2>4. QED
    BY <1>5, <2>1, <2>3 DEF Publish, people, PublishInv, RowsUnmarked
<1>6. CASE Update(d)
  <2>1. row' = row
    BY <1>6, UpdateWritesNothing
  <2>2. CopiesFresh'
    BY <1>6, <2>1 DEF Update, PublishInv, CopiesFresh, TypeOK, Running
  <2>3. QED
    BY <1>6, <2>1, <2>2 DEF Update, PublishInv, RowsUnmarked, NoApproval
<1>7. QED
  BY <1>1, <1>2, <1>3, <1>4, <1>5, <1>6 DEF DeliveryStep

(* An analytics task only looks: it finds no published_at to act on.         *)
LEMMA CollectInv ==
    ASSUME TypeOK, PublishInv, NEW p \in Posts, NEW b \in BOOLEAN, Collect(p, b)
    PROVE  TypeOK' /\ PublishInv'
<1>1. optimised' = optimised
  BY DEF Collect, PublishInv, RowsUnmarked, TypeOK
<1>2. QED
  BY <1>1 DEF Collect, people, reads, TypeOK, PublishInv, CopiesFresh,
              RowsUnmarked, NoApproval

LEMMA StutterInv ==
    ASSUME TypeOK, PublishInv, UNCHANGED vars
    PROVE  TypeOK' /\ PublishInv'
BY DEF vars, TypeOK, PublishInv, CopiesFresh, RowsUnmarked, NoApproval

LEMMA NextInv ==
    ASSUME TypeOK, PublishInv, [Next]_vars
    PROVE  TypeOK' /\ PublishInv'
BY PeopleInv, DeliveryType, DeliveryInv, CollectInv, StutterInv DEF Next

THEOREM InvariantHolds == Spec => [](TypeOK /\ PublishInv)
<1>1. Init => TypeOK /\ PublishInv
  BY InitInv
<1>2. (TypeOK /\ PublishInv) /\ [Next]_vars => (TypeOK /\ PublishInv)'
  BY NextInv
<1>3. QED
  BY <1>1, <1>2, PTL DEF Spec

(* Every reachable state of the publish task has the declared types.         *)
THEOREM PublishTypeCorrect == Spec => []TypeOK
BY InvariantHolds, PTL

(* Nothing is put on the platform but under an approval in force during the  *)
(* attempt that puts it there, whatever is retried, redelivered or rewritten.*)
THEOREM ApprovalFresh == Spec => []FreshApproval
<1>1. TypeOK /\ PublishInv => FreshApproval
  BY DEF PublishInv, CopiesFresh, FreshApproval, Running
<1>2. QED
  BY <1>1, InvariantHolds, PTL

(* Where the approval flow never writes "approved", nothing is published.    *)
THEOREM NeverPublishes == Spec => []NothingPublished
<1>1. TypeOK /\ PublishInv => NothingPublished
  BY DEF PublishInv, NoApproval, NothingPublished
<1>2. QED
  BY <1>1, InvariantHolds, PTL

(* No publication ever leads to a mid-campaign optimisation.                 *)
THEOREM NeverOptimises == Spec => []OptimisationNever
<1>1. TypeOK /\ PublishInv => OptimisationNever
  BY DEF PublishInv, RowsUnmarked, OptimisationNever
<1>2. QED
  BY <1>1, InvariantHolds, PTL

-----------------------------------------------------------------------------
(* The two counts. What is counted is finite, and there is one attempt for   *)
(* each delivery and retry.                                                  *)
LEMMA CountedFinite ==
    ASSUME NEW p \in Posts
    PROVE  /\ IsFiniteSet(Unanswered(p)) /\ Cardinality(Unanswered(p)) \in Nat
           /\ IsFiniteSet(Attempted(p)) /\ Cardinality(Attempted(p)) \in Nat
           /\ Cardinality(Attempted(p)) <= MaxDeliveries * (MaxRetries + 1)
<1> USE PublishConstants
<1>1. IsFiniteSet(1..MaxDeliveries) /\ Cardinality(1..MaxDeliveries) = MaxDeliveries
  BY FS_Interval
<1>2. IsFiniteSet(0..MaxRetries) /\ Cardinality(0..MaxRetries) = MaxRetries + 1
  BY FS_Interval
<1> DEFINE All == (1..MaxDeliveries) \X (0..MaxRetries)
<1>3. IsFiniteSet(All) /\ Cardinality(All) = MaxDeliveries * (MaxRetries + 1)
  BY <1>1, <1>2, FS_Product
<1>4. Unanswered(p) \subseteq 1..MaxDeliveries /\ Attempted(p) \subseteq All
  BY DEF Unanswered, Attempted
<1> HIDE DEF All
<1>5. QED
  BY <1>1, <1>3, <1>4, FS_Subset, FS_CardinalityType

(* A step that moves no delivery of a post leaves its counts as they were.   *)
LEMMA CountedAlone ==
    ASSUME NEW p \in Posts,
           \A k \in 1..MaxDeliveries : /\ pc'[<<p, k>>] = pc[<<p, k>>]
                                       /\ tries'[<<p, k>>] = tries[<<p, k>>]
    PROVE  Unanswered(p)' = Unanswered(p) /\ Attempted(p)' = Attempted(p)
<1>1. Unanswered(p)' = Unanswered(p)
  BY DEF Unanswered
<1>2. \A x \in (1..MaxDeliveries) \X (0..MaxRetries) :
         /\ pc'[<<p, x[1]>>] = pc[<<p, x[1]>>]
         /\ tries'[<<p, x[1]>>] = tries[<<p, x[1]>>]
  OBVIOUS
<1>3. QED
  BY <1>1, <1>2 DEF Attempted

(* A delivery moves one post's counts, the posts' other ones stay.           *)
LEMMA CountsOfOthers ==
    ASSUME TypeOK, Answered, Accounted, NEW d \in Deliveries, NEW v,
           pc' = [pc EXCEPT ![d] = v],
           tries' = tries \/ tries' = [tries EXCEPT ![d] = Tried(d)],
           collects' = collects \/ collects' = [collects EXCEPT ![d[1]] = @ + 1],
           posted' = posted \/ posted' = [posted EXCEPT ![d[1]] = @ + 1],
           losses' \in Nat, losses' >= losses,
           NEW p \in Posts, p # d[1]
    PROVE  /\ collects'[p] + Cardinality(Unanswered(p)') <= posted'[p]
           /\ posted'[p] <= Cardinality(Attempted(p)') + losses'
<1>1. \A k \in 1..MaxDeliveries : <<p, k>> \in Deliveries /\ <<p, k>> # d
  BY DEF Deliveries
<1>2. \A k \in 1..MaxDeliveries : /\ pc'[<<p, k>>] = pc[<<p, k>>]
                                  /\ tries'[<<p, k>>] = tries[<<p, k>>]
  BY <1>1 DEF TypeOK
<1>3. Unanswered(p)' = Unanswered(p) /\ Attempted(p)' = Attempted(p)
  BY <1>2, CountedAlone
<1>4. collects'[p] = collects[p] /\ posted'[p] = posted[p]
  BY DEF TypeOK, Deliveries
<1>5. Cardinality(Attempted(p)) \in Nat /\ posted[p] \in Nat /\ losses \in Nat
  BY CountedFinite, PublishConstants DEF TypeOK
<1>6. QED
  BY <1>3, <1>4, <1>5 DEF Answered, Accounted

(* What one step of a delivery does to the two sets of its own post, by what *)
(* it does to its place and to its count of retries.                         *)
LEMMA CountedMoves ==
    ASSUME TypeOK, TypeOK', NEW d \in Deliveries, NEW v,
           pc' = [pc EXCEPT ![d] = v], tries' = tries
    PROVE  LET P == {"posted", "recorded"}
               Q == P \cup {"done", "failed"}
               a == <<d[2], tries[d]>>
           IN /\ d[2] \in 1..MaxDeliveries
              /\ a \in (1..MaxDeliveries) \X (0..MaxRetries)
              /\ Unanswered(d[1])' = IF v \in P THEN Unanswered(d[1]) \cup {d[2]}
                                     ELSE Unanswered(d[1]) \ {d[2]}
              /\ d[2] \in Unanswered(d[1]) <=> pc[d] \in P
              /\ Attempted(d[1])' = IF v \in Q THEN Attempted(d[1]) \cup {a}
                                    ELSE Attempted(d[1]) \ {a}
              /\ a \in Attempted(d[1]) <=> pc[d] \in Q
<1> DEFINE P == {"posted", "recorded"}
           Q == P \cup {"done", "failed"}
           a == <<d[2], tries[d]>>
           All == (1..MaxDeliveries) \X (0..MaxRetries)
<1>1. d = <<d[1], d[2]>> /\ d[1] \in Posts /\ d[2] \in 1..MaxDeliveries
  BY DEF Deliveries
<1>2. tries[d] \in 0..MaxRetries /\ tries[d] \in Nat
  BY PublishConstants DEF TypeOK
<1>3. \A k \in 1..MaxDeliveries :
         pc'[<<d[1], k>>] = IF k = d[2] THEN v ELSE pc[<<d[1], k>>]
  BY <1>1 DEF TypeOK, Deliveries
<1>4. Unanswered(d[1])' = IF v \in P THEN Unanswered(d[1]) \cup {d[2]}
                          ELSE Unanswered(d[1]) \ {d[2]}
  BY <1>1, <1>3 DEF Unanswered
<1>5. d[2] \in Unanswered(d[1]) <=> pc[d] \in P
  BY <1>1 DEF Unanswered
<1>6. a \in All
  BY <1>1, <1>2
<1>7. a \in Attempted(d[1]) <=> pc[d] \in Q
  BY <1>1, <1>2, <1>6 DEF Attempted
<1>8. ASSUME NEW x \in All
      PROVE  x \in Attempted(d[1])' <=>
                IF x = a THEN v \in Q ELSE x \in Attempted(d[1])
  <2>1. x = <<x[1], x[2]>> /\ x[1] \in 1..MaxDeliveries /\ x[2] \in 0..MaxRetries
    OBVIOUS
  <2>2. CASE x[1] # d[2]
    BY <1>3, <2>1, <2>2 DEF Attempted
  <2>3. CASE x[1] = d[2] /\ x[2] # tries[d]
    BY <1>1, <1>3, <2>1, <2>3 DEF Attempted
  <2>4. CASE x[1] = d[2] /\ x[2] = tries[d]
    BY <1>1, <1>2, <1>3, <2>1, <2>4 DEF Attempted
  <2>5. QED
    BY <2>1, <2>2, <2>3, <2>4
<1>9. Attempted(d[1]) \subseteq All /\ Attempted(d[1])' \subseteq All
  BY DEF Attempted
<1> HIDE DEF All
<1>10. Attempted(d[1])' = IF v \in Q THEN Attempted(d[1]) \cup {a}
                          ELSE Attempted(d[1]) \ {a}
  BY <1>6, <1>8, <1>9
<1>11. QED
  BY <1>1, <1>4, <1>5, <1>6, <1>7, <1>10 DEF All

(* The sets grow and shrink by at most the one that moved.                   *)
LEMMA OneMore ==
    ASSUME NEW S, NEW T, NEW x, IsFiniteSet(S), T \subseteq S \cup {x}
    PROVE  /\ Cardinality(S) \in Nat /\ Cardinality(T) \in Nat
           /\ Cardinality(T) <= Cardinality(S) + 1
<1>1. IsFiniteSet(S \cup {x}) /\ Cardinality(S \cup {x}) <= Cardinality(S) + 1
  <2>1. IsFiniteSet(S \cup {x}) /\ Cardinality(S) \in Nat
    BY FS_AddElement, FS_CardinalityType
  <2>2. CASE x \in S
    <3>1. S \cup {x} = S
      BY <2>2
    <3>2. QED
      BY <2>1, <3>1
  <2>3. CASE x \notin S
    <3>1. Cardinality(S \cup {x}) = Cardinality(S) + 1
      BY <2>3, FS_AddElement
    <3>2. QED
      BY <2>1, <3>1
  <2>4. QED
    BY <2>2, <2>3
<1>2. IsFiniteSet(T) /\ Cardinality(T) <= Cardinality(S \cup {x})
  BY <1>1, FS_Subset
<1>3. QED
  BY <1>1, <1>2, FS_CardinalityType

LEMMA DeliveryCounts ==
    ASSUME TypeOK, TypeOK', Answered, Accounted, NEW d \in Deliveries,
           \/ Send(d) \/ Redeliver(d) \/ DeliveryStep(d)
           \/ WorkerLost(d) \/ DispatchLost(d)
    PROVE  Answered' /\ Accounted'
<1> USE DEF people, reads, analytics
<1> DEFINE q == d[1]
           P == {"posted", "recorded"}
           Q == P \cup {"done", "failed"}
           a == <<d[2], tries[d]>>
           U == Unanswered(q)
           A == Attempted(q)
<1>0. q \in Posts /\ collects[q] \in Nat /\ posted[q] \in Nat /\ losses \in Nat
      /\ collects'[q] \in Nat /\ posted'[q] \in Nat /\ losses' \in Nat
  BY PublishConstants DEF Deliveries, TypeOK
<1>1. IsFiniteSet(U) /\ Cardinality(U) \in Nat /\ IsFiniteSet(A) /\ Cardinality(A) \in Nat
  BY <1>0, CountedFinite
<1>2. collects[q] + Cardinality(U) <= posted[q] /\ posted[q] <= Cardinality(A) + losses
  BY <1>0 DEF Answered, Accounted
<1> HIDE DEF q, U, A
<1>3. ASSUME NEW v, pc' = [pc EXCEPT ![d] = v], tries' = tries
      PROVE  /\ U' = IF v \in P THEN U \cup {d[2]} ELSE U \ {d[2]}
             /\ d[2] \in U <=> pc[d] \in P
             /\ A' = IF v \in Q THEN A \cup {a} ELSE A \ {a}
             /\ a \in A <=> pc[d] \in Q
  BY <1>3, CountedMoves DEF q, U, A
<1>4. \A p \in Posts : p # q =>
         /\ collects'[p] + Cardinality(Unanswered(p)') <= posted'[p]
         /\ posted'[p] <= Cardinality(Attempted(p)') + losses'
  <2>1. \E v : pc' = [pc EXCEPT ![d] = v]
    BY DEF DeliveryStep, Send, Redeliver, Begin, LoadPost, LoadCampaign, GuardPass,
           GuardBlock, End, Publish, Update, Dispatch, Retry, Fail, WorkerLost,
           DispatchLost
  <2>2. /\ tries' = tries \/ tries' = [tries EXCEPT ![d] = Tried(d)]
        /\ collects' = collects \/ collects' = [collects EXCEPT ![d[1]] = @ + 1]
        /\ posted' = posted \/ posted' = [posted EXCEPT ![d[1]] = @ + 1]
        /\ losses' = losses \/ losses' = losses + 1
    BY DEF DeliveryStep, Send, Redeliver, LoadPost, LoadCampaign, GuardPass,
           GuardBlock, Publish, Update, Dispatch, Retry, Fail, WorkerLost,
           DispatchLost
  <2>3. losses' >= losses
    BY <1>0, <2>2
  <2>4. QED
    BY <1>0, <2>1, <2>2, <2>3, CountsOfOthers DEF q
<1> DEFINE Counted == /\ collects'[q] + Cardinality(U') <= posted'[q]
                      /\ posted'[q] <= Cardinality(A') + losses'
<1>5. ASSUME Send(d) \/ Redeliver(d) \/ LoadPost(d) \/ LoadCampaign(d)
           \/ GuardPass(d) \/ GuardBlock(d)
      PROVE  Counted
  <2>1. PICK v \in {"queued", "loading", "guarding", "cleared", "blocked", "violation"} :
            pc' = [pc EXCEPT ![d] = v]
    BY <1>5 DEF Send, Redeliver, Begin, LoadPost, LoadCampaign, GuardPass,
                GuardBlock, End
  <2>2. UNCHANGED <<tries, collects, posted, losses>> /\ pc[d] \notin Q
    BY <1>5 DEF Send, Redeliver, LoadPost, LoadCampaign, GuardPass, GuardBlock
  <2>3. U' = U /\ A' = A
    BY <1>3, <2>1, <2>2
  <2>4. QED
    BY <1>0, <1>2, <2>1, <2>2, <2>3
<1>6. ASSUME Publish(d)
      PROVE  Counted
  <2>1. /\ pc' = [pc EXCEPT ![d] = "posted"] /\ pc[d] = "cleared"
        /\ posted' = [posted EXCEPT ![q] = @ + 1]
        /\ UNCHANGED <<tries, collects, losses>>
    BY <1>6 DEF Publish, q
  <2>2. U' = U \cup {d[2]} /\ A' = A \cup {a} /\ a \notin A
    BY <1>3, <2>1
  <2>3. Cardinality(U') <= Cardinality(U) + 1 /\ Cardinality(U') \in Nat
    BY <1>1, <2>2, OneMore
  <2>4. Cardinality(A') = Cardinality(A) + 1
    BY <1>1, <2>2, FS_AddElement
  <2>5. posted'[q] = posted[q] + 1
    BY <1>0, <2>1 DEF TypeOK
  <2>6. QED
    BY <1>0, <1>1, <1>2, <2>1, <2>3, <2>4, <2>5
<1>7. ASSUME Update(d)
      PROVE  Counted
  <2>1. /\ pc' = [pc EXCEPT ![d] = "recorded"] /\ pc[d] = "posted"
        /\ UNCHANGED <<tries, collects, posted, losses>>
    BY <1>7 DEF Update
  <2>2. U' = U /\ A' = A
    BY <1>3, <2>1
  <2>3. QED
    BY <1>0, <1>2, <2>1, <2>2
<1>8. ASSUME Dispatch(d) \/ DispatchLost(d)
      PROVE  Counted
  <2>1. PICK v \in {"done", "queued"} :
            /\ pc' = [pc EXCEPT ![d] = v]
            /\ IF v = "done" THEN losses' = losses ELSE losses' = losses + 1
    BY <1>8 DEF Dispatch, End, DispatchLost, Begin
  <2>2. /\ pc[d] = "recorded" /\ UNCHANGED <<tries, posted>>
        /\ collects' = [collects EXCEPT ![q] = @ + 1]
    BY <1>8 DEF Dispatch, DispatchLost, DispatchFrom, q
  <2>3. U' = U \ {d[2]} /\ d[2] \in U
    BY <1>3, <2>1, <2>2
  <2>4. Cardinality(U') = Cardinality(U) - 1
    BY <1>1, <2>3, FS_RemoveElement
  <2>5. collects'[q] = collects[q] + 1
    BY <1>0, <2>2 DEF TypeOK
  <2>6. posted[q] <= Cardinality(A') + losses'
    <3>1. CASE v = "done"
      <4>1. A' = A
        BY <1>3, <2>1, <2>2, <3>1
      <4>2. QED
        BY <1>2, <2>1, <3>1, <4>1
    <3>2. CASE v = "queued"
      <4>1. A' = A \ {a} /\ a \in A
        BY <1>3, <2>1, <2>2, <3>2
      <4>2. Cardinality(A') = Cardinality(A) - 1
        BY <1>1, <4>1, FS_RemoveElement
      <4>3. losses' = losses + 1
        BY <2>1, <3>2
      <4>4. QED
        BY <1>0, <1>1, <1>2, <4>2, <4>3
    <3>3. QED
      BY <3>1, <3>2
  <2>7. QED
    BY <1>0, <1>1, <1>2, <2>2, <2>4, <2>5, <2>6
<1>9. ASSUME Fail(d)
      PROVE  Counted
  <2>1. /\ pc' = [pc EXCEPT ![d] = "failed"]
        /\ UNCHANGED <<tries, collects, posted, losses>>
    BY <1>9 DEF Fail, End
  <2>2. U' = U \ {d[2]} /\ A' = A \cup {a}
    <3>1. /\ U' = IF "failed" \in P THEN U \cup {d[2]} ELSE U \ {d[2]}
          /\ A' = IF "failed" \in Q THEN A \cup {a} ELSE A \ {a}
      BY <1>3, <2>1
    <3>2. QED
      BY <3>1
  <2>3. Cardinality(U') <= Cardinality(U) /\ Cardinality(U') \in Nat
    BY <1>1, <2>2, FS_Subset, FS_CardinalityType
  <2>4. Cardinality(A') >= Cardinality(A) /\ Cardinality(A') \in Nat
    <3>1. IsFiniteSet(A')
      BY <1>1, <2>2, FS_AddElement
    <3>2. A \subseteq A'
      BY <2>2
    <3>3. QED
      BY <1>1, <3>1, <3>2, FS_Subset, FS_CardinalityType
  <2>5. QED
    BY <1>0, <1>1, <1>2, <2>1, <2>3, <2>4
<1>10. ASSUME WorkerLost(d)
      PROVE  Counted
  <2>1. /\ pc' = [pc EXCEPT ![d] = "queued"]
        /\ UNCHANGED <<tries, collects, posted>>
        /\ losses' = losses + 1
    BY <1>10 DEF WorkerLost, Begin
  <2>2. U' = U \ {d[2]} /\ A' = A \ {a}
    <3>1. /\ U' = IF "queued" \in P THEN U \cup {d[2]} ELSE U \ {d[2]}
          /\ A' = IF "queued" \in Q THEN A \cup {a} ELSE A \ {a}
      BY <1>3, <2>1
    <3>2. QED
      BY <3>1
  <2>3. Cardinality(U') <= Cardinality(U) /\ Cardinality(U') \in Nat
    BY <1>1, <2>2, FS_Subset, FS_CardinalityType
  <2>4. Cardinality(A) <= Cardinality(A') + 1 /\ Cardinality(A') \in Nat
    <3>1. IsFiniteSet(A') /\ A \subseteq A' \cup {a}
      BY <1>1, <2>2, FS_Subset
    <3>2. QED
      BY <3>1, OneMore
  <2>5. QED
    BY <1>0, <1>1, <1>2, <2>1, <2>3, <2>4
<1>11. ASSUME Retry(d)
      PROVE  Counted
  <2>1. /\ pc' = [pc EXCEPT ![d] = "queued"]
        /\ tries' = [tries EXCEPT ![d] = tries[d] + 1]
        /\ UNCHANGED <<collects, posted, losses>>
    BY <1>11 DEF Retry, RetryAt, Begin, Tried
  <2>2. d = <<d[1], d[2]>> /\ d[1] \in Posts /\ d[2] \in 1..MaxDeliveries
    BY DEF Deliveries
  <2>3. \A k \in 1..MaxDeliveries :
           /\ pc'[<<q, k>>] = IF k = d[2] THEN "queued" ELSE pc[<<q, k>>]
           /\ tries'[<<q, k>>] = IF k = d[2] THEN tries[d] + 1 ELSE tries[<<q, k>>]
    BY <2>1, <2>2 DEF TypeOK, Deliveries, q
  <2>4. U' \subseteq U
    BY <2>3 DEF U, Unanswered
  <2>5. A \subseteq A'
    <3> SUFFICES ASSUME NEW x \in A PROVE x \in A'
      OBVIOUS
    <3>1. x = <<x[1], x[2]>> /\ x[1] \in 1..MaxDeliveries /\ x[2] \in 0..MaxRetries
      BY DEF A, Attempted
    <3>2. tries[d] \in Nat /\ x[2] \in Nat
      BY <3>1, PublishConstants DEF TypeOK
    <3>3. CASE x[1] # d[2]
      BY <2>3, <3>1, <3>3 DEF A, Attempted
    <3>4. CASE x[1] = d[2]
      <4>1. x[2] <= tries[d]
        BY <2>2, <3>1, <3>2, <3>4 DEF A, Attempted, q
      <4>2. x[2] < tries'[<<q, x[1]>>]
        BY <2>3, <3>1, <3>2, <3>4, <4>1
      <4>3. QED
        BY <3>1, <4>2 DEF A, Attempted
    <3>5. QED
      BY <3>3, <3>4
  <2>6. Cardinality(U') <= Cardinality(U) /\ Cardinality(U') \in Nat
    BY <1>1, <2>4, FS_Subset, FS_CardinalityType
  <2>7. Cardinality(A') >= Cardinality(A) /\ Cardinality(A') \in Nat
    <3>1. IsFiniteSet(A')
      <4>1. A' \subseteq (1..MaxDeliveries) \X (0..MaxRetries)
        BY DEF A, Attempted
      <4>2. IsFiniteSet((1..MaxDeliveries) \X (0..MaxRetries))
        <5>1. IsFiniteSet(1..MaxDeliveries) /\ IsFiniteSet(0..MaxRetries)
          BY PublishConstants, FS_Interval
        <5>2. QED
          BY <5>1, FS_Product
      <4>3. QED
        BY <4>1, <4>2, FS_Subset
    <3>2. QED
      BY <2>5, <3>1, FS_Subset, FS_CardinalityType
  <2>8. QED
    BY <1>0, <1>1, <1>2, <2>1, <2>6, <2>7
<1>12. Counted
  BY <1>5, <1>6, <1>7, <1>8, <1>9, <1>10, <1>11 DEF DeliveryStep
<1>13. QED
  BY <1>4, <1>12 DEF Answered, Accounted, U, A

LEMMA NextCounts ==
    ASSUME TypeOK, TypeOK', Answered, Accounted, [Next]_vars
    PROVE  Answered' /\ Accounted'
<1>1. ASSUME UNCHANGED <<pc, tries, collects, posted, losses>>
      PROVE  Answered' /\ Accounted'
  BY <1>1 DEF Answered, Accounted, Unanswered, Attempted
<1>2. CASE People
  BY <1>1, <1>2 DEF People, WriteStatus, WriteCampaign, DeleteCampaign, analytics
<1>3. CASE \E p \in Posts, b \in BOOLEAN : Collect(p, b)
  BY <1>1, <1>3 DEF Collect
<1>4. CASE UNCHANGED vars
  BY <1>1, <1>4 DEF vars
<1>5. QED
  BY <1>2, <1>3, <1>4, DeliveryCounts DEF Next

LEMMA CountsHold == Spec => [](TypeOK /\ Answered /\ Accounted)
<1>1. Init => Answered /\ Accounted
  <2> SUFFICES ASSUME Init PROVE Answered /\ Accounted
    OBVIOUS
  <2>1. ASSUME NEW p \in Posts
        PROVE  Unanswered(p) = {} /\ posted[p] = 0 /\ collects[p] = 0 /\ losses = 0
    BY DEF Init, Unanswered, Deliveries
  <2>2. QED
    BY <2>1, CountedFinite, FS_EmptySet DEF Answered, Accounted
<1>2. TypeOK /\ TypeOK' /\ Answered /\ Accounted /\ [Next]_vars
        => Answered' /\ Accounted'
  BY NextCounts
<1>3. QED
  BY <1>1, <1>2, PublishTypeCorrect, PTL DEF Spec

(* Every appearance on the platform is one attempt of one delivery, or was   *)
(* made by a worker that was then lost: deliveries, retries and losses bound *)
(* how often a post can appear.                                              *)
THEOREM PublicationsBounded == Spec => []BoundedPublications
<1>1. TypeOK /\ Accounted => BoundedPublications
  <2> SUFFICES ASSUME TypeOK, Accounted, NEW p \in Posts
               PROVE  posted[p] <= MostPosts
    BY DEF BoundedPublications
  <2>1. /\ posted[p] \in Nat /\ losses \in Nat /\ losses <= MaxLosses
        /\ MaxLosses \in Nat /\ posted[p] <= Cardinality(Attempted(p)) + losses
    BY PublishConstants DEF TypeOK, Accounted
  <2>2. MaxDeliveries * (MaxRetries + 1) \in Nat
    BY PublishConstants
  <2> DEFINE m == MaxDeliveries * (MaxRetries + 1)
  <2>3. Cardinality(Attempted(p)) \in Nat /\ Cardinality(Attempted(p)) <= m
    BY CountedFinite
  <2>4. m \in Nat /\ MostPosts = m + MaxLosses
    BY <2>2 DEF MostPosts
  <2> HIDE DEF m
  <2>5. QED
    BY <2>1, <2>3, <2>4
<1>2. QED
  BY <1>1, CountsHold, PTL

(* Analytics are asked for at most once for each appearance on the platform, *)
(* also when the worker is lost after asking and the task runs again.        *)
THEOREM AnalyticsPaired == Spec => []AnalyticsFollowPosts
<1>1. TypeOK /\ Answered => AnalyticsFollowPosts
  <2> SUFFICES ASSUME TypeOK, Answered, NEW p \in Posts
               PROVE  collects[p] <= posted[p]
    BY DEF AnalyticsFollowPosts
  <2>1. /\ collects[p] \in Nat /\ posted[p] \in Nat /\ Cardinality(Unanswered(p)) \in Nat
        /\ collects[p] + Cardinality(Unanswered(p)) <= posted[p]
    BY CountedFinite DEF TypeOK, Answered
  <2>2. QED
    BY <2>1
<1>2. QED
  BY <1>1, CountsHold, PTL
=============================================================================
