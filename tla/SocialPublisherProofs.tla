------------------------- MODULE SocialPublisherProofs -------------------------
(***************************************************************************)
(* Proofs about SocialPublisher, for any runs, platforms and retries.      *)
(***************************************************************************)
EXTENDS SocialPublisher, TLAPS

Safe == PublishedWhenApproved /\ SettledIsFinal /\ PublishedIsWhole

Tokens == RowRefreshable /\ NothingSpent /\ Presented /\ NewIsPrivate /\ OwnRow

Steps == {"idle", "ended"} \cup Running

LEMMA InitInv == Init => SocialInv
<1> SUFFICES ASSUME Init PROVE SocialInv
  OBVIOUS
<1> USE SocialConstants DEF Init
<1>1. TypeOK
  <2>1. seen \in [Runs -> [fit : BOOLEAN, late : BOOLEAN]]
    BY DEF Unseen
  <2>2. pc \in [Runs -> {"idle", "ended"} \cup Running] /\ tries \in [Runs -> 0..MaxRetries]
    OBVIOUS
  <2>3. /\ kind \in [Runs -> {"none", "publish", "metrics", "connect"}]
        /\ row \in [Runs -> Nat] /\ at \in [Runs -> Nat]
        /\ used \in [Runs -> 0..issued] /\ new \in [Runs -> 0..issued]
    OBVIOUS
  <2>4. /\ post \in {"unset", "draft", "approved", "published", "failed", "gone"}
        /\ stored \in 0..issued /\ account \in {0, lastId} /\ lastId \in Nat
    OBVIOUS
  <2>5. QED
    BY <2>1, <2>2, <2>3, <2>4 DEF TypeOK
<1>2. Safe /\ DisconnectIsFinal
  BY DEF Safe, PublishedWhenApproved, SettledIsFinal, PublishedIsWhole,
         DisconnectIsFinal
<1>3. SeenFit /\ SettledStatus /\ SuccessIsWhole
  BY DEF SeenFit, SettledStatus, SuccessIsWhole, TokenSteps
<1>4. Tokens
  BY DEF Tokens, RowRefreshable, NothingSpent, Presented, NewIsPrivate, OwnRow,
         Brings
<1>5. QED
  BY <1>1, <1>2, <1>3, <1>4 DEF SocialInv, Safe, Tokens

(* What concerns the tokens survives a step that moves one run outside the   *)
(* steps that carry tokens, or touches none of their variables.              *)
LEMMA TokensFrame ==
    ASSUME SocialInv, NEW r \in Runs,
           UNCHANGED <<rotates, token, issued, spent, lost, used, new>>,
           \A q \in Runs : q # r => pc'[q] = pc[q] /\ row'[q] = row[q],
           pc[r] \notin {"ask", "store", "persist"},
           pc'[r] \notin {"ask", "store", "persist"}
    PROVE  Tokens'
<1> USE DEF SocialInv, token
<1>1. \A q \in Runs : pc'[q] \in {"ask", "store", "persist"} =>
          q # r /\ pc'[q] = pc[q] /\ row'[q] = row[q]
  OBVIOUS
<1>2. RowRefreshable' /\ NothingSpent'
  BY DEF RowRefreshable, NothingSpent
<1>3. Presented' /\ OwnRow'
  BY <1>1 DEF Presented, OwnRow
<1>4. NewIsPrivate'
  BY <1>1 DEF NewIsPrivate, Brings
<1>5. QED
  BY <1>2, <1>3, <1>4 DEF Tokens

LEMMA BeginInv ==
    ASSUME SocialInv, NEW r \in Runs, NEW k, NEW q, NEW a, Begin(r, k, q, a),
           a \in Nat,
           \/ k = "publish" /\ q = "load"
           \/ k = "metrics" /\ q = "token"
           \/ k = "connect" /\ q = "exchange",
           due' \subseteq due
    PROVE  SocialInv'
<1> USE DEF SocialInv, Begin, Goto, fixed, content, token, provider, shown
<1>1. TypeOK'
  BY DEF TypeOK, Running, TokenSteps
<1>2. Safe' /\ DisconnectIsFinal'
  BY DEF Safe, PublishedWhenApproved, SettledIsFinal, PublishedIsWhole,
         DisconnectIsFinal
<1>3. SeenFit' /\ SettledStatus' /\ SuccessIsWhole'
  BY DEF SeenFit, SettledStatus, SuccessIsWhole, TypeOK, TokenSteps
<1>4. Tokens'
  <2>1. pc'[r] = q /\ pc[r] = "idle"
    BY DEF TypeOK
  <2>2. \A p \in Runs : p # r => pc'[p] = pc[p] /\ row'[p] = row[p]
    BY DEF TypeOK
  <2>3. QED
    BY <2>1, <2>2, TokensFrame
<1>5. QED
  BY <1>1, <1>2, <1>3, <1>4 DEF Safe, Tokens

(* The end of an attempt: the run ends or starts afresh.                     *)
LEMMA AttemptEnds ==
    ASSUME TypeOK, NEW r \in Runs, pc[r] \in Running, Finish(r) \/ Raised(r)
    PROVE  /\ kind' \in [Runs -> {"none", "publish", "metrics", "connect"}]
           /\ pc' \in [Runs -> Steps]
           /\ row' \in [Runs -> Nat]
           /\ used' = [used EXCEPT ![r] = 0]
           /\ new' = [new EXCEPT ![r] = 0]
           /\ at' \in [Runs -> Nat]
           /\ tries' \in [Runs -> 0..MaxRetries]
           /\ seen' \in [Runs -> [fit : BOOLEAN, late : BOOLEAN]]
           /\ pc'[r] = "ended" \/ (pc'[r] = Restart(r) /\ kind'[r] = kind[r])
           /\ \A q \in Runs \ {r} : /\ pc'[q] = pc[q] /\ kind'[q] = kind[q]
                                    /\ row'[q] = row[q] /\ used'[q] = used[q]
                                    /\ new'[q] = new[q] /\ seen'[q] = seen[q]
<1> USE SocialConstants
<1>0. Unseen \in [fit : BOOLEAN, late : BOOLEAN]
  BY DEF Unseen
<1>f. ASSUME Forget(r)
      PROVE  /\ used' = [used EXCEPT ![r] = 0] /\ new' = [new EXCEPT ![r] = 0]
             /\ at' \in [Runs -> Nat]
             /\ seen' \in [Runs -> [fit : BOOLEAN, late : BOOLEAN]]
             /\ \A q \in Runs \ {r} : used'[q] = used[q] /\ new'[q] = new[q]
                                      /\ seen'[q] = seen[q]
  BY <1>0, <1>f DEF TypeOK, Forget
<1> USE DEF TypeOK, Goto, Restart, Steps, Running, TokenSteps
<1>1. ASSUME Finish(r)
      PROVE  /\ kind' \in [Runs -> {"none", "publish", "metrics", "connect"}]
             /\ pc' \in [Runs -> Steps]
             /\ row' \in [Runs -> Nat]
             /\ tries' \in [Runs -> 0..MaxRetries]
             /\ pc'[r] = "ended" /\ Forget(r)
             /\ \A q \in Runs \ {r} : /\ pc'[q] = pc[q] /\ kind'[q] = kind[q]
                                      /\ row'[q] = row[q]
  BY <1>1 DEF Finish
<1>2. CASE Raised(r)
  <2>1. CASE tries[r] < MaxRetries /\ tries' = Tries(r) /\ Goto(r, Restart(r))
             /\ Forget(r) /\ UNCHANGED <<kind, row>>
    <3>1. tries' \in [Runs -> 0..MaxRetries]
      BY <2>1 DEF Tries
    <3>2. QED
      BY <1>f, <2>1, <3>1
  <2>2. QED
    BY <1>f, <1>1, <1>2, <2>1 DEF Raised
<1>3. QED
  BY <1>f, <1>1, <1>2

(* An attempt may end with the loss of the token it was bringing, or after   *)
(* it has recorded how the publication went.                                 *)
LEMMA LeaveInv ==
    ASSUME SocialInv, NEW r \in Runs, pc[r] \in Running, Finish(r) \/ Raised(r),
           UNCHANGED <<fixed, campaign, token, shown, disconnected>>,
           due' \subseteq [run : Runs, row : Nat],
           \/ UNCHANGED <<post, settled>>
           \/ settled' = TRUE /\ post' \in {"failed", "gone"},
           issued' \in Nat, issued' >= issued,
           lost \subseteq lost', lost' \subseteq 1..issued',
           pc[r] = "store" => Replaced(used[r]) \subseteq lost',
           \/ spent' = spent
           \/ /\ pc[r] = "ask" /\ spent' = spent \cup Replaced(used[r])
              /\ Replaced(used[r]) \subseteq lost'
    PROVE  SocialInv'
<1> USE DEF SocialInv, fixed, token, shown
<1>0. /\ kind' \in [Runs -> {"none", "publish", "metrics", "connect"}]
      /\ pc' \in [Runs -> Steps]
      /\ row' \in [Runs -> Nat]
      /\ used' = [used EXCEPT ![r] = 0]
      /\ new' = [new EXCEPT ![r] = 0]
      /\ at' \in [Runs -> Nat]
      /\ tries' \in [Runs -> 0..MaxRetries]
      /\ seen' \in [Runs -> [fit : BOOLEAN, late : BOOLEAN]]
      /\ pc'[r] = "ended" \/ (pc'[r] = Restart(r) /\ kind'[r] = kind[r])
      /\ \A q \in Runs \ {r} : /\ pc'[q] = pc[q] /\ kind'[q] = kind[q]
                               /\ row'[q] = row[q] /\ used'[q] = used[q]
                               /\ new'[q] = new[q] /\ seen'[q] = seen[q]
  BY AttemptEnds
<1>1. pc'[r] \in {"ended", "load", "token"}
  BY <1>0 DEF Restart
<1>2. TypeOK'
  <2>1. spent' \subseteq 1..issued'
    <3>1. spent \subseteq 1..issued' /\ lost' \subseteq 1..issued'
      BY DEF TypeOK
    <3>2. QED
      BY <3>1
  <2>2. stored' \in 0..issued' /\ lost' \subseteq 1..issued'
    BY DEF TypeOK
  <2>3. used' \in [Runs -> 0..issued'] /\ new' \in [Runs -> 0..issued']
    BY <1>0 DEF TypeOK
  <2>4. post' \in {"unset", "draft", "approved", "published", "failed", "gone"}
        /\ settled' \in BOOLEAN
    BY DEF TypeOK
  <2>5. QED
    BY <1>0, <2>1, <2>2, <2>3, <2>4 DEF TypeOK, Steps
<1>3. Safe' /\ DisconnectIsFinal'
  BY DEF Safe, PublishedWhenApproved, SettledIsFinal, PublishedIsWhole,
         DisconnectIsFinal
<1>4. SeenFit'
  BY <1>0, <1>1 DEF SeenFit, Restart, TokenSteps, TypeOK
<1>5. SettledStatus' /\ SuccessIsWhole'
  BY <1>0, <1>1 DEF SettledStatus, SuccessIsWhole
<1>6. NothingSpent'
  BY DEF NothingSpent, Replaced
<1>7. Presented'
  BY <1>0, <1>1 DEF Presented
<1>8. OwnRow'
  BY <1>0, <1>1 DEF OwnRow
<1>9. NewIsPrivate'
  <2> SUFFICES ASSUME rotates, NEW p \in Runs, NEW n \in 1..issued', Brings(p, n)'
               PROVE  /\ n \notin spent' /\ n # stored
                      /\ \A q \in Runs : /\ pc'[q] = "ask" => used'[q] # n
                                         /\ Brings(q, n)' => q = p
    BY DEF NewIsPrivate
  <2>1. p # r /\ Brings(p, n)
    BY <1>0, <1>1 DEF Brings
  <2>2. n \in 1..issued
    BY <2>1 DEF Brings, TypeOK
  <2>3. /\ n \notin spent /\ n # stored
        /\ \A q \in Runs : /\ pc[q] = "ask" => used[q] # n
                           /\ Brings(q, n) => q = p
    BY <2>1, <2>2 DEF NewIsPrivate
  <2>4. n \notin spent'
    BY <2>3 DEF Replaced
  <2>5. \A q \in Runs : /\ pc'[q] = "ask" => used'[q] # n
                        /\ Brings(q, n)' => q = p
    BY <1>0, <1>1, <2>3 DEF Brings
  <2>6. QED
    BY <2>3, <2>4, <2>5
<1>10. RowRefreshable'
  <2> SUFFICES ASSUME account # 0, stored \in spent', stored \notin lost'
               PROVE  \E q \in Runs : /\ pc'[q] = "store" /\ used'[q] = stored
                                      /\ row'[q] = account
    BY DEF RowRefreshable
  <2>1. stored \in spent /\ rotates
    BY DEF Replaced, NothingSpent, TypeOK
  <2>2. PICK q \in Runs : pc[q] = "store" /\ used[q] = stored /\ row[q] = account
    BY <2>1 DEF RowRefreshable
  <2>3. q # r
    BY <2>1, <2>2 DEF Replaced
  <2>4. QED
    BY <1>0, <2>2, <2>3
<1>11. QED
  BY <1>2, <1>3, <1>4, <1>5, <1>6, <1>7, <1>8, <1>9, <1>10 DEF Safe

(* The steps of one run that touch no token: the checks, the requests, the   *)
(* record of a success.                                                      *)
LEMMA LoadInv == ASSUME SocialInv, NEW r \in Runs, Load(r) PROVE SocialInv'
<1> USE DEF SocialInv, Load, Goto, fixed, content, token, provider, shown
<1>1. TypeOK'
  BY DEF TypeOK, Running, TokenSteps
<1>2. Safe' /\ DisconnectIsFinal'
  BY DEF Safe, PublishedWhenApproved, SettledIsFinal, PublishedIsWhole,
         DisconnectIsFinal
<1>3. SeenFit'
  <2>1. post = "approved" /\ campaign = "active" /\ ~settled
    BY DEF Publishable, SettledStatus
  <2>2. seen'[r].fit /\ ~seen'[r].late
    BY <2>1 DEF TypeOK
  <2>3. \A q \in Runs : q # r => pc'[q] = pc[q] /\ seen'[q] = seen[q]
    BY DEF TypeOK
  <2>4. QED
    BY <2>2, <2>3 DEF SeenFit
<1>4. SettledStatus' /\ SuccessIsWhole'
  BY DEF SettledStatus, SuccessIsWhole, TypeOK
<1>5. Tokens'
  <2>1. pc[r] = "load" /\ pc'[r] = "token" /\ UNCHANGED <<row, used, new, lost>>
    BY DEF TypeOK
  <2>2. \A q \in Runs : q # r => pc'[q] = pc[q] /\ row'[q] = row[q]
    BY DEF TypeOK
  <2>3. QED
    BY <2>1, <2>2, TokensFrame
<1>6. QED
  BY <1>1, <1>2, <1>3, <1>4, <1>5 DEF Safe, Tokens

LEMMA TokenReadInv == ASSUME SocialInv, NEW r \in Runs, TokenRead(r) PROVE SocialInv'
<1> USE DEF SocialInv, TokenRead, ReadOnly, Goto, fixed, content, token, provider,
            shown
<1>1. TypeOK'
  BY DEF TypeOK, Running, TokenSteps
<1>2. Safe' /\ DisconnectIsFinal'
  BY DEF Safe, PublishedWhenApproved, SettledIsFinal, PublishedIsWhole,
         DisconnectIsFinal
<1>3. SeenFit' /\ SettledStatus' /\ SuccessIsWhole'
  BY DEF SeenFit, SettledStatus, SuccessIsWhole, TypeOK, TokenSteps
<1>4. Tokens'
  <2>1. pc[r] = "token" /\ pc'[r] \in {"refresh", "call"}
        /\ UNCHANGED <<row, used, new, lost>>
    BY DEF TypeOK
  <2>2. \A q \in Runs : q # r => pc'[q] = pc[q] /\ row'[q] = row[q]
    BY DEF TypeOK
  <2>3. QED
    BY <2>1, <2>2, TokensFrame
<1>5. QED
  BY <1>1, <1>2, <1>3, <1>4 DEF Safe, Tokens

(* A request, answered or not: what it shows is what the checks let through. *)
LEMMA CallInv ==
    ASSUME SocialInv, NEW r \in Runs, Call(r) \/ \E done \in BOOLEAN : CallFails(r, done)
    PROVE  SocialInv'
<1> USE DEF SocialInv, Publishing, Goto, fixed, content, token, provider, shown
<1>0. /\ pc[r] = "call" /\ kind[r] = "publish"
      /\ UNCHANGED <<fixed, content, campaign, token, provider, due, kind, row,
                     used, new, tries, seen, disconnected>>
      /\ pc' \in [Runs -> Steps] /\ at' \in [Runs -> Nat]
      /\ pc'[r] \in {"call", "published", "failed"}
      /\ \A q \in Runs \ {r} : pc'[q] = pc[q]
      /\ live' \in {live, live \cup {Publication(r)}}
      /\ whole' \in {whole, whole \cup {[run |-> r, try |-> tries[r]]}}
      /\ pc'[r] = "published" => whole' # {}
  <2>1. CASE Call(r)
    <3>1. pc' \in [Runs -> Steps] /\ at' \in [Runs -> Nat]
      BY <2>1 DEF Call, AfterLast, TypeOK, Steps, Running
    <3>2. /\ pc[r] = "call" /\ kind[r] = "publish"
          /\ pc'[r] \in {"call", "published"}
          /\ \A q \in Runs \ {r} : pc'[q] = pc[q]
      BY <2>1 DEF Call, AfterLast, TypeOK
    <3>3. /\ live' \in {live, live \cup {Publication(r)}}
          /\ whole' \in {whole, whole \cup {[run |-> r, try |-> tries[r]]}}
          /\ at[r] + 1 = Requests[platform] => whole' # {}
      BY <2>1 DEF Call
    <3>4. pc'[r] = "published" => at[r] + 1 = Requests[platform]
      BY <2>1 DEF Call, LastRequest, TypeOK
    <3>5. UNCHANGED <<fixed, content, campaign, token, provider, due, kind, row,
                      used, new, tries, seen, disconnected>>
      BY <2>1 DEF Call
    <3>6. QED
      BY <3>1, <3>2, <3>3, <3>4, <3>5
  <2>2. CASE \E done \in BOOLEAN : CallFails(r, done)
    BY <2>2 DEF CallFails, TypeOK, Steps, Running
  <2>3. QED
    BY <2>1, <2>2
<1>1. /\ Publication(r) \in [run : Runs, try : Nat, fit : BOOLEAN, late : BOOLEAN]
      /\ Publication(r).fit /\ ~Publication(r).late
  <2>1. seen[r].fit = TRUE /\ seen[r].late = FALSE
    BY <1>0 DEF SeenFit, TypeOK
  <2>2. tries[r] \in Nat
    BY SocialConstants DEF TypeOK
  <2>3. QED
    BY <2>1, <2>2 DEF Publication
<1>2. TypeOK'
  <2>1. [run |-> r, try |-> tries[r]] \in [run : Runs, try : Nat]
    BY SocialConstants DEF TypeOK
  <2>2. whole' \subseteq [run : Runs, try : Nat]
    BY <1>0, <2>1 DEF TypeOK
  <2>3. live' \subseteq [run : Runs, try : Nat, fit : BOOLEAN, late : BOOLEAN]
    BY <1>0, <1>1 DEF TypeOK
  <2>4. QED
    BY <1>0, <2>2, <2>3 DEF TypeOK, Steps
<1>3. Safe' /\ DisconnectIsFinal'
  BY <1>0, <1>1 DEF Safe, PublishedWhenApproved, SettledIsFinal, PublishedIsWhole,
                    DisconnectIsFinal
<1>4. SeenFit' /\ SettledStatus' /\ SuccessIsWhole'
  BY <1>0 DEF SeenFit, SettledStatus, SuccessIsWhole, TokenSteps
<1>5. Tokens'
  BY <1>0, TokensFrame
<1>6. QED
  BY <1>2, <1>3, <1>4, <1>5 DEF Safe, Tokens

LEMMA MarkPublishedInv ==
    ASSUME SocialInv, NEW r \in Runs, MarkPublished(r)
    PROVE  SocialInv'
<1> USE DEF SocialInv, MarkPublished, Mark, Outcome, Goto, fixed, token, provider,
            shown
<1>1. TypeOK'
  BY DEF TypeOK, Running, TokenSteps
<1>2. Safe' /\ DisconnectIsFinal'
  BY DEF Safe, PublishedWhenApproved, SettledIsFinal, PublishedIsWhole,
         DisconnectIsFinal, SuccessIsWhole
<1>3. SeenFit' /\ SettledStatus' /\ SuccessIsWhole'
  BY DEF SeenFit, SettledStatus, SuccessIsWhole, TypeOK, TokenSteps
<1>4. Tokens'
  <2>1. pc[r] = "published" /\ pc'[r] = "dispatch"
        /\ UNCHANGED <<row, used, new, lost>>
    BY DEF TypeOK
  <2>2. \A q \in Runs : q # r => pc'[q] = pc[q] /\ row'[q] = row[q]
    BY DEF TypeOK
  <2>3. QED
    BY <2>1, <2>2, TokensFrame
<1>5. QED
  BY <1>1, <1>2, <1>3, <1>4 DEF Safe, Tokens

(* The steps that carry a token.                                             *)
LEMMA RefreshReadInv == ASSUME SocialInv, NEW r \in Runs, RefreshRead(r) PROVE SocialInv'
<1> USE DEF SocialInv, RefreshRead, ReadOnly, Goto, fixed, content, token, provider,
            shown
<1>0. /\ pc[r] = "refresh" /\ pc'[r] = "ask" /\ used'[r] = stored
      /\ stored \in 1..issued /\ account = row[r]
      /\ \A q \in Runs \ {r} : pc'[q] = pc[q] /\ used'[q] = used[q]
      /\ UNCHANGED <<rotates, account, stored, issued, spent, lost, row, new>>
  BY DEF TypeOK
<1>1. TypeOK'
  BY DEF TypeOK, Running, TokenSteps
<1>2. Safe' /\ DisconnectIsFinal'
  BY DEF Safe, PublishedWhenApproved, SettledIsFinal, PublishedIsWhole,
         DisconnectIsFinal
<1>3. SeenFit' /\ SettledStatus' /\ SuccessIsWhole'
  BY DEF SeenFit, SettledStatus, SuccessIsWhole, TypeOK, TokenSteps
<1>4. Presented' /\ OwnRow' /\ NothingSpent'
  BY <1>0 DEF Presented, OwnRow, NothingSpent
<1>5. NewIsPrivate'
  BY <1>0 DEF NewIsPrivate, Brings
<1>6. RowRefreshable'
  BY <1>0 DEF RowRefreshable
<1>7. QED
  BY <1>1, <1>2, <1>3, <1>4, <1>5, <1>6 DEF Safe

LEMMA AskInv == ASSUME SocialInv, NEW r \in Runs, Ask(r) PROVE SocialInv'
<1> USE DEF SocialInv, Ask, Goto, fixed, content, token, shown
<1>0. /\ pc[r] = "ask" /\ pc'[r] = "store" /\ used[r] \in 1..issued
      /\ \A q \in Runs \ {r} : pc'[q] = pc[q] /\ new'[q] = new[q]
      /\ rotates => /\ new'[r] = issued + 1 /\ issued' = issued + 1
                    /\ spent' = spent \cup {used[r]}
      /\ ~rotates => new'[r] = used[r] /\ issued' = issued /\ spent' = spent
      /\ UNCHANGED <<rotates, account, stored, lost, row, used>>
  BY DEF TypeOK, Presented, Replaced
<1>1. TypeOK'
  <2>1. /\ issued' \in Nat /\ issued <= issued' /\ spent' \subseteq 1..issued'
        /\ lost' \subseteq 1..issued' /\ stored' \in 0..issued'
        /\ new' \in [Runs -> 0..issued'] /\ used' \in [Runs -> 0..issued']
    <3>1. issued \in Nat /\ issued' \in {issued, issued + 1}
      BY <1>0 DEF TypeOK
    <3>2. \A i \in 0..issued : i \in 0..issued'
      BY <3>1
    <3>3. new'[r] \in 0..issued' /\ new' = [new EXCEPT ![r] = new'[r]]
      BY <1>0, <3>1 DEF TypeOK
    <3>4. used' \in [Runs -> 0..issued'] /\ stored' \in 0..issued'
      BY <1>0, <3>2 DEF TypeOK
    <3>5. new' \in [Runs -> 0..issued']
      BY <3>2, <3>3 DEF TypeOK
    <3>6. \A i \in 1..issued : i \in 1..issued'
      BY <3>1
    <3>7. spent' \subseteq 1..issued' /\ lost' \subseteq 1..issued'
      BY <1>0, <3>6 DEF TypeOK
    <3>8. QED
      BY <3>1, <3>4, <3>5, <3>7
  <2>2. QED
    BY <2>1 DEF TypeOK, Running, TokenSteps
<1>2. Safe' /\ DisconnectIsFinal'
  BY DEF Safe, PublishedWhenApproved, SettledIsFinal, PublishedIsWhole,
         DisconnectIsFinal
<1>3. SeenFit' /\ SettledStatus' /\ SuccessIsWhole'
  BY DEF SeenFit, SettledStatus, SuccessIsWhole, TypeOK, TokenSteps
<1>4. Presented' /\ OwnRow' /\ NothingSpent'
  BY <1>0 DEF Presented, OwnRow, NothingSpent
<1>5. NewIsPrivate'
  <2> SUFFICES ASSUME rotates, NEW p \in Runs, NEW n \in 1..issued', Brings(p, n)'
               PROVE  /\ n \notin spent' /\ n # stored
                      /\ \A q \in Runs : /\ pc'[q] = "ask" => used[q] # n
                                         /\ Brings(q, n)' => q = p
    BY <1>0 DEF NewIsPrivate
  <2>0. /\ spent \subseteq 1..issued /\ stored \in 0..issued
        /\ \A q \in Runs : used[q] \in 0..issued /\ new[q] \in 0..issued
        /\ issued \in Nat
    BY DEF TypeOK
  <2>1. CASE p = r
    <3>1. n = issued + 1
      BY <1>0, <2>1 DEF Brings
    <3>2. QED
      BY <1>0, <2>0, <2>1, <3>1 DEF Brings
  <2>2. CASE p # r
    <3>1. Brings(p, n) /\ n \in 1..issued
      BY <1>0, <2>0, <2>2 DEF Brings
    <3>2. /\ n \notin spent /\ n # stored
          /\ \A q \in Runs : /\ pc[q] = "ask" => used[q] # n
                             /\ Brings(q, n) => q = p
      BY <3>1 DEF NewIsPrivate
    <3>3. \A q \in Runs : Brings(q, n)' => q = p
      BY <1>0, <2>0, <3>1, <3>2 DEF Brings
    <3>4. QED
      BY <1>0, <3>2, <3>3
  <2>3. QED
    BY <2>1, <2>2
<1>6. RowRefreshable'
  <2> SUFFICES ASSUME account # 0, stored \in spent', stored \notin lost
               PROVE  \E q \in Runs : /\ pc'[q] = "store" /\ used[q] = stored
                                      /\ row[q] = account
    BY <1>0 DEF RowRefreshable
  <2>1. CASE stored \in spent
    <3>1. PICK q \in Runs : pc[q] = "store" /\ used[q] = stored /\ row[q] = account
      BY <2>1 DEF RowRefreshable
    <3>2. QED
      BY <1>0, <3>1
  <2>2. CASE stored \notin spent
    <3>1. rotates /\ used[r] = stored
      BY <1>0, <2>2
    <3>2. row[r] = account
      BY <1>0, <3>1 DEF OwnRow
    <3>3. QED
      BY <1>0, <3>1, <3>2
  <2>3. QED
    BY <2>1, <2>2
<1>7. QED
  BY <1>1, <1>2, <1>3, <1>4, <1>5, <1>6 DEF Safe

LEMMA StoreInv ==
    ASSUME SocialInv, NEW r \in Runs, NEW e \in {"null", "later"}, Store(r, e)
    PROVE  SocialInv'
<1> USE DEF SocialInv, Store, RowAfterUpdate, Fresh, Goto, fixed, content, provider,
            shown
<1>0. /\ pc[r] = "store" /\ pc'[r] = "call" /\ account' = account
      /\ stored' = IF account = row[r] THEN new[r] ELSE stored
      /\ \A q \in Runs \ {r} : pc'[q] = pc[q] /\ new'[q] = new[q] /\ used'[q] = used[q]
      /\ UNCHANGED <<rotates, issued, spent, lost, row, kind, seen>>
      /\ new[r] \in 0..issued
  BY DEF TypeOK
<1>1. TypeOK'
  BY DEF TypeOK, Running, TokenSteps
<1>2. Safe' /\ DisconnectIsFinal'
  BY DEF Safe, PublishedWhenApproved, SettledIsFinal, PublishedIsWhole,
         DisconnectIsFinal
<1>3. SeenFit' /\ SettledStatus' /\ SuccessIsWhole'
  BY <1>0 DEF SeenFit, SettledStatus, SuccessIsWhole, TokenSteps
<1>4. NothingSpent' /\ Presented'
  BY <1>0 DEF NothingSpent, Presented
<1>5. ASSUME rotates, new[r] # 0
      PROVE  /\ new[r] \notin spent
             /\ \A q \in Runs : /\ pc[q] \in {"ask", "store"} => used[q] # new[r]
                                /\ Brings(q, new[r]) => q = r
  <2>1. Brings(r, new[r]) /\ new[r] \in 1..issued
    BY <1>0, <1>5 DEF Brings
  <2>2. QED
    BY <1>5, <2>1 DEF NewIsPrivate, Presented
<1>6. OwnRow'
  <2> SUFFICES ASSUME rotates, account # 0, NEW q \in Runs,
                      pc'[q] \in {"ask", "store"}, used'[q] = stored'
               PROVE  row[q] = account
    BY <1>0 DEF OwnRow
  <2>1. q # r /\ pc[q] = pc'[q] /\ used[q] = used'[q] /\ used[q] # 0
    BY <1>0 DEF Presented
  <2>2. CASE account = row[r]
    <3>1. used[q] = new[r] /\ new[r] # 0
      BY <1>0, <2>1, <2>2
    <3>2. pc[q] \in {"ask", "store"} => used[q] # new[r]
      BY <1>5, <3>1
    <3>3. QED
      BY <2>1, <3>1, <3>2
  <2>3. CASE account # row[r]
    BY <1>0, <2>1, <2>3 DEF OwnRow
  <2>4. QED
    BY <2>2, <2>3
<1>7. NewIsPrivate'
  <2> SUFFICES ASSUME rotates, NEW p \in Runs, NEW n \in 1..issued, Brings(p, n)'
               PROVE  /\ n \notin spent /\ n # stored'
                      /\ \A q \in Runs : /\ pc'[q] = "ask" => used'[q] # n
                                         /\ Brings(q, n)' => q = p
    BY <1>0 DEF NewIsPrivate
  <2>1. p # r /\ Brings(p, n)
    BY <1>0 DEF Brings
  <2>2. /\ n \notin spent /\ n # stored
        /\ \A q \in Runs : /\ pc[q] = "ask" => used[q] # n
                           /\ Brings(q, n) => q = p
    BY <2>1 DEF NewIsPrivate
  <2>3. n # new[r]
    BY <1>0, <2>1, <2>2 DEF Brings
  <2>4. \A q \in Runs : /\ pc'[q] = "ask" => used'[q] # n
                        /\ Brings(q, n)' => q = p
    BY <1>0, <2>2 DEF Brings
  <2>5. QED
    BY <1>0, <2>2, <2>3, <2>4
<1>8. RowRefreshable'
  <2> SUFFICES ASSUME account # 0, stored' \in spent, stored' \notin lost
               PROVE  \E q \in Runs : /\ pc'[q] = "store" /\ used'[q] = stored'
                                      /\ row[q] = account
    BY <1>0 DEF RowRefreshable
  <2>1. rotates /\ stored' # 0
    BY DEF NothingSpent, TypeOK
  <2>2. account # row[r] /\ stored' = stored
    BY <1>0, <1>5, <2>1
  <2>3. PICK q \in Runs : pc[q] = "store" /\ used[q] = stored /\ row[q] = account
    BY <2>2 DEF RowRefreshable
  <2>4. QED
    BY <1>0, <2>2, <2>3
<1>9. QED
  BY <1>1, <1>2, <1>3, <1>4, <1>6, <1>7, <1>8 DEF Safe

LEMMA ExchangeInv ==
    ASSUME SocialInv, NEW r \in Runs, NEW b \in BOOLEAN, Exchange(r, b)
    PROVE  SocialInv'
<1> USE DEF SocialInv, Exchange, Goto, fixed, content, token, shown
<1>0. /\ pc[r] = "exchange" /\ pc'[r] = "persist" /\ issued \in Nat
      /\ issued' \in {issued, issued + 1}
      /\ new'[r] = 0 \/ (new'[r] = issued + 1 /\ issued' = issued + 1)
      /\ new' = [new EXCEPT ![r] = new'[r]]
      /\ \A q \in Runs \ {r} : pc'[q] = pc[q] /\ new'[q] = new[q]
      /\ UNCHANGED <<rotates, account, stored, spent, lost, row, used>>
  BY DEF TypeOK
<1>1. TypeOK'
  <2>1. \A i \in 0..issued : i \in 0..issued'
    BY <1>0
  <2>2. \A i \in 1..issued : i \in 1..issued'
    BY <1>0
  <2>3. used' \in [Runs -> 0..issued'] /\ stored' \in 0..issued'
    BY <1>0, <2>1 DEF TypeOK
  <2>4. new' \in [Runs -> 0..issued']
    BY <1>0, <2>1 DEF TypeOK
  <2>5. spent' \subseteq 1..issued' /\ lost' \subseteq 1..issued' /\ issued' \in Nat
    BY <1>0, <2>2 DEF TypeOK
  <2>6. QED
    BY <2>3, <2>4, <2>5 DEF TypeOK, Running, TokenSteps
<1>2. Safe' /\ DisconnectIsFinal'
  BY DEF Safe, PublishedWhenApproved, SettledIsFinal, PublishedIsWhole,
         DisconnectIsFinal
<1>3. SeenFit' /\ SettledStatus' /\ SuccessIsWhole'
  BY DEF SeenFit, SettledStatus, SuccessIsWhole, TypeOK, TokenSteps
<1>4. Presented' /\ OwnRow' /\ NothingSpent' /\ RowRefreshable'
  BY <1>0 DEF Presented, OwnRow, NothingSpent, RowRefreshable
<1>5. NewIsPrivate'
  <2> SUFFICES ASSUME rotates, NEW p \in Runs, NEW n \in 1..issued', Brings(p, n)'
               PROVE  /\ n \notin spent /\ n # stored
                      /\ \A q \in Runs : /\ pc'[q] = "ask" => used[q] # n
                                         /\ Brings(q, n)' => q = p
    BY <1>0 DEF NewIsPrivate
  <2>0. /\ spent \subseteq 1..issued /\ stored \in 0..issued
        /\ \A q \in Runs : used[q] \in 0..issued /\ new[q] \in 0..issued
    BY DEF TypeOK
  <2>1. CASE p = r
    <3>1. n = issued + 1
      BY <1>0, <2>1 DEF Brings
    <3>2. QED
      BY <1>0, <2>0, <2>1, <3>1 DEF Brings
  <2>2. CASE p # r
    <3>1. Brings(p, n) /\ n \in 1..issued
      BY <1>0, <2>0, <2>2 DEF Brings
    <3>2. /\ n \notin spent /\ n # stored
          /\ \A q \in Runs : /\ pc[q] = "ask" => used[q] # n
                             /\ Brings(q, n) => q = p
      BY <3>1 DEF NewIsPrivate
    <3>3. \A q \in Runs : Brings(q, n)' => q = p
      BY <1>0, <2>0, <3>1, <3>2 DEF Brings
    <3>4. QED
      BY <1>0, <3>2, <3>3
  <2>3. QED
    BY <2>1, <2>2
<1>6. QED
  BY <1>1, <1>2, <1>3, <1>4, <1>5 DEF Safe

(* The upsert of the callback puts a token nobody has presented in the row.  *)
LEMMA PersistInv ==
    ASSUME SocialInv, NEW r \in Runs, NEW e \in {"null", "later"}, Persist(r, e)
    PROVE  SocialInv'
<1> USE DEF SocialInv, Persist, fixed, content, provider, shown
<1>0. /\ kind' \in [Runs -> {"none", "publish", "metrics", "connect"}]
      /\ pc' \in [Runs -> Steps]
      /\ row' \in [Runs -> Nat]
      /\ used' = [used EXCEPT ![r] = 0]
      /\ new' = [new EXCEPT ![r] = 0]
      /\ at' \in [Runs -> Nat]
      /\ tries' \in [Runs -> 0..MaxRetries]
      /\ seen' \in [Runs -> [fit : BOOLEAN, late : BOOLEAN]]
      /\ \A q \in Runs \ {r} : /\ pc'[q] = pc[q] /\ kind'[q] = kind[q]
                               /\ row'[q] = row[q] /\ used'[q] = used[q]
                               /\ new'[q] = new[q] /\ seen'[q] = seen[q]
  BY AttemptEnds DEF Running
<1>1. /\ pc'[r] = "ended" /\ pc[r] = "persist" /\ stored' = new[r]
      /\ UNCHANGED <<rotates, issued, spent, lost>> /\ new[r] \in 0..issued
  BY DEF Finish, Goto, TypeOK
<1>2. TypeOK'
  <2>1. /\ lastId' \in Nat /\ lastId' >= lastId /\ account' \in {0, lastId'}
        /\ lastId \in Nat
    BY DEF TypeOK
  <2>2. disconnected' \subseteq 1..lastId'
    BY <2>1 DEF TypeOK
  <2>3. used' \in [Runs -> 0..issued] /\ new' \in [Runs -> 0..issued]
    BY <1>0, <1>1 DEF TypeOK
  <2>4. QED
    BY <1>0, <1>1, <2>1, <2>2, <2>3 DEF TypeOK, Steps
<1>3. Safe' /\ SettledStatus'
  BY DEF Safe, PublishedWhenApproved, SettledIsFinal, PublishedIsWhole, SettledStatus
<1>4. DisconnectIsFinal'
  BY DEF DisconnectIsFinal, TypeOK
<1>5. SeenFit' /\ SuccessIsWhole'
  BY <1>0, <1>1 DEF SeenFit, SuccessIsWhole, TokenSteps
<1>6. NothingSpent' /\ Presented'
  BY <1>0, <1>1 DEF NothingSpent, Presented
<1>7. ASSUME rotates, new[r] # 0
      PROVE  /\ new[r] \notin spent
             /\ \A q \in Runs : /\ pc[q] \in {"ask", "store"} => used[q] # new[r]
                                /\ Brings(q, new[r]) => q = r
  <2>1. Brings(r, new[r]) /\ new[r] \in 1..issued
    BY <1>1, <1>7 DEF Brings
  <2>2. QED
    BY <1>7, <2>1 DEF NewIsPrivate, Presented
<1>8. OwnRow'
  <2> SUFFICES ASSUME rotates, NEW q \in Runs, pc'[q] \in {"ask", "store"},
                      used'[q] = new[r]
               PROVE  FALSE
    BY <1>1 DEF OwnRow
  <2>1. q # r /\ pc[q] = pc'[q] /\ used[q] = used'[q] /\ used[q] # 0
    BY <1>0, <1>1 DEF Presented
  <2>2. new[r] # 0 /\ used[q] = new[r]
    BY <2>1
  <2>3. pc[q] \in {"ask", "store"} => used[q] # new[r]
    BY <1>7, <2>2
  <2>4. QED
    BY <2>1, <2>2, <2>3
<1>9. NewIsPrivate'
  <2> SUFFICES ASSUME rotates, NEW p \in Runs, NEW n \in 1..issued, Brings(p, n)'
               PROVE  /\ n \notin spent /\ n # new[r]
                      /\ \A q \in Runs : /\ pc'[q] = "ask" => used'[q] # n
                                         /\ Brings(q, n)' => q = p
    BY <1>1 DEF NewIsPrivate
  <2>1. p # r /\ Brings(p, n)
    BY <1>0, <1>1 DEF Brings
  <2>2. /\ n \notin spent
        /\ \A q \in Runs : /\ pc[q] = "ask" => used[q] # n
                           /\ Brings(q, n) => q = p
    BY <2>1 DEF NewIsPrivate
  <2>3. n # new[r]
    BY <1>1, <2>1, <2>2 DEF Brings
  <2>4. \A q \in Runs : /\ pc'[q] = "ask" => used'[q] # n
                        /\ Brings(q, n)' => q = p
    BY <1>0, <1>1, <2>2 DEF Brings
  <2>5. QED
    BY <2>2, <2>3, <2>4
<1>10. RowRefreshable'
  <2>1. stored' \notin spent
    BY <1>1, <1>7 DEF NothingSpent, TypeOK
  <2>2. QED
    BY <1>1, <2>1 DEF RowRefreshable
<1>11. QED
  BY <1>2, <1>3, <1>4, <1>5, <1>6, <1>8, <1>9, <1>10 DEF Safe

(* What happens outside the runs.                                            *)
LEMMA OthersInv ==
    ASSUME SocialInv,
           \/ Disconnect \/ Age \/ CampaignDelete
           \/ \E s \in {"active", "other"} : CampaignChange(s)
    PROVE  SocialInv'
<1> USE DEF SocialInv, Others, fixed, provider, shown, token
<1>0. /\ UNCHANGED <<fixed, provider, due, kind, pc, row, used, new, at, tries,
                     seen, shown, settled, lastId, stored>>
      /\ account' \in {0, account}
      /\ post' \in {post, "gone"} /\ campaign' \in {campaign, "active", "other"}
      /\ expiry' \in {expiry, "soon"}
      /\ \/ disconnected' = disconnected /\ account' = account
         \/ /\ account # 0 /\ account' = 0
            /\ disconnected' = disconnected \cup {account}
  BY DEF Disconnect, Age, CampaignDelete, CampaignChange
<1>1. TypeOK' /\ DisconnectIsFinal'
  <2>1. disconnected' \subseteq 1..lastId /\ account' \in {0, lastId}
    <3>1. /\ lastId \in Nat /\ account \in {0, lastId}
          /\ disconnected \subseteq 1..lastId
      BY DEF TypeOK
    <3>2. account # 0 => account \in 1..lastId
      BY <3>1
    <3>3. QED
      BY <1>0, <3>1, <3>2
  <2>2. account' \notin disconnected'
    BY <1>0, <2>1 DEF DisconnectIsFinal, TypeOK
  <2>3. TypeOK'
    BY <1>0, <2>1 DEF TypeOK
  <2>4. QED
    BY <2>2, <2>3 DEF DisconnectIsFinal
<1>2. Safe' /\ SettledStatus'
  BY <1>0 DEF Safe, PublishedWhenApproved, SettledIsFinal, PublishedIsWhole,
              SettledStatus
<1>3. SeenFit' /\ SuccessIsWhole'
  BY <1>0 DEF SeenFit, SuccessIsWhole
<1>4. Tokens'
  BY <1>0 DEF Tokens, RowRefreshable, NothingSpent, Presented, NewIsPrivate, OwnRow,
              Brings
<1>5. QED
  BY <1>1, <1>2, <1>3, <1>4 DEF Safe, Tokens

-----------------------------------------------------------------------------
(* Every step preserves the invariant.                                       *)
LEMMA NextInv == SocialInv /\ [Next]_vars => SocialInv'
<1> SUFFICES ASSUME SocialInv, [Next]_vars PROVE SocialInv'
  OBVIOUS
<1>1. CASE UNCHANGED vars
  BY <1>1 DEF vars, fixed, content, token, provider, shown, SocialInv, TypeOK,
     PublishedWhenApproved, SettledIsFinal, PublishedIsWhole, RowRefreshable,
     DisconnectIsFinal, SeenFit, SettledStatus, SuccessIsWhole, NothingSpent,
     Presented, NewIsPrivate, OwnRow, Brings
<1>2. ASSUME NEW r \in Runs, Arrive(r) PROVE SocialInv'
  <2>1. \A a \in 1..lastId : a \in Nat
    BY DEF SocialInv, TypeOK
  <2>2. \A m \in due : m.row \in Nat
    BY DEF SocialInv, TypeOK
  <2>3. QED
    BY <1>2, <2>1, <2>2, BeginInv
       DEF Arrive, PublishBegin, MetricsBegin, ConnectBegin
<1>3. ASSUME NEW r \in Runs, Progress(r) \/ Crash(r) PROVE SocialInv'
  <2> USE DEF SocialInv, fixed, content, token, provider, shown
  <2>0. /\ issued \in Nat /\ lost \subseteq 1..issued /\ issued >= issued
        /\ due \subseteq [run : Runs, row : Nat] /\ row[r] \in Nat
    BY DEF TypeOK
  <2>1. CASE Load(r)
    BY <2>1, LoadInv
  <2>2. CASE Blocked(r)
    BY <2>0, <2>2, LeaveInv DEF Blocked, Running
  <2>3. CASE Fail(r)
    BY <2>0, <2>3, LeaveInv DEF Fail, Running
  <2>4. CASE TokenRead(r)
    BY <2>4, TokenReadInv
  <2>5. CASE RefreshRead(r)
    BY <2>5, RefreshReadInv
  <2>6. CASE TokenFails(r)
    BY <2>0, <2>6, LeaveInv DEF TokenFails, GiveUp, Running, TokenSteps
  <2>7. CASE Ask(r)
    BY <2>7, AskInv
  <2>8. CASE AnswerLost(r)
    <3>1. /\ pc[r] = "ask" /\ (Finish(r) \/ Raised(r))
          /\ spent' = spent \cup Replaced(used[r]) /\ lost' = lost \cup Replaced(used[r])
          /\ issued' \in Nat /\ issued' >= issued
          /\ UNCHANGED <<fixed, content, campaign, token, due, shown, disconnected>>
      BY <2>0, <2>8 DEF AnswerLost, GiveUp
    <3>2. used[r] \in 1..issued
      BY <3>1 DEF Presented, TypeOK
    <3>3. lost' \subseteq 1..issued'
      <4>1. \A i \in 1..issued : i \in 1..issued'
        BY <2>0, <3>1
      <4>2. Replaced(used[r]) \subseteq 1..issued
        BY <3>2 DEF Replaced
      <4>3. QED
        BY <2>0, <3>1, <4>1, <4>2
    <3>4. QED
      BY <2>0, <3>1, <3>3, LeaveInv DEF Running, TokenSteps
  <2>9. CASE \E e \in {"null", "later"} : Store(r, e) \/ Persist(r, e)
    BY <2>9, StoreInv, PersistInv
  <2>10. ASSUME pc[r] = "store" PROVE Replaced(used[r]) \subseteq 1..issued
    BY <2>10 DEF Presented, TypeOK, Replaced
  <2>11. CASE StoreFails(r)
    BY <2>0, <2>10, <2>11, LeaveInv DEF StoreFails, GiveUp, Running, TokenSteps
  <2>12. CASE Crash(r)
    BY <2>0, <2>10, <2>12, LeaveInv DEF Crash
  <2>13. CASE Call(r) \/ \E done \in BOOLEAN : CallFails(r, done)
    BY <2>13, CallInv
  <2>14. CASE Collect(r)
    BY <2>0, <2>14, LeaveInv DEF Collect, Running
  <2>15. CASE MarkPublished(r)
    BY <2>15, MarkPublishedInv
  <2>16. CASE MarkFailed(r)
    BY <2>0, <2>16, LeaveInv DEF MarkFailed, Mark, Outcome, Running
  <2>17. CASE Dispatch(r)
    BY <2>0, <2>17, LeaveInv DEF Dispatch, Running
  <2>18. CASE \E b \in BOOLEAN : Exchange(r, b)
    BY <2>18, ExchangeInv
  <2>19. CASE ConnectFails(r)
    BY <2>0, <2>19, LeaveInv DEF ConnectFails, Running
  <2>20. QED
    BY <1>3, <2>1, <2>2, <2>3, <2>4, <2>5, <2>6, <2>7, <2>8, <2>9, <2>11, <2>12,
       <2>13, <2>14, <2>15, <2>16, <2>17, <2>18, <2>19 DEF Progress
<1>4. QED
  BY <1>1, <1>2, <1>3, OthersInv DEF Next

(* Where outcomes cannot be recorded no run gets to the dispatch, the one    *)
(* step that asks for metrics.                                               *)
Silent == UnrecordedUnmeasured /\ DispatchRecorded

LEMMA SilentStep ==
    ASSUME TypeOK, Silent, NEW r \in Runs, Arrive(r) \/ Progress(r) \/ Crash(r)
    PROVE  Silent'
<1> SUFFICES ASSUME ~recordable
             PROVE  /\ due' = {} /\ post' \notin {"published", "failed"}
                    /\ pc'[r] # "dispatch" /\ \A q \in Runs \ {r} : pc'[q] = pc[q]
  <2>1. recordable' = recordable
    BY DEF Arrive, PublishBegin, MetricsBegin, ConnectBegin, Begin, Progress, Load,
           Blocked, Fail, TokenRead, RefreshRead, ReadOnly, TokenFails, Ask, AnswerLost,
           Store, Persist, StoreFails, Call, CallFails, Collect, MarkPublished,
           MarkFailed, Mark, Dispatch, Exchange, ConnectFails, Crash, fixed
  <2>2. QED
    BY <2>1 DEF Silent, UnrecordedUnmeasured, DispatchRecorded
<1> USE DEF fixed, content
<1>0. due = {} /\ post \notin {"published", "failed"} /\ pc[r] # "dispatch"
  BY DEF Silent, UnrecordedUnmeasured, DispatchRecorded
<1>1. CASE Arrive(r)
  BY <1>0, <1>1 DEF Arrive, PublishBegin, MetricsBegin, ConnectBegin, Begin, Goto, TypeOK
<1>2. ASSUME Finish(r) \/ Raised(r)
      PROVE  pc'[r] # "dispatch" /\ \A q \in Runs \ {r} : pc'[q] = pc[q]
  BY <1>2 DEF Finish, Raised, Restart, Goto, TypeOK
<1>3. CASE \/ Load(r) \/ TokenRead(r) \/ RefreshRead(r) \/ Ask(r)
           \/ \E b \in BOOLEAN : Exchange(r, b)
  BY <1>0, <1>3 DEF Load, TokenRead, RefreshRead, ReadOnly, Ask, Exchange, Goto, TypeOK
<1>4. CASE \/ Call(r) \/ (\E done \in BOOLEAN : CallFails(r, done))
           \/ \E e \in {"null", "later"} : Store(r, e)
  BY <1>0, <1>4 DEF Call, AfterLast, CallFails, Store, Goto, TypeOK
<1>5. CASE \/ Blocked(r) \/ Fail(r) \/ TokenFails(r) \/ AnswerLost(r) \/ StoreFails(r)
           \/ Collect(r) \/ ConnectFails(r) \/ Crash(r)
           \/ \E e \in {"null", "later"} : Persist(r, e)
  <2>1. (Finish(r) \/ Raised(r)) /\ UNCHANGED <<due, post>>
    BY <1>5 DEF Blocked, Fail, TokenFails, AnswerLost, StoreFails, GiveUp, Collect,
                ConnectFails, Crash, Persist
  <2>2. QED
    BY <1>0, <1>2, <2>1
<1>6. ~MarkPublished(r) /\ ~MarkFailed(r) /\ ~Dispatch(r)
  BY <1>0 DEF MarkPublished, MarkFailed, Mark, Dispatch
<1>7. QED
  BY <1>1, <1>3, <1>4, <1>5, <1>6 DEF Progress

LEMMA SilentInv == TypeOK /\ Silent /\ [Next]_vars => Silent'
<1> SUFFICES ASSUME TypeOK, Silent, [Next]_vars PROVE Silent'
  OBVIOUS
<1> USE DEF Silent, UnrecordedUnmeasured, DispatchRecorded
<1>1. CASE UNCHANGED vars
  BY <1>1 DEF vars, fixed, content
<1>2. CASE \/ Disconnect \/ Age \/ CampaignDelete
           \/ \E s \in {"active", "other"} : CampaignChange(s)
  BY <1>2 DEF Disconnect, Age, CampaignDelete, CampaignChange, Others, fixed
<1>3. QED
  BY <1>1, <1>2, SilentStep DEF Next

(* The inductive invariant of the social publisher.                          *)
THEOREM SocialInvariant == Spec => []SocialInv
<1>1. QED
  BY InitInv, NextInv, PTL DEF Spec

(* Every reachable state has the declared types.                             *)
THEOREM SocialTypeCorrect == Spec => []TypeOK
<1>1. SocialInv => TypeOK
  BY DEF SocialInv
<1>2. QED
  BY <1>1, SocialInvariant, PTL

(* publish_post and its publishers put nothing on a platform but what an     *)
(* attempt found approved.                                                   *)
THEOREM PublicationSafety == Spec => []PublishedWhenApproved
<1>1. SocialInv => PublishedWhenApproved
  BY DEF SocialInv
<1>2. QED
  BY <1>1, SocialInvariant, PTL

(* An attempt that begins after an outcome was recorded publishes nothing.   *)
THEOREM SettledPostsStay == Spec => []SettledIsFinal
<1>1. SocialInv => SettledIsFinal
  BY DEF SocialInv
<1>2. QED
  BY <1>1, SocialInvariant, PTL

(* _mark_published records a publication that is complete.                   *)
THEOREM MarksWholePosts == Spec => []PublishedIsWhole
<1>1. SocialInv => PublishedIsWhole
  BY DEF SocialInv
<1>2. QED
  BY <1>1, SocialInvariant, PTL

(* refresh_platform_token leaves a dead refresh token in the row only while  *)
(* it replaces it, or when its replacement was lost.                         *)
THEOREM AccountsStayRefreshable == Spec => []RowRefreshable
<1>1. SocialInv => RowRefreshable
  BY DEF SocialInv
<1>2. QED
  BY <1>1, SocialInvariant, PTL

(* A refresh under way never brings a disconnected account back.             *)
THEOREM DisconnectedStays == Spec => []DisconnectIsFinal
<1>1. SocialInv => DisconnectIsFinal
  BY DEF SocialInv
<1>2. QED
  BY <1>1, SocialInvariant, PTL

(* No metrics are asked for, and no outcome appears, where the UPDATE of an  *)
(* outcome does not run.                                                     *)
THEOREM UnrecordedNeverMeasured == Spec => []UnrecordedUnmeasured
<1>1. Init => Silent
  BY DEF Init, Silent, UnrecordedUnmeasured, DispatchRecorded
<1>2. Silent => UnrecordedUnmeasured
  BY DEF Silent
<1>3. QED
  BY <1>1, <1>2, SilentInv, SocialTypeCorrect, PTL DEF Spec
=============================================================================
