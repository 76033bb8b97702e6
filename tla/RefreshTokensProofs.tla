-------------------------- MODULE RefreshTokensProofs --------------------------
(***************************************************************************)
(* Proofs about RefreshTokens, for any requests and any stored tokens.     *)
(***************************************************************************)
EXTENDS RefreshTokens, TLAPS

LEMMA InitInv == Init => TokenInv
<1> SUFFICES ASSUME Init PROVE TokenInv
  OBVIOUS
<1> USE TokenConstants DEF Init, Tokens
<1>1. TypeOK
  BY DEF TypeOK, Rows
<1>2. RotationAtomic /\ FailedRotationKeepsToken
  BY DEF RotationAtomic, FailedRotationKeepsToken
<1>3. Presented /\ EndedEarlier /\ EarlierCommitted
  BY DEF Presented, EndedEarlier, EarlierCommitted, Ending
<1>4. QED
  BY <1>1, <1>2, <1>3 DEF TokenInv

(* A request begins; the token of a refresh is valid when it does.           *)
LEMMA BeginInv ==
    ASSUME TokenInv, NEW c \in Calls, NEW k, NEW t, NEW q, Begin(c, k, t, q),
           \/ k = "login" /\ t = Nobody /\ q = "locking"
           \/ k = "refresh" /\ t \in Tokens /\ stored[t] = "valid" /\ q = "checked"
           \/ k = "logout" /\ t \in Tokens /\ q = "checked"
    PROVE  TokenInv'
<1> USE DEF TokenInv, Begin
<1>1. TypeOK'
  <2>1. \A r \in Rows : lock[r] # c
    BY DEF TypeOK
  <2>2. QED
    BY <2>1, TokenConstants DEF TypeOK, Running, RowOf, Committed
<1>2. RotationAtomic' /\ FailedRotationKeepsToken'
  BY DEF RotationAtomic, FailedRotationKeepsToken, TypeOK
<1>3. Presented'
  BY DEF Presented, TypeOK, Ending
<1>4. EarlierCommitted'
  BY DEF EarlierCommitted, Committed, TypeOK
<1>5. EndedEarlier'
  <2> SUFFICES ASSUME NEW d \in Calls, kind'[d] \in Ending, pc'[d] = "committed"
               PROVE  /\ stored'[using'[d]] = "revoked"
                      /\ \A e \in Calls : kind'[e] = "refresh" /\ using'[e] = using'[d]
                                           => d \notin earlier'[e]
    BY DEF EndedEarlier
  <2>1. /\ d # c /\ kind[d] \in Ending /\ pc[d] = "committed"
        /\ using'[d] = using[d] /\ stored' = stored
    BY DEF TypeOK
  <2>2. stored[using[d]] = "revoked"
    BY <2>1 DEF EndedEarlier
  <2>3. ASSUME NEW e \in Calls, kind'[e] = "refresh", using'[e] = using'[d]
        PROVE  d \notin earlier'[e]
    <3>1. CASE e = c
      BY <2>1, <2>2, <2>3, <3>1 DEF TypeOK
    <3>2. CASE e # c
      BY <2>1, <2>3, <3>2 DEF EndedEarlier, TypeOK
    <3>3. QED
      BY <3>1, <3>2
  <2>4. QED
    BY <2>1, <2>2, <2>3
<1>6. QED
  BY <1>1, <1>2, <1>3, <1>4, <1>5

(* A request is refused, fails, or finds nothing to do.                      *)
LEMMA VoidInv ==
    ASSUME TokenInv, NEW c \in Calls, pc[c] # "committed", Void(c),
           UNCHANGED <<stored, expired>>,
           lock' = Unlocked(c, "rollback")
    PROVE  TokenInv'
<1> USE DEF TokenInv, Void
<1>1. TypeOK'
  <2>1. lock' \in [Rows -> Calls \cup {Nobody}]
    BY DEF TypeOK, Unlocked
  <2>2. \A r \in Rows, d \in Calls : lock'[r] = d => lock[r] = d /\ d # c
    BY TokenConstants DEF TypeOK, Unlocked
  <2>3. ASSUME NEW r \in Rows, NEW d \in Calls, lock'[r] = d
        PROVE  pc'[d] = "written" /\ RowOf(d)' = r
    <3>1. lock[r] = d /\ d # c
      BY <2>2, <2>3
    <3>2. pc[d] = "written" /\ RowOf(d) = r
      BY <3>1 DEF TypeOK
    <3>3. kind'[d] = kind[d] /\ using'[d] = using[d] /\ pc'[d] = pc[d]
      BY <3>1 DEF TypeOK
    <3>4. QED
      BY <3>2, <3>3 DEF RowOf
  <2>4. /\ kind' \in [Calls -> {"none", "login", "refresh", "logout"}]
        /\ using' \in [Calls -> Tokens \cup {Nobody}]
        /\ pc' \in [Calls -> {"idle"} \cup Running \cup Ended]
        /\ earlier' \in [Calls -> SUBSET Calls]
    BY DEF TypeOK, Running, Ended
  <2>5. stored' = stored /\ expired' = expired
    OBVIOUS
  <2>6. QED
    BY <2>1, <2>3, <2>4, <2>5 DEF TypeOK
<1>2. RotationAtomic' /\ FailedRotationKeepsToken'
  BY DEF RotationAtomic, FailedRotationKeepsToken, TypeOK
<1>3. Presented'
  <2>1. \A d \in Calls : d # c =>
           /\ kind'[d] = kind[d] /\ pc'[d] = pc[d] /\ using'[d] = using[d]
    BY DEF TypeOK
  <2>2. \A d \in Calls, t \in Tokens : d # c /\ lock[t] = d => lock'[t] = d
    BY DEF Unlocked, Rows
  <2>3. kind'[c] = "none" /\ pc'[c] = "void"
    BY DEF TypeOK
  <2>4. QED
    BY <2>1, <2>2, <2>3 DEF Presented, Ending
<1>4. EarlierCommitted' /\ EndedEarlier'
  BY DEF EarlierCommitted, Committed, EndedEarlier, Ending, TypeOK
<1>5. QED
  BY <1>1, <1>2, <1>3, <1>4

(* A commit ends what the request presented, and stores its own token.       *)
LEMMA CommitInv ==
    ASSUME TokenInv, NEW c \in Calls, Commit(c)
    PROVE  TokenInv'
<1> USE DEF TokenInv
<1>0. /\ pc[c] = "written" /\ pc' = [pc EXCEPT ![c] = "committed"]
      /\ UNCHANGED <<expired, kind, using, earlier>>
      /\ c \in Tokens /\ stored[c] = "none"
  BY DEF Commit, Tokens, RotationAtomic
<1>1. \A t \in Tokens : lock[t] = c => kind[c] \in Ending /\ using[c] = t
  BY TokenConstants DEF TypeOK, Presented, RowOf, Tokens, Rows, Ending
<1>2. kind[c] \in Ending =>
        using[c] \in Tokens /\ using[c] # c /\ stored'[using[c]] = "revoked"
  BY <1>0 DEF Commit, Presented
<1>3. \A t \in Tokens : stored[t] = "revoked" => stored'[t] = "revoked"
  BY <1>0 DEF Commit
<1>4. \A t \in Tokens : stored[t] # "none" => stored'[t] # "none"
  BY <1>0 DEF Commit
<1>5. TypeOK'
  <2>1. lock' \in [Rows -> Calls \cup {Nobody}]
    BY DEF Commit, TypeOK, Unlocked
  <2>2. \A r \in Rows, d \in Calls : lock'[r] = d => lock[r] = d /\ d # c
    BY TokenConstants DEF Commit, TypeOK, Unlocked
  <2>3. ASSUME NEW r \in Rows, NEW d \in Calls, lock'[r] = d
        PROVE  pc'[d] = "written" /\ RowOf(d)' = r
    <3>1. lock[r] = d /\ d # c
      BY <2>2, <2>3
    <3>2. pc[d] = "written" /\ RowOf(d) = r
      BY <3>1 DEF TypeOK
    <3>3. kind' = kind /\ using' = using /\ pc'[d] = pc[d]
      BY <1>0, <3>1 DEF TypeOK
    <3>4. QED
      BY <3>2, <3>3 DEF RowOf
  <2>4. stored' \in [Tokens -> {"none", "valid", "revoked"}]
    BY DEF Commit, TypeOK
  <2>5. pc' \in [Calls -> {"idle"} \cup Running \cup Ended]
    BY <1>0 DEF TypeOK, Ended
  <2>6. QED
    BY <1>0, <2>1, <2>3, <2>4, <2>5 DEF TypeOK
<1>6. RotationAtomic'
  <2> SUFFICES ASSUME NEW d \in Calls
               PROVE  /\ pc'[d] = "committed" /\ kind'[d] = "refresh"
                            => stored'[using'[d]] = "revoked"
                      /\ pc'[d] # "committed" => stored'[d] = "none"
    BY DEF RotationAtomic
  <2>1. CASE d = c
    BY <1>0, <1>2, <2>1 DEF TypeOK, Ending
  <2>2. CASE d # c
    <3>1. pc'[d] = pc[d]
      BY <1>0, <2>2 DEF TypeOK
    <3>2. pc[d] = "committed" /\ kind[d] = "refresh" => using[d] \in Tokens
      BY DEF Presented, Ending
    <3>3. pc[d] # "committed" => stored'[d] = "none"
      <4>1. SUFFICES ASSUME pc[d] # "committed" PROVE stored'[d] = "none"
        OBVIOUS
      <4>2. stored[d] = "none" /\ d \in Tokens
        BY <4>1 DEF RotationAtomic, Tokens
      <4>3. lock[d] # c
        BY <1>0, <1>1, <4>2 DEF Presented
      <4>4. QED
        BY <2>2, <4>2, <4>3 DEF Commit
    <3>4. QED
      BY <1>0, <1>3, <3>1, <3>2, <3>3 DEF RotationAtomic
  <2>3. QED
    BY <2>1, <2>2
<1>7. FailedRotationKeepsToken'
  <2> SUFFICES ASSUME NEW t \in Tokens, stored'[t] = "revoked"
               PROVE  \E d \in Calls : pc'[d] = "committed" /\ using'[d] = t
    BY DEF FailedRotationKeepsToken
  <2>1. CASE lock[t] = c
    BY <1>0, <1>1, <2>1 DEF TypeOK
  <2>2. CASE lock[t] # c
    <3>1. stored[t] = "revoked"
      BY <2>2 DEF Commit
    <3>2. PICK d \in Calls : pc[d] = "committed" /\ using[d] = t
      BY <3>1 DEF FailedRotationKeepsToken
    <3>3. QED
      BY <1>0, <3>2 DEF TypeOK
  <2>3. QED
    BY <2>1, <2>2
<1>8. Presented'
  <2>1. \A d \in Calls : d # c => pc'[d] = pc[d]
    BY <1>0 DEF TypeOK
  <2>2. pc'[c] = "committed"
    BY <1>0 DEF TypeOK
  <2>3. \A d \in Calls, t \in Tokens : d # c /\ lock[t] = d => lock'[t] = d
    BY DEF Commit, Unlocked, Rows
  <2>4. QED
    BY <1>0, <1>2, <1>3, <1>4, <2>1, <2>2, <2>3 DEF Presented
<1>9. EarlierCommitted'
  BY <1>0 DEF EarlierCommitted, Committed, TypeOK
<1>10. EndedEarlier'
  <2> SUFFICES ASSUME NEW d \in Calls, kind'[d] \in Ending, pc'[d] = "committed"
               PROVE  /\ stored'[using'[d]] = "revoked"
                      /\ \A e \in Calls : kind'[e] = "refresh" /\ using'[e] = using'[d]
                                           => d \notin earlier'[e]
    BY DEF EndedEarlier
  <2>1. CASE d = c
    <3>1. \A e \in Calls : c \notin earlier[e]
      BY <1>0 DEF EarlierCommitted, Committed
    <3>2. QED
      BY <1>0, <1>2, <2>1, <3>1
  <2>2. CASE d # c
    <3>1. pc[d] = "committed" /\ kind[d] \in Ending /\ using[d] \in Tokens
      BY <1>0, <2>2 DEF TypeOK, Presented
    <3>2. QED
      BY <1>0, <1>3, <3>1 DEF EndedEarlier
  <2>3. QED
    BY <2>1, <2>2
<1>11. QED
  BY <1>5, <1>6, <1>7, <1>8, <1>9, <1>10

LEMMA NextInv == TokenInv /\ [Next]_vars => TokenInv'
<1> SUFFICES ASSUME TokenInv, [Next]_vars PROVE TokenInv'
  OBVIOUS
<1>0. TypeOK /\ Presented
  BY DEF TokenInv
<1>1. ASSUME NEW c \in Calls, Arrive(c) PROVE TokenInv'
  <2>1. CASE Login(c)
    BY <2>1, BeginInv DEF Login
  <2>2. CASE Refused(c)
    <3>1. lock = Unlocked(c, "rollback")
      BY <1>0, <2>2 DEF Refused, TypeOK, Unlocked
    <3>2. QED
      BY <2>2, <3>1, VoidInv DEF Refused
  <2>3. ASSUME NEW t \in Tokens, Refresh(c, t) PROVE TokenInv'
    BY <2>3, BeginInv DEF Refresh, Usable
  <2>4. ASSUME NEW t \in Tokens, Logout(c, t) PROVE TokenInv'
    BY <2>4, BeginInv DEF Logout
  <2>5. QED
    BY <1>1, <2>1, <2>2, <2>3, <2>4 DEF Arrive
<1>2. ASSUME NEW c \in Calls, Progress(c) PROVE TokenInv'
  <2>1. CASE Select(c)
    <3>1. \A r \in Rows : lock[r] # c
      BY <1>0, <2>1 DEF TypeOK, Select
    <3>2. /\ stored[using[c]] # "none" /\ pc[c] = "checked"
          /\ AfterSelect(c) \in {"locking", "written"}
          /\ pc' = [pc EXCEPT ![c] = AfterSelect(c)]
          /\ UNCHANGED <<stored, expired, lock, kind, using, earlier>>
          /\ AfterSelect(c) = "written" => stored[using[c]] # "valid"
      BY <2>1 DEF Select, AfterSelect
    <3>3. TypeOK'
      BY <1>0, <3>1, <3>2 DEF TypeOK, RowOf, Running
    <3>4. kind[c] \in Ending /\ stored[using[c]] \in {"valid", "revoked"}
      BY <1>0, <3>2 DEF Presented, TypeOK
    <3>5. Presented'
      BY <1>0, <3>2, <3>4 DEF Presented, TypeOK, Ending
    <3>6. RotationAtomic' /\ FailedRotationKeepsToken'
      BY <1>0, <3>2 DEF TokenInv, TypeOK, RotationAtomic, FailedRotationKeepsToken
    <3>7. EndedEarlier' /\ EarlierCommitted'
      BY <1>0, <3>2 DEF TokenInv, TypeOK, EndedEarlier, EarlierCommitted, Committed
    <3>8. QED
      BY <3>3, <3>5, <3>6, <3>7 DEF TokenInv
  <2>2. CASE SelectNothing(c)
    <3>1. lock = Unlocked(c, "rollback")
      BY <1>0, <2>2 DEF SelectNothing, TypeOK, Unlocked
    <3>2. QED
      BY <2>2, <3>1, VoidInv DEF SelectNothing
  <2>3. CASE Update(c)
    <3>1. /\ lock[RowOf(c)] = Nobody /\ pc[c] = "locking"
          /\ lock' = [lock EXCEPT ![RowOf(c)] = c]
          /\ pc' = [pc EXCEPT ![c] = "written"]
          /\ UNCHANGED <<stored, expired, kind, using, earlier>>
      BY <2>3 DEF Update
    <3>2. RowOf(c) \in Rows
      BY <1>0, <3>1 DEF RowOf, Presented, TypeOK, Rows, Ending
    <3>3. TypeOK'
      BY <1>0, <3>1, <3>2 DEF TypeOK, RowOf, Running
    <3>4. Presented'
      <4>1. kind[c] \in Ending => lock'[using[c]] = c
        BY <1>0, <3>1, <3>2 DEF RowOf, Ending, TypeOK
      <4>2. \A d \in Calls, t \in Tokens : d # c /\ lock[t] = d => lock'[t] = d
        BY <1>0, <3>1, TokenConstants DEF TypeOK, Rows
      <4>3. QED
        BY <1>0, <3>1, <4>1, <4>2 DEF Presented, TypeOK
    <3>5. RotationAtomic' /\ FailedRotationKeepsToken'
      BY <1>0, <3>1 DEF TokenInv, TypeOK, RotationAtomic, FailedRotationKeepsToken
    <3>6. EndedEarlier' /\ EarlierCommitted'
      BY <1>0, <3>1 DEF TokenInv, TypeOK, EndedEarlier, EarlierCommitted, Committed
    <3>7. QED
      BY <3>3, <3>4, <3>5, <3>6 DEF TokenInv
  <2>4. CASE Commit(c)
    BY <2>4, CommitInv
  <2>5. QED
    BY <1>2, <2>1, <2>2, <2>3, <2>4 DEF Progress
<1>3. ASSUME NEW c \in Calls, Abort(c) PROVE TokenInv'
  BY <1>3, VoidInv DEF Abort, AfterAbort, Running
<1>4. ASSUME NEW t \in Tokens, Expire(t) PROVE TokenInv'
  BY <1>4 DEF Expire, TokenInv, TypeOK, RowOf, RotationAtomic,
              FailedRotationKeepsToken, Presented, EndedEarlier,
              EarlierCommitted, Committed
<1>5. CASE UNCHANGED vars
  BY <1>5 DEF vars, TokenInv, TypeOK, RowOf, RotationAtomic,
              FailedRotationKeepsToken, Presented, EndedEarlier,
              EarlierCommitted, Committed
<1>6. QED
  BY <1>1, <1>2, <1>3, <1>4, <1>5 DEF Next

(* The inductive invariant holds in every reachable state.                   *)
THEOREM TokenInvariant == Spec => []TokenInv
<1>1. QED
  BY InitInv, NextInv, PTL DEF Spec

(* The variables keep their types, and a row is held only by the request     *)
(* that has written it.                                                      *)
THEOREM TokenTypeCorrect == Spec => []TypeOK
<1>1. TokenInv => TypeOK
  BY DEF TokenInv
<1>2. QED
  BY <1>1, TokenInvariant, PTL

(* A successor is stored only together with the end of what it replaces.     *)
THEOREM RotationIsAtomic == Spec => []RotationAtomic
<1>1. TokenInv => RotationAtomic
  BY DEF TokenInv
<1>2. QED
  BY <1>1, TokenInvariant, PTL

(* A refresh that began after the end of its token gets no successor.        *)
THEOREM NoLateSuccessor == Spec => []SuccessorsOverlap
<1>1. TokenInv => SuccessorsOverlap
  BY DEF TokenInv, EndedEarlier, SuccessorsOverlap, Ending
<1>2. QED
  BY <1>1, TokenInvariant, PTL

(* A rotation that fails leaves the client its old token.                    *)
THEOREM FailureKeepsToken == Spec => []FailedRotationKeepsToken
<1>1. TokenInv => FailedRotationKeepsToken
  BY DEF TokenInv
<1>2. QED
  BY <1>1, TokenInvariant, PTL
=============================================================================
