-------------------------- MODULE EmailConsentProofs --------------------------
(***************************************************************************)
(* Proofs about EmailConsent, for any calls, e-mails, tokens and drivers.  *)
(***************************************************************************)
EXTENDS EmailConsent, FiniteSetTheorems, WellFoundedInduction, TLAPS

LEMMA InitInv == Init => EmailInv
<1> SUFFICES ASSUME Init PROVE EmailInv
  OBVIOUS
<1> USE EmailConstants DEF Init, Running
<1>1. TypeOK
  BY DEF TypeOK, NoCalls, Rows, Emails, Kinds, LeadRow
<1>2. DueSends /\ SentWasMailed /\ RefusedNeverRecorded
  BY DEF DueSends, Mailing, NoCalls, SentWasMailed, RefusedNeverRecorded
<1>3. SendRow /\ RowsRefused
  BY DEF SendRow, RowsRefused, Timestamped
<1>4. QED
  BY <1>1, <1>2, <1>3 DEF EmailInv

(* What a call may begin as: what it will lock is what its operation needs.  *)
Fits(k, q, s, rs) ==
    /\ k \in Kinds /\ q \in {"ended"} \cup Running
    /\ s \in Tokens \cup {FALSE} /\ rs \subseteq Rows
    /\ q = "smtp" => optIn
    /\ k = "send" => q = "smtp" /\ \E e \in Emails : rs = {e}
    /\ k \in Timestamped => rs # {}

LEMMA BeginInv ==
    ASSUME EmailInv, NEW c \in Calls,
           NEW k, NEW q, NEW s, NEW rs,
           Begin(c, k, q, s, rs), Fits(k, q, s, rs)
    PROVE  EmailInv'
<1> USE DEF EmailInv, Fits, rows
<1>1. TypeOK'
  <2>1. \A r \in Rows : lock[r] # c
    BY DEF Begin, TypeOK
  <2>2. QED
    BY <2>1 DEF Begin, TypeOK
<1>2. DueSends'
  <2>1. ~optIn => \A e \in Emails : Mailing(e)' = Mailing(e)
    BY DEF Begin, Mailing, TypeOK
  <2>2. QED
    BY <2>1 DEF Begin, DueSends
<1>3. SentWasMailed' /\ RefusedNeverRecorded'
  BY DEF Begin, SentWasMailed, RefusedNeverRecorded
<1>4. SendRow'
  BY DEF Begin, SendRow, TypeOK, Running
<1>5. RowsRefused'
  BY DEF Begin, RowsRefused, TypeOK
<1>6. QED
  BY <1>1, <1>2, <1>3, <1>4, <1>5

(* Nothing is withdrawn without what is being mailed staying due.            *)
LEMMA ConsentDue ==
    ASSUME EmailInv, UNCHANGED <<optIn, due>> \/ \E b \in BOOLEAN : Consent(b)
    PROVE  /\ optIn' \in BOOLEAN /\ due' \in [Emails -> SUBSET Calls]
           /\ ~optIn' => \A e \in Emails : mailed[e] \cup Mailing(e) \subseteq due'[e]
<1>1. CASE UNCHANGED <<optIn, due>>
  BY <1>1 DEF EmailInv, TypeOK, DueSends
<1>2. ASSUME NEW b \in BOOLEAN, Consent(b)
      PROVE  /\ optIn' \in BOOLEAN /\ due' \in [Emails -> SUBSET Calls]
             /\ ~optIn' => \A e \in Emails : mailed[e] \cup Mailing(e) \subseteq due'[e]
  <2>1. \A e \in Emails : mailed[e] \subseteq Calls /\ Mailing(e) \subseteq Calls
    BY DEF EmailInv, TypeOK, Mailing
  <2>2. QED
    BY <1>2, <2>1 DEF Consent, NoCalls, EmailInv, TypeOK, DueSends
<1>3. QED
  BY <1>1, <1>2, Zenon

(* A call ends, having changed rows so that the invariants on them hold.     *)
LEMMA EndInv ==
    ASSUME EmailInv, NEW c \in Calls, NEW outcome, End(c, outcome),
           UNCHANGED <<optIn, due>> \/ \E b \in BOOLEAN : Consent(b),
           counted' \in Nat, marked' \subseteq Emails,
           email' \in [Emails -> {"none", "pending", "sent"}],
           SentWasMailed', RefusedNeverRecorded'
    PROVE  EmailInv'
<1> USE DEF EmailInv, End
<1>0. /\ optIn' \in BOOLEAN /\ due' \in [Emails -> SUBSET Calls]
      /\ ~optIn' => \A e \in Emails : mailed[e] \cup Mailing(e) \subseteq due'[e]
  BY ConsentDue
<1>1. TypeOK'
  <2>1. lock' \in [Rows -> Calls \cup {Nobody}]
    BY DEF TypeOK, Locks
  <2>2. \A r \in Rows, d \in Calls : lock'[r] = d => lock[r] = d /\ d # c
    BY EmailConstants DEF TypeOK, Locks
  <2>3. \A r \in Rows, d \in Calls : lock'[r] = d => pc'[d] = "locking"
    BY <2>2 DEF TypeOK
  <2>4. QED
    BY <1>0, <2>1, <2>3 DEF TypeOK, Kinds
<1>2. DueSends'
  <2>1. \A e \in Emails : Mailing(e)' \subseteq Mailing(e) /\ mailed' = mailed
    BY DEF Mailing, TypeOK
  <2>2. QED
    BY <1>0, <2>1 DEF DueSends
<1>3. SendRow'
  <2> SUFFICES ASSUME NEW d \in Calls, kind'[d] = "send"
               PROVE  /\ pc'[d] \in {"smtp", "locking"}
                      /\ pc'[d] = "smtp" => \E e \in Emails : rest'[d] = {e}
                      /\ pc'[d] = "locking" =>
                             \E e \in Emails :
                                /\ mailed'[e] # {} /\ rest'[d] \subseteq {e}
                                /\ \A r \in Rows : lock'[r] = d => r = e
    BY DEF SendRow
  <2>1. /\ d # c /\ kind'[d] = kind[d] /\ pc'[d] = pc[d] /\ rest'[d] = rest[d]
        /\ mailed' = mailed
    BY DEF TypeOK
  <2>2. \A r \in Rows : lock'[r] = d => lock[r] = d
    BY EmailConstants DEF TypeOK, Locks
  <2>3. QED
    BY <2>1, <2>2 DEF SendRow
<1>4. RowsRefused'
  BY DEF RowsRefused, TypeOK, Timestamped
<1>5. QED
  BY <1>1, <1>2, <1>3, <1>4

(* What an operation reads when it arrives.                                  *)
LEMMA ArriveInv ==
    ASSUME EmailInv, NEW c \in Calls, Arrive(c)
    PROVE  EmailInv'
<1>0. /\ Emails \subseteq Rows /\ LeadRow \in Rows /\ optIn \in BOOLEAN
  BY DEF Rows, EmailInv, TypeOK
<1>e. Fits("none", "ended", FALSE, {})
  BY DEF Fits, Kinds, Running, Timestamped
<1>1. CASE CreateList(c)
  <2>1. Fits("create", "listed", FALSE, {})
    BY <1>0 DEF Fits, Kinds, Running, Timestamped
  <2>2. QED
    BY <1>1, <2>1, BeginInv DEF CreateList
<1>2. ASSUME NEW e \in Emails, SendRead(c, e)
      PROVE  EmailInv'
  <2>1. Fits("send", "smtp", FALSE, {e})
    BY <1>0, <1>2 DEF SendRead, Mailable, Fits, Kinds, Running
  <2>2. QED
    BY <1>2, <2>1, BeginInv DEF SendRead, AfterRead
<1>3. ASSUME NEW e \in Emails, SendRefused(c, e)
      PROVE  EmailInv'
  BY <1>e, <1>3, BeginInv DEF SendRefused
<1>4. ASSUME NEW e \in Emails, TrackBegin(c, e)
      PROVE  EmailInv'
  <2>1. Fits("track", "locking", FALSE, {e, LeadRow})
    BY <1>0 DEF Fits, Kinds, Running
  <2>2. QED
    BY <1>4, <2>1, BeginInv DEF TrackBegin
<1>5. CASE UnsubscribeBegin(c)
  <2>1. Fits("unsubscribe", "locking", FALSE, {LeadRow})
    BY <1>0 DEF Fits, Kinds, Running
  <2>2. QED
    BY <1>5, <2>1, BeginInv DEF UnsubscribeBegin
<1>6. CASE ProcessBegin(c)
  <2> DEFINE rs == {e \in Emails : email[e] = "pending"} \cup {LeadRow}
  <2>1. Fits("process", "locking", FALSE, rs)
    BY <1>0 DEF Fits, Kinds, Running, Timestamped
  <2>2. Begin(c, "process", "locking", FALSE, rs)
    BY <1>6 DEF ProcessBegin
  <2> HIDE DEF rs
  <2>3. QED
    BY <2>1, <2>2, BeginInv
<1>7. CASE ProcessAlready(c)
  BY <1>e, <1>7, BeginInv DEF ProcessAlready
<1>8. ASSUME NEW t \in Tokens, ConfirmGet(c, t)
      PROVE  EmailInv'
  <2>1. Fits("confirm", "got", t, {LeadRow})
    BY <1>0 DEF Fits, Kinds, Running
  <2>2. QED
    BY <1>8, <2>1, BeginInv DEF ConfirmGet
<1>9. ASSUME NEW t \in Tokens, ConfirmUnknown(c, t)
      PROVE  EmailInv'
  BY <1>e, <1>9, BeginInv DEF ConfirmUnknown
<1>10. QED
  BY <1>1, <1>2, <1>3, <1>4, <1>5, <1>6, <1>7, <1>8, <1>9 DEF Arrive

LEMMA QuietEndInv ==
    ASSUME EmailInv, NEW c \in Calls, UNCHANGED <<rows, due>>,
           End(c, "commit") \/ End(c, "rollback")
    PROVE  EmailInv'
<1>0. TypeOK /\ SentWasMailed /\ RefusedNeverRecorded
  BY DEF EmailInv
<1>1. QED
  BY <1>0, EndInv DEF rows, TypeOK, End, SentWasMailed, RefusedNeverRecorded

(* Its own statements. Rows change only at a commit, and what a commit of    *)
(* send records is the e-mail it has sent.                                   *)
LEMMA ProgressInv ==
    ASSUME EmailInv, NEW c \in Calls, Progress(c)
    PROVE  EmailInv'
<1> USE DEF rows
<1>0. TypeOK /\ SentWasMailed /\ RefusedNeverRecorded /\ SendRow /\ RowsRefused
  BY DEF EmailInv
<1>2. CASE CreateSkip(c)
  BY <1>2, QuietEndInv DEF CreateSkip
<1>3. CASE TimestampRefused(c)
  BY <1>3, QuietEndInv DEF TimestampRefused
<1>4. CASE Deadlocked(c)
  BY <1>4, QuietEndInv DEF Deadlocked
<1>5. ASSUME NEW e \in Emails, CreateInsert(c, e)
      PROVE  EmailInv'
  BY <1>0, <1>5, EndInv
     DEF CreateInsert, End, TypeOK, SentWasMailed, RefusedNeverRecorded
<1>6. CASE SendMail(c)
  <2>0. DueSends
    BY DEF EmailInv
  <2>1. TypeOK' /\ RefusedNeverRecorded' /\ RowsRefused'
    BY <1>6 DEF SendMail, EmailInv, TypeOK, RefusedNeverRecorded, RowsRefused, Running
  <2>2. \A e \in Emails : mailed[e] \subseteq mailed'[e]
    BY <1>0, <1>6 DEF SendMail, TypeOK
  <2>6. DueSends'
    <3>1. \A e \in Emails : /\ Mailing(e)' \subseteq Mailing(e)
                            /\ mailed'[e] \subseteq mailed[e] \cup Mailing(e)
      BY <1>0, <1>6, <2>0 DEF SendMail, TypeOK, Mailing
    <3>2. QED
      BY <1>6, <2>0, <3>1 DEF SendMail, DueSends
  <2>3. SentWasMailed'
    BY <1>0, <1>6, <2>2 DEF SendMail, SentWasMailed, TypeOK
  <2>4. SendRow'
    <3>1. kind[c] = "send" => \E e \in Emails :
             /\ rest'[c] = {e} /\ mailed'[e] # {} /\ \A r \in Rows : lock'[r] # c
      BY <1>0, <1>6 DEF SendMail, SendRow, TypeOK
    <3>2. pc' = [pc EXCEPT ![c] = "locking"] /\ rest' = rest /\ kind' = kind /\ lock' = lock
      BY <1>6 DEF SendMail
    <3>3. pc \in [Calls -> {"idle", "ended"} \cup Running]
      BY <1>0 DEF TypeOK
    <3>4. \A e \in Emails : mailed[e] # {} => mailed'[e] # {}
      BY <2>2
    <3>5. QED
      BY <1>0, <3>1, <3>2, <3>3, <3>4 DEF SendRow
  <2>5. QED
    BY <2>1, <2>3, <2>4, <2>6 DEF EmailInv
<1>7. CASE ConfirmDel(c)
  <2>1. kind[c] # "send"
    BY <1>0, <1>7 DEF ConfirmDel, SendRow
  <2>2. TypeOK'
    <3>1. token' \in [Tokens -> {"unsent", "live", "gone"}]
      BY <1>0, <1>7 DEF ConfirmDel, AfterDel, TypeOK
    <3>2. accepted' \in [Tokens -> Nat]
      <4>1. accepted \in [Tokens -> Nat]
        BY <1>0 DEF TypeOK
      <4>2. accepted' = [t \in Tokens |-> IF t = seen[c] THEN accepted[t] + 1
                                                       ELSE accepted[t]]
        BY <1>7, <4>1 DEF ConfirmDel
      <4>3. QED
        BY <4>1, <4>2
    <3>3. QED
      BY <1>0, <1>7, <3>1, <3>2 DEF ConfirmDel, TypeOK, Running
  <2>3. SendRow' /\ DueSends'
    BY <1>7, <2>1 DEF ConfirmDel, EmailInv, SendRow, DueSends, Mailing, TypeOK
  <2>4. SentWasMailed' /\ RefusedNeverRecorded' /\ RowsRefused'
    BY <1>0, <1>7 DEF ConfirmDel, SentWasMailed, RefusedNeverRecorded,
                      RowsRefused, Running, TypeOK
  <2>5. QED
    BY <2>2, <2>3, <2>4 DEF EmailInv
<1>8. CASE Acquire(c)
  <2> DEFINE n == NextRow(c)
  <2>0. /\ lock' = [lock EXCEPT ![n] = c] /\ pc[c] = "locking"
        /\ kind[c] \in Timestamped => aware
        /\ rest' = [rest EXCEPT ![c] = RestAfter(c, n)]
        /\ UNCHANGED <<rows, token, kind, pc, seen, mailed, due, accepted>>
        /\ rest[c] # {}
    BY <1>8 DEF Acquire, Locking
  <2>1. RestAfter(c, n) \in SUBSET Rows
    BY <1>0 DEF RestAfter, Stored, TypeOK, Rows
  <2>2. kind[c] = "send" => n \in rest[c] /\ RestAfter(c, n) \subseteq rest[c]
    <3>1. ASSUME NEW e \in Emails, rest[c] = {e}
          PROVE  n = e
      BY <3>1 DEF NextRow, Least, LeadRow, Emails
    <3>2. QED
      BY <1>0, <2>0, <3>1 DEF SendRow, RestAfter
  <2> HIDE DEF n
  <2>3. TypeOK'
    <3>1. rest' \in [Calls -> SUBSET Rows] /\ lock' \in [Rows -> Calls \cup {Nobody}]
      BY <1>0, <2>0, <2>1 DEF TypeOK
    <3>2. \A r \in Rows, d \in Calls : lock'[r] = d => pc[d] = "locking"
      BY <1>0, <2>0 DEF TypeOK
    <3>3. aware' \in Drivers /\ optIn' \in BOOLEAN /\ counted' \in Nat /\ marked' \subseteq Emails
          /\ email' \in [Emails -> {"none", "pending", "sent"}]
      BY <1>0, <2>0 DEF TypeOK
    <3>4. /\ token' \in [Tokens -> {"unsent", "live", "gone"}] /\ kind' \in [Calls -> Kinds]
          /\ pc' \in [Calls -> {"idle", "ended"} \cup Running] /\ seen' \in [Calls -> Tokens \cup {FALSE}]
          /\ accepted' \in [Tokens -> Nat]
          /\ \A r \in Rows, d \in Calls : lock'[r] = d => pc'[d] = "locking"
      BY <1>0, <2>0, <3>2 DEF TypeOK
    <3>5. mailed' \in [Emails -> SUBSET Calls] /\ due' \in [Emails -> SUBSET Calls]
      BY <1>0, <2>0 DEF TypeOK
    <3>6. QED
      BY <3>1, <3>3, <3>4, <3>5 DEF TypeOK
  <2>4. SendRow'
    <3>1. \A d \in Calls, r \in Rows : lock'[r] = d => lock[r] = d \/ (d = c /\ r = n)
      BY <1>0, <2>0 DEF TypeOK
    <3>2. \A d \in Calls : d # c => rest'[d] = rest[d]
      BY <1>0, <2>0 DEF TypeOK
    <3>3. kind[c] = "send" => rest'[c] \subseteq rest[c] /\ n \in rest[c]
      BY <1>0, <2>0, <2>2 DEF TypeOK
    <3>4. QED
      BY <1>0, <2>0, <3>1, <3>2, <3>3 DEF SendRow
  <2>5. DueSends'
    <3>1. \A e \in Emails : Mailing(e)' \subseteq Mailing(e)
      BY <1>0, <2>0 DEF Mailing, TypeOK
    <3>2. QED
      BY <2>0, <3>1 DEF EmailInv, DueSends
  <2>6. SentWasMailed' /\ RefusedNeverRecorded' /\ RowsRefused'
    BY <1>0, <2>0 DEF SentWasMailed, RefusedNeverRecorded, RowsRefused, TypeOK
  <2>7. QED
    BY <2>3, <2>4, <2>5, <2>6 DEF EmailInv
<1>9. CASE CommitSend(c)
  <2>1. \A e \in Emails : e \in Held(c) => mailed[e] # {}
    BY <1>0, <1>9 DEF CommitSend, Ready, SendRow, Held
  <2>2. aware /\ mailed' = mailed /\ aware' = aware
    BY <1>0, <1>9 DEF CommitSend, Ready, End, RowsRefused, Timestamped, Running, TypeOK
  <2>3. SentWasMailed' /\ RefusedNeverRecorded'
    BY <1>0, <1>9, <2>1, <2>2 DEF CommitSend, SentWasMailed, RefusedNeverRecorded
  <2>4. QED
    BY <1>0, <1>9, <2>3, EndInv DEF CommitSend, TypeOK
<1>10. CASE CommitTrack(c)
  <2>1. aware /\ aware' = aware /\ mailed' = mailed
    BY <1>0, <1>10 DEF CommitTrack, Ready, End, RowsRefused, Timestamped, Running, TypeOK
  <2>2. QED
    BY <1>0, <1>10, <2>1, EndInv
       DEF CommitTrack, TypeOK, SentWasMailed, RefusedNeverRecorded
<1>11. CASE CommitWithdrawal(c)
  BY <1>0, <1>11, EndInv DEF CommitWithdrawal, End, Cancelled, TypeOK,
                             SentWasMailed, RefusedNeverRecorded
<1>12. CASE CommitConfirm(c)
  BY <1>0, <1>12, EndInv DEF CommitConfirm, End, TypeOK, SentWasMailed,
                             RefusedNeverRecorded
<1>13. QED
  BY <1>2, <1>3, <1>4, <1>5, <1>6, <1>7, <1>8, <1>9, <1>10, <1>11, <1>12
     DEF Progress

LEMMA NextInv == EmailInv /\ [Next]_vars => EmailInv'
<1> SUFFICES ASSUME EmailInv, [Next]_vars PROVE EmailInv'
  OBVIOUS
<1> USE DEF rows
<1>1. ASSUME NEW c \in Calls, Arrive(c) PROVE EmailInv'
  BY <1>1, ArriveInv
<1>2. ASSUME NEW c \in Calls, Progress(c) PROVE EmailInv'
  BY <1>2, ProgressInv
<1>3. ASSUME NEW c \in Calls, Fail(c) PROVE EmailInv'
  BY <1>3, QuietEndInv DEF Fail
<1>4. ASSUME NEW t \in Tokens, TokenSend(t) \/ TokenExpire(t) PROVE EmailInv'
  <2>1. PICK q \in {"live", "gone"} : SetToken(t, q)
    BY <1>4 DEF TokenSend, TokenExpire
  <2>2. TypeOK'
    BY <2>1 DEF SetToken, EmailInv, TypeOK
  <2>3. SendRow' /\ DueSends' /\ SentWasMailed' /\ RefusedNeverRecorded' /\ RowsRefused'
    BY <2>1 DEF SetToken, EmailInv, SendRow, DueSends, Mailing, SentWasMailed,
                RefusedNeverRecorded, RowsRefused
  <2>4. QED
    BY <2>2, <2>3 DEF EmailInv
<1>5. ASSUME NEW b \in BOOLEAN, LeadWrite(b) PROVE EmailInv'
  <2>1. /\ optIn' \in BOOLEAN /\ due' \in [Emails -> SUBSET Calls]
        /\ ~optIn' => \A e \in Emails : mailed[e] \cup Mailing(e) \subseteq due'[e]
    BY <1>5, ConsentDue DEF LeadWrite
  <2>2. \A e \in Emails : mailed' = mailed /\ Mailing(e)' = Mailing(e)
    BY <1>5 DEF LeadWrite, Mailing
  <2>3. TypeOK' /\ DueSends'
    BY <1>5, <2>1, <2>2 DEF LeadWrite, EmailInv, TypeOK, DueSends
  <2>4. QED
    BY <1>5, <2>3 DEF LeadWrite, EmailInv, SendRow, SentWasMailed, RefusedNeverRecorded, RowsRefused
<1>6. CASE UNCHANGED vars
  <2>1. TypeOK'
    BY <1>6 DEF vars, EmailInv, TypeOK
  <2>2. SendRow' /\ DueSends' /\ SentWasMailed' /\ RefusedNeverRecorded' /\ RowsRefused'
    BY <1>6 DEF vars, EmailInv, SendRow, DueSends, Mailing, SentWasMailed,
                RefusedNeverRecorded, RowsRefused
  <2>3. QED
    BY <2>1, <2>2 DEF EmailInv
<1>7. QED
  BY <1>1, <1>2, <1>3, <1>4, <1>5, <1>6 DEF Next

(* The inductive invariant holds in every reachable state.                   *)
THEOREM EmailInvariant == Spec => []EmailInv
<1>1. QED
  BY InitInv, NextInv, PTL DEF Spec

(* The variables keep their types and a row is held only by a transaction    *)
(* that is running, however many calls there are.                            *)
THEOREM EmailTypeCorrect == Spec => []TypeOK
<1>1. EmailInv => TypeOK
  BY DEF EmailInv
<1>2. QED
  BY <1>1, EmailInvariant, PTL

(* After a withdrawal only messages that were being handed over go out: none *)
(* of an e-mail stored later, and one at most of each run (service.py:155,   *)
(* 86), however many calls, e-mails and tokens there are.                    *)
THEOREM WithdrawalHolds == Spec => []WithdrawalHeeded
<1>1. EmailInv => WithdrawalHeeded
  BY DEF EmailInv, DueSends, WithdrawalHeeded
<1>2. QED
  BY <1>1, EmailInvariant, PTL

(* sent_at is set only on e-mails the SMTP server accepted.                  *)
THEOREM SentAreMailed == Spec => []SentWasMailed
<1>1. EmailInv => SentWasMailed
  BY DEF EmailInv
<1>2. QED
  BY <1>1, EmailInvariant, PTL

(* With a driver that refuses aware datetimes nothing is ever recorded.      *)
THEOREM NothingRecorded == Spec => []RefusedNeverRecorded
<1>1. EmailInv => RefusedNeverRecorded
  BY DEF EmailInv
<1>2. QED
  BY <1>1, EmailInvariant, PTL

-----------------------------------------------------------------------------
(* The order of the locks. A set of naturals has a least member, a bounded   *)
(* one a greatest.                                                           *)
LEMMA LeastExists ==
    ASSUME NEW S, S \subseteq Nat, S # {}
    PROVE  \E n \in S : \A m \in S : n <= m
<1>1. \E n \in S : \A m \in S : <<m, n>> \notin OpToRel(<, Nat)
  <2> DEFINE R == OpToRel(<, Nat)
  <2>1. IsWellFoundedOn(R, Nat)
    BY NatLessThanWellFounded
  <2> HIDE DEF R
  <2>2. QED
    BY <2>1, WFMin DEF R
<1>2. PICK n \in S : \A m \in S : <<m, n>> \notin OpToRel(<, Nat)
  BY <1>1
<1>3. ASSUME NEW m \in S PROVE n <= m
  <2>1. m \in Nat /\ n \in Nat /\ <<m, n>> \in Nat \X Nat
    OBVIOUS
  <2>2. ~(m < n)
    BY <1>2, <2>1 DEF OpToRel
  <2>3. QED
    BY <2>1, <2>2
<1>4. QED
  BY <1>3

LEMMA GreatestExists ==
    ASSUME NEW S, NEW b \in Nat, S \subseteq 0..b, S # {}
    PROVE  \E n \in S : \A m \in S : m <= n
<1> DEFINE T == {b - n : n \in S}
<1>1. T \subseteq Nat /\ T # {}
  <2>1. \A n \in S : n \in 0..b /\ b - n \in Nat
    OBVIOUS
  <2>2. QED
    BY <2>1
<1>2. PICK t \in T : \A u \in T : t <= u
  BY <1>1, LeastExists
<1>3. PICK n \in S : t = b - n
  OBVIOUS
<1>4. \A m \in S : b - n <= b - m /\ m \in 0..b /\ n \in 0..b
  BY <1>2, <1>3
<1>5. \A m \in S : m <= n
  BY <1>4
<1>6. QED
  BY <1>3, <1>5

LEMMA LeastIsLeast ==
    ASSUME NEW S, S \subseteq Nat, S # {}
    PROVE  Least(S) \in S /\ \A m \in S : Least(S) <= m
BY LeastExists DEF Least

(* The row a call waits for is one it still wants, and of those the first.   *)
LEMMA NextRowIsFirst ==
    ASSUME TypeOK, NEW c \in Calls, rest[c] # {}
    PROVE  /\ NextRow(c) \in rest[c] /\ NextRow(c) \in Rows
           /\ \A s \in rest[c] : s # NextRow(c) => Place(NextRow(c)) < Place(s)
<1>0. rest[c] \subseteq Rows
  BY DEF TypeOK
<1>1. CASE rest[c] = {LeadRow}
  BY <1>0, <1>1 DEF NextRow
<1>2. CASE rest[c] # {LeadRow}
  <2> DEFINE E == rest[c] \ {LeadRow}
  <2>1. E \subseteq Emails /\ E # {} /\ E \subseteq Nat
    BY <1>0, <1>2 DEF Rows, Emails
  <2>2. Least(E) \in E /\ \A m \in E : Least(E) <= m
    BY <2>1, LeastIsLeast
  <2>3. NextRow(c) = Least(E)
    BY <1>2 DEF NextRow
  <2>4. NextRow(c) \in Emails /\ NextRow(c) \in rest[c]
    BY <2>1, <2>2, <2>3
  <2>5. ASSUME NEW s \in rest[c], s # NextRow(c)
        PROVE  Place(NextRow(c)) < Place(s)
    <3>1. CASE s = LeadRow
      BY <2>4, <3>1, EmailConstants DEF Place, Emails, LeadRow
    <3>2. CASE s # LeadRow
      <4>1. s \in E /\ NextRow(c) <= s /\ s \in Emails
        BY <2>1, <2>2, <2>3, <3>2
      <4>2. QED
        BY <2>4, <2>5, <4>1, EmailConstants DEF Place, Emails, LeadRow
    <3>3. QED
      BY <3>1, <3>2
  <2>6. QED
    BY <1>0, <2>4, <2>5
<1>3. QED
  BY <1>1, <1>2

(* A call that a step leaves alone keeps its place in the order.             *)
LEMMA OrderedAlone ==
    ASSUME NEW c \in Calls, Ordered(c),
           kind'[c] = kind[c], pc'[c] = pc[c], rest'[c] = rest[c],
           \A r \in Rows : lock'[r] = c <=> lock[r] = c
    PROVE  Ordered(c)'
<1>1. Held(c)' = Held(c)
  BY DEF Held
<1>2. lock'[LeadRow] = c <=> lock[LeadRow] = c
  BY DEF Rows
<1>3. QED
  BY <1>1, <1>2 DEF Ordered

LEMMA OrderBegin ==
    ASSUME TypeOK, LockOrder, NEW c \in Calls, NEW k, NEW q, NEW s, NEW rs,
           Begin(c, k, q, s, rs),
           k = "unsubscribe" => q = "locking" /\ rs = {LeadRow}
    PROVE  LockOrder'
<1>1. lock' = lock /\ Held(c)' = {}
  BY DEF Begin, TypeOK, Held
<1>2. Ordered(c)'
  BY <1>1 DEF Begin, Ordered, TypeOK
<1>3. ASSUME NEW d \in Calls, d # c PROVE Ordered(d)'
  BY <1>1, <1>3, OrderedAlone DEF Begin, LockOrder, TypeOK
<1>4. QED
  BY <1>2, <1>3 DEF LockOrder

LEMMA OrderEnd ==
    ASSUME TypeOK, LockOrder, NEW c \in Calls, NEW outcome, End(c, outcome)
    PROVE  LockOrder'
<1>1. Ordered(c)'
  BY DEF End, Ordered, TypeOK
<1>2. ASSUME NEW d \in Calls, d # c PROVE Ordered(d)'
  <2>1. \A r \in Rows : lock'[r] = d <=> lock[r] = d
    BY <1>2, EmailConstants DEF End, Locks, TypeOK
  <2>2. QED
    BY <1>2, <2>1, OrderedAlone DEF End, LockOrder, TypeOK
<1>3. QED
  BY <1>1, <1>2 DEF LockOrder

(* A call gets the first row it wants: it comes after all it has.            *)
LEMMA OrderAcquire ==
    ASSUME TypeOK, LockOrder, NEW c \in Calls, Acquire(c)
    PROVE  LockOrder'
<1> DEFINE n == NextRow(c)
<1>1. /\ n \in rest[c] /\ n \in Rows
      /\ \A s \in rest[c] : s # n => Place(n) < Place(s)
  BY NextRowIsFirst DEF Acquire, Locking
<1>2. /\ lock[n] = Nobody /\ lock' = [lock EXCEPT ![n] = c]
      /\ rest' = [rest EXCEPT ![c] = RestAfter(c, n)]
      /\ UNCHANGED <<kind, pc>>
  BY DEF Acquire
<1> HIDE DEF n
<1>3. \A r \in Rows : lock'[r] = IF r = n THEN c ELSE lock[r]
  BY <1>1, <1>2 DEF TypeOK
<1>4. Held(c)' = Held(c) \cup {n}
  BY <1>1, <1>3 DEF Held
<1>5. rest'[c] = RestAfter(c, n)
  BY <1>2 DEF TypeOK
<1>6. ASSUME kind[c] = "unsubscribe"
      PROVE  Ordered(c)'
  <2>0. kind'[c] = "unsubscribe" /\ pc'[c] = "locking"
    BY <1>2, <1>6 DEF LockOrder, Ordered
  <2>1. CASE Held(c) = {} /\ rest[c] = {LeadRow}
    <3>1. n = LeadRow /\ rest'[c] = Stored /\ lock'[LeadRow] = c
      BY <1>1, <1>3, <1>5, <1>6, <2>1 DEF RestAfter
    <3>2. QED
      BY <2>0, <3>1 DEF Ordered, Stored
  <2>2. CASE lock[LeadRow] = c /\ rest[c] \subseteq Emails
    <3>1. n \in Emails /\ n # LeadRow
      BY <1>1, <2>2 DEF Emails, LeadRow
    <3>2. rest'[c] \subseteq Emails /\ lock'[LeadRow] = c
      BY <1>3, <1>5, <2>2, <3>1 DEF RestAfter, Rows
    <3>3. QED
      BY <2>0, <3>2 DEF Ordered
  <2>3. QED
    BY <1>6, <2>1, <2>2 DEF LockOrder, Ordered
<1>7. ASSUME kind[c] # "unsubscribe"
      PROVE  Ordered(c)'
  <2>1. rest'[c] = rest[c] \ {n}
    BY <1>5, <1>7 DEF RestAfter
  <2>2. \A r \in Held(c), s \in rest[c] : Place(r) < Place(s)
    BY <1>7 DEF LockOrder, Ordered
  <2>3. \A r \in Held(c) \cup {n}, s \in rest[c] \ {n} : Place(r) < Place(s)
    BY <1>1, <2>2
  <2>4. kind'[c] # "unsubscribe"
    BY <1>2, <1>7
  <2>5. QED
    BY <1>4, <2>1, <2>3, <2>4 DEF Ordered
<1>8. ASSUME NEW d \in Calls, d # c PROVE Ordered(d)'
  <2>1. \A r \in Rows : lock'[r] = d <=> lock[r] = d
    BY <1>2, <1>3, <1>8, EmailConstants
  <2>2. QED
    BY <1>2, <1>8, <2>1, OrderedAlone DEF LockOrder, TypeOK
<1>9. QED
  BY <1>6, <1>7, <1>8 DEF LockOrder

LEMMA OrderNext ==
    ASSUME TypeOK, LockOrder, [Next]_vars
    PROVE  LockOrder'
<1> USE DEF rows
<1>1. ASSUME NEW c \in Calls, Arrive(c) PROVE LockOrder'
  <2>1. CASE CreateList(c) \/ ProcessBegin(c) \/ ProcessAlready(c)
    BY <2>1, OrderBegin DEF CreateList, ProcessBegin, ProcessAlready
  <2>2. CASE UnsubscribeBegin(c)
    BY <2>2, OrderBegin DEF UnsubscribeBegin
  <2>3. ASSUME NEW e \in Emails, SendRead(c, e) \/ SendRefused(c, e) \/ TrackBegin(c, e)
        PROVE  LockOrder'
    BY <2>3, OrderBegin DEF SendRead, SendRefused, TrackBegin
  <2>4. ASSUME NEW t \in Tokens, ConfirmGet(c, t) \/ ConfirmUnknown(c, t)
        PROVE  LockOrder'
    BY <2>4, OrderBegin DEF ConfirmGet, ConfirmUnknown
  <2>5. QED
    BY <1>1, <2>1, <2>2, <2>3, <2>4 DEF Arrive
<1>2. ASSUME UNCHANGED <<lock, kind, pc, rest>> PROVE LockOrder'
  BY <1>2 DEF LockOrder, Ordered, Held
<1>3. ASSUME NEW c \in Calls, Progress(c) \/ Fail(c) PROVE LockOrder'
  <2>1. CASE \E outcome \in {"commit", "rollback"} : End(c, outcome)
    BY <2>1, OrderEnd
  <2>2. CASE SendMail(c) \/ ConfirmDel(c)
    <3>1. Held(c)' = {} /\ lock' = lock /\ kind' = kind /\ rest' = rest
          /\ pc' = [pc EXCEPT ![c] = "locking"] /\ kind[c] # "unsubscribe"
      BY <2>2 DEF SendMail, ConfirmDel, Held, TypeOK, LockOrder, Ordered
    <3>2. Ordered(c)'
      BY <3>1 DEF Ordered
    <3>3. ASSUME NEW d \in Calls, d # c PROVE Ordered(d)'
      BY <3>1, <3>3, OrderedAlone DEF LockOrder, TypeOK
    <3>4. QED
      BY <3>2, <3>3 DEF LockOrder
  <2>3. CASE Acquire(c)
    BY <2>3, OrderAcquire
  <2>4. QED
    BY <1>3, <2>1, <2>2, <2>3
       DEF Progress, Fail, CreateSkip, CreateInsert, TimestampRefused, CommitSend,
           CommitTrack, CommitWithdrawal, CommitConfirm, Deadlocked
<1>4. ASSUME NEW t \in Tokens, TokenSend(t) \/ TokenExpire(t) PROVE LockOrder'
  BY <1>2, <1>4 DEF TokenSend, TokenExpire, SetToken
<1>5. ASSUME NEW b \in BOOLEAN, LeadWrite(b) PROVE LockOrder'
  BY <1>2, <1>5 DEF LeadWrite
<1>6. CASE UNCHANGED vars
  BY <1>2, <1>6 DEF vars
<1>7. QED
  BY <1>1, <1>3, <1>4, <1>5, <1>6 DEF Next

(* In a cycle of waits every call holds a row that another waits for. If     *)
(* none were an unsubscribe, follow the waits from the call that waits for   *)
(* the last row of all: its holder waits for a later one. And no two of them *)
(* hold the lead.                                                            *)
LEMMA CyclesHaveOne ==
    ASSUME TypeOK, LockOrder, NEW D \in Cycles
    PROVE  \E u : {c \in D : kind[c] = "unsubscribe"} = {u}
<1>1. /\ D \subseteq Calls /\ D # {}
      /\ \A c \in D : Waiting(c) /\ Holder(c) \in D
      /\ \A d \in D : \E c \in D : Holder(c) = d
  BY DEF Cycles
<1>2. \A c \in D : /\ rest[c] # {} /\ NextRow(c) \in rest[c] /\ NextRow(c) \in Rows
                   /\ lock[NextRow(c)] \in D
  BY <1>1, NextRowIsFirst DEF Waiting, Locking, Holder
<1>3. \A d \in D : Held(d) # {}
  BY <1>1, <1>2 DEF Held, Holder
<1>4. \A c \in D : kind[c] = "unsubscribe" => lock[LeadRow] = c
  BY <1>1, <1>3 DEF LockOrder, Ordered
<1>5. \E u \in D : kind[u] = "unsubscribe"
  <2> SUFFICES ASSUME \A c \in D : kind[c] # "unsubscribe" PROVE FALSE
    OBVIOUS
  <2> DEFINE W(c) == Place(NextRow(c))
             S == {W(c) : c \in D}
  <2>1. \A r \in Rows : Place(r) \in 0..(NumEmails + 1)
    BY EmailConstants DEF Place, Rows, Emails, LeadRow
  <2>2. S \subseteq 0..(NumEmails + 1) /\ S # {}
    BY <1>1, <1>2, <2>1
  <2>3. NumEmails + 1 \in Nat
    BY EmailConstants
  <2>4. PICK n \in S : \A m \in S : m <= n
    BY <2>2, <2>3, GreatestExists
  <2>5. PICK c \in D : n = W(c)
    OBVIOUS
  <2>6. PICK d \in D : lock[NextRow(c)] = d
    BY <1>2, <2>5
  <2>7. NextRow(c) \in Held(d) /\ NextRow(d) \in rest[d] /\ d \in Calls
    BY <1>1, <1>2, <2>5, <2>6 DEF Held
  <2>8. W(c) < W(d)
    BY <2>7 DEF LockOrder, Ordered
  <2>9. W(d) <= W(c) /\ W(c) \in Nat /\ W(d) \in Nat
    BY <2>2, <2>4, <2>5, <2>6
  <2> HIDE DEF W
  <2>10. QED
    BY <2>8, <2>9
<1>6. QED
  BY <1>4, <1>5

(* All calls but unsubscribe lock their rows in one order, and an            *)
(* unsubscribe that holds any row holds the lead (repository.py, rgpd.py).   *)
THEOREM LocksOrdered == Spec => [](TypeOK /\ LockOrder)
<1>1. Init => LockOrder
  BY DEF Init, LockOrder, Ordered
<1>2. TypeOK /\ LockOrder /\ [Next]_vars => LockOrder'
  BY OrderNext
<1>3. QED
  BY <1>1, <1>2, EmailTypeCorrect, PTL DEF Spec

(* Whatever calls run at once and however many e-mails a lead has, a cycle   *)
(* of waits holds exactly one unsubscribe.                                   *)
THEOREM OneUnsubscribe == Spec => []OneUnsubscribePerDeadlock
<1>1. TypeOK /\ LockOrder => OneUnsubscribePerDeadlock
  BY CyclesHaveOne, FS_Singleton DEF OneUnsubscribePerDeadlock
<1>2. QED
  BY <1>1, LocksOrdered, PTL
=============================================================================
