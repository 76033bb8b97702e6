----------------------------- MODULE EmailConsent -----------------------------
(***************************************************************************)
(* bs_email: one lead, its consent, and the e-mails of its sequences.      *)
(* Every operation is a PostgreSQL transaction that takes row locks as it  *)
(* updates and keeps them until it ends; send_email talks to the SMTP      *)
(* server, and confirm_optin to Redis, in the middle. The operations, and  *)
(* the order in which they lock:                                           *)
(*   send         service.send_email            SMTP, then the e-mail      *)
(*   track        service.track_open / _click   e-mail, then lead          *)
(*   unsubscribe  service.unsubscribe           lead, then all e-mails     *)
(*   process      rgpd.process_unsubscribe      unsent e-mails, then lead  *)
(*   confirm      double_optin.confirm_optin    lead                       *)
(*   create       service.create_sequence       inserts, locks nothing     *)
(* The UPDATEs of send, track and confirm bind a time zone aware datetime  *)
(* to a column without time zone: the driver of the deployment (asyncpg)   *)
(* refuses the statement before it reaches the server, others take it.     *)
(***************************************************************************)
EXTENDS Integers, FiniteSets

CONSTANTS
    Calls,      \* executions of the operations, each of any kind
    NumEmails,  \* e-mail rows
    Tokens,     \* double opt-in tokens
    Drivers,    \* database drivers: does it take an aware datetime?
    Nobody      \* holder of an unlocked row

ASSUME EmailConstants == /\ Nobody \notin Calls /\ NumEmails \in Nat
                         /\ Drivers \subseteq BOOLEAN

Emails == 1..NumEmails
LeadRow == 0
Rows == Emails \cup {LeadRow}

Kinds == {"none", "send", "track", "unsubscribe", "process", "confirm", "create"}

(* The operations whose UPDATE binds datetime.now(UTC).                      *)
Timestamped == {"send", "track", "confirm"}

VARIABLES
    aware,      \* the driver takes aware datetimes
    optIn,      \* leads.opt_in
    counted,    \* leads.email_opens + leads.email_clicks
    email,      \* each row: not stored, sent_at unset, sent_at set
    marked,     \* emails.unsubscribed
    token,      \* the opt-in tokens in Redis
    lock,       \* holder of each row's lock
    kind,       \* operation of each call
    pc,         \* where it stands
    rest,       \* rows its current statements still have to lock
    seen,       \* the token it read
    mailed,     \* of each e-mail: the calls whose message the SMTP server took
    due,        \* and those that were mailing it when the consent was withdrawn
    accepted    \* calls that found each token valid

rows == <<aware, optIn, counted, email, marked>>
vars == <<rows, token, lock, kind, pc, rest, seen, mailed, due, accepted>>

Running == {"listed", "smtp", "got", "locking"}
NoCalls == [e \in Emails |-> {}]

Init ==
    /\ aware \in Drivers
    /\ optIn \in BOOLEAN
    /\ counted = 0
    /\ email \in [Emails -> {"none", "pending"}]
    /\ marked = {}
    /\ token = [t \in Tokens |-> "unsent"]
    /\ lock = [r \in Rows |-> Nobody]
    /\ kind = [c \in Calls |-> "none"]
    /\ pc = [c \in Calls |-> "idle"]
    /\ rest = [c \in Calls |-> {}]
    /\ seen = [c \in Calls |-> FALSE]
    /\ mailed = NoCalls
    /\ due = NoCalls
    /\ accepted = [t \in Tokens |-> 0]

Stored == {e \in Emails : email[e] # "none"}
Held(c) == {r \in Rows : lock[r] = c}

(* Call c begins as k, has read token s, will lock the rows rs.              *)
Begin(c, k, q, s, rs) ==
    /\ pc[c] = "idle"
    /\ kind' = [kind EXCEPT ![c] = k]
    /\ pc' = [pc EXCEPT ![c] = q]
    /\ seen' = [seen EXCEPT ![c] = s]
    /\ rest' = [rest EXCEPT ![c] = rs]
    /\ UNCHANGED <<rows, token, lock, mailed, due, accepted>>

(* Its session is closed: db_session commits or rolls back, and either way   *)
(* the locks are gone.                                                       *)
Locks_kept(c, outcome) ==
    [r \in Rows |-> IF lock[r] = c /\ outcome = "commit" THEN Nobody ELSE lock[r]]
Locks(c, outcome) ==
    [r \in Rows |-> IF lock[r] = c THEN Nobody ELSE lock[r]]

End(c, outcome) ==
    /\ pc' = [pc EXCEPT ![c] = "ended"]
    /\ kind' = [kind EXCEPT ![c] = "none"]
    /\ rest' = [rest EXCEPT ![c] = {}]
    /\ seen' = [seen EXCEPT ![c] = FALSE]
    /\ lock' = Locks(c, outcome)
    /\ UNCHANGED <<aware, token, mailed, accepted>>

(* The consent becomes b. It is withdrawn once: who says it again changes    *)
(* nothing. What was being mailed by then stays due.                         *)
Mailing(e) == {c \in Calls : pc[c] = "smtp" /\ e \in rest[c]}

Consent(b) ==
    /\ optIn' = b
    /\ due' = IF b THEN NoCalls
              ELSE IF optIn THEN [e \in Emails |-> mailed[e] \cup Mailing(e)] ELSE due

(* Any exception rolls the transaction back: send_email swallows it, a       *)
(* request answers 500, and a retry of a task is another call.               *)
Fail(c) ==
    /\ pc[c] \in Running
    /\ End(c, "rollback")
    /\ UNCHANGED <<rows, due>>

-----------------------------------------------------------------------------
(* create_sequence works on lead dicts its caller listed earlier, or typed   *)
(* into a request: the opt_in it looks at is the caller's, whatever the row  *)
(* says. A dict without opt_in or a usable id is skipped; here also one that *)
(* finds no free row, the bound of the model.                                *)
CreateList(c) == Begin(c, "create", "listed", FALSE, {})

CreateInsert(c, e) ==
    /\ pc[c] = "listed"
    /\ email[e] = "none"
    /\ email' = [email EXCEPT ![e] = "pending"]
    /\ End(c, "commit")
    /\ UNCHANGED <<optIn, counted, marked, due>>

CreateSkip(c) ==
    /\ pc[c] = "listed"
    /\ End(c, "commit")
    /\ UNCHANGED <<rows, due>>

-----------------------------------------------------------------------------
(* send_email asks the lead's row for consent once, before the SMTP session. *)
(* It looks neither at sent_at nor at unsubscribed.                          *)
Mailable_unmarked(e) == email[e] # "none" /\ e \notin marked
Mailable(e) == email[e] # "none" /\ optIn

(* The server accepts the message first; only then is the row updated.       *)
AfterRead_record == "locking"
AfterRead == "smtp"

SendRead(c, e) == Mailable(e) /\ Begin(c, "send", AfterRead, FALSE, {e})

SendRefused(c, e) == ~Mailable(e) /\ Begin(c, "none", "ended", FALSE, {})

SendMail(c) ==
    /\ pc[c] = "smtp"
    /\ mailed' = [e \in Emails |-> IF e \in rest[c] THEN mailed[e] \cup {c} ELSE mailed[e]]
    /\ pc' = [pc EXCEPT ![c] = "locking"]
    /\ UNCHANGED <<rows, token, lock, kind, rest, seen, due, accepted>>

-----------------------------------------------------------------------------
(* The operations that only update. unsubscribe selects the e-mails by a     *)
(* second statement, once it has the lead.                                   *)
TrackBegin(c, e) ==
    email[e] # "none" /\ Begin(c, "track", "locking", FALSE, {e, LeadRow})

UnsubscribeBegin(c) == Begin(c, "unsubscribe", "locking", FALSE, {LeadRow})

(* process_unsubscribe returns at once when the lead is out already. Its own *)
(* change of the lead is flushed with the commit, after the e-mails.         *)
ProcessBegin(c) ==
    optIn /\ Begin(c, "process", "locking", FALSE,
                   {e \in Emails : email[e] = "pending"} \cup {LeadRow})

ProcessAlready(c) == ~optIn /\ Begin(c, "none", "ended", FALSE, {})

(* update_lead writes any opt_in a client sends, in a short transaction.     *)
LeadWrite(b) ==
    /\ lock[LeadRow] = Nobody
    /\ Consent(b)
    /\ UNCHANGED <<aware, counted, email, marked, token, lock, kind, pc, rest,
                   seen, mailed, accepted>>

-----------------------------------------------------------------------------
(* The double opt-in. The token is stored before its e-mail is sent, and     *)
(* expires on its own after 48 hours; GET and DEL are two commands.          *)
SetToken(t, q) ==
    /\ token' = [token EXCEPT ![t] = q]
    /\ UNCHANGED <<rows, lock, kind, pc, rest, seen, mailed, due, accepted>>

TokenSend(t) == token[t] = "unsent" /\ SetToken(t, "live")

TokenExpire(t) == token[t] = "live" /\ SetToken(t, "gone")

ConfirmGet(c, t) ==
    token[t] = "live" /\ Begin(c, "confirm", "got", t, {LeadRow})

ConfirmUnknown(c, t) ==
    token[t] # "live" /\ Begin(c, "none", "ended", FALSE, {})

AfterDel(t) == [token EXCEPT ![t] = "gone"]

ConfirmDel(c) ==
    /\ pc[c] = "got"
    /\ token' = AfterDel(seen[c])
    /\ accepted' = [accepted EXCEPT ![seen[c]] = @ + 1]
    /\ pc' = [pc EXCEPT ![c] = "locking"]
    /\ UNCHANGED <<rows, lock, kind, rest, seen, mailed, due>>

-----------------------------------------------------------------------------
(* The statements. Everybody but unsubscribe updates the e-mails first; the  *)
(* rows of one UPDATE come in one order for all (the scan of the table).     *)
Least(rs) == CHOOSE r \in rs : \A s \in rs : r <= s

NextRow_flushed(c) == IF rest[c] = {LeadRow} \/ kind[c] = "process"
                      THEN Least(rest[c]) ELSE Least(rest[c] \ {LeadRow})
NextRow(c) == IF rest[c] = {LeadRow} THEN LeadRow
                                     ELSE Least(rest[c] \ {LeadRow})

Locking(c) ==
    /\ pc[c] = "locking" /\ rest[c] # {}
    /\ kind[c] \in Timestamped => aware

(* Rows still to lock once r is: the e-mails of the second UPDATE.           *)
RestAfter(c, r) == IF kind[c] = "unsubscribe" /\ r = LeadRow
                   THEN Stored ELSE rest[c] \ {r}

Acquire(c) ==
    /\ Locking(c)
    /\ lock[NextRow(c)] = Nobody
    /\ lock' = [lock EXCEPT ![NextRow(c)] = c]
    /\ rest' = [rest EXCEPT ![c] = RestAfter(c, NextRow(c))]
    /\ UNCHANGED <<rows, token, kind, pc, seen, mailed, due, accepted>>

(* The driver refuses the timestamp.                                         *)
TimestampRefused(c) ==
    /\ pc[c] = "locking" /\ kind[c] \in Timestamped /\ ~aware
    /\ End(c, "rollback")
    /\ UNCHANGED <<rows, due>>

Ready(c, k) ==
    pc[c] = "locking" /\ rest[c] = {} /\ kind[c] = k

CommitSend(c) ==
    /\ Ready(c, "send")
    /\ email' = [e \in Emails |-> IF e \in Held(c) THEN "sent" ELSE email[e]]
    /\ End(c, "commit")
    /\ UNCHANGED <<optIn, counted, marked, due>>

CommitTrack(c) ==
    /\ Ready(c, "track")
    /\ counted' = counted + 1
    /\ End(c, "commit")
    /\ UNCHANGED <<optIn, email, marked, due>>

(* The condition on sent_at is evaluated again on a row that was waited for. *)
Cancelled(c) == {e \in Held(c) \cap Emails :
                    kind[c] = "unsubscribe" \/ email[e] = "pending"}

CommitWithdrawal(c) ==
    /\ Ready(c, "unsubscribe") \/ Ready(c, "process")
    /\ Consent(FALSE)
    /\ marked' = marked \cup Cancelled(c)
    /\ End(c, "commit")
    /\ UNCHANGED <<counted, email>>

CommitConfirm(c) ==
    /\ Ready(c, "confirm")
    /\ Consent(TRUE)
    /\ End(c, "commit")
    /\ UNCHANGED <<counted, email, marked>>

(* PostgreSQL rolls back a transaction that is in a cycle of waits.          *)
Waiting(c) == Locking(c) /\ lock[NextRow(c)] # Nobody

Holder(c) == lock[NextRow(c)]

Cycles == {D \in (SUBSET Calls) \ {{}} :
              /\ \A c \in D : Waiting(c) /\ Holder(c) \in D
              /\ \A d \in D : \E c \in D : Holder(c) = d}

Deadlocked(c) ==
    /\ \E D \in Cycles : c \in D
    /\ End(c, "rollback")
    /\ UNCHANGED <<rows, due>>

-----------------------------------------------------------------------------
Arrive(c) ==
    \/ CreateList(c)
    \/ \E e \in Emails : SendRead(c, e) \/ SendRefused(c, e) \/ TrackBegin(c, e)
    \/ UnsubscribeBegin(c) \/ ProcessBegin(c) \/ ProcessAlready(c)
    \/ \E t \in Tokens : ConfirmGet(c, t) \/ ConfirmUnknown(c, t)

(* What the event loop, the servers and the database do of themselves.       *)
Progress(c) ==
    \/ CreateSkip(c) \/ \E e \in Emails : CreateInsert(c, e)
    \/ SendMail(c) \/ ConfirmDel(c) \/ Acquire(c) \/ TimestampRefused(c)
    \/ CommitSend(c) \/ CommitTrack(c) \/ CommitWithdrawal(c) \/ CommitConfirm(c)
    \/ Deadlocked(c)

Next == \/ \E c \in Calls : Arrive(c) \/ Progress(c) \/ Fail(c)
        \/ \E t \in Tokens : TokenSend(t) \/ TokenExpire(t)
        \/ \E b \in BOOLEAN : LeadWrite(b)

Spec == Init /\ [][Next]_vars

(* The database and the event loop carry a transaction they began to its     *)
(* end; nobody is obliged to begin one, and nothing has to fail.             *)
FairSpec == Spec /\ \A c \in Calls : WF_vars(Progress(c))

-----------------------------------------------------------------------------
(* The variables keep their types, and only a running transaction holds a    *)
(* row.                                                                      *)
TypeOK ==
    /\ aware \in Drivers
    /\ optIn \in BOOLEAN
    /\ counted \in Nat
    /\ email \in [Emails -> {"none", "pending", "sent"}]
    /\ marked \subseteq Emails
    /\ token \in [Tokens -> {"unsent", "live", "gone"}]
    /\ lock \in [Rows -> Calls \cup {Nobody}]
    /\ kind \in [Calls -> Kinds]
    /\ pc \in [Calls -> {"idle", "ended"} \cup Running]
    /\ rest \in [Calls -> SUBSET Rows]
    /\ seen \in [Calls -> Tokens \cup {FALSE}]
    /\ mailed \in [Emails -> SUBSET Calls]
    /\ due \in [Emails -> SUBSET Calls]
    /\ accepted \in [Tokens -> Nat]
    /\ \A r \in Rows, c \in Calls : lock[r] = c => pc[c] = "locking"

(* Once the consent is withdrawn, by whichever route, and until it is given  *)
(* again, no message goes out but those that a run of send_email was handing *)
(* to the server at that moment: at most one a run, and none of an e-mail    *)
(* that a sequence built from an older list has stored since.                *)
WithdrawalHeeded == ~optIn => \A e \in Emails : mailed[e] \subseteq due[e]

(* An e-mail is recorded as sent only when the server accepted it, however   *)
(* often it is sent and whichever of the runs fails.                         *)
SentWasMailed == \A e \in Emails : email[e] = "sent" => mailed[e] # {}

(* Only unsubscribe, which locks against the order of the others, makes a    *)
(* deadlock, and of two calls of it one always waits for the lead: each      *)
(* cycle of waits holds exactly one.                                         *)
OneUnsubscribePerDeadlock ==
    \A D \in Cycles : Cardinality({c \in D : kind[c] = "unsubscribe"}) = 1

(* Where the driver refuses aware datetimes no e-mail is ever recorded as    *)
(* sent and no open or click is ever counted, though messages go out.        *)
RefusedNeverRecorded ==
    ~aware => counted = 0 /\ \A e \in Emails : email[e] # "sent"

(* What the proofs need besides: the one row a send locks is the e-mail it   *)
(* has sent, what is being mailed without consent is due, and where the      *)
(* driver refuses its timestamp a statement never gets its row.              *)
SendRow ==
    \A c \in Calls : kind[c] = "send" =>
        /\ pc[c] \in {"smtp", "locking"}
        /\ pc[c] = "smtp" => \E e \in Emails : rest[c] = {e}
        /\ pc[c] = "locking" =>
               \E e \in Emails : /\ mailed[e] # {} /\ rest[c] \subseteq {e}
                                 /\ \A r \in Rows : lock[r] = c => r = e

DueSends == ~optIn => \A e \in Emails : mailed[e] \cup Mailing(e) \subseteq due[e]

RowsRefused ==
    ~aware => \A c \in Calls :
        kind[c] \in Timestamped /\ pc[c] \in Running => rest[c] # {}

EmailInv == /\ TypeOK /\ DueSends /\ SentWasMailed
            /\ RefusedNeverRecorded /\ SendRow /\ RowsRefused

(* And what orders the waits. All but unsubscribe take the rows in one       *)
(* order, the lead last: what such a call holds comes before all it still    *)
(* wants. An unsubscribe that holds anything holds the lead.                 *)
Place(r) == IF r = LeadRow THEN NumEmails + 1 ELSE r

Ordered(c) ==
    /\ kind[c] = "unsubscribe" => /\ pc[c] = "locking"
                                  /\ \/ Held(c) = {} /\ rest[c] = {LeadRow}
                                     \/ lock[LeadRow] = c /\ rest[c] \subseteq Emails
    /\ kind[c] # "unsubscribe" =>
           \A r \in Held(c), s \in rest[c] : Place(r) < Place(s)

LockOrder == \A c \in Calls : Ordered(c)

(* Every call that began ends: no wait for a row, for the server or for      *)
(* another withdrawal lasts for ever.                                        *)
CallsEnd == \A c \in Calls : (pc[c] # "idle") ~> (pc[c] = "ended")

(* "Consumes the token on success (single-use via Redis DEL)."               *)
TokenSingleUse == \A t \in Tokens : accepted[t] <= 1
=============================================================================
