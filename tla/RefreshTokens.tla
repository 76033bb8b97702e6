----------------------------- MODULE RefreshTokens -----------------------------
(***************************************************************************)
(* The refresh tokens of one user: concurrent login, refresh and logout    *)
(* requests, each in the session get_db_session opens for it and commits   *)
(* or rolls back when the handler has returned. A login or a refresh makes *)
(* at most one token, so the token is named after the request; Roots are   *)
(* tokens of earlier logins. A request may present any token at any time:  *)
(* one that is not stored yet, or no longer usable, is a retry or a mixup  *)
(* of the client.                                                          *)
(***************************************************************************)
EXTENDS Integers

CONSTANTS
    Calls,      \* requests, each a login, a refresh or a logout
    Roots,      \* tokens stored by earlier logins
    UserRow,    \* the row of the user, which a login updates
    Nobody      \* holder of an unlocked row, token of no request

ASSUME TokenConstants ==
    /\ Calls \cap Roots = {}
    /\ UserRow \notin Calls \cup Roots
    /\ Nobody \notin Calls \cup Roots \cup {UserRow}

Tokens == Calls \cup Roots
Rows == Tokens \cup {UserRow}

VARIABLES
    stored,     \* refresh_tokens: no row, revoked = False, revoked = True
    expired,    \* tokens past their expires_at
    lock,       \* holder of each row's lock
    kind,       \* operation of each request
    using,      \* the token it presents
    pc,         \* where it stands
    earlier     \* history: the requests that had committed when it began

vars == <<stored, expired, lock, kind, using, pc, earlier>>

Init ==
    /\ stored = [t \in Tokens |-> IF t \in Roots THEN "valid" ELSE "none"]
    /\ expired = {}
    /\ lock = [r \in Rows |-> Nobody]
    /\ kind = [c \in Calls |-> "none"]
    /\ using = [c \in Calls |-> Nobody]
    /\ pc = [c \in Calls |-> "idle"]
    /\ earlier = [c \in Calls |-> {}]

Running == {"checked", "locking", "written"}
Ended == {"committed", "void"}

Committed == {d \in Calls : pc[d] = "committed"}

(* A request arrives and is taken as far as q.                               *)
Begin(c, k, t, q) ==
    /\ pc[c] = "idle"
    /\ pc' = [pc EXCEPT ![c] = q]
    /\ kind' = [kind EXCEPT ![c] = k]
    /\ using' = [using EXCEPT ![c] = t]
    /\ earlier' = [earlier EXCEPT ![c] = Committed]
    /\ UNCHANGED <<stored, expired, lock>>

(* It is refused, or finds nothing to do.                                    *)
Void(c) ==
    /\ pc' = [pc EXCEPT ![c] = "void"]
    /\ kind' = [kind EXCEPT ![c] = "none"]
    /\ using' = [using EXCEPT ![c] = Nobody]
    /\ earlier' = [earlier EXCEPT ![c] = {}]

(* A wrong password, or a token that validate_refresh_token does not accept. *)
Refused(c) ==
    /\ pc[c] = "idle"
    /\ Void(c)
    /\ UNCHANGED <<stored, expired, lock>>

(* authenticate_user: the password is right, last_login_at is to be written. *)
Login(c) == Begin(c, "login", Nobody, "locking")

(* validate_refresh_token looks for a row that is neither revoked nor old.   *)
Usable_revoked(t) == stored[t] # "none" /\ t \notin expired
Usable(t) == stored[t] = "valid" /\ t \notin expired

Refresh(c, t) == Usable(t) /\ Begin(c, "refresh", t, "checked")

(* logout validates nothing.                                                 *)
Logout(c, t) == Begin(c, "logout", t, "checked")

(* revoke_refresh_token selects the row again; the session holds no copy of  *)
(* it any more, so it sees what others have committed since. A row already   *)
(* revoked is left alone, and a refresh goes on all the same. A logout may   *)
(* find no row: the response of a refresh can leave before its commit.       *)
AfterSelect_forgotten(c) == "written"
AfterSelect(c) == IF stored[using[c]] = "valid" THEN "locking" ELSE "written"

Select(c) ==
    /\ pc[c] = "checked"
    /\ stored[using[c]] # "none"
    /\ pc' = [pc EXCEPT ![c] = AfterSelect(c)]
    /\ UNCHANGED <<stored, expired, lock, kind, using, earlier>>

SelectNothing(c) ==
    /\ pc[c] = "checked"
    /\ stored[using[c]] = "none"
    /\ Void(c)
    /\ UNCHANGED <<stored, expired, lock>>

(* The flush sends the UPDATE, which waits for the row.                      *)
RowOf(c) == IF kind[c] = "login" THEN UserRow ELSE using[c]

Update(c) ==
    /\ pc[c] = "locking"
    /\ lock[RowOf(c)] = Nobody
    /\ lock' = [lock EXCEPT ![RowOf(c)] = c]
    /\ pc' = [pc EXCEPT ![c] = "written"]
    /\ UNCHANGED <<stored, expired, kind, using, earlier>>

(* The transaction ends, and its locks with it.                              *)
Unlocked_kept(c, outcome) ==
    [r \in Rows |-> IF lock[r] = c /\ outcome = "commit" THEN Nobody ELSE lock[r]]
Unlocked(c, outcome) ==
    [r \in Rows |-> IF lock[r] = c THEN Nobody ELSE lock[r]]

(* The successor is inserted and the old token revoked by one commit.        *)
Commit(c) ==
    /\ pc[c] = "written"
    /\ stored' = [t \in Tokens |->
                    IF t = c /\ kind[c] # "logout" THEN "valid"
                    ELSE IF lock[t] = c THEN "revoked" ELSE stored[t]]
    /\ pc' = [pc EXCEPT ![c] = "committed"]
    /\ lock' = Unlocked(c, "commit")
    /\ UNCHANGED <<expired, kind, using, earlier>>

(* Any statement, and the commit itself, may fail, also after the response   *)
(* has left.                                                                 *)
AfterAbort_revoked(c) == [t \in Tokens |-> IF lock[t] = c THEN "revoked"
                                                           ELSE stored[t]]
AfterAbort(c) == stored

Abort(c) ==
    /\ pc[c] \in Running
    /\ stored' = AfterAbort(c)
    /\ Void(c)
    /\ lock' = Unlocked(c, "rollback")
    /\ UNCHANGED expired

(* Time passes.                                                              *)
Expire(t) ==
    /\ stored[t] # "none"
    /\ expired' = expired \cup {t}
    /\ UNCHANGED <<stored, lock, kind, using, pc, earlier>>

Arrive(c) ==
    \/ Login(c) \/ Refused(c)
    \/ \E t \in Tokens : Refresh(c, t) \/ Logout(c, t)

Progress(c) == Select(c) \/ SelectNothing(c) \/ Update(c) \/ Commit(c)

Next == \/ \E c \in Calls : Arrive(c) \/ Progress(c) \/ Abort(c)
        \/ \E t \in Tokens : Expire(t)

Spec == Init /\ [][Next]_vars

(* The event loop and the database take a request to its end; clients need   *)
(* not send one and nothing has to fail.                                     *)
FairSpec == Spec /\ \A c \in Calls : WF_vars(Progress(c))

-----------------------------------------------------------------------------
(* The variables keep their types, and only a request that has written, and  *)
(* only that, holds the row it writes.                                       *)
TypeOK ==
    /\ stored \in [Tokens -> {"none", "valid", "revoked"}]
    /\ expired \subseteq Tokens
    /\ lock \in [Rows -> Calls \cup {Nobody}]
    /\ kind \in [Calls -> {"none", "login", "refresh", "logout"}]
    /\ using \in [Calls -> Tokens \cup {Nobody}]
    /\ pc \in [Calls -> {"idle"} \cup Running \cup Ended]
    /\ earlier \in [Calls -> SUBSET Calls]
    /\ \A r \in Rows, c \in Calls : lock[r] = c => pc[c] = "written" /\ RowOf(c) = r

(* Rotation is atomic: the successor of a refresh is stored only together    *)
(* with the revocation of the token it replaces, whoever else revokes that   *)
(* token meanwhile, and a request that did not commit stored no token.       *)
RotationAtomic ==
    \A c \in Calls :
        /\ pc[c] = "committed" /\ kind[c] = "refresh" => stored[using[c]] = "revoked"
        /\ pc[c] # "committed" => stored[c] = "none"

(* Two requests both end the same token, one of them a refresh, only if they *)
(* overlap: a refresh that began after another refresh or a logout of its    *)
(* token had committed gets no successor.                                    *)
SuccessorsOverlap ==
    \A c, d \in Calls :
        /\ kind[c] = "refresh" /\ pc[c] = "committed"
        /\ kind[d] \in {"refresh", "logout"} /\ pc[d] = "committed"
        /\ using[d] = using[c]
        => d \notin earlier[c]

(* A token is revoked only by a request that committed: a rotation that      *)
(* fails leaves the client its old token.                                    *)
FailedRotationKeepsToken ==
    \A t \in Tokens : stored[t] = "revoked" =>
        \E c \in Calls : pc[c] = "committed" /\ using[c] = t

(* What the proofs need besides: what a request presents is stored by the    *)
(* time it counts, and once it has written it holds that token or the token  *)
(* was revoked already.                                                      *)
Ending == {"refresh", "logout"}

Presented ==
    \A c \in Calls :
        /\ kind[c] = "none" <=> pc[c] \in {"idle", "void"}
        /\ pc[c] = "checked" => kind[c] \in Ending
        /\ kind[c] \in Ending =>
              /\ using[c] \in Tokens
              /\ kind[c] = "refresh" \/ pc[c] # "checked" => stored[using[c]] # "none"
              /\ pc[c] = "written" => lock[using[c]] = c \/ stored[using[c]] = "revoked"

(* Whoever committed the end of a token left it revoked, so that no refresh  *)
(* of it can begin afterwards.                                               *)
EndedEarlier ==
    \A d \in Calls : kind[d] \in Ending /\ pc[d] = "committed" =>
        /\ stored[using[d]] = "revoked"
        /\ \A c \in Calls : kind[c] = "refresh" /\ using[c] = using[d]
                             => d \notin earlier[c]

EarlierCommitted == \A c \in Calls : earlier[c] \subseteq Committed

TokenInv == /\ TypeOK /\ RotationAtomic /\ FailedRotationKeepsToken
            /\ Presented /\ EndedEarlier /\ EarlierCommitted

(* Every request that began ends.                                            *)
CallsEnd == \A c \in Calls : (pc[c] # "idle") ~> (pc[c] \in Ended)
=============================================================================
