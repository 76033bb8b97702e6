--------------------------------- MODULE Leads ---------------------------------
(***************************************************************************)
(* The leads of one project: created one by one or imported from a CSV      *)
(* file, changed, erased on request and purged when they are too old. Each  *)
(* request works in a session of its own and commits at its end. No         *)
(* constraint keeps two rows from holding one address, which is stored      *)
(* encrypted: only the import looks at the addresses that are there.        *)
(***************************************************************************)
EXTENDS ServiceCalls

CONSTANTS
    Addresses,
    OldLeads    \* addresses of the leads that are past retention

ASSUME LeadConstants == IsFiniteSet(Addresses) /\ OldLeads \subseteq Addresses

VARIABLES
    leads,      \* the rows
    known,      \* addresses an import found when it began
    file,       \* addresses of its file
    target      \* ids of the rows a request has read

leadVars == <<leads, known, file, target>>

(* id: which call inserted the row, and for which address; by: the call that *)
(* gave it the address it has. The rows of Seed were there at the start.     *)
Seed == 0
Lead(c, a, optIn) == [id |-> <<c, a>>, by |-> c, email |-> a, optIn |-> optIn]
Emails(rows) == {r.email : r \in rows}
IsOld(r) == r.id[1] = Seed

LeadsInit ==
    /\ leads = {Lead(Seed, a, TRUE) : a \in OldLeads}
    /\ known = [c \in Calls |-> {}]
    /\ file = [c \in Calls |-> {}]
    /\ target = [c \in Calls |-> {}]

(* create_lead asks nobody whether the address is there. A consent_date with *)
(* an offset is refused by a driver that wants naive values.                 *)
CreateLead(c, a, optIn) ==
    /\ \/ Begin(c, "create", "ok") /\ leads' = leads \cup {Lead(c, a, optIn)}
       \/ Begin(c, "create", "failed") /\ UNCHANGED leads
    /\ UNCHANGED <<known, file, target>>

(* The file is parsed and the addresses of the project are read, once.       *)
ImportRead(c, f) ==
    /\ Begin(c, "import", "importing")
    /\ known' = [known EXCEPT ![c] = Emails(leads)]
    /\ file' = [file EXCEPT ![c] = f]
    /\ UNCHANGED <<leads, target>>

(* Rows without an address, or with a known one, are skipped; an address     *)
(* becomes known with its first row.                                         *)
NewAddresses_all(c) == file[c]
NewAddresses(c) == file[c] \ known[c]

ImportCommit(c, optIn) ==
    /\ Step(c, "importing", "ok")
    /\ leads' = leads \cup {Lead(c, a, optIn) : a \in NewAddresses(c)}
    /\ UNCHANGED <<known, file, target>>

(* A short row (None.strip()) or a failing statement: nothing of the file.   *)
ImportFails(c) ==
    /\ Step(c, "importing", "failed")
    /\ UNCHANGED leadVars

(* get_lead of an update or of an erasure; 404 when the row is not there.    *)
LeadRead(c, k, i) ==
    /\ IF \E r \in leads : r.id = i THEN Begin(c, k, "read") ELSE Begin(c, k, "refused")
    /\ target' = [target EXCEPT ![c] = {i}]
    /\ UNCHANGED <<leads, known, file>>

Targets(c) == {r \in leads : r.id \in target[c]}

(* UPDATE of the fields that were sent; a row that is gone is a StaleDataError.*)
Updated(c, a, optIn) ==
    (leads \ Targets(c)) \cup
    {[r EXCEPT !.by = IF a = r.email THEN @ ELSE c, !.email = a, !.optIn = optIn] : r \in Targets(c)}

UpdateLead(c, a, optIn) ==
    /\ kind[c] = "update"
    /\ leads' = Updated(c, a, optIn)
    /\ Step(c, "read", IF \E r \in leads' : r.id \in target[c] THEN "ok" ELSE "failed")
    /\ UNCHANGED <<known, file, target>>

(* DELETE: a row that is gone already is what was asked for.                 *)
DeleteLead(c) ==
    /\ kind[c] = "delete"
    /\ Step(c, "read", "ok")
    /\ leads' = leads \ Targets(c)
    /\ UNCHANGED <<known, file, target>>

LeadFails(c) ==
    /\ Step(c, "read", "failed")
    /\ UNCHANGED leadVars

(* purge_expired_leads compares created_at with an aware cutoff.             *)
PurgeExpiredLeads(c) ==
    /\ IF aware THEN Begin(c, "purge", "ok") ELSE Begin(c, "purge", "failed")
    /\ leads' = IF aware THEN {r \in leads : ~IsOld(r)} ELSE leads
    /\ UNCHANGED <<known, file, target>>

Ids == (Calls \cup {Seed}) \X Addresses

LeadSteps(c) ==
    \/ \E optIn \in BOOLEAN : ImportCommit(c, optIn) \/ \E a \in Addresses : UpdateLead(c, a, optIn)
    \/ ImportFails(c) \/ DeleteLead(c) \/ LeadFails(c)

LeadBegins(c) ==
    \/ \E a \in Addresses, optIn \in BOOLEAN : CreateLead(c, a, optIn)
    \/ \E f \in SUBSET Addresses : ImportRead(c, f)
    \/ \E k \in {"update", "delete"}, i \in Ids : LeadRead(c, k, i)
    \/ PurgeExpiredLeads(c)

LeadsNext == \E c \in Calls : LeadBegins(c) \/ LeadSteps(c)

LeadsTypeOK ==
    /\ leads \subseteq [id : Ids, by : Calls \cup {Seed}, email : Addresses, optIn : BOOLEAN]
    /\ known \in [Calls -> SUBSET Addresses] /\ file \in [Calls -> SUBSET Addresses]
    /\ target \in [Calls -> SUBSET Ids]

(* Two rows got one address from imports only when the imports overlapped:   *)
(* one that begins after another has ended skips what that one stored        *)
(* (lead_service.py:186-205).                                                *)
ImportsSkipKnown ==
    \A r, s \in leads :
        /\ r.id # s.id /\ r.email = s.email
        /\ {r.by, s.by} \subseteq {c \in Calls : kind[c] = "import"}
        => Overlapped(r.by, s.by)

(* A lead whose erasure was answered with success is in no table, whatever   *)
(* update of it was under way (lead_service.py:96-118).                      *)
ErasedForGood ==
    \A c \in Calls : kind[c] = "delete" /\ pc[c] = "ok" => Targets(c) = {}

(* Why: a row names calls that have ended, so nobody stores a row that was   *)
(* read, or erased, again; an import knows the rows of all before it, and    *)
(* stores none that it knew.                                                 *)
Past(c) == c = Seed \/ pc[c] \in Ended
RowsByEnded == \A r \in leads : Past(r.id[1]) /\ Past(r.by)
TargetsByEnded ==
    \A c \in Calls :
        pc[c] = "read" \/ (kind[c] \in {"update", "delete"} /\ pc[c] = "ok") =>
            \A i \in target[c] : Past(i[1])
Imported(r) == r.by \in Calls /\ kind[r.by] = "import"
ImportsKnow ==
    \A c \in Calls, r \in leads :
        kind[c] = "import" /\ Imported(r) /\ r.by \in before[c] => r.email \in known[c]
ImportsNew == \A r \in leads : Imported(r) => r.email \notin known[r.by]

LeadsInv ==
    /\ LeadsTypeOK /\ RowsByEnded /\ TargetsByEnded /\ ImportsKnow /\ ImportsNew /\ ErasedForGood
=============================================================================
