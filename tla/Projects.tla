---------------------------------- MODULE Projects ----------------------------------
(***************************************************************************)
(* A project and the analysis of its brand. A request that creates it with  *)
(* a URL, or asks for the analysis, sends a task before it commits; the     *)
(* task reads the project, fetches the site and asks the model for its tone.*)
(* Whatever goes wrong there is answered with a stub.                      *)
(***************************************************************************)
EXTENDS Tasks

VARIABLES
    row,        \* the project, or NoProject
    sent,       \* the requests whose message to the worker is out
    loaded      \* the project as a request has read it

projectVars == <<row, sent, loaded>>

NoProject == [there |-> FALSE, url |-> FALSE, archived |-> FALSE]
Project(url, archived) == [there |-> TRUE, url |-> url, archived |-> archived]
NoUrl == <<"no url">>   \* what a task makes that had no site to look at
Stub == <<"stub">>

ProjectsInit ==
    /\ row = NoProject
    /\ sent = {}
    /\ loaded = [c \in Calls |-> NoProject]

Fields == [url : {"kept", "set", "cleared"}, archived : {"kept", "set", "cleared"}]
Only(f, x) == [url |-> IF f = "url" THEN x ELSE "kept", archived |-> IF f = "archived" THEN x ELSE "kept"]

----------------------------------------------------------------------------
\* Requests

(* create_project: the row is flushed, the message sent, then the commit.    *)
CreateProject(c, url) ==
    /\ row = NoProject
    /\ Ask(c, "project", Only("url", IF url THEN "set" ELSE "kept"))
    /\ sent' = IF url THEN sent \cup {c} ELSE sent
    /\ UNCHANGED <<row, loaded>>

BrokerAway(c) ==
    /\ Begin(c, "project", "failed")
    /\ UNCHANGED <<taskVars, projectVars>>

CreateCommit(c) ==
    /\ kind[c] = "project" /\ row = NoProject
    /\ Produce(c, "reading", "ok", Nothing)
    /\ row' = Project(given[c].url = "set", FALSE)
    /\ UNCHANGED <<sent, loaded>>

(* 500 and no row, but the message is out.                                   *)
CreateFails(c) ==
    /\ kind[c] = "project"
    /\ Outage(c, "reading")
    /\ UNCHANGED projectVars

(* handle_update_project, handle_delete_project (which archives): the row is *)
(* read first, 404 without it.                                               *)
EditBegins(c, fields) ==
    /\ Ask(c, "edit", fields)
    /\ UNCHANGED projectVars

EditRead(c) ==
    /\ kind[c] = "edit"
    /\ Produce(c, "reading", IF row.there THEN "editing" ELSE "refused", Nothing)
    /\ loaded' = [loaded EXCEPT ![c] = row]
    /\ UNCHANGED <<row, sent>>

(* The UPDATE names the fields that differ from what was read.               *)
Wanted(old, x) == IF x = "kept" THEN old ELSE x = "set"
Written_whole(c) ==
    Project(Wanted(loaded[c].url, given[c].url), Wanted(loaded[c].archived, given[c].archived))
Written(c) ==
    LET new(f) == Wanted(loaded[c][f], given[c][f])
    IN [f \in DOMAIN row |->
           IF f = "there" \/ new(f) = loaded[c][f] THEN row[f] ELSE new(f)]

EditCommit(c) ==
    /\ Produce(c, "editing", "ok", Nothing)
    /\ row' = Written(c)
    /\ UNCHANGED <<sent, loaded>>

EditFails(c) ==
    /\ Outage(c, "editing")
    /\ UNCHANGED projectVars

(* trigger_brand_analysis: 404 without a project, 422 without a URL.         *)
TriggerAnalysis(c) ==
    /\ IF row.url
       THEN Begin(c, "trigger", "ok") /\ sent' = sent \cup {c}
       ELSE Begin(c, "trigger", "refused") /\ UNCHANGED sent
    /\ UNCHANGED <<taskVars, row, loaded>>

----------------------------------------------------------------------------
\* The worker's analyze_brand

BrandBegins(c) ==
    /\ \E d \in sent : Ask(c, "brand", [by |-> d])
    /\ UNCHANGED projectVars

BrandReads(c) ==
    /\ kind[c] = "brand"
    /\ IF row.url THEN Produce(c, "reading", "allowing", Nothing)
                  ELSE Produce(c, "reading", "ok", NoUrl)
    /\ UNCHANGED projectVars

(* Only the database gets an exception out of the task.                      *)
BrandReadFails(c) ==
    /\ kind[c] = "brand"
    /\ Outage(c, "reading")
    /\ UNCHANGED projectVars

(* robots.txt; whatever goes wrong with it allows.                           *)
RobotsAllow(c) == Produce(c, "allowing", "fetching", Nothing) /\ UNCHANGED projectVars

(* A hundred characters of text are enough; less, an error or another type   *)
(* of content goes to the browser.                                           *)
PageFetched(c) ==
    /\ \E q \in {"judging", "browsing"} : Produce(c, "fetching", q, Nothing)
    /\ UNCHANGED projectVars
PageRendered(c) == Produce(c, "browsing", "judging", Nothing) /\ UNCHANGED projectVars

(* The robots forbid, the browser fails; and analyze_tone always raises, as  *)
(* it asks get_model_config for a model without saying what for: what comes  *)
(* after it is never reached.                                               *)
BrandStubbed(c) ==
    /\ \E p \in {"allowing", "browsing", "judging"} : Produce(c, p, "ok", Stub)
    /\ UNCHANGED projectVars

ProjectBegins(c) ==
    \/ (\E url \in BOOLEAN : CreateProject(c, url)) \/ BrokerAway(c)
    \/ \E f \in {"url", "archived"}, x \in {"set", "cleared"} : EditBegins(c, Only(f, x))
    \/ TriggerAnalysis(c) \/ BrandBegins(c)

ProjectSteps(c) ==
    \/ CreateCommit(c) \/ CreateFails(c) \/ EditRead(c) \/ EditCommit(c) \/ EditFails(c)
    \/ BrandReads(c) \/ BrandReadFails(c) \/ RobotsAllow(c) \/ PageFetched(c)
    \/ PageRendered(c) \/ BrandStubbed(c)

Edits(f, x) == {c \in Calls : kind[c] = "edit" /\ pc[c] = "ok" /\ given[c][f] = x}

(* A project whose archiving was answered is archived, unless a request that *)
(* overlapped it or came later took it out again: an edit of something else  *)
(* never does (project_service.py:139-157).                                  *)
ArchiveStands ==
    \A c \in Edits("archived", "set") :
        row.archived \/ \E d \in Edits("archived", "cleared") : d \notin before[c]

(* The site of a project that was created with a URL is looked at, by the    *)
(* task that its creation sent, if nobody took the URL back                  *)
(* (backend/api/v1/models/project.py:30-36).                                 *)
CreationAnalysed ==
    \A b, c \in Calls :
        /\ kind[b] = "brand" /\ pc[b] = "ok" /\ given[b].by = c
        /\ kind[c] = "project" /\ pc[c] = "ok"
        /\ Edits("url", "cleared") = {}
        => made[b] # NoUrl

(* Why: an edit that found the project archived leaves it as it is, and is   *)
(* as good as one that archived it, until somebody takes it out again.       *)
ProjectRows == [there : BOOLEAN, url : BOOLEAN, archived : BOOLEAN]
StillArchived(c) == row.archived \/ \E d \in Edits("archived", "cleared") : d \notin before[c]
FoundArchived == \A c \in Calls : pc[c] = "editing" /\ loaded[c].archived => StillArchived(c)
EditsAsk == \A c \in Calls : kind[c] = "edit" => given[c] \in Fields

ArchiveInv ==
    /\ row \in ProjectRows /\ loaded \in [Calls -> ProjectRows] /\ ~NoProject.archived
    /\ EditsAsk /\ FoundArchived /\ ArchiveStands
=============================================================================
