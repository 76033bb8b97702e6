---------------------------------- MODULE Tasks ----------------------------------
(***************************************************************************)
(* Calls that a worker runs again: a Celery task whose body raises goes     *)
(* back to its queue until its retries are used up, and starts all over     *)
(* with the arguments it was given.                                        *)
(***************************************************************************)
EXTENDS ServiceCalls

VARIABLES
    try,        \* which run of the task this is
    given,      \* what a call was asked to work on
    made,       \* what it has made of it so far
    trouble     \* history: an outside service let this run down

taskVars == <<try, given, made, trouble>>

Tries == 1..4
Nothing == <<>>

(* max_retries of the tasks; a request is not tried again.                   *)
Retries(k) ==
    CASE k \in {"l2c", "score", "rank", "account", "format", "script", "image", "brand"} -> 3
      [] k = "influencer" -> 2
      [] k = "loop" -> 1
      [] OTHER -> 0
TriedAgain(c) == try[c] <= Retries(kind[c]) /\ try[c] <= mix.retries

TasksInit ==
    /\ try = [c \in Calls |-> 1]
    /\ given = [c \in Calls |-> Nothing]
    /\ made = [c \in Calls |-> Nothing]
    /\ trouble = [c \in Calls |-> FALSE]

(* An exception leaves the body: the task is tried again, or gives up.       *)
Escape_forever(c, p) == Step(c, p, "reading") /\ UNCHANGED try
Escape(c, p) ==
    /\ Step(c, p, IF TriedAgain(c) THEN "reading" ELSE "failed")
    /\ try' = [try EXCEPT ![c] = IF TriedAgain(c) THEN @ + 1 ELSE @]

(* A call of kind k with argument x.                                         *)
Ask(c, k, x) ==
    /\ Begin(c, k, "reading")
    /\ given' = [given EXCEPT ![c] = x]
    /\ UNCHANGED <<try, made, trouble>>

(* From p to q, with y made.                                                 *)
Produce(c, p, q, y) ==
    /\ Step(c, p, q)
    /\ made' = [made EXCEPT ![c] = y]
    /\ UNCHANGED <<try, given, trouble>>

(* The code raises at p with nothing wrong outside.                          *)
Raise(c, p) ==
    /\ Escape(c, p)
    /\ trouble' = [trouble EXCEPT ![c] = FALSE]
    /\ UNCHANGED <<given, made>>

(* An outside service fails at p, and the body lets it out.                  *)
Outage(c, p) ==
    /\ Escape(c, p)
    /\ trouble' = [trouble EXCEPT ![c] = TRUE]
    /\ UNCHANGED <<given, made>>
=============================================================================
