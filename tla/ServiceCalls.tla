------------------------------ MODULE ServiceCalls ------------------------------
(***************************************************************************)
(* What the services of the back office share: calls (a Celery task, a     *)
(* request, a generation) that run side by side, each of one kind, stepping *)
(* from one suspension point to the next. A step may end a call, and any    *)
(* call may be lost with its process.                                       *)
(***************************************************************************)
EXTENDS Naturals, FiniteSets

CONSTANTS
    MaxCalls,   \* bound: executions of the operations, each of any kind
    Mixes       \* bounds: [kinds, calls, retries, drivers, starts, asks] of a
                \* behaviour; drivers: does the database's take aware datetimes?

ASSUME ServiceConstants ==
    /\ MaxCalls \in Nat
    /\ \A m \in Mixes : m.calls \in 0..MaxCalls /\ m.retries \in Nat /\ m.drivers \subseteq BOOLEAN

VARIABLES
    mix,        \* the kinds of this behaviour and its number of calls
    aware,      \* the driver takes aware datetimes for naive columns
    kind,       \* operation of each call
    pc,         \* where it stands
    before      \* history: the calls that had ended when it began

callVars == <<mix, aware, kind, pc, before>>

Calls == 1..MaxCalls
Ended == {"ok", "failed", "lost", "recorded", "unrecorded", "admitted",
          "open", "refused"}
Running(c) == pc[c] # "idle" /\ pc[c] \notin Ended

CallsInit ==
    /\ mix \in Mixes
    /\ aware \in mix.drivers
    /\ kind = [c \in Calls |-> "none"]
    /\ pc = [c \in Calls |-> "idle"]
    /\ before = [c \in Calls |-> {}]

(* Call c, of kind k, is the next to begin.                                  *)
MayBegin(c, k) ==
    /\ k \in mix.kinds /\ c <= mix.calls
    /\ pc[c] = "idle" /\ \A d \in 1..(c - 1) : pc[d] # "idle"

(* Call c starts as a k, at its first suspension point q (or has ended there).*)
(* Calls are numbered in the order in which they begin.                      *)
Begin(c, k, q) ==
    /\ MayBegin(c, k)
    /\ kind' = [kind EXCEPT ![c] = k]
    /\ pc' = [pc EXCEPT ![c] = q]
    /\ before' = [before EXCEPT ![c] = {d \in Calls : pc[d] \in Ended}]
    /\ UNCHANGED <<mix, aware>>

(* It moves on from p to q.                                                  *)
Step(c, p, q) ==
    /\ pc[c] = p
    /\ pc' = [pc EXCEPT ![c] = q]
    /\ UNCHANGED <<mix, aware, kind, before>>

(* Its process dies before its last commit: a call ends with that one. A     *)
(* task that is delivered again is another call.                            *)
Lose(c) ==
    /\ Running(c)
    /\ pc' = [pc EXCEPT ![c] = "lost"]
    /\ UNCHANGED <<mix, aware, kind, before>>

(* f, with x at k.                                                           *)
With(f, k, x) == [j \in DOMAIN f \cup {k} |-> IF j = k THEN x ELSE f[j]]

CallsTypeOK == kind = [c \in Calls |-> kind[c]] /\ pc = [c \in Calls |-> pc[c]]

Overlapped(c, d) == c \notin before[d] /\ d \notin before[c]
=============================================================================
