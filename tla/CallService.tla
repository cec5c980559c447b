---------------------------- MODULE CallService ----------------------------
(***************************************************************************)
(* What the server of the portal promises a page: a call that was made is  *)
(* answered at most once, with one of the answers of its route.  A token   *)
(* is for a guild, "scanned" is only said when a re-scan is queued, and a  *)
(* call queues no more than MaxRescans of them.                            *)
(*                                                                         *)
(* Attempts, handlers, queries, the process and its end belong to          *)
(* PortalServer, which implements this module.                             *)
(***************************************************************************)
EXTENDS Naturals

CONSTANTS Calls, MaxRescans

VARIABLES
    kind,      \* what a call asks for
    guild,     \* whether the account of a login is a guild of oig.producer
    state,     \* a call: "idle", "pending" or "done"
    result,    \* what the page learned in the end
    accepted   \* re-scans that are queued for a call

vars == <<kind, guild, state, result, accepted>>

Kinds == {"table", "dates", "nodes", "missing", "blocks", "login", "scan",
          "other"}

\* What a route may answer; any call may fail.
Outcomes(k) ==
    {"failed"} \cup
    CASE k \in {"table", "dates", "nodes", "blocks"} -> {"ok"}
      [] k \in {"missing", "other"} -> {"ok", "refused"}
      [] k = "login" -> {"refused", "token"}
      [] k = "scan" -> {"warned", "scanned"}

Init ==
    /\ kind \in [Calls -> Kinds]
    /\ guild \in [Calls -> BOOLEAN]
    /\ \A c \in Calls : guild[c] => kind[c] = "login"
    /\ state = [c \in Calls |-> "idle"]
    /\ result = [c \in Calls |-> "none"]
    /\ accepted = [c \in Calls |-> 0]

Make(c) ==
    /\ state[c] = "idle"
    /\ state' = [state EXCEPT ![c] = "pending"]
    /\ UNCHANGED <<kind, guild, result, accepted>>

\* The page learns the outcome r.
Conclude(c, r) ==
    /\ state[c] = "pending" /\ r \in Outcomes(kind[c])
    /\ r = "token" => guild[c]
    /\ r = "scanned" => accepted'[c] > 0
    /\ state' = [state EXCEPT ![c] = "done"]
    /\ result' = [result EXCEPT ![c] = r]
    /\ UNCHANGED <<kind, guild>>

Answer(c) == UNCHANGED accepted /\ \E r \in Outcomes(kind[c]) : Conclude(c, r)

\* A re-scan is queued, whether the page learns of it now, later or, because
\* it has given up, never.
Schedule(c) ==
    /\ kind[c] = "scan" /\ state[c] # "idle" /\ accepted[c] < MaxRescans
    /\ accepted' = [accepted EXCEPT ![c] = @ + 1]
    /\ \/ UNCHANGED <<kind, guild, state, result>>
       \/ \E r \in Outcomes("scan") : Conclude(c, r)

\* What ends the process fails several calls at once.
Break(broken) ==
    /\ \A c \in broken : state[c] = "pending"
    /\ state' = [c \in Calls |-> IF c \in broken THEN "done" ELSE state[c]]
    /\ result' = [c \in Calls |-> IF c \in broken THEN "failed" ELSE result[c]]
    /\ UNCHANGED <<kind, guild, accepted>>

Next == \/ \E c \in Calls : Make(c) \/ Answer(c) \/ Schedule(c)
        \/ \E broken \in SUBSET Calls : Break(broken)

Spec == Init /\ [][Next]_vars
=============================================================================
