--------------------------- MODULE IncidentPromise ---------------------------
(***************************************************************************)
(* What handle_alert promises of an incident, with no ids, no table, no    *)
(* gate and no awaits: production is changed only for an incident under    *)
(* way, with an APPROVED that no other incident uses and an audit record;  *)
(* an incident ends once, and one that is refused has alarmed a human.     *)
(***************************************************************************)
EXTENDS Naturals, Sequences

CONSTANTS Alerts, Decisions

VARIABLES status,       \* status[t]: how far the incident is
          by,           \* by[t]: the post that approved it, 0 = none
          posts,        \* the decisions humans have posted
          alarmed, recorded, changed    \* incidents escalated, audited, applied

vars == <<status, by, posts, alarmed, recorded, changed>>

Init ==
    /\ status = [t \in Alerts |-> "none"]
    /\ by = [t \in Alerts |-> 0]
    /\ posts = << >>
    /\ alarmed = {} /\ recorded = {} /\ changed = {}

Turn(t, from, to) == status[t] \in from /\ status' = [status EXCEPT ![t] = to]

Open(t) == Turn(t, {"none"}, "open") /\ UNCHANGED <<by, posts, alarmed, recorded, changed>>

Say(d) == posts' = Append(posts, d) /\ UNCHANGED <<status, by, alarmed, recorded, changed>>

Approve(t, k) ==
    /\ posts[k] = "APPROVED" /\ \A u \in Alerts : by[u] # k
    /\ Turn(t, {"open"}, "approved")
    /\ by' = [by EXCEPT ![t] = k]
    /\ UNCHANGED <<posts, alarmed, recorded, changed>>

Record(t) ==
    /\ status[t] = "approved"
    /\ recorded' = recorded \cup {t}
    /\ UNCHANGED <<status, by, posts, alarmed, changed>>

Change(t) ==
    /\ status[t] = "approved" /\ t \in recorded
    /\ changed' = changed \cup {t}
    /\ UNCHANGED <<status, by, posts, alarmed, recorded>>

Close(t) == Turn(t, {"approved"}, "done") /\ UNCHANGED <<by, posts, alarmed, recorded, changed>>

\* Without approval: the alarm comes with the end, also when the end is an error.
Refuse(t) ==
    /\ \E end \in {"refused", "gone"} : Turn(t, {"open"}, end)
    /\ alarmed' = alarmed \cup {t}
    /\ UNCHANGED <<by, posts, recorded, changed>>

\* An exception ends the incident as it stands; a write that it interrupts may be done.
Fail(t) ==
    /\ Turn(t, {"open", "approved"}, "gone")
    /\ \/ UNCHANGED changed
       \/ status[t] = "approved" /\ t \in recorded /\ changed' = changed \cup {t}
    /\ UNCHANGED <<by, posts, alarmed, recorded>>

Stop ==
    /\ status' = [t \in Alerts |-> IF status[t] \in {"open", "approved"} THEN "gone" ELSE status[t]]
    /\ UNCHANGED <<by, posts, alarmed, recorded, changed>>

Next ==
    \/ \E t \in Alerts : \/ Open(t) \/ Record(t) \/ Change(t) \/ Close(t) \/ Refuse(t) \/ Fail(t)
                         \/ \E k \in DOMAIN posts : Approve(t, k)
    \/ \E d \in Decisions : Say(d)
    \/ Stop

Spec == Init /\ [][Next]_vars
=============================================================================
