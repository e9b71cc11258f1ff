--------------------------- MODULE ApprovalPromise ---------------------------
(***************************************************************************)
(* What ApprovalProvider.request promises its caller, with no futures, no  *)
(* registry, no files and no event loop: a request that has been asked     *)
(* ends once, on a decision some human posted for its incident id, or by   *)
(* its timeout.  The strict promise, of callback mode, adds that a         *)
(* decision ends no other request and that a request does not fail.        *)
(***************************************************************************)
EXTENDS Naturals, Sequences

CONSTANTS Tasks, Ids, NoId, Decisions, Strict

VARIABLES id,           \* id[t]: the incident id of t's request
          status,       \* status[t]: how far the request is
          by,           \* by[t]: the post that decided it, 0 = none
          posts         \* the decisions humans have posted

vars == <<id, status, by, posts>>

Post == [id : Ids, decision : Decisions]

Init ==
    /\ id = [t \in Tasks |-> NoId]
    /\ status = [t \in Tasks |-> "none"]
    /\ by = [t \in Tasks |-> 0]
    /\ posts = << >>

Name(t, i) ==
    /\ status[t] = "none" /\ id[t] = NoId
    /\ id' = [id EXCEPT ![t] = i]
    /\ UNCHANGED <<status, by, posts>>

Ask(t) ==
    /\ status[t] = "none" /\ id[t] # NoId
    /\ status' = [status EXCEPT ![t] = "asked"]
    /\ UNCHANGED <<id, by, posts>>

Say(p) ==
    /\ posts' = Append(posts, p)
    /\ UNCHANGED <<id, status, by>>

Decide(t, k) ==
    /\ status[t] = "asked"
    /\ posts[k].id = id[t]
    /\ Strict => \A u \in Tasks : by[u] # k
    /\ status' = [status EXCEPT ![t] = "decided"]
    /\ by' = [by EXCEPT ![t] = k]
    /\ UNCHANGED <<id, posts>>

TimeOut(t) ==
    /\ status[t] = "asked"
    /\ status' = [status EXCEPT ![t] = "timed out"]
    /\ UNCHANGED <<id, by, posts>>

\* The request ends in an exception.
Fail(t) ==
    /\ ~Strict /\ status[t] = "asked"
    /\ status' = [status EXCEPT ![t] = "gone"]
    /\ UNCHANGED <<id, by, posts>>

\* The agent stops: whatever was named and not ended is gone.
Stop ==
    /\ status' = [t \in Tasks |->
                    IF status[t] = "asked" \/ (status[t] = "none" /\ id[t] # NoId)
                    THEN "gone" ELSE status[t]]
    /\ UNCHANGED <<id, by, posts>>

End(t) == (\E k \in DOMAIN posts : Decide(t, k)) \/ TimeOut(t)

Next ==
    \/ \E t \in Tasks : (\E i \in Ids : Name(t, i)) \/ Ask(t) \/ End(t) \/ Fail(t)
    \/ \E p \in Post : Say(p)
    \/ Stop

Spec == Init /\ [][Next]_vars

FairSpec == Spec /\ \A t \in Tasks : WF_vars(End(t))
=============================================================================
