---------------------------- MODULE ApprovalGate ----------------------------
(***************************************************************************)
(* tools/approval_handler.py, callback mode: the human-in-the-loop gate.   *)
(*                                                                         *)
(* One asyncio event loop runs the incidents' tasks and the HTTP handlers. *)
(* Each action is what runs between two awaits.  asyncio.wait_for splits a *)
(* request over two tasks: the outer one waits for "inner task done or     *)
(* timer", the inner one (_await_decision) waits for the future that       *)
(* submit_decision resolves.  So a timer that has fired, a future that has *)
(* been resolved and the task that will notice are three different steps,  *)
(* and other handlers run between them.                                    *)
(*                                                                         *)
(* _PENDING and _EARLY are keyed by incident id, and two incidents may be  *)
(* given the same id (see IncidentStore), so ids are not request names.    *)
(***************************************************************************)
EXTENDS Naturals, Sequences, FiniteSets

CONSTANTS Tasks,        \* the incidents' tasks, one approval request each
          Ids,          \* incident ids
          NoId,         \* a task that has none yet
          MaxSubmits    \* bound: how many decisions humans post

ASSUME GateAssumption == NoId \notin Ids /\ MaxSubmits \in Nat

VARIABLES id,           \* id[t]: the incident id task t works under
          stage,        \* stage[t]: where its approval request stands
          answer,       \* answer[t]: the submission its future (or _EARLY) gave it, 0 = none
          pending,      \* _PENDING: id -> the task whose future is registered
          early,        \* _EARLY: id -> a submission stashed for it
          said          \* history: every decision posted to the callback route, in order

vars == <<id, stage, answer, pending, early, said>>

Decisions == {"APPROVED", "REJECTED", "ESCALATED"}
Texts == Decisions \cup {"lgtm"}    \* what a body may say; one text that is no decision

Stages ==
    {"new", "opened",   \* before the request
     "posting",         \* the approval card is being posted from a worker thread
     "waiting",         \* the future is registered, nothing has happened
     "answered",        \* the future is resolved, the inner task has not run yet
     "timedout",        \* the timer has released the outer task, which has not run yet
     "cancelled",       \* the outer task has cancelled the inner one, which has not run yet
     "decided",         \* the inner task has returned a decision
     "expired",         \* the inner task was cancelled: request() returns ESCALATED
     "lost",            \* asked, and the process stopped before the end
     "dropped"}         \* the process stopped before the request

Registered == {"waiting", "answered", "timedout", "cancelled"}
Ended == {"decided", "expired", "lost"}
NotAsked == {"new", "opened", "dropped"}

\* The cards on the humans' screens carry these tasks' ids.
CardsOf(i) == {t \in Tasks : id[t] = i /\ stage[t] \notin NotAsked}

Submission == [id : Ids, decision : Decisions, cards : SUBSET Tasks]

TypeOK ==
    /\ id \in [Tasks -> Ids \cup {NoId}]
    /\ stage \in [Tasks -> Stages]
    /\ said \in Seq(Submission)
    /\ answer \in [Tasks -> 0..Len(said)]
    /\ DOMAIN pending \subseteq Ids /\ \A i \in DOMAIN pending : pending[i] \in Tasks
    /\ DOMAIN early \subseteq Ids /\ \A i \in DOMAIN early : early[i] \in 1..Len(said)

Empty == [i \in {} |-> 0]

Init ==
    /\ id = [t \in Tasks |-> NoId]
    /\ stage = [t \in Tasks |-> "new"]
    /\ answer = [t \in Tasks |-> 0]
    /\ pending = Empty
    /\ early = Empty
    /\ said = << >>
-----------------------------------------------------------------------------
\* Dictionary updates: d[i] = v and d.pop(i, None).
Put(d, i, v) == [j \in DOMAIN d \cup {i} |-> IF j = i THEN v ELSE d[j]]
\* Variant: d.clear().
PopAll(d, i) == Empty
Pop(d, i) == [j \in DOMAIN d \ {i} |-> d[j]]

Move(t, from, to) == stage[t] = from /\ stage' = [stage EXCEPT ![t] = to]

\* The incident exists and has its id; nothing has been asked yet.
Open(t, i) ==
    /\ Move(t, "new", "opened")
    /\ id' = [id EXCEPT ![t] = i]
    /\ UNCHANGED <<answer, pending, early, said>>

\* request(): the card is posted from a thread, best effort; the humans may see it, and
\* answer it, before the thread returns.
PostCard(t) ==
    /\ Move(t, "opened", "posting")
    /\ UNCHANGED <<id, answer, pending, early, said>>

\* Variant: the early decision is read and left in place.
TakeEarlyKept(t) ==
    /\ id[t] \in DOMAIN early
    /\ Move(t, "posting", "decided")
    /\ answer' = [answer EXCEPT ![t] = early[id[t]]]
    /\ UNCHANGED <<id, pending, early, said>>

\* _await_decision, first branch: a decision that is already there is consumed.
TakeEarly(t) ==
    /\ id[t] \in DOMAIN early
    /\ Move(t, "posting", "decided")
    /\ answer' = [answer EXCEPT ![t] = early[id[t]]]
    /\ early' = Pop(early, id[t])
    /\ UNCHANGED <<id, pending, said>>

\* _await_decision, second branch: register a new future, over any other under this id.
Register(t) ==
    /\ id[t] \notin DOMAIN early
    /\ Move(t, "posting", "waiting")
    /\ pending' = Put(pending, id[t], t)
    /\ UNCHANGED <<id, answer, early, said>>

\* Variant: the text is taken as it is.
ParseNothing(text) == text

\* _parse: anything that is not a decision's name is a rejection.
Parse(text) == IF text \in Decisions THEN text ELSE "REJECTED"

\* Variant: no "not future.done()".
IsRegistered(i) == i \in DOMAIN pending

\* The future registered under i exists and is not done().
Unresolved(i) ==
    /\ i \in DOMAIN pending
    /\ stage[pending[i]] \in {"waiting", "timedout"}
    /\ answer[pending[i]] = 0

\* Variant: a stashed decision is not replaced (setdefault).
SubmitKeepingFirst(i, text) ==
    /\ Len(said) < MaxSubmits
    /\ said' = Append(said, [id |-> i, decision |-> Parse(text), cards |-> CardsOf(i)])
    /\ IF Unresolved(i)
       THEN /\ answer' = [answer EXCEPT ![pending[i]] = Len(said')]
            /\ stage' = [stage EXCEPT ![pending[i]] =
                            IF @ = "waiting" THEN "answered" ELSE @]
            /\ UNCHANGED early
       ELSE /\ early' = IF i \in DOMAIN early THEN early ELSE Put(early, i, Len(said'))
            /\ UNCHANGED <<answer, stage>>
    /\ UNCHANGED <<id, pending>>

\* submit_decision, called with any id at any time: resolve the future, or stash the decision
\* for whoever asks next.
Submit(i, text) ==
    /\ Len(said) < MaxSubmits
    /\ said' = Append(said, [id |-> i, decision |-> Parse(text), cards |-> CardsOf(i)])
    /\ IF Unresolved(i)
       THEN /\ answer' = [answer EXCEPT ![pending[i]] = Len(said')]
            /\ stage' = [stage EXCEPT ![pending[i]] =
                            IF @ = "waiting" THEN "answered" ELSE @]
            /\ UNCHANGED early
       ELSE /\ early' = Put(early, i, Len(said'))
            /\ UNCHANGED <<answer, stage>>
    /\ UNCHANGED <<id, pending>>

\* The inner task wakes up with the decision; its finally pops whatever is under the id.
Wake(t) ==
    /\ Move(t, "answered", "decided")
    /\ pending' = Pop(pending, id[t])
    /\ UNCHANGED <<id, answer, early, said>>

\* timeout_s has passed: the outer task is made ready.  (A timer behind a resolved future
\* changes nothing: the inner task is ahead in the loop's queue.)
Timer(t) ==
    /\ Move(t, "waiting", "timedout")
    /\ UNCHANGED <<id, answer, pending, early, said>>

\* Variant: the inner task is not cancelled once its future is resolved.
CancelUnlessAnswered(t) ==
    /\ answer[t] = 0
    /\ Move(t, "timedout", "cancelled")
    /\ UNCHANGED <<id, answer, pending, early, said>>

\* The outer task runs, finds the inner one not done and cancels it, resolved or not.
Cancel(t) ==
    /\ Move(t, "timedout", "cancelled")
    /\ UNCHANGED <<id, answer, pending, early, said>>

\* Variant: the finally is missing.
ExpireKept(t) ==
    /\ Move(t, "cancelled", "expired")
    /\ UNCHANGED <<id, answer, pending, early, said>>

\* The inner task is thrown CancelledError; its finally pops what is under the id.
Expire(t) ==
    /\ Move(t, "cancelled", "expired")
    /\ pending' = Pop(pending, id[t])
    /\ UNCHANGED <<id, answer, early, said>>

\* The process stops and starts again: futures, stash and tasks were in memory only.
Restart ==
    /\ stage' = [t \in Tasks |->
                   CASE stage[t] \in Ended \cup {"new", "dropped"} -> stage[t]
                     [] stage[t] = "opened" -> "dropped"
                     [] OTHER -> "lost"]
    /\ pending' = Empty
    /\ early' = Empty
    /\ UNCHANGED <<id, answer, said>>

Next ==
    \/ \E t \in Tasks, i \in Ids : Open(t, i)
    \/ \E i \in Ids, text \in Texts : Submit(i, text)
    \/ \E t \in Tasks : \/ PostCard(t) \/ TakeEarly(t) \/ Register(t)
                        \/ Wake(t) \/ Timer(t) \/ Cancel(t) \/ Expire(t)
    \/ Restart

Spec == Init /\ [][Next]_vars

\* The loop runs what is ready, the worker thread returns (its POST has a 5 s timeout) and
\* the clock reaches timeout_s.  Nobody has to answer.
Progress(t) == TakeEarly(t) \/ Register(t) \/ Wake(t) \/ Timer(t) \/ Cancel(t) \/ Expire(t)

FairSpec == Spec /\ \A t \in Tasks : WF_vars(Progress(t))
-----------------------------------------------------------------------------
(***************************************************************************)
(* Properties.                                                             *)
(***************************************************************************)
Approved(t) == stage[t] = "decided" /\ said[answer[t]].decision = "APPROVED"

Unshared(t) == \A u \in Tasks \ {t} : id[u] # id[t]

\* submit_decision / _await_decision: a decision ends at most one request, and is never
\* both in a future and in the stash.  However ids are shared, one click never approves
\* two changes.
SingleUse ==
    /\ \A t, u \in Tasks : t # u /\ answer[t] # 0 => answer[t] # answer[u]
    /\ \A t \in Tasks, i \in DOMAIN early : answer[t] # early[i]

\* _PENDING / _EARLY lookups: whatever a request is given was posted for its own id, and
\* the stash holds each id's own decision.
AnswersMatchIds ==
    /\ \A t \in Tasks : answer[t] # 0 => said[answer[t]].id = id[t]
    /\ \A i \in DOMAIN early : said[early[i]].id = i

\* _await_decision's finally: an entry of _PENDING belongs to a request that is still
\* registered under that id, so the registry does not grow with ended requests.
NoStaleFuture ==
    \A i \in DOMAIN pending : id[pending[i]] = i /\ stage[pending[i]] \in Registered

\* A request whose id no other incident has can be answered all the time it waits: its
\* future stays in _PENDING.
Answerable ==
    \A t \in Tasks : stage[t] \in Registered /\ Unshared(t) =>
        id[t] \in DOMAIN pending /\ pending[id[t]] = t

\* submit_decision's "not future.done()": the first decision counts.  Once a request has
\* its answer nothing replaces it, and an answer in time is the request's outcome.
FirstAnswerWins ==
    [][\A t \in Tasks :
         /\ answer[t] # 0 => answer'[t] = answer[t]
         /\ stage[t] = "answered" => stage'[t] \in {"answered", "decided", "lost"}]_vars

\* _EARLY[incident_id] = decision, and the lookup before the future: what a request is given
\* is the last word posted for its id until then.  A human who changes their mind before the
\* agent asks is heard, and no older word is left over behind a resolved future.
LastWordCounts ==
    [][\A t \in Tasks : answer'[t] # answer[t] =>
         \A k \in DOMAIN said' : said'[k].id = id[t] => k <= answer'[t]]_vars
-----------------------------------------------------------------------------
(***************************************************************************)
(* The gate keeps the strict ApprovalPromise: a refinement in which the    *)
(* registry, the stash and the stages between asked and ended are hidden.  *)
(***************************************************************************)
PromiseStatus(t) ==
    CASE stage[t] \in {"new", "opened"} -> "none"
      [] stage[t] = "decided" -> "decided"
      [] stage[t] = "expired" -> "timed out"
      [] stage[t] \in {"lost", "dropped"} -> "gone"
      [] OTHER -> "asked"

Promise == INSTANCE ApprovalPromise WITH
    Strict <- TRUE,
    status <- [t \in Tasks |-> PromiseStatus(t)],
    by <- [t \in Tasks |-> IF stage[t] = "decided" THEN answer[t] ELSE 0],
    posts <- [k \in DOMAIN said |-> [id |-> said[k].id, decision |-> said[k].decision]]

\* Safety: every step of the gate is a step of the promise or hidden from it.
KeepsPromise == Promise!Spec

\* Safety and liveness: and every request that is asked ends.
KeepsFairPromise == Promise!FairSpec
=============================================================================
