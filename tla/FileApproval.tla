---------------------------- MODULE FileApproval ----------------------------
(***************************************************************************)
(* tools/approval_handler.py, file mode: a human answers a request by      *)
(* writing <incident id>.decision (`echo APPROVED > ...`), which opens the *)
(* file empty and then fills it.  The request looks for the file every two *)
(* seconds and takes what it finds; nothing ever removes a file.           *)
(*                                                                         *)
(* exists() and read_text() run without an await between them, but other   *)
(* processes do not wait for the event loop.                               *)
(***************************************************************************)
EXTENDS Naturals, Sequences

CONSTANTS Tasks,        \* the incidents' tasks, one approval request each
          Ids,          \* incident ids; two incidents may have the same (IncidentStore)
          NoId,         \* a task that has none yet
          MaxWrites     \* bound: how often humans write to the files

ASSUME FileAssumption == NoId \notin Ids /\ MaxWrites \in Nat

VARIABLES id,           \* id[t]: the incident id task t works under
          stage,        \* stage[t]: where its approval request stands
          answer,       \* answer[t]: the write it has read, 0 = none
          file,         \* file[i]: the last write to i's decision file, 0 = there is none
          said          \* history: every write, in order

vars == <<id, stage, answer, file, said>>

Decisions == {"APPROVED", "REJECTED", "ESCALATED"}
Empty == ""
Garbled == "not UTF-8"
Texts == Decisions \cup {Garbled}

\* "failed": read_text raised, and the exception has left request().
Stages == {"new", "opened", "waiting", "decided", "expired", "failed", "lost", "dropped"}

Write == [id : Ids, text : Texts \cup {Empty}]

TypeOK ==
    /\ id \in [Tasks -> Ids \cup {NoId}]
    /\ stage \in [Tasks -> Stages]
    /\ said \in Seq(Write)
    /\ answer \in [Tasks -> 0..Len(said)]
    /\ file \in [Ids -> 0..Len(said)]

Init ==
    /\ id = [t \in Tasks |-> NoId]
    /\ stage = [t \in Tasks |-> "new"]
    /\ answer = [t \in Tasks |-> 0]
    /\ file = [i \in Ids |-> 0]
    /\ said = << >>
-----------------------------------------------------------------------------
Move(t, from, to) == stage[t] = from /\ stage' = [stage EXCEPT ![t] = to]

\* The incident exists and has its id; nothing has been asked yet.
Open(t, i) ==
    /\ Move(t, "new", "opened")
    /\ id' = [id EXCEPT ![t] = i]
    /\ UNCHANGED <<answer, file, said>>

\* request(): the log says where the decision is awaited.
Ask(t) ==
    /\ Move(t, "opened", "waiting")
    /\ UNCHANGED <<id, answer, file, said>>

\* Variant: what is no decision's name approves, as in AutoApproveProvider.
ParseLeniently(text) == IF text \in Decisions THEN text ELSE "APPROVED"

\* What is no decision's name, an empty file too, is a rejection.
Parse(text) == IF text \in Decisions THEN text ELSE "REJECTED"

\* Variant: the newest file will do.
PollAny(t) ==
    \E i \in Ids :
        /\ Move(t, "waiting", "decided")
        /\ file[i] # 0 /\ said[file[i]].text # Garbled
        /\ answer' = [answer EXCEPT ![t] = file[i]]
        /\ UNCHANGED <<id, file, said>>

\* The file is there and is read.  (As long as it is not, a poll changes nothing.)
Poll(t) ==
    /\ Move(t, "waiting", "decided")
    /\ file[id[t]] # 0 /\ said[file[id[t]]].text # Garbled
    /\ answer' = [answer EXCEPT ![t] = file[id[t]]]
    /\ UNCHANGED <<id, file, said>>

\* read_text raises: the file is not text, or is removed after exists() has seen it.
PollFails(t) ==
    /\ Move(t, "waiting", "failed")
    /\ file[id[t]] # 0
    /\ \/ said[file[id[t]]].text = Garbled /\ UNCHANGED file
       \/ file' = [file EXCEPT ![id[t]] = 0]
    /\ UNCHANGED <<id, answer, said>>

\* Variant: _await_decision without wait_for.
NeverExpire(t) == FALSE /\ UNCHANGED vars

\* timeout_s has passed and wait_for cancels the poll loop: a file may have been written
\* since its last look.
Expire(t) ==
    /\ Move(t, "waiting", "expired")
    /\ UNCHANGED <<id, answer, file, said>>

\* A write to i's file, at any time: before anything is asked under i, too.
Put(i, text) ==
    /\ Len(said) < MaxWrites
    /\ said' = Append(said, [id |-> i, text |-> text])
    /\ file' = [file EXCEPT ![i] = Len(said')]
    /\ UNCHANGED <<id, stage, answer>>

\* A human's shell opens the file, which empties it, and fills it.
Create(i) == Put(i, Empty)
Fill(i, text) == file[i] # 0 /\ said[file[i]].text = Empty /\ Put(i, text)

\* A human clears up.
Remove(i) ==
    /\ file[i] # 0
    /\ file' = [file EXCEPT ![i] = 0]
    /\ UNCHANGED <<id, stage, answer, said>>

\* The process stops and starts again: the files stay.
Restart ==
    /\ stage' = [t \in Tasks |-> CASE stage[t] = "opened" -> "dropped"
                                   [] stage[t] = "waiting" -> "lost"
                                   [] OTHER -> stage[t]]
    /\ UNCHANGED <<id, answer, file, said>>

Next ==
    \/ \E t \in Tasks : \/ \E i \in Ids : Open(t, i)
                        \/ Ask(t) \/ Poll(t) \/ PollFails(t) \/ Expire(t)
    \/ \E i \in Ids : Create(i) \/ Remove(i) \/ \E text \in Texts : Fill(i, text)
    \/ Restart

Spec == Init /\ [][Next]_vars

\* The loop wakes the poll and the timer.  Nobody has to write, or to finish writing.
FairSpec == Spec /\ \A t \in Tasks : WF_vars(Poll(t) \/ PollFails(t) \/ Expire(t))
-----------------------------------------------------------------------------
(***************************************************************************)
(* Properties.                                                             *)
(***************************************************************************)
\* _await_decision reads whatever is there: an empty or half-made file may reject, and never
\* approves; an approval is the whole word, written to the file of the request's own id.
OnlyAWrittenApproval ==
    \A t \in Tasks : stage[t] = "decided" =>
        LET w == said[answer[t]] IN
        Parse(w.text) = "APPROVED" => w.text = "APPROVED" /\ w.id = id[t]
-----------------------------------------------------------------------------
\* File mode keeps what is left of ApprovalPromise when a post may decide several requests
\* and a request may fail: opening the file counts as posting a rejection.
PromiseStatus(t) ==
    CASE stage[t] \in {"new", "opened"} -> "none"
      [] stage[t] = "waiting" -> "asked"
      [] stage[t] = "decided" -> "decided"
      [] stage[t] = "expired" -> "timed out"
      [] OTHER -> "gone"

Promise == INSTANCE ApprovalPromise WITH
    Strict <- FALSE,
    status <- [t \in Tasks |-> PromiseStatus(t)],
    by <- answer,
    posts <- [k \in DOMAIN said |-> [id |-> said[k].id, decision |-> Parse(said[k].text)]]

\* Safety: decisions are posts for the request's id, outcomes are final.
KeepsLoosePromise == Promise!Spec

\* Safety and liveness: and every request that is asked ends.
KeepsFairLoosePromise == Promise!FairSpec
=============================================================================
