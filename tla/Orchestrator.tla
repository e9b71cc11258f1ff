---------------------------- MODULE Orchestrator ----------------------------
(***************************************************************************)
(* agent/core/orchestrator.py: the life of an incident, handle_alert, one  *)
(* asyncio task per alert, composed with the incident table (IncidentStore)*)
(* and the approval gate (ApprovalGate).                                   *)
(*                                                                         *)
(* An action is what runs between two awaits, or one step of a worker      *)
(* thread.  Tasks interleave at every await, a step may raise, the process *)
(* may stop at any point and start again with the table only.              *)
(***************************************************************************)
EXTENDS Naturals, Sequences, FiniteSets

CONSTANTS Tasks,        \* the alerts, each handled on its own task
          NoId,
          FirstYear, LastYear, MaxSubmits,
          PostIds,      \* the ids that the humans' posts name; all of them, in principle
          Types,        \* incident types: classify's sentinel_type may be anything
          KnownTypes    \* those with a _VERIFY_EXPR

ASSUME OrchestratorAssumption ==
    /\ KnownTypes \subseteq Types
    /\ IsFiniteSet(Tasks)
    /\ NoId \notin Nat \X (Nat \ {0})
    /\ PostIds \subseteq Nat \X (Nat \ {0})
    /\ FirstYear \in Nat /\ LastYear \in Nat /\ MaxSubmits \in Nat

VARIABLES rows, year, saves, issued,                    \* IncidentStore
          id, stage, answer, pending, early, said,      \* ApprovalGate
          pc,           \* pc[t]: where handle_alert stands for alert t
          inc,          \* inc[t]: its local variables
          audited,      \* alerts with a record in audit.jsonl
          touched,      \* alerts whose kubectl write reached production
          alarms        \* alarms[t]: how often escalate was called for t

storeVars == <<rows, year, saves, issued>>
gateVars == <<id, stage, answer, pending, early, said>>
ownVars == <<pc, inc, audited, touched, alarms>>
vars == <<storeVars, gateVars, ownVars>>

Plans == {"memory_limit", "pool_and_timeout"}   \* fix_plan kinds: one write, one manual
HasVerb(plan) == plan = "memory_limit"
NoPlan == ""
NoFix == ""

Store == INSTANCE IncidentStore WITH
    Contents <- Tasks, Fixes <- Plans, MaxSaves <- Cardinality(Tasks)

Gate == INSTANCE ApprovalGate WITH Ids <- Store!Ids

PCs == {"idle", "investigating", "diagnosing", "validating", "approving", "applying",
        "writing", "verifying", "publishing", "closing", "closed", "failed", "lost"}
Finished == {"closed", "failed", "lost"}

ApplyStatus == {"OK", "FAILED", "MANUAL"}   \* FAILED: FAIL or SKIPPED
Unknown == "none"

Locals == [type : Types, plan : Plans \cup {NoPlan}, applied : ApplyStatus \cup {Unknown},
           resolved : BOOLEAN, quiet : BOOLEAN]   \* quiet: history, the alert was seen to be

TypeOK ==
    /\ Store!TypeOK
    /\ Gate!TypeOK
    /\ pc \in [Tasks -> PCs]
    /\ inc \in [Tasks -> Locals]
    /\ audited \subseteq Tasks
    /\ touched \subseteq Tasks
    /\ alarms \in [Tasks -> 0..2]

Init ==
    /\ Store!Init
    /\ Gate!Init
    /\ pc = [t \in Tasks |-> "idle"]
    /\ inc \in [Tasks -> [type : Types, plan : {NoPlan}, applied : {Unknown},
                          resolved : {FALSE}, quiet : {FALSE}]]
    /\ audited = {}
    /\ touched = {}
    /\ alarms = [t \in Tasks |-> 0]
-----------------------------------------------------------------------------
Step(t, from, to) == pc[t] = from /\ pc' = [pc EXCEPT ![t] = to]

\* handle_alert up to its first await: the id is allocated, nothing is saved.
OpenIncident(t) ==
    /\ Step(t, "idle", "investigating")
    /\ Store!Allocate
    /\ Gate!Open(t, Store!NextIncidentId)
    /\ UNCHANGED <<inc, audited, touched, alarms>>

\* The four inspectors have returned, the RCA is synthesized and the session saved.
SaveSession(t) ==
    /\ Step(t, "investigating", "diagnosing")
    /\ \E plan \in Plans : inc' = [inc EXCEPT ![t].plan = plan]
    /\ Store!SaveIncident(id[t], inc[t].type, t)
    /\ UNCHANGED <<gateVars, audited, touched, alarms>>

\* The diagnostic script's result is reported and never looked at.
Diagnose(t) ==
    /\ Step(t, "diagnosing", "validating")
    /\ UNCHANGED <<storeVars, gateVars, inc, audited, touched, alarms>>

\* The fix validation has ended; its status goes onto the card, nothing looks at it, and the
\* task goes on to request().
ValidateFix(t) ==
    /\ Step(t, "validating", "approving")
    /\ Gate!PostCard(t)
    /\ UNCHANGED <<storeVars, inc, audited, touched, alarms>>

\* request() at work: the steps of the gate.
AwaitApproval(t) ==
    /\ Gate!Progress(t)
    /\ UNCHANGED <<storeVars, ownVars>>

\* POST /api/v1/approvals/{id}: for any id at any time, whether or not an incident has it yet
\* and has asked.
Answer(i, text) ==
    /\ Gate!Submit(i, text)
    /\ UNCHANGED <<storeVars, ownVars>>

\* Variant: the timeout counts as consent.
ApproveUnlessRejected(t) ==
    /\ Gate!Approved(t) \/ stage[t] = "expired"
    /\ Step(t, "approving", "applying")
    /\ UNCHANGED <<storeVars, gateVars, inc, audited, touched, alarms>>

\* request() has returned APPROVED.
Approve(t) ==
    /\ Gate!Approved(t)
    /\ Step(t, "approving", "applying")
    /\ UNCHANGED <<storeVars, gateVars, inc, audited, touched, alarms>>

Verdict(t) == IF stage[t] = "decided" THEN said[answer[t]].decision ELSE "ESCALATED"

\* Variant: only a timeout is escalated.
RefuseQuietly(t) ==
    /\ stage[t] \in {"decided", "expired"} /\ ~Gate!Approved(t)
    /\ alarms' = [alarms EXCEPT ![t] = IF stage[t] = "expired" THEN 1 ELSE 0]
    /\ Step(t, "approving", "closed") /\ Store!MarkResolved(id[t], NoFix, Verdict(t), FALSE)
    /\ UNCHANGED <<gateVars, inc, audited, touched>>

\* request() has returned anything else, after its own escalation if it timed out:
\* escalate, then record the outcome (the table may refuse).
Refuse(t) ==
    /\ stage[t] \in {"decided", "expired"} /\ ~Gate!Approved(t)
    /\ alarms' = [alarms EXCEPT ![t] = IF stage[t] = "expired" THEN 2 ELSE 1]
    /\ \/ Step(t, "approving", "closed") /\ Store!MarkResolved(id[t], NoFix, Verdict(t), FALSE)
       \/ Step(t, "approving", "failed") /\ UNCHANGED storeVars
    /\ UNCHANGED <<gateVars, inc, audited, touched>>

\* _apply_fix, no verb: an audit record and no write.
ApplyManual(t) ==
    /\ ~HasVerb(inc[t].plan)
    /\ Step(t, "applying", "verifying")
    /\ audited' = audited \cup {t}
    /\ inc' = [inc EXCEPT ![t].applied = "MANUAL"]
    /\ UNCHANGED <<storeVars, gateVars, touched, alarms>>

\* Variant: the audit record is left for later.
WriteUnaudited(t) ==
    /\ HasVerb(inc[t].plan)
    /\ Step(t, "applying", "writing")
    /\ UNCHANGED <<storeVars, gateVars, inc, audited, touched, alarms>>

\* _apply_fix: the audit record is on disk before kubectl starts.
AuditWrite(t) ==
    /\ HasVerb(inc[t].plan)
    /\ Step(t, "applying", "writing")
    /\ audited' = audited \cup {t}
    /\ UNCHANGED <<storeVars, gateVars, inc, touched, alarms>>

\* kubectl ran: OK, or a failure (its exit code, or the 30 s limit) that may come after
\* the API server has taken the write.
RunKubectl(t) ==
    /\ Step(t, "writing", "verifying")
    /\ \/ inc' = [inc EXCEPT ![t].applied = "OK"] /\ touched' = touched \cup {t}
       \/ /\ inc' = [inc EXCEPT ![t].applied = "FAILED"]
          /\ touched' \in {touched, touched \cup {t}}
    /\ UNCHANGED <<storeVars, gateVars, audited, alarms>>

\* _verify_resolved: not for an unknown type, nor when samples come back or no JSON does.  An
\* answer without samples resolves, whether the alert is quiet or the answer is an error.
Verify(t) ==
    /\ Step(t, "verifying", "publishing")
    /\ \/ inc' = [inc EXCEPT ![t].resolved = FALSE]
       \/ /\ inc[t].type \in KnownTypes
          /\ \E quiet \in BOOLEAN :
               inc' = [inc EXCEPT ![t].resolved = TRUE, ![t].quiet = quiet]
    /\ UNCHANGED <<storeVars, gateVars, audited, touched, alarms>>

\* open_fix_pr has returned, whatever its status.
OpenFixPR(t) ==
    /\ Step(t, "publishing", "closing")
    /\ UNCHANGED <<storeVars, gateVars, inc, audited, touched, alarms>>

\* The outcome is recorded under the incident's id.
CloseApproved(t) ==
    /\ Step(t, "closing", "closed")
    /\ Store!MarkResolved(id[t], inc[t].plan, Verdict(t), inc[t].resolved)
    /\ UNCHANGED <<gateVars, inc, audited, touched, alarms>>

\* An exception leaves handle_alert and _safe_handle logs it: SQLite (save, mark), a
\* sandbox, Prometheus or GitHub body of another shape, an audit file that cannot be
\* written, output of kubectl that is no text (with or without the write).
Raise(t) ==
    /\ pc[t] \in {"investigating", "diagnosing", "validating", "applying", "writing",
                  "verifying", "publishing", "closing"}
    /\ pc' = [pc EXCEPT ![t] = "failed"]
    /\ \/ UNCHANGED touched
       \/ pc[t] = "writing" /\ touched' = touched \cup {t}
    /\ UNCHANGED <<storeVars, gateVars, inc, audited, alarms>>

\* Variant: the table is on the container's own disk.
RestartOnFreshDisk ==
    /\ pc' = [t \in Tasks |-> IF pc[t] \in Finished \cup {"idle"} THEN pc[t] ELSE "lost"]
    /\ Gate!Restart
    /\ rows' = [i \in {} |-> NoFix]
    /\ UNCHANGED <<year, saves, issued, inc, audited, touched, alarms>>

\* The agent's process stops at any point; the table, the audit file and production stay.
Restart ==
    /\ pc' = [t \in Tasks |-> IF pc[t] \in Finished \cup {"idle"} THEN pc[t] ELSE "lost"]
    /\ Gate!Restart
    /\ UNCHANGED <<storeVars, inc, audited, touched, alarms>>

NewYear == Store!NewYear /\ UNCHANGED <<gateVars, ownVars>>

TaskStep(t) ==
    \/ SaveSession(t) \/ Diagnose(t) \/ ValidateFix(t) \/ AwaitApproval(t)
    \/ Approve(t) \/ Refuse(t) \/ ApplyManual(t) \/ AuditWrite(t) \/ RunKubectl(t)
    \/ Verify(t) \/ OpenFixPR(t) \/ CloseApproved(t)

Next ==
    \/ \E t \in Tasks : OpenIncident(t) \/ TaskStep(t) \/ Raise(t)
    \/ \E i \in PostIds, text \in Gate!Texts : Answer(i, text)
    \/ Restart
    \/ NewYear

Spec == Init /\ [][Next]_vars

\* Every call a task makes has a timeout and every await a bound, so a task that can take
\* its next step takes it.  Nothing makes an alert arrive or a human answer.
FairSpec == Spec /\ \A t \in Tasks : WF_vars(TaskStep(t))
-----------------------------------------------------------------------------
(***************************************************************************)
(* Properties.                                                             *)
(***************************************************************************)
\* The answer under which production was changed.
Consent(t) == said[answer[t]]

\* "Every production change requires human approval; timeout -> escalation, never silent
\* apply": a write has behind it an APPROVED posted for its id, and no two writes have the
\* same one, even when incidents share an id and across restarts.
NoSilentApply ==
    \A t \in touched :
        /\ stage[t] = "decided"
        /\ Consent(t).decision = "APPROVED" /\ Consent(t).id = id[t]
        /\ \A u \in touched \ {t} : answer[u] # answer[t]

\* _apply_fix logs before it writes and handle_alert saves before it asks: wherever the
\* process stops, a production change has left its audit record and its session row.
ChangeLeavesTraces ==
    \A t \in touched : t \in audited /\ id[t] \in DOMAIN rows

\* mark_resolved and save_incident: as long as no other incident has its id, an incident's
\* row carries its analysis from the save on, no decision while it is under way, and once it
\* is closed the request's verdict, the fix it proposed if that was approved (whatever became of
\* the write) and what the verification returned.
RowTellsOutcome ==
    \A t \in Tasks : id[t] \in DOMAIN rows /\ Gate!Unshared(t) =>
        LET row == rows[id[t]] IN
        /\ row.content = t
        /\ pc[t] # "closed" => row.decision = Store!NotDecided
        /\ pc[t] = "closed" => /\ row.decision = Verdict(t)
                               /\ row.fix = IF Gate!Approved(t) THEN inc[t].plan ELSE NoFix
                               /\ row.resolved = inc[t].resolved

\* handle_alert's else branch: an incident that is over without approval has been
\* escalated to a human, and production is as it was.
UnapprovedIsEscalated ==
    \A t \in Tasks : pc[t] = "closed" /\ ~Gate!Approved(t) => alarms[t] > 0 /\ t \notin touched

\* "Every incident is persisted" (README): from its save on an incident has a row, and the
\* row tells of it.  (Not so: alerts in flight together get the same id, and the second
\* save replaces the first one's row.)
EveryIncidentPersisted ==
    \A t \in Tasks : pc[t] \notin {"idle", "investigating", "failed", "lost"} =>
        id[t] \in DOMAIN rows /\ rows[id[t]].content = t

\* "Requests human approval with a concrete diff" (blog post): when the approval of a change
\* answered a card, it was the card of that change.  (Not so: a click on the card of an
\* incident that does not wait yet is stashed, and approves another one with the same id.)
ConsentAlwaysSawTheCard ==
    \A t \in touched : Consent(t).cards # {} => t \in Consent(t).cards

\* "reuse a known-good fix" (pattern_matcher): a fix suggested from history was applied by
\* an incident of that type, whose alert was then quiet.  (Not so: what is recorded as applied
\* is the proposal, whatever became of the write, and an error of Prometheus is a success.)
SuggestedFixWorked ==
    \A ty \in Types : LET fix == Store!SuggestFromHistory(ty, 50) IN
        fix # NoFix => \E t \in Tasks : /\ inc[t].type = ty /\ inc[t].plan = fix
                                       /\ inc[t].applied = "OK" /\ inc[t].quiet

\* suggest_from_history: whatever ids were shared, a fix it suggests for a type was approved
\* by a human and recorded as resolved by an incident that has ended, under an id that an
\* incident of the type has, too (it is of the type itself when its id is its own).
SuggestedFixWasApproved ==
    \A ty \in Types : LET fix == Store!SuggestFromHistory(ty, 50) IN
        fix # NoFix => \E t, u \in Tasks :
            /\ pc[t] = "closed" /\ Gate!Approved(t) /\ inc[t].plan = fix /\ inc[t].resolved
            /\ inc[u].type = ty /\ id[u] = id[t]

\* next_incident_id, as handle_alert calls it: not the id of a row in the table.
IdsFresh == Store!IdsFresh

\* handle_alert saves and marks only ids that next_incident_id gave it: the agent is one
\* of the callers IncidentStore is correct for.
UsesStore == Store!Spec

\* The agent keeps the IncidentPromise: its ids, table, gate, verification and pull request
\* are hidden.
PromiseStatus(t) ==
    CASE pc[t] = "idle" -> "none"
      [] pc[t] = "closed" -> IF Gate!Approved(t) THEN "done" ELSE "refused"
      [] pc[t] \in {"failed", "lost"} -> "gone"
      [] OTHER -> IF Gate!Approved(t) THEN "approved" ELSE "open"

Promise == INSTANCE IncidentPromise WITH
    Alerts <- Tasks,
    Decisions <- Gate!Decisions,
    status <- [t \in Tasks |-> PromiseStatus(t)],
    by <- [t \in Tasks |-> IF Gate!Approved(t) THEN answer[t] ELSE 0],
    posts <- [k \in DOMAIN said |-> said[k].decision],
    alarmed <- {t \in Tasks : alarms[t] > 0},
    recorded <- audited,
    changed <- touched

KeepsIncidentPromise == Promise!Spec

\* Whatever fails, and whoever does not answer, an opened incident comes to an end.
IncidentsEnd == \A t \in Tasks : pc[t] = "investigating" ~> pc[t] \in Finished
=============================================================================
