------------------------- MODULE OrchestratorProofs -------------------------
(***************************************************************************)
(* Proofs about Orchestrator, for any number of alerts, posts and years:   *)
(* the invariants of the table and of the gate hold inside the agent, and  *)
(* no change reaches production without an approval of its own, an audit   *)
(* record and a session row; the agent implements IncidentStore,           *)
(* ApprovalGate and IncidentPromise; what history suggests was approved;   *)
(* and an incident runs out of steps.                                      *)
(***************************************************************************)
EXTENDS Orchestrator, FiniteSetTheorems, TLAPS

StoreP == INSTANCE IncidentStoreProofs WITH
    Contents <- Tasks, Fixes <- Plans, MaxSaves <- Cardinality(Tasks)

GateP == INSTANCE ApprovalGateProofs WITH Ids <- Store!Ids

OwnTypes ==
    /\ pc \in [Tasks -> PCs]
    /\ inc \in [Tasks -> Locals]
    /\ audited \subseteq Tasks
    /\ touched \subseteq Tasks
    /\ alarms \in [Tasks -> 0..2]

\* Where a task may stand only with an approval.
Consented == {"applying", "writing", "verifying", "publishing", "closing"}

\* Where a task stands after its session was saved.
Saved == {"diagnosing", "validating", "approving", "closed"} \cup Consented

\* What a task's place in handle_alert says of its id, its row and its approval.
Progressed ==
    \A t \in Tasks :
        /\ pc[t] # "idle" => id[t] \in issued
        /\ pc[t] \in Saved => id[t] \in DOMAIN rows
        /\ pc[t] \in Consented => Gate!Approved(t)
        /\ pc[t] = "writing" => t \in audited
        /\ pc[t] = "closed" => Gate!Approved(t) \/ alarms[t] > 0

\* What a production change has behind it.
Backed ==
    \A t \in touched : Gate!Approved(t) /\ t \in audited /\ id[t] \in DOMAIN rows

\* The cards that were on the screen when a post was made keep its id.
CardsKeepIds == \A k \in DOMAIN said : \A u \in said[k].cards : id[u] = said[k].id

\* The inductive invariant: the table's, the gate's, and what ties them to the tasks.
IInv ==
    /\ StoreP!IInv
    /\ GateP!IInv
    /\ OwnTypes
    /\ Progressed
    /\ Backed
    /\ CardsKeepIds

\* The assumptions of the two components hold for the agent's constants.
LEMMA Assumptions == StoreP!StoreAssumption /\ GateP!GateAssumption
  BY OrchestratorAssumption, FS_CardinalityType
     DEF StoreP!StoreAssumption, GateP!GateAssumption, Store!Ids, Plans, NoFix

\* Before the first alert.
LEMMA InitIInv == Init => IInv
  <1>. SUFFICES ASSUME Init PROVE IInv
    OBVIOUS
  <1>1. StoreP!Init
    BY DEF Init, Store!Init, StoreP!Init
  <1>2. GateP!Init
    BY DEF Init, Gate!Init, GateP!Init, Gate!Empty, GateP!Empty
  <1>3. StoreP!IInv
    BY <1>1, Assumptions, StoreP!InitIInv
  <1>4. GateP!IInv
    BY <1>2, Assumptions, GateP!InitIInv
  <1>5. OwnTypes
    <2>1. inc \in [Tasks -> Locals]
      <3>1. [type : Types, plan : {NoPlan}, applied : {Unknown}, resolved : {FALSE},
           quiet : {FALSE}] \subseteq Locals
        BY DEF Locals
      <3>. QED BY <3>1 DEF Init
    <2>2. alarms \in [Tasks -> 0..2] /\ pc \in [Tasks -> PCs]
      BY DEF Init, PCs
    <2>. QED BY <2>1, <2>2 DEF Init, OwnTypes
  <1>6. Progressed /\ Backed /\ CardsKeepIds
    BY DEF Init, Progressed, Backed, Saved, Consented, CardsKeepIds, Gate!Init
  <1>. QED BY <1>3, <1>4, <1>5, <1>6 DEF IInv

\* The id handle_alert is given is an id.
LEMMA NextIdIsId == IInv => Store!NextIncidentId \in Store!Ids
  <1>. SUFFICES ASSUME IInv PROVE Store!NextIncidentId \in Store!Ids
    OBVIOUS
  <1>1. StoreP!NextIncidentId \in StoreP!Ids
    BY Assumptions, StoreP!NextIdFromIInv DEF IInv
  <1>2. StoreP!NextIncidentId = Store!NextIncidentId
    BY Zenon DEF StoreP!NextIncidentId, Store!NextIncidentId,
                       StoreP!CreatedIn, Store!CreatedIn, Store!Cardinality, StoreP!Cardinality
  <1>. QED BY <1>1, <1>2 DEF StoreP!Ids, Store!Ids

\* What the agent does to the gate is what the gate's own specification allows.
LEMMA GateStep == IInv /\ [Next]_vars => [GateP!Next]_(GateP!vars)
  <1>. SUFFICES ASSUME IInv, [Next]_vars PROVE GateP!Next \/ UNCHANGED GateP!vars
    OBVIOUS
  <1>1. CASE UNCHANGED gateVars
    BY <1>1 DEF gateVars, GateP!vars
  <1>2. ASSUME NEW t \in Tasks, OpenIncident(t) PROVE GateP!Next
    <2>1. GateP!Open(t, Store!NextIncidentId)
      BY <1>2 DEF OpenIncident, Gate!Open, GateP!Open, Gate!Move, GateP!Move
    <2>. QED BY <2>1, NextIdIsId DEF GateP!Next
  <1>3. ASSUME NEW t \in Tasks, ValidateFix(t) PROVE GateP!Next
    <2>1. GateP!PostCard(t)
      BY <1>3 DEF ValidateFix, Gate!PostCard, GateP!PostCard, Gate!Move, GateP!Move
    <2>. QED BY <2>1 DEF GateP!Next
  <1>4. ASSUME NEW t \in Tasks, AwaitApproval(t) PROVE GateP!Next
    <2>. USE DEF Gate!Move, GateP!Move, Gate!Put, GateP!Put, Gate!Pop, GateP!Pop
    <2>1. CASE Gate!TakeEarly(t)
      BY <2>1 DEF Gate!TakeEarly, GateP!TakeEarly, GateP!Next
    <2>2. CASE Gate!Register(t)
      BY <2>2 DEF Gate!Register, GateP!Register, GateP!Next
    <2>3. CASE Gate!Wake(t)
      BY <2>3 DEF Gate!Wake, GateP!Wake, GateP!Next
    <2>4. CASE Gate!Timer(t)
      BY <2>4 DEF Gate!Timer, GateP!Timer, GateP!Next
    <2>5. CASE Gate!Cancel(t)
      BY <2>5 DEF Gate!Cancel, GateP!Cancel, GateP!Next
    <2>6. CASE Gate!Expire(t)
      BY <2>6 DEF Gate!Expire, GateP!Expire, GateP!Next
    <2>. QED BY <1>4, <2>1, <2>2, <2>3, <2>4, <2>5, <2>6 DEF AwaitApproval, Gate!Progress
  <1>5. ASSUME NEW i \in PostIds, NEW text \in Gate!Texts, Answer(i, text)
        PROVE  GateP!Next
    <2>1. GateP!Submit(i, text)
      BY <1>5 DEF Answer, Gate!Submit, GateP!Submit, Gate!Unresolved, GateP!Unresolved,
                  Gate!Parse, GateP!Parse, Gate!CardsOf, GateP!CardsOf, Gate!NotAsked,
                  GateP!NotAsked, Gate!Put, GateP!Put, Gate!Decisions, GateP!Decisions
    <2>2. i \in Store!Ids
      BY OrchestratorAssumption DEF Store!Ids
    <2>3. text \in GateP!Texts
      BY DEF Gate!Texts, GateP!Texts, Gate!Decisions, GateP!Decisions
    <2>. QED BY <2>1, <2>2, <2>3 DEF GateP!Next
  <1>6. CASE Restart
    <2>1. GateP!Restart
      BY <1>6 DEF Restart, Gate!Restart, GateP!Restart, Gate!Ended, GateP!Ended,
                  Gate!Empty, GateP!Empty
    <2>. QED BY <2>1 DEF GateP!Next
  <1>7. ASSUME NEW t \in Tasks,
               \/ SaveSession(t) \/ Diagnose(t) \/ Approve(t) \/ Refuse(t) \/ ApplyManual(t)
               \/ AuditWrite(t) \/ RunKubectl(t) \/ Verify(t) \/ OpenFixPR(t)
               \/ CloseApproved(t) \/ Raise(t)
        PROVE  UNCHANGED gateVars
    BY <1>7 DEF SaveSession, Diagnose, Approve, Refuse, ApplyManual, AuditWrite, RunKubectl,
                Verify, OpenFixPR, CloseApproved, Raise
  <1>8. CASE NewYear \/ UNCHANGED vars
    BY <1>1, <1>8 DEF NewYear, vars
  <1>. QED BY <1>1, <1>2, <1>3, <1>4, <1>5, <1>6, <1>7, <1>8 DEF Next, TaskStep

\* The gate's invariant holds inside the agent.
LEMMA GateKept == IInv /\ [Next]_vars => GateP!IInv'
  BY GateStep, Assumptions, GateP!NextIInv DEF IInv

\* An approval, once given, stays, with the answer and the id it was given for.
LEMMA ApprovalKept ==
    ASSUME IInv, [Next]_vars, NEW t \in Tasks, Gate!Approved(t)
    PROVE  Gate!Approved(t)' /\ answer'[t] = answer[t] /\ id'[t] = id[t]
  <1>1. GateP!Approved(t)
    BY DEF Gate!Approved, GateP!Approved
  <1>2. [GateP!Next]_(GateP!vars) /\ GateP!IInv
    BY GateStep DEF IInv
  <1>3. GateP!Approved(t)' /\ answer'[t] = answer[t] /\ id'[t] = id[t]
    BY <1>1, <1>2, Assumptions, GateP!ApprovalStays
  <1>. QED BY <1>3 DEF Gate!Approved, GateP!Approved

\* A request that has ended has a verdict mark_resolved can record.
LEMMA VerdictType ==
    ASSUME IInv, NEW t \in Tasks PROVE Verdict(t) \in StoreP!Decisions
  <1>1. CASE stage[t] = "decided"
    <2>1. answer[t] \in 1..Len(said) /\ said \in Seq(GateP!Submission)
      BY <1>1 DEF IInv, GateP!IInv, GateP!TypeOK, GateP!StageData
    <2>2. said[answer[t]] \in GateP!Submission
      BY <2>1
    <2>. QED BY <1>1, <2>2 DEF Verdict, GateP!Submission, GateP!Decisions, StoreP!Decisions
  <1>2. CASE stage[t] # "decided"
    BY <1>2 DEF Verdict, StoreP!Decisions
  <1>. QED BY <1>1, <1>2

\* The steps of the agent that leave the table alone.
StoreIdle(t) ==
    \/ Diagnose(t) \/ ValidateFix(t) \/ AwaitApproval(t) \/ Approve(t) \/ ApplyManual(t)
    \/ AuditWrite(t) \/ RunKubectl(t) \/ Verify(t) \/ OpenFixPR(t) \/ Raise(t)

LEMMA StoreIdleKeeps == ASSUME NEW t, StoreIdle(t) PROVE UNCHANGED storeVars
  BY DEF StoreIdle, Diagnose, ValidateFix, AwaitApproval, Approve, ApplyManual, AuditWrite,
         RunKubectl, Verify, OpenFixPR, Raise

\* The table's invariant holds inside the agent, and neither rows nor ids disappear.
LEMMA StoreKept ==
    IInv /\ [Next]_vars => /\ StoreP!IInv'
                           /\ DOMAIN rows \subseteq DOMAIN rows'
                           /\ issued \subseteq issued'
  <1>. SUFFICES ASSUME IInv, [Next]_vars
                PROVE  /\ StoreP!IInv'
                       /\ DOMAIN rows \subseteq DOMAIN rows'
                       /\ issued \subseteq issued'
    OBVIOUS
  <1>0. StoreP!IInv
    BY DEF IInv
  <1>1. ASSUME UNCHANGED storeVars
        PROVE  StoreP!IInv' /\ rows' = rows /\ issued' = issued
    <2>1. UNCHANGED StoreP!vars
      BY <1>1 DEF storeVars, StoreP!vars
    <2>2. StoreP!IInv'
      BY <1>0, <2>1, Assumptions, StoreP!NextIInv
    <2>. QED BY <1>1, <2>2 DEF storeVars
  <1>2. ASSUME NEW t \in Tasks, OpenIncident(t)
        PROVE  StoreP!IInv' /\ rows' = rows /\ issued \subseteq issued'
    <2>1. Store!Allocate
      BY <1>2 DEF OpenIncident
    <2>2. StoreP!NextIncidentId = Store!NextIncidentId
      BY Zenon DEF StoreP!NextIncidentId, Store!NextIncidentId, StoreP!CreatedIn,
                   Store!CreatedIn, Store!Cardinality, StoreP!Cardinality
    <2>3. StoreP!Allocate
      BY <2>1, <2>2 DEF Store!Allocate, StoreP!Allocate
    <2>4. StoreP!IInv'
      BY <1>0, <2>3, Assumptions, StoreP!AllocateIInv
    <2>. QED BY <2>1, <2>4 DEF Store!Allocate
  <1>3. ASSUME NEW t \in Tasks, SaveSession(t)
        PROVE  StoreP!IInv' /\ DOMAIN rows \subseteq DOMAIN rows' /\ issued' = issued
    <2>1. id[t] \in issued /\ inc[t].type \in Types
      BY <1>3 DEF SaveSession, Step, IInv, Progressed, OwnTypes, Locals
    <2>2. Store!SaveIncident(id[t], inc[t].type, t)
      BY <1>3 DEF SaveSession
    <2>3. StoreP!SaveIncident(id[t], inc[t].type, t)
      BY <2>2 DEF Store!SaveIncident, StoreP!SaveIncident, Store!PriorOutcome,
                  StoreP!PriorOutcome, Store!Outcome, StoreP!Outcome, Store!NoOutcome,
                  StoreP!NoOutcome, Store!NotDecided, StoreP!NotDecided
    <2>4. StoreP!IInv'
      BY <1>0, <2>1, <2>3, Assumptions, StoreP!SaveIInv
    <2>. QED BY <2>2, <2>4 DEF Store!SaveIncident
  <1>4. ASSUME NEW i, NEW f \in Plans \cup {NoFix}, NEW d \in StoreP!Decisions,
               NEW r \in BOOLEAN, Store!MarkResolved(i, f, d, r)
        PROVE  StoreP!IInv' /\ DOMAIN rows' = DOMAIN rows /\ issued' = issued
    <2>1. StoreP!MarkResolved(i, f, d, r)
      BY <1>4 DEF Store!MarkResolved, StoreP!MarkResolved
    <2>2. StoreP!IInv'
      BY <1>0, <2>1, Assumptions, StoreP!MarkIInv
    <2>. QED BY <1>4, <2>2 DEF Store!MarkResolved
  <1>5. ASSUME NEW t \in Tasks, Refuse(t)
        PROVE  StoreP!IInv' /\ DOMAIN rows' = DOMAIN rows /\ issued' = issued
    <2>1. CASE UNCHANGED storeVars
      BY <1>1, <2>1
    <2>2. CASE Store!MarkResolved(id[t], NoFix, Verdict(t), FALSE)
      BY <1>4, <2>2, VerdictType
    <2>. QED BY <1>5, <2>1, <2>2 DEF Refuse
  <1>6. ASSUME NEW t \in Tasks, CloseApproved(t)
        PROVE  StoreP!IInv' /\ DOMAIN rows' = DOMAIN rows /\ issued' = issued
    <2>1. inc[t].plan \in Plans \cup {NoFix} /\ inc[t].resolved \in BOOLEAN
      BY DEF IInv, OwnTypes, Locals, NoPlan, NoFix
    <2>2. Store!MarkResolved(id[t], inc[t].plan, Verdict(t), inc[t].resolved)
      BY <1>6 DEF CloseApproved
    <2>. QED BY <1>4, <2>1, <2>2, VerdictType
  <1>7. CASE NewYear
    <2>1. StoreP!NewYear
      BY <1>7 DEF NewYear, Store!NewYear, StoreP!NewYear
    <2>2. StoreP!IInv'
      BY <1>0, <2>1, Assumptions, StoreP!NewYearIInv
    <2>. QED BY <1>7, <2>2 DEF NewYear, Store!NewYear
  <1>8. CASE \/ \E t \in Tasks : StoreIdle(t)
             \/ \E i \in PostIds, text \in Gate!Texts : Answer(i, text)
             \/ Restart \/ UNCHANGED vars
    BY <1>1, <1>8, StoreIdleKeeps DEF Answer, Restart, vars
  <1>. QED BY <1>1, <1>2, <1>3, <1>5, <1>6, <1>7, <1>8 DEF Next, TaskStep, StoreIdle

\* Once a task has an id it keeps it.
LEMMA IdKept ==
    ASSUME IInv, [Next]_vars, NEW t \in Tasks, id[t] # NoId
    PROVE  id'[t] = id[t]
  <1>1. id \in [Tasks -> Store!Ids \cup {NoId}] /\ stage[t] # "new"
    BY DEF IInv, GateP!IInv, GateP!TypeOK, GateP!StageData
  <1>2. CASE UNCHANGED GateP!vars
    BY <1>2 DEF GateP!vars
  <1>3. ASSUME NEW u \in Tasks, NEW i, GateP!Open(u, i) PROVE id'[t] = id[t]
    BY <1>1, <1>3 DEF GateP!Open, GateP!Move
  <1>4. CASE GateP!Next
    BY <1>3, <1>4 DEF GateP!Next, GateP!Submit, GateP!PostCard, GateP!TakeEarly, GateP!Register,
                      GateP!Wake, GateP!Timer, GateP!Cancel, GateP!Expire, GateP!Restart
  <1>. QED BY <1>2, <1>4, GateStep

\* A task that has started has an id.
LEMMA StartedHasId ==
    ASSUME IInv, NEW t \in Tasks, pc[t] # "idle"
    PROVE  id[t] # NoId
  <1>1. id[t] \in issued /\ issued \subseteq StoreP!Ids
    BY DEF IInv, Progressed, StoreP!IInv, StoreP!TypeOK
  <1>. QED BY <1>1, OrchestratorAssumption DEF StoreP!Ids

\* Verification sets two of a task's locals and moves it on.
LEMMA VerifyLooks ==
    ASSUME IInv, NEW t \in Tasks, Verify(t)
    PROVE  \E r \in BOOLEAN, q \in BOOLEAN :
               inc' = [inc EXCEPT ![t].resolved = r, ![t].quiet = q]
  <1>1. CASE inc' = [inc EXCEPT ![t].resolved = FALSE]
    <2>1. inc' = [inc EXCEPT ![t].resolved = FALSE, ![t].quiet = inc[t].quiet]
      BY <1>1 DEF IInv, OwnTypes, Locals
    <2>2. inc[t].quiet \in BOOLEAN
      BY DEF IInv, OwnTypes, Locals
    <2>. QED BY <2>1, <2>2
  <1>2. CASE \E q \in BOOLEAN : inc' = [inc EXCEPT ![t].resolved = TRUE, ![t].quiet = q]
    BY <1>2
  <1>. QED BY <1>1, <1>2 DEF Verify

\* The agent's own variables keep their types.
LEMMA OwnTypesKept == IInv /\ [Next]_vars => OwnTypes'
  <1>. SUFFICES ASSUME IInv, [Next]_vars PROVE OwnTypes'
    OBVIOUS
  <1>. USE DEF IInv, OwnTypes, PCs, Step
  <1>1. ASSUME NEW t \in Tasks, OpenIncident(t) PROVE OwnTypes'
    BY <1>1 DEF OpenIncident
  <1>2. ASSUME NEW t \in Tasks, SaveSession(t) PROVE OwnTypes'
    <2>1. PICK plan \in Plans : inc' = [inc EXCEPT ![t].plan = plan]
      BY <1>2 DEF SaveSession
    <2>2. inc' \in [Tasks -> Locals]
      BY <2>1 DEF Locals
    <2>. QED BY <1>2, <2>2 DEF SaveSession
  <1>3. ASSUME NEW t \in Tasks, ValidateFix(t) PROVE OwnTypes'
    BY <1>3 DEF ValidateFix
  <1>4. ASSUME NEW t \in Tasks, Refuse(t) PROVE OwnTypes'
    <2>1. PICK n \in {1, 2} : alarms' = [alarms EXCEPT ![t] = n]
      BY <1>4 DEF Refuse
    <2>2. alarms' \in [Tasks -> 0..2]
      BY <2>1
    <2>. QED BY <1>4, <2>2 DEF Refuse
  <1>5. ASSUME NEW t \in Tasks, ApplyManual(t) PROVE OwnTypes'
    <2>1. inc' \in [Tasks -> Locals]
      BY <1>5 DEF ApplyManual, Locals, ApplyStatus
    <2>. QED BY <1>5, <2>1 DEF ApplyManual
  <1>6. ASSUME NEW t \in Tasks, RunKubectl(t) PROVE OwnTypes'
    <2>1. PICK a \in {"OK", "FAILED"} : inc' = [inc EXCEPT ![t].applied = a]
      BY <1>6 DEF RunKubectl
    <2>2. inc' \in [Tasks -> Locals]
      BY <2>1 DEF Locals, ApplyStatus
    <2>. QED BY <1>6, <2>2 DEF RunKubectl
  <1>7. ASSUME NEW t \in Tasks, Verify(t) PROVE OwnTypes'
    <2>1. PICK r \in BOOLEAN, q \in BOOLEAN :
            inc' = [inc EXCEPT ![t].resolved = r, ![t].quiet = q]
      BY <1>7, VerifyLooks
    <2>2. inc' \in [Tasks -> Locals]
      BY <2>1 DEF Locals
    <2>. QED BY <1>7, <2>2 DEF Verify
  <1>8. ASSUME NEW t \in Tasks,
               \/ Diagnose(t) \/ AwaitApproval(t) \/ Approve(t) \/ AuditWrite(t)
               \/ OpenFixPR(t) \/ CloseApproved(t) \/ Raise(t)
        PROVE  OwnTypes'
    BY <1>8 DEF Diagnose, AwaitApproval, Approve, AuditWrite, OpenFixPR, CloseApproved, Raise,
                ownVars
  <1>9. CASE Restart
    BY <1>9 DEF Restart, Finished
  <1>10. CASE \/ \E i \in PostIds, text \in Gate!Texts : Answer(i, text)
              \/ NewYear \/ UNCHANGED vars
    BY <1>10 DEF Answer, NewYear, vars, ownVars
  <1>. QED BY <1>1, <1>2, <1>3, <1>4, <1>5, <1>6, <1>7, <1>8, <1>9, <1>10 DEF Next, TaskStep

\* What a step may do to a task's place, and what the task must then have behind it.
Advances(t) ==
    /\ pc[t] # "idle" => pc'[t] # "idle"
    /\ pc[t] = "idle" /\ pc'[t] # "idle" =>
           id'[t] \in issued' /\ pc'[t] = "investigating"
    /\ pc'[t] \in Saved => pc[t] \in Saved \/ (id[t] \in DOMAIN rows' /\ pc[t] # "idle")
    /\ pc'[t] \in Consented => pc[t] \in Consented \/ Gate!Approved(t)
    /\ pc'[t] = "writing" => pc[t] = "writing" \/ t \in audited'
    /\ pc'[t] = "closed" => pc[t] \in {"closed", "closing"} \/ alarms'[t] > 0
    /\ pc[t] = "closed" /\ alarms[t] > 0 => alarms'[t] > 0
    /\ t \in touched' => t \in touched \/ pc[t] = "writing"
    /\ t \in audited => t \in audited'

LEMMA TaskAdvances == ASSUME IInv, [Next]_vars, NEW t \in Tasks PROVE Advances(t)
  <1>. USE DEF IInv, OwnTypes, PCs, Step, Saved, Consented, Advances
  <1>1. ASSUME NEW u \in Tasks, OpenIncident(u) PROVE Advances(t)
    <2>1. id'[u] = Store!NextIncidentId
      BY <1>1 DEF OpenIncident, Gate!Open, GateP!IInv, GateP!TypeOK
    <2>2. id'[u] \in issued'
      BY <1>1, <2>1 DEF OpenIncident, Store!Allocate
    <2>. QED BY <1>1, <2>2 DEF OpenIncident
  <1>2. ASSUME NEW u \in Tasks, SaveSession(u) PROVE Advances(t)
    BY <1>2 DEF SaveSession, Store!SaveIncident
  <1>3. ASSUME NEW u \in Tasks, Refuse(u) PROVE Advances(t)
    <2>1. alarms'[u] > 0 /\ \A v \in Tasks \ {u} : alarms'[v] = alarms[v]
      BY <1>3 DEF Refuse
    <2>. QED BY <1>3, <2>1 DEF Refuse
  <1>4. ASSUME NEW u \in Tasks,
               \/ Diagnose(u) \/ ValidateFix(u) \/ AwaitApproval(u) \/ Approve(u)
        PROVE  Advances(t)
    BY <1>4 DEF Diagnose, ValidateFix, AwaitApproval, Approve, ownVars
  <1>5. ASSUME NEW u \in Tasks, ApplyManual(u) \/ AuditWrite(u) PROVE Advances(t)
    BY <1>5 DEF ApplyManual, AuditWrite
  <1>6. ASSUME NEW u \in Tasks, RunKubectl(u) \/ Verify(u) PROVE Advances(t)
    BY <1>6 DEF RunKubectl, Verify
  <1>7. ASSUME NEW u \in Tasks, OpenFixPR(u) \/ CloseApproved(u) \/ Raise(u)
        PROVE  Advances(t)
    BY <1>7 DEF OpenFixPR, CloseApproved, Raise
  <1>8. CASE Restart
    BY <1>8 DEF Restart, Finished
  <1>9. CASE \/ \E i \in PostIds, text \in Gate!Texts : Answer(i, text)
             \/ NewYear \/ UNCHANGED vars
    BY <1>9 DEF Answer, NewYear, vars, ownVars
  <1>. QED BY <1>1, <1>2, <1>3, <1>4, <1>5, <1>6, <1>7, <1>8, <1>9 DEF Next, TaskStep

\* What a task's place says of its id, row and approval stays true.
LEMMA ProgressedKept == IInv /\ [Next]_vars => Progressed'
  <1>. SUFFICES ASSUME IInv, [Next]_vars, NEW t \in Tasks
                PROVE  /\ pc'[t] # "idle" => id'[t] \in issued'
                       /\ pc'[t] \in Saved => id'[t] \in DOMAIN rows'
                       /\ pc'[t] \in Consented => Gate!Approved(t)'
                       /\ pc'[t] = "writing" => t \in audited'
                       /\ pc'[t] = "closed" => Gate!Approved(t)' \/ alarms'[t] > 0
    BY DEF Progressed
  <1>1. Advances(t)
    BY TaskAdvances
  <1>2. pc[t] # "idle" => id'[t] = id[t]
    BY StartedHasId, IdKept
  <1>3. Gate!Approved(t) => Gate!Approved(t)'
    BY ApprovalKept
  <1>4. DOMAIN rows \subseteq DOMAIN rows' /\ issued \subseteq issued'
    BY StoreKept
  <1>5. /\ pc[t] # "idle" => id[t] \in issued
        /\ pc[t] \in Saved => id[t] \in DOMAIN rows /\ pc[t] # "idle"
        /\ pc[t] \in Consented => Gate!Approved(t)
        /\ pc[t] = "writing" => t \in audited
        /\ pc[t] = "closing" => Gate!Approved(t)
        /\ pc[t] = "closed" => Gate!Approved(t) \/ alarms[t] > 0
    BY DEF IInv, Progressed, Saved, Consented
  <1>6. "investigating" \notin Saved
    BY DEF Saved, Consented
  <1>. QED BY <1>1, <1>2, <1>3, <1>4, <1>5, <1>6 DEF Advances

\* What a production change has behind it stays behind it.
LEMMA BackedKept == IInv /\ [Next]_vars => Backed'
  <1>. SUFFICES ASSUME IInv, [Next]_vars, NEW t \in touched'
                PROVE  Gate!Approved(t)' /\ t \in audited' /\ id'[t] \in DOMAIN rows'
    BY DEF Backed
  <1>1. t \in Tasks
    BY OwnTypesKept DEF OwnTypes
  <1>2. Advances(t)
    BY <1>1, TaskAdvances
  <1>3. Gate!Approved(t) /\ t \in audited /\ id[t] \in DOMAIN rows
    BY <1>1, <1>2 DEF Advances, IInv, Progressed, Backed, Saved, Consented
  <1>4. Gate!Approved(t)' /\ id'[t] = id[t]
    BY <1>1, <1>3, ApprovalKept
  <1>. QED BY <1>2, <1>3, <1>4, StoreKept DEF Advances

\* A post is added with the cards of its id, and an incident keeps its id.
LEMMA CardsKeepIdsKept == IInv /\ [Next]_vars => CardsKeepIds'
  <1>. SUFFICES ASSUME IInv, [Next]_vars PROVE CardsKeepIds'
    OBVIOUS
  <1>0. /\ said \in Seq(GateP!Submission) /\ id \in [Tasks -> Store!Ids \cup {NoId}]
        /\ NoId \notin Store!Ids
    BY OrchestratorAssumption DEF IInv, GateP!IInv, GateP!TypeOK, Store!Ids
  <1>1. \A k \in DOMAIN said : said[k].cards \subseteq Tasks /\ said[k].id \in Store!Ids
    <2>1. \A k \in DOMAIN said : said[k] \in GateP!Submission
      BY <1>0
    <2>. QED BY <2>1 DEF GateP!Submission
  <1>2. \A k \in DOMAIN said : \A u \in said[k].cards : id'[u] = said[k].id
    BY <1>0, <1>1, IdKept DEF IInv, CardsKeepIds
  <1>3. CASE said' = said
    BY <1>2, <1>3 DEF CardsKeepIds, IInv
  <1>4. ASSUME NEW i, NEW text, Answer(i, text) PROVE CardsKeepIds'
    <2>. DEFINE s == [id |-> i, decision |-> Gate!Parse(text), cards |-> Gate!CardsOf(i)]
    <2>1. said' = Append(said, s) /\ id' = id
      BY <1>4 DEF Answer, Gate!Submit
    <2>2. \A u \in s.cards : id'[u] = s.id
      BY <2>1 DEF Gate!CardsOf
    <2>3. ASSUME NEW k \in DOMAIN said'
          PROVE  \A u \in said'[k].cards : id'[u] = said'[k].id
      <3>1. CASE k \in DOMAIN said
        <4>1. said'[k] = said[k]
          BY <1>0, <2>1, <3>1
        <4>. QED BY <1>2, <3>1, <4>1 DEF IInv, CardsKeepIds
      <3>2. CASE k \notin DOMAIN said
        <4>1. said'[k] = s
          BY <1>0, <2>1, <3>2
        <4>. QED BY <2>2, <4>1
      <3>. QED BY <3>1, <3>2
    <2>. QED BY <2>3 DEF CardsKeepIds
  <1>5. (\E i, text : Answer(i, text)) \/ said' = said
    <2>1. ASSUME NEW t \in Tasks, OpenIncident(t) \/ ValidateFix(t) \/ AwaitApproval(t)
          PROVE  said' = said
      BY <2>1 DEF OpenIncident, ValidateFix, AwaitApproval, Gate!Open, Gate!PostCard,
                  Gate!Progress, Gate!TakeEarly, Gate!Register, Gate!Wake, Gate!Timer,
                  Gate!Cancel, Gate!Expire
    <2>2. CASE Restart \/ NewYear \/ UNCHANGED vars
      BY <2>2 DEF Restart, NewYear, Gate!Restart, vars, gateVars
    <2>3. ASSUME NEW t \in Tasks,
                 \/ SaveSession(t) \/ Diagnose(t) \/ Approve(t) \/ Refuse(t)
                 \/ ApplyManual(t) \/ AuditWrite(t) \/ RunKubectl(t) \/ Verify(t)
                 \/ OpenFixPR(t) \/ CloseApproved(t) \/ Raise(t)
          PROVE  said' = said
      BY <2>3 DEF SaveSession, Diagnose, Approve, Refuse, ApplyManual, AuditWrite, RunKubectl,
                  Verify, OpenFixPR, CloseApproved, Raise, gateVars
    <2>. QED BY <2>1, <2>2, <2>3 DEF Next, TaskStep
  <1>. QED BY <1>3, <1>4, <1>5

\* The invariant is inductive.
LEMMA NextIInv == IInv /\ [Next]_vars => IInv'
  BY StoreKept, GateKept, OwnTypesKept, ProgressedKept, BackedKept, CardsKeepIdsKept DEF IInv

\* The agent keeps its invariant, for any number of alerts, posts and years.
THEOREM AgentInvariant == Spec => []IInv
  BY InitIInv, NextIInv, PTL DEF Spec
-----------------------------------------------------------------------------
\* The whole agent's variables keep their types: table, gate and tasks.
THEOREM AgentTypes == Spec => []TypeOK
  <1>1. ASSUME IInv PROVE TypeOK
    <2>1. Store!TypeOK
      BY <1>1 DEF IInv, StoreP!IInv, StoreP!TypeOK, Store!TypeOK, StoreP!Ids, Store!Ids,
                  StoreP!Row, Store!Row, StoreP!Decisions, Store!Decisions,
                  StoreP!NotDecided, Store!NotDecided
    <2>2. Gate!TypeOK
      BY <1>1 DEF IInv, GateP!IInv, GateP!TypeOK, Gate!TypeOK, GateP!Stages, Gate!Stages,
                  GateP!Submission, Gate!Submission, GateP!Decisions, Gate!Decisions
    <2>. QED BY <1>1, <2>1, <2>2 DEF TypeOK, IInv, OwnTypes
  <1>. QED BY <1>1, AgentInvariant, PTL

\* next_incident_id inside the agent: never the id of a row in the table.
THEOREM AgentIdsFresh == Spec => []IdsFresh
  <1>1. ASSUME IInv PROVE IdsFresh
    <2>1. StoreP!IdsFresh
      BY <1>1, Assumptions, StoreP!FreshFromIInv DEF IInv
    <2>2. StoreP!NextIncidentId = Store!NextIncidentId
      BY Zenon DEF StoreP!NextIncidentId, Store!NextIncidentId, StoreP!CreatedIn,
                   Store!CreatedIn, Store!Cardinality, StoreP!Cardinality
    <2>. QED BY <2>1, <2>2 DEF StoreP!IdsFresh, Store!IdsFresh, IdsFresh
  <1>. QED BY <1>1, AgentInvariant, PTL

\* "Never silent apply": a production change has an APPROVED of its own, posted for its id.
THEOREM AgentNoSilentApply == Spec => []NoSilentApply
  <1>1. ASSUME IInv PROVE NoSilentApply
    <2>. SUFFICES ASSUME NEW t \in touched
                  PROVE  /\ stage[t] = "decided"
                         /\ Consent(t).decision = "APPROVED" /\ Consent(t).id = id[t]
                         /\ \A u \in touched \ {t} : answer[u] # answer[t]
      BY DEF NoSilentApply
    <2>1. touched \subseteq Tasks
      BY <1>1 DEF IInv, OwnTypes
    <2>2. stage[t] = "decided" /\ said[answer[t]].decision = "APPROVED"
      BY <1>1 DEF IInv, Backed, Gate!Approved
    <2>3. answer[t] # 0
      BY <1>1, <2>1, <2>2 DEF IInv, GateP!IInv, GateP!StageData
    <2>4. said[answer[t]].id = id[t] /\ \A u \in Tasks \ {t} : answer[t] # answer[u]
      BY <1>1, <2>1, <2>3 DEF IInv, GateP!IInv, GateP!AnswersMatchIds, GateP!SingleUse
    <2>. QED BY <2>1, <2>2, <2>4 DEF Consent
  <1>. QED BY <1>1, AgentInvariant, PTL

\* A production change has left its audit record and its session row.
THEOREM AgentChangeLeavesTraces == Spec => []ChangeLeavesTraces
  <1>1. IInv => ChangeLeavesTraces
    BY DEF IInv, Backed, ChangeLeavesTraces
  <1>. QED BY <1>1, AgentInvariant, PTL

\* Who approved a change under an id of its own looked at its card or, posting early, at none:
\* only a shared id misdirects a click (ConsentAlwaysSawTheCard does not hold).
OwnCardOrNone == \A t \in touched : Gate!Unshared(t) => Consent(t).cards \subseteq {t}

\* submit_decision: a click on one incident's card approves a change of another only if the two
\* have the same id.
THEOREM AgentOwnCardOrNone == Spec => []OwnCardOrNone
  <1>1. ASSUME IInv PROVE OwnCardOrNone
    <2>. SUFFICES ASSUME NEW t \in touched, Gate!Unshared(t), NEW u \in Consent(t).cards
                  PROVE  u = t
      BY DEF OwnCardOrNone
    <2>1. t \in Tasks /\ stage[t] = "decided"
      BY <1>1 DEF IInv, OwnTypes, Backed, Gate!Approved
    <2>2. answer[t] # 0 /\ answer[t] \in 1..Len(said) /\ said \in Seq(GateP!Submission)
      BY <1>1, <2>1 DEF IInv, GateP!IInv, GateP!StageData, GateP!TypeOK
    <2>3. answer[t] \in DOMAIN said /\ said[answer[t]] \in GateP!Submission
      BY <2>2
    <2>4. u \in Tasks
      BY <2>3 DEF GateP!Submission, Consent
    <2>5. id[u] = id[t]
      BY <1>1, <2>1, <2>2, <2>3
         DEF IInv, CardsKeepIds, GateP!IInv, GateP!AnswersMatchIds, Consent
    <2>. QED BY <2>4, <2>5 DEF Gate!Unshared
  <1>. QED BY <1>1, AgentInvariant, PTL

\* An incident closed without approval was escalated and left production alone.
THEOREM AgentUnapprovedIsEscalated == Spec => []UnapprovedIsEscalated
  <1>1. IInv => UnapprovedIsEscalated
    BY DEF IInv, Progressed, Backed, UnapprovedIsEscalated
  <1>. QED BY <1>1, AgentInvariant, PTL
-----------------------------------------------------------------------------
(***************************************************************************)
(* The table tells how each incident ended.                                *)
(***************************************************************************)
\* Where a task stands before its session is saved, and after its alert was verified.
Early == {"idle", "investigating"}
Late == {"publishing", "closing", "closed", "failed", "lost"}

\* What a step does to a task's place and to what its row will say.
Keeps(t) ==
    /\ pc[t] \notin Early => pc'[t] \notin Early
    /\ pc[t] \in Late => pc'[t] \in Late
    /\ pc[t] = "closed" => pc'[t] = "closed" /\ inc'[t] = inc[t]
    /\ inc'[t].resolved = inc[t].resolved \/ pc'[t] \in Late
    /\ pc'[t] = "closed" => pc[t] = "closed" \/ stage[t] \in {"decided", "expired"}

LEMMA TaskKeeps == ASSUME IInv, [Next]_vars, NEW t \in Tasks PROVE Keeps(t)
  <1>. USE DEF IInv, OwnTypes, Locals, PCs, Step, Early, Late, Keeps
  <1>1. ASSUME NEW u \in Tasks, OpenIncident(u) \/ Diagnose(u) \/ Raise(u) PROVE Keeps(t)
    BY <1>1 DEF OpenIncident, Diagnose, Raise
  <1>2. ASSUME NEW u \in Tasks, SaveSession(u) PROVE Keeps(t)
    <2>1. PICK plan \in Plans : inc' = [inc EXCEPT ![u].plan = plan]
      BY <1>2 DEF SaveSession
    <2>. QED BY <1>2, <2>1 DEF SaveSession
  <1>3. ASSUME NEW u \in Tasks, ValidateFix(u) \/ AwaitApproval(u) \/ Approve(u) PROVE Keeps(t)
    BY <1>3 DEF ValidateFix, AwaitApproval, Approve, ownVars
  <1>4. ASSUME NEW u \in Tasks, Refuse(u) PROVE Keeps(t)
    BY <1>4 DEF Refuse
  <1>5. ASSUME NEW u \in Tasks, ApplyManual(u) \/ AuditWrite(u) PROVE Keeps(t)
    BY <1>5 DEF ApplyManual, AuditWrite
  <1>6. ASSUME NEW u \in Tasks, RunKubectl(u) PROVE Keeps(t)
    <2>1. PICK a \in {"OK", "FAILED"} : inc' = [inc EXCEPT ![u].applied = a]
      BY <1>6 DEF RunKubectl
    <2>. QED BY <1>6, <2>1 DEF RunKubectl
  <1>7. ASSUME NEW u \in Tasks, Verify(u) PROVE Keeps(t)
    <2>1. PICK r \in BOOLEAN, q \in BOOLEAN :
            inc' = [inc EXCEPT ![u].resolved = r, ![u].quiet = q]
      BY <1>7, VerifyLooks
    <2>. QED BY <1>7, <2>1 DEF Verify
  <1>8. ASSUME NEW u \in Tasks, OpenFixPR(u) \/ CloseApproved(u) PROVE Keeps(t)
    BY <1>8 DEF OpenFixPR, CloseApproved, Progressed, Consented, Gate!Approved
  <1>9. CASE Restart
    BY <1>9 DEF Restart, Finished
  <1>10. CASE \/ \E i \in PostIds, text \in Gate!Texts : Answer(i, text)
              \/ NewYear \/ UNCHANGED vars
    BY <1>10 DEF Answer, NewYear, vars, ownVars
  <1>. QED BY <1>1, <1>2, <1>3, <1>4, <1>5, <1>6, <1>7, <1>8, <1>9, <1>10 DEF Next, TaskStep

\* A row tells of a task that works under its id.
RowsOwned == \A i \in DOMAIN rows : id[rows[i].content] = i

\* A closed task has its verdict, and no alert is taken for quiet before it was looked at.
ClosedDecided == \A t \in Tasks : pc[t] = "closed" => stage[t] \in {"decided", "expired"}
QuietIfLooked == \A t \in Tasks : pc[t] \notin Late => inc[t].resolved = FALSE

\* The second part of the inductive invariant, about the table.
RInv == RowsOwned /\ ClosedDecided /\ QuietIfLooked /\ RowTellsOutcome

\* Before the first alert the table is empty.
LEMMA InitRInv == Init => RInv
  BY DEF Init, RInv, RowsOwned, ClosedDecided, QuietIfLooked, RowTellsOutcome, Late, Store!Init

\* What a task that has ended its request says of its outcome stays.
LEMMA VerdictKept ==
    ASSUME IInv, [Next]_vars, NEW t \in Tasks, stage[t] \in {"decided", "expired"}
    PROVE  /\ stage'[t] = stage[t] /\ id'[t] = id[t]
           /\ Verdict(t)' = Verdict(t)
           /\ Gate!Approved(t)' <=> Gate!Approved(t)
  <1>1. [GateP!Next]_(GateP!vars) /\ GateP!IInv
    BY GateStep DEF IInv
  <1>2. /\ stage'[t] = stage[t] /\ id'[t] = id[t]
        /\ stage[t] = "decided" => answer'[t] = answer[t] /\ said'[answer[t]] = said[answer[t]]
    BY <1>1, Assumptions, GateP!EndStays
  <1>. QED BY <1>2 DEF Verdict, Gate!Approved

\* A step that leaves the table alone and closes no incident.
RowsRest == rows' = rows /\ \A u \in Tasks : pc'[u] = "closed" => pc[u] = "closed"

\* How a step changes the table.
LEMMA RowsStep ==
    ASSUME IInv, [Next]_vars
    PROVE  \/ RowsRest
           \/ \E u \in Tasks : SaveSession(u)
           \/ \E u \in Tasks : CloseApproved(u)
           \/ \E u \in Tasks : Refuse(u) /\ pc'[u] = "closed"
                               /\ Store!MarkResolved(id[u], NoFix, Verdict(u), FALSE)
  <1>. USE DEF RowsRest, Step, IInv, OwnTypes
  <1>1. ASSUME NEW u \in Tasks, OpenIncident(u) PROVE RowsRest
    BY <1>1 DEF OpenIncident, Store!Allocate
  <1>2. ASSUME NEW u \in Tasks, StoreIdle(u) PROVE RowsRest
    <2>1. rows' = rows
      BY <1>2, StoreIdleKeeps DEF storeVars
    <2>2. \A v \in Tasks : pc'[v] = "closed" => pc[v] = "closed"
      BY <1>2 DEF StoreIdle, Diagnose, ValidateFix, AwaitApproval, Approve, ApplyManual,
                  AuditWrite, RunKubectl, Verify, OpenFixPR, Raise, ownVars
    <2>. QED BY <2>1, <2>2
  <1>3. ASSUME NEW u \in Tasks, Refuse(u)
        PROVE  \/ RowsRest
               \/ pc'[u] = "closed" /\ Store!MarkResolved(id[u], NoFix, Verdict(u), FALSE)
    BY <1>3 DEF Refuse, storeVars
  <1>4. CASE \/ \E i \in PostIds, text \in Gate!Texts : Answer(i, text)
             \/ NewYear \/ UNCHANGED vars
    BY <1>4 DEF Answer, NewYear, Store!NewYear, storeVars, ownVars, vars
  <1>5. CASE Restart
    BY <1>5 DEF Restart, storeVars, Finished
  <1>. QED BY <1>1, <1>2, <1>3, <1>4, <1>5 DEF Next, TaskStep, StoreIdle

\* The row of one task is written by that task only, as long as its id is its own.
Tells(t) ==
    id[t] \in DOMAIN rows /\ Gate!Unshared(t) =>
        LET row == rows[id[t]] IN
        /\ row.content = t
        /\ pc[t] # "closed" => row.decision = Store!NotDecided
        /\ pc[t] = "closed" => /\ row.decision = Verdict(t)
                               /\ row.fix = IF Gate!Approved(t) THEN inc[t].plan ELSE NoFix
                               /\ row.resolved = inc[t].resolved

\* An id appears in a step that leaves the table alone, and is not in it.
LEMMA IdStep ==
    ASSUME IInv, [Next]_vars
    PROVE  \/ id' = id
           \/ \E u \in Tasks : /\ id' = [id EXCEPT ![u] = Store!NextIncidentId]
                              /\ Store!NextIncidentId \notin DOMAIN rows /\ rows' = rows
  <1>1. ASSUME NEW u \in Tasks, OpenIncident(u)
        PROVE  /\ id' = [id EXCEPT ![u] = Store!NextIncidentId]
               /\ Store!NextIncidentId \notin DOMAIN rows /\ rows' = rows
    <2>1. StoreP!IdsFresh
      BY Assumptions, StoreP!FreshFromIInv DEF IInv
    <2>2. StoreP!NextIncidentId = Store!NextIncidentId
      BY Zenon DEF StoreP!NextIncidentId, Store!NextIncidentId, StoreP!CreatedIn,
                   Store!CreatedIn, Store!Cardinality, StoreP!Cardinality
    <2>3. Store!NextIncidentId \notin DOMAIN rows
      BY <2>1, <2>2 DEF StoreP!IdsFresh
    <2>4. rows' = rows
      BY <1>1 DEF OpenIncident, Store!Allocate
    <2>5. id' = [id EXCEPT ![u] = Store!NextIncidentId]
      BY <1>1 DEF OpenIncident, Gate!Open
    <2>. QED BY <2>3, <2>4, <2>5
  <1>2. ASSUME NEW t \in Tasks, AwaitApproval(t) \/ ValidateFix(t) PROVE id' = id
    BY <1>2 DEF ValidateFix, AwaitApproval, Gate!PostCard, Gate!Progress, Gate!TakeEarly,
                Gate!Register, Gate!Wake, Gate!Timer, Gate!Cancel, Gate!Expire
  <1>3. ASSUME NEW t \in Tasks,
               \/ SaveSession(t) \/ Diagnose(t) \/ Approve(t) \/ Refuse(t) \/ ApplyManual(t)
               \/ AuditWrite(t) \/ RunKubectl(t) \/ Verify(t) \/ OpenFixPR(t)
               \/ CloseApproved(t) \/ Raise(t)
        PROVE  id' = id
    BY <1>3 DEF SaveSession, Diagnose, Approve, Refuse, ApplyManual, AuditWrite, RunKubectl,
                Verify, OpenFixPR, CloseApproved, Raise, gateVars
  <1>4. CASE \/ \E i \in PostIds, text \in Gate!Texts : Answer(i, text)
             \/ Restart \/ NewYear \/ UNCHANGED vars
    BY <1>4 DEF Answer, Gate!Submit, Restart, Gate!Restart, NewYear, vars, gateVars
  <1>. QED BY <1>1, <1>2, <1>3, <1>4 DEF Next, TaskStep

\* The rows keep their owners.
LEMMA RowsOwnedKept == IInv /\ RInv /\ [Next]_vars => RowsOwned'
  <1>. SUFFICES ASSUME IInv, RInv, [Next]_vars, NEW i \in DOMAIN rows'
                PROVE  id'[rows'[i].content] = i
    BY DEF RowsOwned
  <1>1. \A j \in DOMAIN rows : rows[j].content \in Tasks /\ id[rows[j].content] # NoId
    BY OrchestratorAssumption
       DEF IInv, StoreP!IInv, StoreP!TypeOK, StoreP!Ids, StoreP!Row, RInv, RowsOwned
  <1>2. \A j \in DOMAIN rows : id'[rows[j].content] = j
    BY <1>1, IdKept DEF RInv, RowsOwned
  <1>3. CASE rows' = rows
    BY <1>2, <1>3
  <1>4. ASSUME NEW u \in Tasks, SaveSession(u) PROVE id'[rows'[i].content] = i
    <2>1. id' = id
      BY <1>4 DEF SaveSession, gateVars
    <2>2. CASE i = id[u]
      BY <1>4, <2>1, <2>2 DEF SaveSession, Store!SaveIncident
    <2>3. CASE i # id[u]
      BY <1>2, <1>4, <2>3 DEF SaveSession, Store!SaveIncident
    <2>. QED BY <2>2, <2>3
  <1>5. ASSUME NEW j, NEW f, NEW d, NEW r, Store!MarkResolved(j, f, d, r)
        PROVE  id'[rows'[i].content] = i
    <2>1. i \in DOMAIN rows /\ rows[i] \in StoreP!Row
      BY <1>5 DEF Store!MarkResolved, IInv, StoreP!IInv, StoreP!TypeOK
    <2>2. rows'[i].content = rows[i].content
      BY <1>5, <2>1 DEF Store!MarkResolved, StoreP!Row
    <2>. QED BY <1>2, <2>1, <2>2
  <1>. QED BY <1>3, <1>4, <1>5, RowsStep DEF CloseApproved, RowsRest

\* A row under a task's own id says what it said, unless the task itself writes it.
LEMMA OthersKeepOut ==
    ASSUME IInv, RInv, [Next]_vars, NEW t \in Tasks, id[t] \in DOMAIN rows, Gate!Unshared(t),
           NEW u \in Tasks \ {t},
           \/ SaveSession(u) \/ CloseApproved(u)
           \/ Store!MarkResolved(id[u], NoFix, Verdict(u), FALSE)
    PROVE  rows'[id[t]] = rows[id[t]]
  <1>1. id[u] # id[t]
    BY DEF Gate!Unshared
  <1>. QED BY <1>1 DEF SaveSession, CloseApproved, Store!SaveIncident, Store!MarkResolved

\* The task's own save, refusal and closing.
LEMMA OwnSave ==
    ASSUME IInv, RInv, [Next]_vars, NEW t \in Tasks, SaveSession(t), Gate!Unshared(t)
    PROVE  rows'[id[t]].content = t /\ rows'[id[t]].decision = Store!NotDecided
  <1>1. Store!SaveIncident(id[t], inc[t].type, t) /\ pc[t] = "investigating"
    BY DEF SaveSession, Step
  <1>2. Store!PriorOutcome(id[t]).decision = Store!NotDecided
    <2>1. CASE id[t] \in DOMAIN rows
      <3>1. rows[id[t]].decision = Store!NotDecided
        BY <1>1, <2>1 DEF RInv, RowTellsOutcome
      <3>. QED BY <2>1, <3>1 DEF Store!PriorOutcome, Store!Outcome
    <2>2. CASE id[t] \notin DOMAIN rows
      BY <2>2 DEF Store!PriorOutcome, Store!NoOutcome
    <2>. QED BY <2>1, <2>2
  <1>. QED BY <1>1, <1>2 DEF Store!SaveIncident

LEMMA OwnMark ==
    ASSUME IInv, NEW t \in Tasks, id[t] \in DOMAIN rows, NEW f, NEW d, NEW r,
           Store!MarkResolved(id[t], f, d, r)
    PROVE  /\ rows'[id[t]].content = rows[id[t]].content
           /\ rows'[id[t]].fix = f /\ rows'[id[t]].decision = d /\ rows'[id[t]].resolved = r
  <1>1. rows[id[t]] \in StoreP!Row
    BY DEF IInv, StoreP!IInv, StoreP!TypeOK
  <1>. QED BY <1>1 DEF Store!MarkResolved, StoreP!Row

\* A step in which the task's row stays keeps what it tells.
LEMMA TellsUnmoved ==
    ASSUME IInv, RInv, [Next]_vars, NEW t \in Tasks, id[t] \in DOMAIN rows, Gate!Unshared(t),
           rows'[id[t]] = rows[id[t]], id'[t] = id[t], pc'[t] = "closed" => pc[t] = "closed"
    PROVE  Tells(t)'
  <1>1. Tells(t)
    BY DEF RInv, RowTellsOutcome, Tells
  <1>2. Keeps(t)
    BY TaskKeeps
  <1>3. pc[t] # "closed" => Tells(t)'
    BY <1>1 DEF Tells, Store!NotDecided
  <1>4. CASE pc[t] = "closed"
    <2>1. Verdict(t)' = Verdict(t) /\ (Gate!Approved(t)' <=> Gate!Approved(t))
      BY <1>4, VerdictKept DEF RInv, ClosedDecided
    <2>2. pc'[t] = "closed" /\ inc'[t] = inc[t]
      BY <1>2, <1>4 DEF Keeps
    <2>. QED BY <1>1, <1>4, <2>1, <2>2 DEF Tells
  <1>. QED BY <1>3, <1>4

\* What the table tells of a task stays true.
LEMMA TellsKept == ASSUME IInv, RInv, [Next]_vars, NEW t \in Tasks PROVE Tells(t)'
  <1>. SUFFICES ASSUME id'[t] \in DOMAIN rows', Gate!Unshared(t)' PROVE Tells(t)'
    BY DEF Tells
  <1>1. id[t] # NoId /\ id'[t] = id[t]
    <2>1. NoId \notin DOMAIN rows'
      BY StoreKept, OrchestratorAssumption DEF StoreP!IInv, StoreP!TypeOK, StoreP!Ids
    <2>2. id \in [Tasks -> Store!Ids \cup {NoId}]
      BY DEF IInv, GateP!IInv, GateP!TypeOK
    <2>3. id[t] # NoId
      BY <2>1, <2>2, IdStep
    <2>. QED BY <2>3, IdKept
  <1>2. Gate!Unshared(t)
    BY <1>1, IdKept DEF Gate!Unshared
  <1>3. Keeps(t)
    BY TaskKeeps
  <1>4. CASE RowsRest
    BY <1>1, <1>2, <1>4, TellsUnmoved DEF RowsRest
  <1>5. ASSUME NEW u \in Tasks, SaveSession(u) PROVE Tells(t)'
    <2>1. CASE u = t
      <3>1. rows'[id[t]].content = t /\ rows'[id[t]].decision = Store!NotDecided
        BY <1>2, <1>5, <2>1, OwnSave
      <3>2. pc'[t] # "closed"
        BY <1>5, <2>1 DEF SaveSession, Step, IInv, OwnTypes
      <3>. QED BY <1>1, <3>1, <3>2 DEF Tells, Store!NotDecided
    <2>2. CASE u # t
      <3>1. id[t] \in DOMAIN rows
        BY <1>1, <1>2, <1>5, <2>2 DEF SaveSession, Store!SaveIncident, Gate!Unshared
      <3>2. rows'[id[t]] = rows[id[t]]
        BY <1>2, <1>5, <2>2, <3>1, OthersKeepOut
      <3>3. pc'[t] = pc[t]
        BY <1>5, <2>2 DEF SaveSession, Step, IInv, OwnTypes
      <3>. QED BY <1>1, <1>2, <3>1, <3>2, <3>3, TellsUnmoved
    <2>. QED BY <2>1, <2>2
  <1>6. ASSUME NEW u \in Tasks, CloseApproved(u) PROVE Tells(t)'
    <2>0. Store!MarkResolved(id[u], inc[u].plan, Verdict(u), inc[u].resolved) /\ inc' = inc
      BY <1>6 DEF CloseApproved
    <2>1. id[t] \in DOMAIN rows
      BY <1>1, <2>0 DEF Store!MarkResolved
    <2>2. rows[id[t]].content = t
      BY <1>2, <2>1 DEF RInv, RowTellsOutcome
    <2>3. CASE u = t
      <3>0. Store!MarkResolved(id[t], inc[t].plan, Verdict(t), inc[t].resolved)
        BY <2>0, <2>3
      <3>1. /\ rows'[id[t]].content = t
            /\ rows'[id[t]].fix = inc[t].plan /\ rows'[id[t]].decision = Verdict(t)
            /\ rows'[id[t]].resolved = inc[t].resolved
        <4>1. ASSUME NEW f, NEW d, NEW r, Store!MarkResolved(id[t], f, d, r)
              PROVE  /\ rows'[id[t]].content = t
                     /\ rows'[id[t]].fix = f /\ rows'[id[t]].decision = d
                     /\ rows'[id[t]].resolved = r
          BY <2>1, <2>2, <4>1, OwnMark
        <4>. QED BY <3>0, <4>1
      <3>2. Gate!Approved(t) /\ stage[t] = "decided" /\ pc'[t] = "closed"
        BY <1>6, <2>3 DEF CloseApproved, Step, IInv, OwnTypes, Progressed, Consented, Gate!Approved
      <3>3. Verdict(t)' = Verdict(t) /\ Gate!Approved(t)'
        BY <3>2, VerdictKept
      <3>. QED BY <1>1, <2>0, <3>1, <3>2, <3>3 DEF Tells
    <2>4. CASE u # t
      <3>1. rows'[id[t]] = rows[id[t]]
        BY <1>2, <1>6, <2>1, <2>4, OthersKeepOut
      <3>2. pc'[t] = pc[t]
        BY <1>6, <2>4 DEF CloseApproved, Step, IInv, OwnTypes
      <3>. QED BY <1>1, <1>2, <2>1, <3>1, <3>2, TellsUnmoved
    <2>. QED BY <2>3, <2>4
  <1>7. ASSUME NEW u \in Tasks, Refuse(u), pc'[u] = "closed",
               Store!MarkResolved(id[u], NoFix, Verdict(u), FALSE)
        PROVE  Tells(t)'
    <2>1. id[t] \in DOMAIN rows
      BY <1>1, <1>7 DEF Store!MarkResolved
    <2>2. rows[id[t]].content = t
      BY <1>2, <2>1 DEF RInv, RowTellsOutcome
    <2>3. CASE u = t
      <3>0. Store!MarkResolved(id[t], NoFix, Verdict(t), FALSE)
        BY <1>7, <2>3
      <3>1. /\ rows'[id[t]].content = t
            /\ rows'[id[t]].fix = NoFix /\ rows'[id[t]].decision = Verdict(t)
            /\ rows'[id[t]].resolved = FALSE
        BY <2>1, <2>2, <3>0, OwnMark
      <3>2. pc[t] = "approving" /\ ~Gate!Approved(t) /\ stage[t] \in {"decided", "expired"}
        BY <1>7, <2>3 DEF Refuse, Step
      <3>3. Verdict(t)' = Verdict(t) /\ ~Gate!Approved(t)'
        BY <3>2, VerdictKept
      <3>4. inc'[t].resolved = FALSE
        BY <1>7, <3>2 DEF Refuse, RInv, QuietIfLooked, Late
      <3>. QED BY <1>1, <1>7, <2>3, <3>1, <3>3, <3>4 DEF Tells
    <2>4. CASE u # t
      <3>1. rows'[id[t]] = rows[id[t]]
        BY <1>2, <1>7, <2>1, <2>4, OthersKeepOut
      <3>2. pc'[t] = pc[t]
        BY <1>7, <2>4 DEF Refuse, Step, IInv, OwnTypes
      <3>. QED BY <1>1, <1>2, <2>1, <3>1, <3>2, TellsUnmoved
    <2>. QED BY <2>3, <2>4
  <1>. QED BY <1>4, <1>5, <1>6, <1>7, RowsStep

\* The second part of the invariant is inductive, given the first.
LEMMA NextRInv == IInv /\ RInv /\ [Next]_vars => RInv'
  <1>. SUFFICES ASSUME IInv, RInv, [Next]_vars PROVE RInv'
    OBVIOUS
  <1>1. ASSUME NEW t \in Tasks
        PROVE  /\ pc'[t] = "closed" => stage'[t] \in {"decided", "expired"}
               /\ pc'[t] \notin Late => inc'[t].resolved = FALSE
    <2>1. Keeps(t)
      BY TaskKeeps
    <2>2. stage[t] \in {"decided", "expired"} => stage'[t] = stage[t]
      BY VerdictKept
    <2>. QED BY <2>1, <2>2 DEF Keeps, RInv, ClosedDecided, QuietIfLooked
  <1>2. RowTellsOutcome'
    BY TellsKept DEF Tells, RowTellsOutcome
  <1>. QED BY <1>1, <1>2, RowsOwnedKept DEF RInv, ClosedDecided, QuietIfLooked

\* mark_resolved and save_incident under an id of its own: the row has the incident's analysis,
\* no decision while it is under way, and its own outcome once it is closed.
THEOREM AgentRowTellsOutcome == Spec => []RowTellsOutcome
  <1>1. IInv /\ IInv' /\ RInv /\ [Next]_vars => RInv'
    BY NextRInv
  <1>2. RInv => RowTellsOutcome
    BY DEF RInv
  <1>. QED BY <1>1, <1>2, InitRInv, AgentInvariant, PTL DEF Spec
-----------------------------------------------------------------------------
(***************************************************************************)
(* Refinement: the agent uses the table as IncidentStore allows.           *)
(***************************************************************************)
Begun == {t \in Tasks : pc[t] \notin Early}

\* save_incident has run at most once for each alert: the table's bound is kept.
SavesCounted == saves \in Nat /\ saves <= Cardinality(Begun)

LEMMA BegunFinite == IsFiniteSet(Begun) /\ Cardinality(Begun) \in Nat
  <1>1. IsFiniteSet(Begun)
    BY OrchestratorAssumption, FS_Subset DEF Begun
  <1>. QED BY <1>1, FS_CardinalityType

\* A task that has begun stays so, and a save begins one that had not.
LEMMA BegunGrows ==
    ASSUME IInv, [Next]_vars
    PROVE  /\ Cardinality(Begun) <= Cardinality(Begun')
           /\ \A u \in Tasks : SaveSession(u) => Cardinality(Begun) + 1 <= Cardinality(Begun')
  <1>1. Begun \subseteq Begun'
    BY TaskKeeps DEF Begun, Keeps
  <1>2. IsFiniteSet(Begun') /\ Cardinality(Begun') \in Nat
    <2>1. IsFiniteSet(Begun')
      BY OrchestratorAssumption, FS_Subset DEF Begun
    <2>. QED BY <2>1, FS_CardinalityType
  <1>3. ASSUME NEW u \in Tasks, SaveSession(u)
        PROVE  Cardinality(Begun) + 1 <= Cardinality(Begun')
    <2>1. u \notin Begun /\ u \in Begun'
      BY <1>3 DEF SaveSession, Step, Begun, Early, IInv, OwnTypes
    <2>2. Begun \cup {u} \subseteq Begun'
      BY <1>1, <2>1
    <2>3. Cardinality(Begun \cup {u}) = Cardinality(Begun) + 1
      BY <2>1, BegunFinite, FS_AddElement
    <2>4. Cardinality(Begun \cup {u}) <= Cardinality(Begun')
      BY <1>2, <2>2, FS_Subset
    <2>. QED BY <2>3, <2>4
  <1>4. Cardinality(Begun) <= Cardinality(Begun')
    BY <1>1, <1>2, FS_Subset
  <1>. QED BY <1>3, <1>4

\* How a step changes the table, in the table's own words.
LEMMA StoreActions ==
    ASSUME IInv, [Next]_vars
    PROVE  \/ UNCHANGED storeVars
           \/ Store!Allocate
           \/ Store!NewYear
           \/ \E u \in Tasks : SaveSession(u)
           \/ \E u \in Tasks, f \in Plans \cup {NoFix}, r \in BOOLEAN :
                  pc[u] # "idle" /\ Store!MarkResolved(id[u], f, Verdict(u), r)
  <1>1. ASSUME NEW u \in Tasks, OpenIncident(u) PROVE Store!Allocate
    BY <1>1 DEF OpenIncident
  <1>2. ASSUME NEW u \in Tasks, StoreIdle(u) PROVE UNCHANGED storeVars
    BY <1>2, StoreIdleKeeps
  <1>3. ASSUME NEW u \in Tasks, Refuse(u)
        PROVE  \/ UNCHANGED storeVars
               \/ pc[u] # "idle" /\ Store!MarkResolved(id[u], NoFix, Verdict(u), FALSE)
    BY <1>3 DEF Refuse, Step
  <1>4. ASSUME NEW u \in Tasks, CloseApproved(u)
        PROVE  \E f \in Plans \cup {NoFix}, r \in BOOLEAN :
                   pc[u] # "idle" /\ Store!MarkResolved(id[u], f, Verdict(u), r)
    <2>1. inc[u].plan \in Plans \cup {NoFix} /\ inc[u].resolved \in BOOLEAN
      BY DEF IInv, OwnTypes, Locals, NoPlan, NoFix
    <2>2. pc[u] # "idle" /\ Store!MarkResolved(id[u], inc[u].plan, Verdict(u), inc[u].resolved)
      BY <1>4 DEF CloseApproved, Step
    <2>. QED BY <2>1, <2>2
  <1>5. CASE \/ \E i \in PostIds, text \in Gate!Texts : Answer(i, text)
             \/ Restart \/ UNCHANGED vars
    BY <1>5 DEF Answer, Restart, vars
  <1>6. CASE NewYear
    BY <1>6 DEF NewYear
  <1>. QED BY <1>1, <1>2, <1>3, <1>4, <1>5, <1>6 DEF Next, TaskStep, StoreIdle

LEMMA SavesCountedKept == IInv /\ SavesCounted /\ [Next]_vars => SavesCounted'
  <1>. SUFFICES ASSUME IInv, SavesCounted, [Next]_vars PROVE SavesCounted'
    OBVIOUS
  <1>1. /\ Cardinality(Begun) \in Nat /\ Cardinality(Begun') \in Nat
        /\ Cardinality(Begun) <= Cardinality(Begun')
    <2>1. IsFiniteSet(Begun')
      BY OrchestratorAssumption, FS_Subset DEF Begun
    <2>2. Cardinality(Begun') \in Nat
      BY <2>1, FS_CardinalityType
    <2>. QED BY <2>2, BegunFinite, BegunGrows
  <1>2. CASE saves' = saves
    BY <1>1, <1>2 DEF SavesCounted
  <1>3. ASSUME NEW u \in Tasks, SaveSession(u) PROVE SavesCounted'
    <2>1. saves' = saves + 1
      BY <1>3 DEF SaveSession, Store!SaveIncident
    <2>2. Cardinality(Begun) + 1 <= Cardinality(Begun')
      BY <1>3, BegunGrows
    <2>. QED BY <1>1, <2>1, <2>2 DEF SavesCounted
  <1>. QED BY <1>2, <1>3, StoreActions
           DEF storeVars, Store!Allocate, Store!NewYear, Store!MarkResolved

\* Every step is one of the table's own, or leaves it alone.
LEMMA StoreStep == IInv /\ SavesCounted /\ [Next]_vars => [Store!Next]_(Store!vars)
  <1>. SUFFICES ASSUME IInv, SavesCounted, [Next]_vars
                PROVE  Store!Next \/ UNCHANGED Store!vars
    OBVIOUS
  <1>1. CASE UNCHANGED storeVars
    BY <1>1 DEF storeVars, Store!vars
  <1>2. CASE Store!Allocate \/ Store!NewYear
    BY <1>2 DEF Store!Next
  <1>3. ASSUME NEW u \in Tasks, SaveSession(u) PROVE Store!Next
    <2>1. saves < Cardinality(Tasks)
      <3>1. u \notin Begun
        BY <1>3 DEF SaveSession, Step, Begun, Early
      <3>2. Cardinality(Begun \cup {u}) = Cardinality(Begun) + 1
        BY <3>1, BegunFinite, FS_AddElement
      <3>3. Cardinality(Begun \cup {u}) <= Cardinality(Tasks) /\ Cardinality(Tasks) \in Nat
        <4>1. Begun \cup {u} \in SUBSET Tasks
          BY DEF Begun
        <4>. QED BY <4>1, OrchestratorAssumption, FS_Subset, FS_CardinalityType
      <3>. QED BY <3>2, <3>3, BegunFinite DEF SavesCounted
    <2>2. id[u] \in issued /\ inc[u].type \in Types
      BY <1>3 DEF SaveSession, Step, IInv, Progressed, OwnTypes, Locals
    <2>3. Store!SaveIncident(id[u], inc[u].type, u)
      BY <1>3 DEF SaveSession
    <2>4. Store!SaveAny
      BY <2>1, <2>2, <2>3 DEF Store!SaveAny
    <2>. QED BY <2>4 DEF Store!Next
  <1>4. ASSUME NEW u \in Tasks, NEW f \in Plans \cup {NoFix}, NEW r \in BOOLEAN,
               pc[u] # "idle", Store!MarkResolved(id[u], f, Verdict(u), r)
        PROVE  Store!Next
    <2>1. id[u] \in issued
      BY <1>4 DEF IInv, Progressed
    <2>2. Verdict(u) \in Store!Decisions
      BY VerdictType DEF StoreP!Decisions, Store!Decisions
    <2>3. Store!MarkAny
      BY <1>4, <2>1, <2>2 DEF Store!MarkAny
    <2>. QED BY <2>3 DEF Store!Next
  <1>. QED BY <1>1, <1>2, <1>3, <1>4, StoreActions

\* handle_alert is one of the callers incident_store.py is correct for: ids come from
\* next_incident_id, each is saved once, and marked only after it was given.
THEOREM AgentUsesStore == Spec => UsesStore
  <1>1. Init => Store!Init /\ SavesCounted
    BY BegunFinite DEF Init, Store!Init, SavesCounted
  <1>2. IInv /\ SavesCounted /\ [Next]_vars => [Store!Next]_(Store!vars)
    BY StoreStep
  <1>3. IInv /\ SavesCounted /\ [Next]_vars => SavesCounted'
    BY SavesCountedKept
  <1>. QED BY <1>1, <1>2, <1>3, AgentInvariant, PTL DEF Spec, UsesStore, Store!Spec
-----------------------------------------------------------------------------
(***************************************************************************)
(* The composition keeps what its components promise.                      *)
(***************************************************************************)
\* handle_alert and its routes use the gate as ApprovalGate allows ...
THEOREM AgentUsesGate == Spec => GateP!Spec
  <1>1. Init => GateP!Init
    BY DEF Init, Gate!Init, GateP!Init, Gate!Empty, GateP!Empty
  <1>. QED BY <1>1, GateStep, AgentInvariant, PTL DEF Spec, GateP!Spec

\* ... so inside the agent, too, the gate keeps its ApprovalPromise, ids shared or not ...
THEOREM AgentKeepsApprovalPromise == Spec => GateP!KeepsPromise
  BY AgentUsesGate, Assumptions, GateP!GateKeepsPromise, PTL

\* ... the first answer of a request is final ...
THEOREM AgentFirstAnswerWins == Spec => GateP!FirstAnswerWins
  BY AgentUsesGate, Assumptions, GateP!GateFirstAnswerWins, PTL

\* ... of several answers, given before the request or after, it is the last one so far ...
THEOREM AgentLastWordCounts == Spec => GateP!LastWordCounts
  BY AgentUsesGate, Assumptions, GateP!GateLastWordCounts, PTL

\* ... and a request whose id is its own can be answered all the time it waits.
THEOREM AgentAnswerable == Spec => []GateP!Answerable
  BY AgentUsesGate, Assumptions, GateP!GateAnswerable, PTL

\* The two instances of IncidentStore, with its proofs and without, have the same steps.
LEMMA SameStoreSteps == [Store!Next]_(Store!vars) => [StoreP!Next]_(StoreP!vars)
  <1>1. StoreP!NextIncidentId = Store!NextIncidentId
    BY Zenon DEF StoreP!NextIncidentId, Store!NextIncidentId, StoreP!CreatedIn,
                 Store!CreatedIn, Store!Cardinality, StoreP!Cardinality
  <1>2. ASSUME Store!Allocate PROVE StoreP!Next
    BY <1>1, <1>2 DEF Store!Allocate, StoreP!Allocate, StoreP!Next
  <1>3. ASSUME Store!SaveAny PROVE StoreP!Next
    BY <1>3 DEF Store!SaveAny, StoreP!SaveAny, StoreP!Next, Store!SaveIncident,
                StoreP!SaveIncident, Store!PriorOutcome, StoreP!PriorOutcome, Store!Outcome,
                StoreP!Outcome, Store!NoOutcome, StoreP!NoOutcome, Store!NotDecided,
                StoreP!NotDecided
  <1>4. ASSUME Store!MarkAny PROVE StoreP!Next
    BY <1>4 DEF Store!MarkAny, StoreP!MarkAny, StoreP!Next, Store!MarkResolved,
                StoreP!MarkResolved, Store!Decisions, StoreP!Decisions
  <1>5. ASSUME Store!NewYear PROVE StoreP!Next
    BY <1>5 DEF Store!NewYear, StoreP!NewYear, StoreP!Next
  <1>6. ASSUME UNCHANGED Store!vars PROVE UNCHANGED StoreP!vars
    BY <1>6 DEF Store!vars, StoreP!vars
  <1>. QED BY <1>2, <1>3, <1>4, <1>5, <1>6 DEF Store!Next

\* The same with the initial table: what is proved of IncidentStore holds inside the agent.
LEMMA AgentRunsStore == Spec => StoreP!Spec
  <1>1. Store!Init => StoreP!Init
    BY DEF Store!Init, StoreP!Init
  <1>. QED BY <1>1, SameStoreSteps, AgentUsesStore, PTL DEF UsesStore, Store!Spec, StoreP!Spec

\* Inside the agent, too, replacing a row keeps the outcome recorded in it ...
THEOREM AgentSaveKeepsOutcome == Spec => StoreP!SaveKeepsOutcome
  BY AgentRunsStore, Assumptions, StoreP!StoreSaveKeepsOutcome, PTL

\* ... and history suggests the fix of the latest resolved row of a type.
THEOREM AgentSuggestsLatest == Spec => []StoreP!SuggestsLatest
  BY AgentRunsStore, Assumptions, StoreP!StoreSuggestsLatest, PTL
-----------------------------------------------------------------------------
(***************************************************************************)
(* How far "Every incident is persisted" goes: what is lost is lost by a   *)
(* shared id, and an id is shared only with an incident not yet saved.     *)
(***************************************************************************)
\* An incident whose id is its own has, from its save on, a row that tells of it.
OwnIdPersisted ==
    \A t \in Tasks : pc[t] \in Saved /\ Gate!Unshared(t) =>
        id[t] \in DOMAIN rows /\ rows[id[t]].content = t

THEOREM AgentOwnIdPersisted == Spec => []OwnIdPersisted
  <1>1. IInv /\ RowTellsOutcome => OwnIdPersisted
    BY DEF IInv, Progressed, RowTellsOutcome, OwnIdPersisted
  <1>. QED BY <1>1, AgentInvariant, AgentRowTellsOutcome, PTL

\* next_incident_id gives an alert the id of another one only while that one's session has
\* not been saved: alerts handled one after the other do not meet, unless the first one
\* failed before its save.
SharesOnlyUnsaved ==
    [][\A t, u \in Tasks : id'[t] # id[t] /\ u # t /\ id[u] = id'[t] => pc[u] \notin Saved]_vars

THEOREM AgentSharesOnlyUnsaved == Spec => SharesOnlyUnsaved
  <1>1. ASSUME IInv, [Next]_vars, NEW t \in Tasks, NEW u \in Tasks,
               id'[t] # id[t], u # t, id[u] = id'[t], pc[u] \in Saved
        PROVE  FALSE
    <2>1. id'[t] \notin DOMAIN rows
      <3>1. id \in [Tasks -> Store!Ids \cup {NoId}]
        BY <1>1 DEF IInv, GateP!IInv, GateP!TypeOK
      <3>. QED BY <1>1, <3>1, IdStep
    <2>2. id[u] \in DOMAIN rows
      BY <1>1 DEF IInv, Progressed
    <2>. QED BY <1>1, <2>1, <2>2
  <1>2. IInv /\ [Next]_vars =>
          [\A t, u \in Tasks : id'[t] # id[t] /\ u # t /\ id[u] = id'[t] => pc[u] \notin Saved]_vars
    BY <1>1
  <1>. QED BY <1>2, AgentInvariant, PTL DEF Spec, SharesOnlyUnsaved
-----------------------------------------------------------------------------
(***************************************************************************)
(* What history suggests was approved by a human.                          *)
(***************************************************************************)
\* A recorded fix has behind it a closed task that worked under the row's id.
BackerOf(t, i) ==
    /\ id[t] = i /\ pc[t] = "closed" /\ Gate!Approved(t)
    /\ inc[t].plan = rows[i].fix /\ inc[t].resolved = rows[i].resolved

FixesBacked == \A i \in DOMAIN rows : rows[i].fix # NoFix => \E t \in Tasks : BackerOf(t, i)

\* A row has its type from the task it tells of.
RowsTyped == \A i \in DOMAIN rows : rows[i].type = inc[rows[i].content].type

\* classify is called once: an alert's type stays.
LEMMA TypeStays ==
    ASSUME IInv, [Next]_vars, NEW t \in Tasks PROVE inc'[t].type = inc[t].type
  <1>. USE DEF IInv, OwnTypes, Locals
  <1>1. ASSUME NEW u \in Tasks, SaveSession(u) PROVE inc'[t].type = inc[t].type
    <2>1. PICK plan \in Plans : inc' = [inc EXCEPT ![u].plan = plan]
      BY <1>1 DEF SaveSession
    <2>. QED BY <2>1
  <1>2. ASSUME NEW u \in Tasks, RunKubectl(u) PROVE inc'[t].type = inc[t].type
    <2>1. PICK a \in {"OK", "FAILED"} : inc' = [inc EXCEPT ![u].applied = a]
      BY <1>2 DEF RunKubectl
    <2>. QED BY <2>1
  <1>3. ASSUME NEW u \in Tasks, Verify(u) PROVE inc'[t].type = inc[t].type
    <2>1. PICK r \in BOOLEAN, q \in BOOLEAN :
            inc' = [inc EXCEPT ![u].resolved = r, ![u].quiet = q]
      BY <1>3, VerifyLooks
    <2>. QED BY <2>1
  <1>4. ASSUME NEW u \in Tasks, ApplyManual(u) PROVE inc'[t].type = inc[t].type
    BY <1>4 DEF ApplyManual
  <1>5. ASSUME NEW u \in Tasks,
               \/ OpenIncident(u) \/ Diagnose(u) \/ ValidateFix(u) \/ AwaitApproval(u)
               \/ Approve(u) \/ Refuse(u) \/ AuditWrite(u) \/ OpenFixPR(u) \/ CloseApproved(u)
               \/ Raise(u)
        PROVE  inc' = inc
    BY <1>5 DEF OpenIncident, Diagnose, ValidateFix, AwaitApproval, Approve, Refuse, AuditWrite,
                OpenFixPR, CloseApproved, Raise, ownVars
  <1>6. CASE \/ \E i \in PostIds, text \in Gate!Texts : Answer(i, text)
             \/ Restart \/ NewYear \/ UNCHANGED vars
    BY <1>6 DEF Answer, Restart, NewYear, vars, ownVars
  <1>. QED BY <1>1, <1>2, <1>3, <1>4, <1>5, <1>6 DEF Next, TaskStep

\* A task that is closed stays behind what it recorded, as long as the row has that.
LEMMA BackerStays ==
    ASSUME IInv, RInv, [Next]_vars, NEW t \in Tasks, NEW i, BackerOf(t, i),
           rows'[i].fix = rows[i].fix, rows'[i].resolved = rows[i].resolved
    PROVE  BackerOf(t, i)'
  <1>1. /\ id'[t] = id[t]
        /\ Gate!Approved(t)' <=> Gate!Approved(t)
    BY VerdictKept DEF BackerOf, Gate!Approved
  <1>2. pc'[t] = "closed" /\ inc'[t] = inc[t]
    BY TaskKeeps DEF BackerOf, Keeps
  <1>. QED BY <1>1, <1>2 DEF BackerOf

\* A recorded fix keeps a closed task behind it, and a row the type of its task.
LEMMA HistoryKept ==
    IInv /\ RInv /\ FixesBacked /\ RowsTyped /\ [Next]_vars => FixesBacked' /\ RowsTyped'
  <1>. SUFFICES ASSUME IInv, RInv, FixesBacked, RowsTyped, [Next]_vars
                PROVE  FixesBacked' /\ RowsTyped'
    OBVIOUS
  <1>0. \A i \in DOMAIN rows : rows[i] \in StoreP!Row /\ rows[i].content \in Tasks
    BY DEF IInv, StoreP!IInv, StoreP!TypeOK, StoreP!Row
  <1>1. CASE RowsRest
    BY <1>0, <1>1, BackerStays, TypeStays DEF RowsRest, FixesBacked, RowsTyped
  <1>2. ASSUME NEW u \in Tasks, SaveSession(u) PROVE FixesBacked' /\ RowsTyped'
    <2>1. /\ DOMAIN rows' = DOMAIN rows \cup {id[u]}
          /\ \A j \in DOMAIN rows \ {id[u]} : rows'[j] = rows[j]
          /\ rows'[id[u]].type = inc[u].type /\ rows'[id[u]].content = u
          /\ rows'[id[u]].fix = Store!PriorOutcome(id[u]).fix
          /\ rows'[id[u]].resolved = Store!PriorOutcome(id[u]).resolved
      BY <1>2 DEF SaveSession, Store!SaveIncident
    <2>2. \A j \in DOMAIN rows : rows'[j].fix = rows[j].fix /\ rows'[j].resolved = rows[j].resolved
      BY <2>1 DEF Store!PriorOutcome, Store!Outcome
    <2>3. id[u] \notin DOMAIN rows => rows'[id[u]].fix = NoFix
      BY <2>1 DEF Store!PriorOutcome, Store!NoOutcome
    <2>4. FixesBacked'
      BY <2>1, <2>2, <2>3, BackerStays DEF FixesBacked
    <2>5. RowsTyped'
      BY <1>0, <2>1, TypeStays DEF RowsTyped
    <2>. QED BY <2>4, <2>5
  <1>3. ASSUME NEW u \in Tasks, NEW i, NEW f, NEW d, NEW r, Store!MarkResolved(i, f, d, r),
               f = NoFix \/ (i \in DOMAIN rows => BackerOf(u, i)')
        PROVE  FixesBacked' /\ RowsTyped'
    <2>1. DOMAIN rows' = DOMAIN rows /\ \A j \in DOMAIN rows \ {i} : rows'[j] = rows[j]
      BY <1>3 DEF Store!MarkResolved
    <2>2. i \in DOMAIN rows => /\ rows'[i].fix = f
                               /\ rows'[i].type = rows[i].type
                               /\ rows'[i].content = rows[i].content
      BY <1>0, <1>3 DEF Store!MarkResolved, StoreP!Row
    <2>3. FixesBacked'
      BY <1>3, <2>1, <2>2, BackerStays DEF FixesBacked
    <2>4. RowsTyped'
      BY <1>0, <2>1, <2>2, TypeStays DEF RowsTyped
    <2>. QED BY <2>3, <2>4
  <1>4. ASSUME NEW u \in Tasks, CloseApproved(u) PROVE FixesBacked' /\ RowsTyped'
    <2>. PICK i : i = id[u]
      OBVIOUS
    <2>. PICK f, d, r : f = inc[u].plan /\ d = Verdict(u) /\ r = inc[u].resolved
      OBVIOUS
    <2>1. Store!MarkResolved(i, f, d, r)
      BY <1>4 DEF CloseApproved
    <2>2. pc'[u] = "closed" /\ inc' = inc /\ Gate!Approved(u)' /\ id'[u] = i
      <3>1. pc[u] = "closing" /\ inc' = inc /\ pc'[u] = "closed"
        BY <1>4 DEF CloseApproved, Step, IInv, OwnTypes
      <3>2. Gate!Approved(u)
        BY <3>1 DEF IInv, Progressed, Consented
      <3>. QED BY <3>1, <3>2, ApprovalKept
    <2>3. i \in DOMAIN rows => rows'[i].fix = f /\ rows'[i].resolved = r
      BY <1>0, <2>1 DEF Store!MarkResolved, StoreP!Row
    <2>4. i \in DOMAIN rows => BackerOf(u, i)'
      BY <2>2, <2>3 DEF BackerOf
    <2>. QED BY <1>3, <2>1, <2>4
  <1>5. ASSUME NEW u \in Tasks, Store!MarkResolved(id[u], NoFix, Verdict(u), FALSE)
        PROVE  FixesBacked' /\ RowsTyped'
    <2>. PICK i, d : i = id[u] /\ d = Verdict(u)
      OBVIOUS
    <2>1. Store!MarkResolved(i, NoFix, d, FALSE)
      BY <1>5
    <2>. QED BY <1>3, <2>1
  <1>. QED BY <1>1, <1>2, <1>4, <1>5, RowsStep

\* suggest_from_history: a fix it suggests was approved by a human and recorded as resolved,
\* under an id that an incident of the type has, too.
THEOREM AgentSuggestedFixWasApproved == Spec => []SuggestedFixWasApproved
  <1>1. Init => FixesBacked /\ RowsTyped
    BY DEF Init, Store!Init, FixesBacked, RowsTyped
  <1>2. IInv /\ RInv /\ FixesBacked /\ RowsTyped /\ [Next]_vars =>
            FixesBacked' /\ RowsTyped'
    BY HistoryKept
  <1>3. Spec => []RInv
    BY InitRInv, NextRInv, AgentInvariant, PTL DEF Spec
  <1>4. ASSUME IInv, RInv, FixesBacked, RowsTyped, StoreP!SuggestsLatest
        PROVE  SuggestedFixWasApproved
    <2>. SUFFICES ASSUME NEW ty \in Types, Store!SuggestFromHistory(ty, 50) # NoFix
                  PROVE  \E t, u \in Tasks :
                           /\ pc[t] = "closed" /\ Gate!Approved(t)
                           /\ inc[t].plan = Store!SuggestFromHistory(ty, 50) /\ inc[t].resolved
                           /\ inc[u].type = ty /\ id[u] = id[t]
      BY DEF SuggestedFixWasApproved
    <2>1. StoreP!SuggestFromHistory(ty, 50) = Store!SuggestFromHistory(ty, 50)
      BY Zenon DEF StoreP!SuggestFromHistory, Store!SuggestFromHistory, StoreP!GetRecent,
                   Store!GetRecent, StoreP!Newer, Store!Newer, Store!Cardinality,
                   StoreP!Cardinality
    <2>2. PICK i \in StoreP!GetRecent(50) :
            /\ rows[i].type = ty /\ rows[i].resolved
            /\ rows[i].fix = Store!SuggestFromHistory(ty, 50)
      BY <1>4, <2>1 DEF StoreP!SuggestsLatest, StoreP!Resolved
    <2>3. i \in DOMAIN rows /\ rows[i].content \in Tasks
      BY <1>4 DEF StoreP!GetRecent, IInv, StoreP!IInv, StoreP!TypeOK, StoreP!Row
    <2>4. PICK t \in Tasks : BackerOf(t, i)
      BY <1>4, <2>2, <2>3 DEF FixesBacked
    <2>5. inc[rows[i].content].type = ty /\ id[rows[i].content] = i
      BY <1>4, <2>2, <2>3 DEF RowsTyped, RInv, RowsOwned
    <2>. QED BY <2>2, <2>3, <2>4, <2>5 DEF BackerOf
  <1>. QED BY <1>1, <1>2, <1>3, <1>4, AgentInvariant, AgentSuggestsLatest, PTL DEF Spec

\* How far "a known-good fix" goes: a suggested fix did work if no incident was recorded as
\* resolved without an applied fix and a quiet alert, and none shares its id.
SuggestedWorksUnlessMisled ==
    /\ \A t \in Tasks : pc[t] = "closed" /\ inc[t].resolved => inc[t].applied = "OK" /\ inc[t].quiet
    /\ \A t \in Tasks : pc[t] = "closed" => Gate!Unshared(t)
    => SuggestedFixWorked

THEOREM AgentSuggestedWorksUnlessMisled == Spec => []SuggestedWorksUnlessMisled
  <1>1. SuggestedFixWasApproved => SuggestedWorksUnlessMisled
    BY DEF SuggestedFixWasApproved, SuggestedWorksUnlessMisled, SuggestedFixWorked, Gate!Unshared
  <1>. QED BY <1>1, AgentSuggestedFixWasApproved, PTL
-----------------------------------------------------------------------------
(***************************************************************************)
(* Refinement: every step of the agent is one of the IncidentPromise or    *)
(* invisible.                                                              *)
(***************************************************************************)
Status == [t \in Tasks |-> PromiseStatus(t)]
By == [t \in Tasks |-> IF Gate!Approved(t) THEN answer[t] ELSE 0]
Posts == [k \in DOMAIN said |-> said[k].decision]
Alarmed == {t \in Tasks : alarms[t] > 0}

\* A request that is under way belongs to a task that waits for it.
Asking == {"posting", "waiting", "answered", "timedout", "cancelled"}
AskingWaits == \A t \in Tasks : stage[t] \in Asking => pc[t] = "approving"

LEMMA AskingWaitsKept == IInv /\ AskingWaits /\ [Next]_vars => AskingWaits'
  <1>. SUFFICES ASSUME IInv, AskingWaits, [Next]_vars, NEW t \in Tasks, stage'[t] \in Asking
                PROVE  pc'[t] = "approving"
    BY DEF AskingWaits
  <1>. USE DEF IInv, OwnTypes, AskingWaits, Asking, Step, GateP!IInv, GateP!TypeOK, Gate!Move
  <1>1. ASSUME NEW u \in Tasks, OpenIncident(u) PROVE pc'[t] = "approving"
    BY <1>1 DEF OpenIncident, Gate!Open
  <1>2. ASSUME NEW u \in Tasks, ValidateFix(u) PROVE pc'[t] = "approving"
    BY <1>2 DEF ValidateFix, Gate!PostCard
  <1>3. ASSUME NEW u \in Tasks, AwaitApproval(u) PROVE pc'[t] = "approving"
    BY <1>3 DEF AwaitApproval, ownVars, Gate!Progress, Gate!TakeEarly, Gate!Register, Gate!Wake,
                Gate!Timer, Gate!Cancel, Gate!Expire
  <1>4. ASSUME NEW i, NEW text, Answer(i, text) PROVE pc'[t] = "approving"
    BY <1>4 DEF Answer, ownVars, Gate!Submit
  <1>5. ASSUME NEW u \in Tasks, Approve(u) \/ Refuse(u) PROVE pc'[t] = "approving"
    BY <1>5 DEF Approve, Refuse, gateVars, Gate!Approved
  <1>6. ASSUME NEW u \in Tasks,
               \/ SaveSession(u) \/ Diagnose(u) \/ ApplyManual(u) \/ AuditWrite(u)
               \/ RunKubectl(u) \/ Verify(u) \/ OpenFixPR(u) \/ CloseApproved(u) \/ Raise(u)
        PROVE  pc'[t] = "approving"
    BY <1>6 DEF SaveSession, Diagnose, ApplyManual, AuditWrite, RunKubectl, Verify, OpenFixPR,
                CloseApproved, Raise, gateVars
  <1>7. CASE Restart
    BY <1>7 DEF Restart, Gate!Restart, Gate!Ended, GateP!Stages
  <1>8. CASE NewYear \/ UNCHANGED vars
    BY <1>8 DEF NewYear, vars, ownVars, gateVars
  <1>. QED BY <1>1, <1>2, <1>3, <1>4, <1>5, <1>6, <1>7, <1>8 DEF Next, TaskStep

\* A step that decides no request leaves the approvals as they are.
LEMMA NothingDecided ==
    ASSUME IInv, [Next]_vars, \A t \in Tasks : stage'[t] = "decided" => stage[t] = "decided"
    PROVE  By' = By /\ \A t \in Tasks : Gate!Approved(t)' <=> Gate!Approved(t)
  <1>1. ASSUME NEW t \in Tasks
        PROVE  /\ Gate!Approved(t)' <=> Gate!Approved(t)
               /\ Gate!Approved(t) => answer'[t] = answer[t]
    BY VerdictKept, ApprovalKept DEF Gate!Approved
  <1>. QED BY <1>1 DEF By

\* The steps outside the gate.
LEMMA OutsideGate ==
    ASSUME IInv, [Next]_vars, UNCHANGED gateVars
    PROVE  /\ By' = By /\ Posts' = Posts
           /\ \A t \in Tasks : Gate!Approved(t)' <=> Gate!Approved(t)
  BY NothingDecided DEF gateVars, Posts

\* Work on an incident that the promise does not see.
LEMMA WorkIsHidden ==
    ASSUME IInv, [Next]_vars, NEW t \in Tasks,
           SaveSession(t) \/ Diagnose(t) \/ Approve(t) \/ Verify(t) \/ OpenFixPR(t)
    PROVE  UNCHANGED Promise!vars
  <1>. USE DEF SaveSession, Diagnose, Approve, Verify, OpenFixPR, Step
  <1>1. By' = By /\ Posts' = Posts /\ \A u \in Tasks : Gate!Approved(u)' <=> Gate!Approved(u)
    BY OutsideGate
  <1>2. Status' = Status
    BY <1>1 DEF Status, PromiseStatus, IInv, OwnTypes
  <1>3. Alarmed' = Alarmed /\ audited' = audited /\ touched' = touched
    BY DEF Alarmed
  <1>. QED BY <1>1, <1>2, <1>3 DEF Promise!vars, Status, By, Posts, Alarmed

\* The audit record, and the write.
LEMMA AuditIsRecord ==
    ASSUME IInv, [Next]_vars, NEW t \in Tasks, ApplyManual(t) \/ AuditWrite(t)
    PROVE  Promise!Record(t)
  <1>. USE DEF ApplyManual, AuditWrite, Step
  <1>1. By' = By /\ Posts' = Posts /\ \A u \in Tasks : Gate!Approved(u)' <=> Gate!Approved(u)
    BY OutsideGate
  <1>2. Status' = Status /\ Status[t] = "approved"
    BY <1>1 DEF Status, PromiseStatus, IInv, OwnTypes, Progressed, Consented
  <1>3. Alarmed' = Alarmed /\ audited' = audited \cup {t} /\ touched' = touched
    BY DEF Alarmed
  <1>. QED BY <1>1, <1>2, <1>3 DEF Promise!Record, Status, By, Posts, Alarmed

LEMMA KubectlIsChange ==
    ASSUME IInv, [Next]_vars, NEW t \in Tasks, RunKubectl(t)
    PROVE  Promise!Change(t) \/ UNCHANGED Promise!vars
  <1>. USE DEF RunKubectl, Step
  <1>1. By' = By /\ Posts' = Posts /\ \A u \in Tasks : Gate!Approved(u)' <=> Gate!Approved(u)
    BY OutsideGate
  <1>2. Status' = Status /\ Status[t] = "approved" /\ t \in audited
    BY <1>1 DEF Status, PromiseStatus, IInv, OwnTypes, Progressed, Consented
  <1>3. Alarmed' = Alarmed /\ audited' = audited /\ touched' \in {touched, touched \cup {t}}
    BY DEF Alarmed
  <1>. QED BY <1>1, <1>2, <1>3 DEF Promise!Change, Promise!vars, Status, By, Posts, Alarmed

\* The three ways an incident ends.
LEMMA CloseIsClose ==
    ASSUME IInv, [Next]_vars, NEW t \in Tasks, CloseApproved(t)
    PROVE  Promise!Close(t)
  <1>. USE DEF CloseApproved, Step
  <1>1. By' = By /\ Posts' = Posts /\ \A u \in Tasks : Gate!Approved(u)' <=> Gate!Approved(u)
    BY OutsideGate
  <1>2. Status[t] = "approved" /\ Status' = [Status EXCEPT ![t] = "done"]
    BY <1>1 DEF Status, PromiseStatus, IInv, OwnTypes, Progressed, Consented
  <1>3. Alarmed' = Alarmed /\ audited' = audited /\ touched' = touched
    BY DEF Alarmed
  <1>. QED BY <1>1, <1>2, <1>3 DEF Promise!Close, Promise!Turn, Status, By, Posts, Alarmed

LEMMA RefuseIsRefuse ==
    ASSUME IInv, [Next]_vars, NEW t \in Tasks, Refuse(t)
    PROVE  Promise!Refuse(t)
  <1>. USE DEF Step
  <1>0. /\ ~Gate!Approved(t) /\ UNCHANGED gateVars /\ pc[t] = "approving"
        /\ \E to \in {"closed", "failed"} : pc' = [pc EXCEPT ![t] = to]
        /\ audited' = audited /\ touched' = touched
    BY DEF Refuse
  <1>1. By' = By /\ Posts' = Posts /\ \A u \in Tasks : Gate!Approved(u)' <=> Gate!Approved(u)
    BY <1>0, OutsideGate
  <1>2. Status[t] = "open" /\ \E end \in {"refused", "gone"} : Status' = [Status EXCEPT ![t] = end]
    <2>1. Status[t] = "open"
      BY <1>0 DEF Status, PromiseStatus
    <2>2. CASE pc' = [pc EXCEPT ![t] = "closed"]
      <3>1. Status' = [Status EXCEPT ![t] = "refused"]
        BY <1>0, <1>1, <2>2 DEF Status, PromiseStatus, IInv, OwnTypes
      <3>. QED BY <2>1, <3>1
    <2>3. CASE pc' = [pc EXCEPT ![t] = "failed"]
      <3>1. Status' = [Status EXCEPT ![t] = "gone"]
        BY <1>0, <1>1, <2>3 DEF Status, PromiseStatus, IInv, OwnTypes
      <3>. QED BY <2>1, <3>1
    <2>. QED BY <1>0, <2>2, <2>3
  <1>3. Alarmed' = Alarmed \cup {t}
    <2>1. PICK n \in {1, 2} : alarms' = [alarms EXCEPT ![t] = n]
      BY DEF Refuse
    <2>2. alarms'[t] > 0 /\ \A u \in Tasks \ {t} : alarms'[u] = alarms[u]
      BY <2>1 DEF IInv, OwnTypes
    <2>. QED BY <2>2 DEF Alarmed
  <1>. QED BY <1>0, <1>1, <1>2, <1>3
           DEF Promise!Refuse, Promise!Turn, Status, By, Posts, Alarmed

LEMMA RaiseIsFail ==
    ASSUME IInv, [Next]_vars, NEW t \in Tasks, Raise(t)
    PROVE  Promise!Fail(t)
  <1>. USE DEF Raise
  <1>1. By' = By /\ Posts' = Posts /\ \A u \in Tasks : Gate!Approved(u)' <=> Gate!Approved(u)
    BY OutsideGate
  <1>2. Status[t] \in {"open", "approved"} /\ Status' = [Status EXCEPT ![t] = "gone"]
    BY <1>1 DEF Status, PromiseStatus, IInv, OwnTypes
  <1>3. Alarmed' = Alarmed /\ audited' = audited
    BY DEF Alarmed
  <1>4. \/ touched' = touched
        \/ Status[t] = "approved" /\ t \in audited /\ touched' = touched \cup {t}
    BY DEF Status, PromiseStatus, IInv, Progressed, Consented
  <1>. QED BY <1>1, <1>2, <1>3, <1>4 DEF Promise!Fail, Promise!Turn, Status, By, Posts, Alarmed

\* An alert arrives.
LEMMA OpenIsOpen ==
    ASSUME IInv, [Next]_vars, NEW t \in Tasks, OpenIncident(t)
    PROVE  Promise!Open(t)
  <1>. USE DEF IInv, OwnTypes, GateP!IInv, GateP!TypeOK, OpenIncident, Gate!Open, Gate!Move, Step
  <1>1. By' = By /\ \A u \in Tasks : Gate!Approved(u)' <=> Gate!Approved(u)
    BY NothingDecided
  <1>2. ~Gate!Approved(t)
    BY DEF Gate!Approved
  <1>3. Status[t] = "none" /\ Status' = [Status EXCEPT ![t] = "open"]
    BY <1>1, <1>2 DEF Status, PromiseStatus
  <1>4. Alarmed' = Alarmed /\ audited' = audited /\ touched' = touched /\ Posts' = Posts
    BY DEF Alarmed, Posts
  <1>. QED BY <1>1, <1>3, <1>4 DEF Promise!Open, Promise!Turn, Status, By, Posts, Alarmed

\* The gate at work, up to the decision and after a timeout.
LEMMA WaitIsHidden ==
    ASSUME IInv, [Next]_vars, NEW t \in Tasks,
           \/ ValidateFix(t)
           \/ AwaitApproval(t) /\ (Gate!Register(t) \/ Gate!Timer(t) \/ Gate!Cancel(t) \/ Gate!Expire(t))
    PROVE  UNCHANGED Promise!vars
  <1>. USE DEF IInv, OwnTypes, GateP!IInv, GateP!TypeOK, Gate!Move, Step
  <1>0. /\ said' = said /\ alarms' = alarms /\ audited' = audited /\ touched' = touched
        /\ pc' = pc \/ (pc[t] = "validating" /\ pc' = [pc EXCEPT ![t] = "approving"])
        /\ \A u \in Tasks : stage'[u] = "decided" => stage[u] = "decided"
    BY DEF ValidateFix, AwaitApproval, ownVars, Gate!PostCard, Gate!Register, Gate!Timer,
           Gate!Cancel, Gate!Expire
  <1>1. By' = By /\ \A u \in Tasks : Gate!Approved(u)' <=> Gate!Approved(u)
    BY <1>0, NothingDecided
  <1>2. Status' = Status
    BY <1>0, <1>1 DEF Status, PromiseStatus
  <1>3. Alarmed' = Alarmed /\ Posts' = Posts
    BY <1>0 DEF Alarmed, Posts
  <1>. QED BY <1>0, <1>1, <1>2, <1>3 DEF Promise!vars, Status, By, Posts, Alarmed

\* The request comes out with a decision: an approval nobody else has, or a refusal to come.
LEMMA DecisionIsApprove ==
    ASSUME IInv, AskingWaits, [Next]_vars, NEW t \in Tasks, AwaitApproval(t),
           Gate!TakeEarly(t) \/ Gate!Wake(t)
    PROVE  (\E k \in DOMAIN Posts : Promise!Approve(t, k)) \/ UNCHANGED Promise!vars
  <1>. USE DEF IInv, GateP!IInv, GateP!TypeOK, Gate!Move
  <1>. PICK k : k = answer'[t]
    OBVIOUS
  <1>1. /\ said' = said /\ stage[t] \in {"posting", "answered"}
        /\ stage' = [stage EXCEPT ![t] = "decided"]
        /\ \A u \in Tasks \ {t} : answer'[u] = answer[u]
        /\ UNCHANGED ownVars
    BY DEF AwaitApproval, Gate!TakeEarly, Gate!Wake
  <1>2. k \in 1..Len(said) /\ k # 0 /\ \A u \in Tasks \ {t} : answer[u] # k
    <2>1. CASE Gate!TakeEarly(t)
      BY <2>1 DEF Gate!TakeEarly, GateP!SingleUse
    <2>2. CASE Gate!Wake(t)
      BY <2>2 DEF Gate!Wake, GateP!SingleUse, GateP!StageData
    <2>. QED BY <2>1, <2>2
  <1>3. pc[t] = "approving" /\ pc' = pc
    BY <1>1 DEF AskingWaits, Asking, ownVars
  <1>4. /\ ~Gate!Approved(t) /\ (Gate!Approved(t)' <=> said[k].decision = "APPROVED")
        /\ \A u \in Tasks \ {t} : Gate!Approved(u)' <=> Gate!Approved(u)
    BY <1>1 DEF Gate!Approved
  <1>5. Alarmed' = Alarmed /\ audited' = audited /\ touched' = touched /\ Posts' = Posts
    BY <1>1 DEF ownVars, Alarmed, Posts
  <1>6. CASE said[k].decision = "APPROVED"
    <2>1. Status[t] = "open" /\ Status' = [Status EXCEPT ![t] = "approved"]
      BY <1>3, <1>4, <1>6 DEF Status, PromiseStatus
    <2>2. By' = [By EXCEPT ![t] = k] /\ \A u \in Tasks : By[u] # k
      BY <1>1, <1>2, <1>4, <1>6 DEF By
    <2>3. k \in DOMAIN Posts /\ Posts[k] = "APPROVED"
      BY <1>2, <1>6 DEF Posts
    <2>4. Promise!Approve(t, k)
      BY <1>5, <2>1, <2>2, <2>3
         DEF Promise!Approve, Promise!Turn, Status, By, Posts, Alarmed
    <2>. QED BY <2>3, <2>4
  <1>7. CASE said[k].decision # "APPROVED"
    <2>1. Status' = Status /\ By' = By
      BY <1>1, <1>3, <1>4, <1>7 DEF Status, PromiseStatus, By
    <2>. QED BY <1>5, <2>1 DEF Promise!vars, Status, By, Posts, Alarmed
  <1>. QED BY <1>6, <1>7

\* A human answers.
LEMMA AnswerIsSay ==
    ASSUME IInv, [Next]_vars, NEW i \in PostIds, NEW text \in Gate!Texts, Answer(i, text)
    PROVE  \E d \in Gate!Decisions : Promise!Say(d)
  <1>. DEFINE d == Gate!Parse(text)
              s == [id |-> i, decision |-> d, cards |-> Gate!CardsOf(i)]
  <1>. USE DEF IInv, GateP!IInv, GateP!TypeOK
  <1>0. d \in Gate!Decisions /\ i \in Store!Ids
    BY OrchestratorAssumption DEF Gate!Parse, Gate!Decisions, Store!Ids
  <1>1. said' = Append(said, s) /\ UNCHANGED ownVars
    BY DEF Answer, Gate!Submit
  <1>2. s \in GateP!Submission
    BY <1>0 DEF GateP!Submission, GateP!Decisions, Gate!Decisions, Gate!CardsOf
  <1>3. /\ said' \in Seq(GateP!Submission) /\ Len(said) \in Nat /\ Len(said') = Len(said) + 1
        /\ \A k \in 1..Len(said) : said'[k] = said[k]
        /\ said'[Len(said) + 1] = s
    BY <1>1, <1>2, Assumptions, GateP!SaidGrows
  <1>4. Posts' = Append(Posts, d)
    <2>1. Posts \in Seq(Gate!Decisions) /\ Len(Posts) = Len(said)
      <3>1. \A k \in 1..Len(said) : said[k] \in GateP!Submission /\ DOMAIN said = 1..Len(said)
        OBVIOUS
      <3>2. Posts \in [1..Len(said) -> Gate!Decisions]
        BY <3>1 DEF Posts, GateP!Submission, GateP!Decisions, Gate!Decisions
      <3>. QED BY <1>3, <3>2, Assumptions, GateP!FunctionIsSeq
    <2>2. Posts' \in Seq(Gate!Decisions) /\ Len(Posts') = Len(said) + 1
      <3>1. /\ DOMAIN said' = 1..(Len(said) + 1) /\ Len(said) + 1 \in Nat
            /\ \A k \in 1..(Len(said) + 1) : said'[k] \in GateP!Submission
        BY <1>3
      <3>2. Posts' \in [1..(Len(said) + 1) -> Gate!Decisions]
        BY <3>1 DEF Posts, GateP!Submission, GateP!Decisions, Gate!Decisions
      <3>. QED BY <3>1, <3>2, Assumptions, GateP!FunctionIsSeq
    <2>3. \A k \in 1..Len(said) : Posts'[k] = Posts[k]
      BY <1>3 DEF Posts
    <2>4. Posts'[Len(said) + 1] = d
      BY <1>3 DEF Posts
    <2>. QED BY <1>0, <1>3, <2>1, <2>2, <2>3, <2>4
  <1>5. \A t \in Tasks : stage'[t] = "decided" => stage[t] = "decided"
    BY DEF Answer, Gate!Submit
  <1>6. By' = By /\ \A t \in Tasks : Gate!Approved(t)' <=> Gate!Approved(t)
    BY <1>5, NothingDecided
  <1>7. Status' = Status /\ Alarmed' = Alarmed /\ audited' = audited /\ touched' = touched
    BY <1>1, <1>6 DEF Status, PromiseStatus, Alarmed, ownVars
  <1>8. Promise!Say(d)
    BY <1>4, <1>6, <1>7 DEF Promise!Say, Status, By, Posts, Alarmed
  <1>. QED BY <1>0, <1>8

\* The process stops.
LEMMA RestartIsStop == ASSUME IInv, [Next]_vars, Restart PROVE Promise!Stop
  <1>. USE DEF IInv, OwnTypes, GateP!IInv, GateP!TypeOK, Restart, Gate!Restart
  <1>1. \A t \in Tasks : stage'[t] = "decided" => stage[t] = "decided"
    BY DEF Gate!Ended
  <1>2. By' = By /\ \A t \in Tasks : Gate!Approved(t)' <=> Gate!Approved(t)
    BY <1>1, NothingDecided
  <1>3. \A t \in Tasks :
          PromiseStatus(t)' = IF Status[t] \in {"open", "approved"} THEN "gone" ELSE Status[t]
    BY <1>2 DEF Status, PromiseStatus, Finished, PCs
  <1>4. Alarmed' = Alarmed /\ audited' = audited /\ touched' = touched /\ Posts' = Posts
    BY DEF Alarmed, Posts
  <1>. QED BY <1>2, <1>3, <1>4 DEF Promise!Stop, Status, By, Posts, Alarmed

\* handle_alert keeps the IncidentPromise: production changes only under an approval of the
\* incident's own, while it is under way and after the audit record, and a refusal alarms.
THEOREM AgentKeepsIncidentPromise == Spec => KeepsIncidentPromise
  <1>1. Init => Promise!Init /\ AskingWaits
    <2>. SUFFICES ASSUME Init PROVE Promise!Init /\ AskingWaits
      OBVIOUS
    <2>1. By = [t \in Tasks |-> 0] /\ Posts = << >> /\ Status = [t \in Tasks |-> "none"]
      BY DEF Init, Gate!Init, By, Posts, Status, PromiseStatus, Gate!Approved
    <2>2. Alarmed = {} /\ AskingWaits
      BY DEF Init, Gate!Init, Alarmed, AskingWaits, Asking
    <2>. QED BY <2>1, <2>2 DEF Init, Promise!Init, By, Posts, Status, Alarmed
  <1>2. IInv /\ AskingWaits /\ [Next]_vars => [Promise!Next]_(Promise!vars)
    <2>. SUFFICES ASSUME IInv, AskingWaits, [Next]_vars
                  PROVE  Promise!Next \/ UNCHANGED Promise!vars
      OBVIOUS
    <2>1. CASE \E t \in Tasks :
                 SaveSession(t) \/ Diagnose(t) \/ Approve(t) \/ Verify(t) \/ OpenFixPR(t)
      BY <2>1, WorkIsHidden
    <2>2. CASE \E t \in Tasks : ApplyManual(t) \/ AuditWrite(t)
      BY <2>2, AuditIsRecord DEF Promise!Next
    <2>3. CASE \E t \in Tasks : RunKubectl(t)
      BY <2>3, KubectlIsChange DEF Promise!Next
    <2>4. CASE \E t \in Tasks : CloseApproved(t)
      BY <2>4, CloseIsClose DEF Promise!Next
    <2>5. CASE \E t \in Tasks : Refuse(t)
      BY <2>5, RefuseIsRefuse DEF Promise!Next
    <2>6. CASE \E t \in Tasks : Raise(t)
      BY <2>6, RaiseIsFail DEF Promise!Next
    <2>7. CASE \E t \in Tasks : OpenIncident(t)
      BY <2>7, OpenIsOpen DEF Promise!Next
    <2>8. ASSUME NEW t \in Tasks, AwaitApproval(t)
          PROVE  Promise!Next \/ UNCHANGED Promise!vars
      <3>1. CASE Gate!TakeEarly(t) \/ Gate!Wake(t)
        BY <2>8, <3>1, DecisionIsApprove DEF Promise!Next, Posts
      <3>2. CASE Gate!Register(t) \/ Gate!Timer(t) \/ Gate!Cancel(t) \/ Gate!Expire(t)
        BY <2>8, <3>2, WaitIsHidden
      <3>. QED BY <2>8, <3>1, <3>2 DEF AwaitApproval, Gate!Progress
    <2>9. CASE \E t \in Tasks : ValidateFix(t)
      BY <2>9, WaitIsHidden
    <2>10. CASE \E i \in PostIds, text \in Gate!Texts : Answer(i, text)
      BY <2>10, AnswerIsSay DEF Promise!Next
    <2>11. CASE Restart
      BY <2>11, RestartIsStop DEF Promise!Next
    <2>12. CASE NewYear \/ UNCHANGED vars
      <3>1. UNCHANGED gateVars /\ UNCHANGED ownVars
        BY <2>12 DEF NewYear, vars
      <3>2. By' = By /\ Posts' = Posts /\ \A t \in Tasks : Gate!Approved(t)' <=> Gate!Approved(t)
        BY <3>1, OutsideGate
      <3>3. Status' = Status /\ Alarmed' = Alarmed /\ audited' = audited /\ touched' = touched
        BY <3>1, <3>2 DEF Status, PromiseStatus, Alarmed, ownVars
      <3>. QED BY <3>2, <3>3 DEF Promise!vars, Status, By, Posts, Alarmed
    <2>. QED BY <2>1, <2>2, <2>3, <2>4, <2>5, <2>6, <2>7, <2>8, <2>9, <2>10, <2>11, <2>12
             DEF Next, TaskStep
  <1>3. IInv /\ AskingWaits /\ [Next]_vars => AskingWaits'
    BY AskingWaitsKept
  <1>. QED BY <1>1, <1>2, <1>3, AgentInvariant, PTL DEF Spec, KeepsIncidentPromise, Promise!Spec
-----------------------------------------------------------------------------
(***************************************************************************)
(* The half of IncidentsEnd that needs no fairness: an incident runs out   *)
(* of steps, and never waits for a request that is gone.                   *)
(***************************************************************************)
\* A task at request() has a request that goes on or has its outcome.
RequestIsThere ==
    \A t \in Tasks : pc[t] = "approving" => stage[t] \in Asking \cup {"decided", "expired"}

\* What a step does to the request of a task, unless the process stops.
LEMMA RequestGoesOn ==
    ASSUME IInv, [Next]_vars, ~Restart, NEW t \in Tasks,
           stage[t] \in Asking \cup {"decided", "expired"}
    PROVE  stage'[t] \in Asking \cup {"decided", "expired"}
  <1>. USE DEF IInv, Asking, GateP!IInv, GateP!TypeOK, Gate!Move
  <1>1. ASSUME NEW u \in Tasks, OpenIncident(u) \/ ValidateFix(u)
        PROVE  stage'[t] \in Asking \cup {"decided", "expired"}
    BY <1>1 DEF OpenIncident, Gate!Open, ValidateFix, Gate!PostCard
  <1>2. ASSUME NEW u \in Tasks, AwaitApproval(u)
        PROVE  stage'[t] \in Asking \cup {"decided", "expired"}
    BY <1>2 DEF AwaitApproval, Gate!Progress, Gate!TakeEarly, Gate!Register, Gate!Wake,
                Gate!Timer, Gate!Cancel, Gate!Expire
  <1>3. ASSUME NEW i, NEW text, Answer(i, text)
        PROVE  stage'[t] \in Asking \cup {"decided", "expired"}
    BY <1>3 DEF Answer, Gate!Submit
  <1>4. ASSUME NEW u \in Tasks,
               \/ SaveSession(u) \/ Diagnose(u) \/ Approve(u) \/ Refuse(u) \/ ApplyManual(u)
               \/ AuditWrite(u) \/ RunKubectl(u) \/ Verify(u) \/ OpenFixPR(u)
               \/ CloseApproved(u) \/ Raise(u)
        PROVE  stage' = stage
    BY <1>4 DEF SaveSession, Diagnose, Approve, Refuse, ApplyManual, AuditWrite, RunKubectl,
                Verify, OpenFixPR, CloseApproved, Raise, gateVars
  <1>5. NewYear \/ UNCHANGED vars => stage' = stage
    BY DEF NewYear, vars, gateVars
  <1>. QED BY <1>1, <1>2, <1>3, <1>4, <1>5 DEF Next, TaskStep

\* Where a task may go, and that its own steps take it on.
Moves(t) ==
    \/ pc'[t] = pc[t] /\ (TaskStep(t) => pc[t] = "approving" /\ Gate!Progress(t))
    \/ <<pc[t], pc'[t]>> \in
         {<<"investigating", "diagnosing">>, <<"diagnosing", "validating">>,
          <<"approving", "applying">>, <<"approving", "closed">>, <<"applying", "verifying">>,
          <<"applying", "writing">>, <<"writing", "verifying">>, <<"verifying", "publishing">>,
          <<"publishing", "closing">>, <<"closing", "closed">>}
    \/ <<pc[t], pc'[t]>> = <<"validating", "approving">> /\ stage'[t] = "posting"
    \/ pc[t] = "idle"
    \/ pc[t] \notin Finished /\ pc'[t] \in {"failed", "lost"}

\* A step of its own moves a task on, or is a step of its request.
LEMMA OwnStepMoves ==
    ASSUME IInv, AskingWaits, NEW t \in Tasks, TaskStep(t), pc'[t] = pc[t]
    PROVE  pc[t] = "approving" /\ Gate!Progress(t)
  <1>. USE DEF IInv, OwnTypes, Step
  <1>1. CASE AwaitApproval(t)
    <2>1. Gate!Progress(t)
      BY <1>1 DEF AwaitApproval
    <2>2. stage[t] \in Asking
      BY <2>1 DEF Gate!Progress, Gate!TakeEarly, Gate!Register, Gate!Wake, Gate!Timer,
                  Gate!Cancel, Gate!Expire, Gate!Move, Asking
    <2>. QED BY <2>1, <2>2 DEF AskingWaits
  <1>2. CASE \/ SaveSession(t) \/ Diagnose(t) \/ ValidateFix(t) \/ Approve(t) \/ Refuse(t)
             \/ ApplyManual(t)
    BY <1>2 DEF SaveSession, Diagnose, ValidateFix, Approve, Refuse, ApplyManual
  <1>3. CASE AuditWrite(t) \/ RunKubectl(t) \/ Verify(t) \/ OpenFixPR(t) \/ CloseApproved(t)
    BY <1>3 DEF AuditWrite, RunKubectl, Verify, OpenFixPR, CloseApproved
  <1>. QED BY <1>1, <1>2, <1>3 DEF TaskStep

LEMMA TaskMoves == ASSUME IInv, AskingWaits, [Next]_vars, NEW t \in Tasks PROVE Moves(t)
  <1>. USE DEF IInv, OwnTypes, Step, Finished
  <1>1. CASE pc'[t] = pc[t]
    BY <1>1, OwnStepMoves DEF Moves
  <1>. SUFFICES ASSUME pc'[t] # pc[t], pc[t] # "idle" PROVE Moves(t)
    BY <1>1 DEF Moves
  <1>2. CASE Restart
    BY <1>2 DEF Restart, Moves
  <1>3. ASSUME NEW u \in Tasks, OpenIncident(u) \/ AwaitApproval(u) PROVE Moves(t)
    BY <1>3 DEF OpenIncident, AwaitApproval, ownVars
  <1>4. ASSUME NEW u \in Tasks, ValidateFix(u) PROVE Moves(t)
    BY <1>4 DEF ValidateFix, Gate!PostCard, Gate!Move, GateP!IInv, GateP!TypeOK, Moves
  <1>5. ASSUME NEW u \in Tasks, SaveSession(u) \/ Diagnose(u) \/ Approve(u) \/ Refuse(u)
        PROVE  Moves(t)
    BY <1>5 DEF SaveSession, Diagnose, Approve, Refuse, Moves
  <1>6. ASSUME NEW u \in Tasks, ApplyManual(u) \/ AuditWrite(u) \/ RunKubectl(u) \/ Verify(u)
        PROVE  Moves(t)
    BY <1>6 DEF ApplyManual, AuditWrite, RunKubectl, Verify, Moves
  <1>7. ASSUME NEW u \in Tasks, OpenFixPR(u) \/ CloseApproved(u) \/ Raise(u) PROVE Moves(t)
    BY <1>7 DEF OpenFixPR, CloseApproved, Raise, Moves
  <1>8. (\E i \in PostIds, text \in Gate!Texts : Answer(i, text))
            \/ NewYear \/ UNCHANGED vars => pc' = pc
    BY DEF Answer, NewYear, vars, ownVars
  <1>. QED BY <1>2, <1>3, <1>4, <1>5, <1>6, <1>7, <1>8 DEF Next, TaskStep

LEMMA RequestIsThereKept ==
    IInv /\ AskingWaits /\ RequestIsThere /\ [Next]_vars => RequestIsThere'
  <1>. SUFFICES ASSUME IInv, AskingWaits, RequestIsThere, [Next]_vars,
                       NEW t \in Tasks, pc'[t] = "approving"
                PROVE  stage'[t] \in Asking \cup {"decided", "expired"}
    BY DEF RequestIsThere
  <1>1. ~Restart
    BY DEF Restart, Finished
  <1>2. \/ pc[t] = "approving"
        \/ pc[t] = "validating" /\ stage'[t] = "posting"
    <2>1. pc[t] # "idle"
      BY TaskAdvances DEF Advances
    <2>. QED BY <2>1, TaskMoves DEF Moves
  <1>. QED BY <1>1, <1>2, RequestGoesOn DEF RequestIsThere, Asking

\* How many steps of its own an incident that was opened has left at most.
IncidentStepsLeft(p, s) ==
    CASE p = "investigating" -> 13
      [] p = "diagnosing" -> 12
      [] p = "validating" -> 11
      [] p = "approving" -> 6 + GateP!StepsLeft(s)
      [] p = "applying" -> 5
      [] p = "writing" -> 4
      [] p = "verifying" -> 3
      [] p = "publishing" -> 2
      [] p = "closing" -> 1
      [] OTHER -> 0

\* One step: an incident's own uses one up, and nothing else gives one back.
IncidentAdvances ==
    \A t \in Tasks : pc[t] # "idle" =>
        LET before == IncidentStepsLeft(pc[t], stage[t])
            after == IncidentStepsLeft(pc'[t], stage'[t])
        IN  after <= before /\ (TaskStep(t) => after < before)

IncidentsRunOut == [][IncidentAdvances]_vars

LEMMA IncidentsAdvance ==
    IInv /\ AskingWaits /\ RequestIsThere /\ [Next]_vars => IncidentAdvances
  <1>. SUFFICES ASSUME IInv, AskingWaits, RequestIsThere, [Next]_vars,
                       NEW t \in Tasks, pc[t] # "idle"
                PROVE  LET before == IncidentStepsLeft(pc[t], stage[t])
                           after == IncidentStepsLeft(pc'[t], stage'[t])
                       IN  after <= before /\ (TaskStep(t) => after < before)
    BY DEF IncidentAdvances
  <1>1. Moves(t)
    BY TaskMoves
  <1>2. \A s \in GateP!Stages : GateP!StepsLeft(s) \in 0 .. 4
    BY DEF GateP!StepsLeft
  <1>3. stage[t] \in GateP!Stages /\ stage'[t] \in GateP!Stages
    BY GateKept DEF IInv, GateP!IInv, GateP!TypeOK
  <1>4. CASE pc'[t] = pc[t] /\ pc[t] = "approving"
    <2>1. stage[t] \notin GateP!NotAsked
      BY <1>4 DEF RequestIsThere, Asking, GateP!NotAsked
    <2>2. [GateP!Next]_(GateP!vars) /\ GateP!IInv
      BY GateStep DEF IInv
    <2>3. /\ GateP!StepsLeft(stage'[t]) <= GateP!StepsLeft(stage[t])
          /\ GateP!Progress(t) => GateP!StepsLeft(stage'[t]) < GateP!StepsLeft(stage[t])
      BY <2>1, <2>2, Assumptions, GateP!NextAdvances DEF GateP!RequestAdvances
    <2>4. TaskStep(t) => GateP!Progress(t)
      <3>1. TaskStep(t) => Gate!Progress(t)
        BY <1>4, OwnStepMoves
      <3>. QED BY <3>1 DEF Gate!Progress, GateP!Progress, Gate!TakeEarly, GateP!TakeEarly,
                Gate!Register, GateP!Register, Gate!Wake, GateP!Wake, Gate!Timer, GateP!Timer,
                Gate!Cancel, GateP!Cancel, Gate!Expire, GateP!Expire, Gate!Move, GateP!Move,
                Gate!Pop, GateP!Pop, Gate!Put, GateP!Put
    <2>. QED BY <1>2, <1>3, <1>4, <2>3, <2>4 DEF IncidentStepsLeft
  <1>5. CASE pc'[t] = pc[t] /\ pc[t] # "approving"
    <2>1. ~TaskStep(t)
      BY <1>5, OwnStepMoves
    <2>. QED BY <1>5, <2>1 DEF IncidentStepsLeft
  <1>6. CASE pc'[t] # pc[t]
    <2>1. /\ IncidentStepsLeft(pc[t], stage[t]) > IncidentStepsLeft(pc'[t], stage'[t])
      BY <1>1, <1>2, <1>3, <1>6 DEF Moves, IncidentStepsLeft, IInv, OwnTypes, PCs, Finished,
                                    GateP!StepsLeft
    <2>2. /\ IncidentStepsLeft(pc[t], stage[t]) \in Int
          /\ IncidentStepsLeft(pc'[t], stage'[t]) \in Int
      BY <1>2, <1>3 DEF IncidentStepsLeft
    <2>. QED BY <2>1, <2>2
  <1>. QED BY <1>4, <1>5, <1>6

\* A task never waits at request() for a request that is gone.
THEOREM AgentRequestIsThere == Spec => []RequestIsThere
  <1>1. Init => RequestIsThere /\ AskingWaits
    BY DEF Init, Gate!Init, RequestIsThere, AskingWaits, Asking
  <1>. QED BY <1>1, AskingWaitsKept, RequestIsThereKept, AgentInvariant, PTL DEF Spec

\* The half of "every incident ends" that needs no fairness: once opened, an incident takes
\* thirteen steps at most, four of them in request(), and neither clicks nor restarts nor other
\* incidents, with its id or another one, set it back.
THEOREM AgentIncidentsRunOut == Spec => IncidentsRunOut
  <1>1. Init => AskingWaits
    BY DEF Init, Gate!Init, AskingWaits, Asking
  <1>2. IInv /\ AskingWaits /\ RequestIsThere /\ [Next]_vars => [IncidentAdvances]_vars
    BY IncidentsAdvance
  <1>. QED BY <1>1, <1>2, AskingWaitsKept, AgentRequestIsThere, AgentInvariant, PTL
           DEF Spec, IncidentsRunOut
=============================================================================
