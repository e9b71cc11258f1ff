---------------------------- MODULE SandboxProofs ----------------------------
(***************************************************************************)
(* Proofs about Sandbox, for any number of calls: what a call may leave    *)
(* behind, and what its status says.                                       *)
(***************************************************************************)
EXTENDS Sandbox, TLAPS

\* A workspace is asked for once: its create is on its way, or it has been made, or neither.
AskedOnce ==
    \A c \in Calls :
        /\ step[c] = "idle" => <<"create", c>> \notin net /\ c \notin workspaces
        /\ c \in workspaces \cup known => <<"create", c>> \notin net

\* Where a call stands, its id is known or not, and its script has run or not.
Steady ==
    \A c \in Calls :
        /\ step[c] \in {"idle", "creating"} => c \notin known
        /\ step[c] = "executing" => c \in known
        /\ result[c] = "OK" => exitCode[c] = "zero" /\ c \in known
        /\ result[c] = "OK" => step[c] \notin {"idle", "creating", "executing"}
        /\ <<"exec", c>> \in net => exitCode[c] = NotYet
        /\ step[c] \in {"idle", "creating"} => <<"exec", c>> \notin net /\ exitCode[c] = NotYet

\* A call that has come to its finally with an id has sent the delete.
DeleteSent ==
    \A c \in Calls :
        step[c] \in {"deleting", "ended"} /\ c \in known /\ c \in workspaces =>
            <<"delete", c>> \in net \/ c \in undone

\* The inductive invariant.
IInv ==
    /\ TypeOK
    /\ AskedOnce
    /\ Steady
    /\ DeleteSent

\* Before the first call.
LEMMA InitIInv == Init => IInv
  BY DEF Init, IInv, TypeOK, AskedOnce, Steady, DeleteSent, Steps, NotYet, Statuses, Raised

\* The agent's side of a call.
LEMMA AgentIInv ==
    ASSUME IInv, NEW c \in Calls, Refuse(c) \/ Create(c) \/ AgentStep(c)
    PROVE  IInv'
  <1>. USE DEF IInv, Move, Settle, Send, NotYet, Raised
  <1>1. CASE Refuse(c)
    <2>1. PICK r \in {"BLOCKED", "SKIPPED"} : result' = [result EXCEPT ![c] = r]
      BY <1>1 DEF Refuse
    <2>2. TypeOK'
      BY <1>1, <2>1 DEF Refuse, TypeOK, Steps, Statuses
    <2>3. AskedOnce' /\ DeleteSent'
      BY <1>1 DEF Refuse, TypeOK, AskedOnce, DeleteSent, Steps
    <2>4. c \notin known /\ result'[c] # "OK"
      BY <1>1, <2>1 DEF Refuse, TypeOK, Steady
    <2>5. Steady'
      BY <1>1, <2>1, <2>4 DEF Refuse, TypeOK, Steady, Steps
    <2>. QED BY <2>2, <2>3, <2>5
  <1>2. CASE Create(c)
    <2>1. TypeOK'
      BY <1>2 DEF Create, TypeOK, Steps, Operations
    <2>2. AskedOnce' /\ DeleteSent'
      BY <1>2 DEF Create, TypeOK, AskedOnce, Steady, DeleteSent, Steps
    <2>3. Steady'
      BY <1>2 DEF Create, TypeOK, Steady, Steps
    <2>. QED BY <2>1, <2>2, <2>3
  <1>3. CASE Created(c)
    BY <1>3 DEF Created, TypeOK, AskedOnce, Steady, DeleteSent, Steps, Operations
  <1>4. CASE CreateFailed(c)
    BY <1>4 DEF CreateFailed, TypeOK, AskedOnce, Steady, DeleteSent, Steps, Statuses
  <1>5. CASE Executed(c)
    BY <1>5 DEF Executed, TypeOK, AskedOnce, Steady, DeleteSent, Steps, Statuses, Operations
  <1>6. CASE ExecFailed(c)
    BY <1>6 DEF ExecFailed, TypeOK, AskedOnce, Steady, DeleteSent, Steps, Statuses, Operations
  <1>7. CASE DeleteDone(c)
    BY <1>7 DEF DeleteDone, TypeOK, AskedOnce, Steady, DeleteSent, Steps
  <1>. QED BY <1>1, <1>2, <1>3, <1>4, <1>5, <1>6, <1>7 DEF AgentStep

\* Daytona's side, and the network's.
LEMMA ServerIInv ==
    ASSUME IInv, NEW c \in Calls, NEW op \in Operations,
           ServeCreate(c) \/ ServeExec(c) \/ ServeDelete(c) \/ Drop(op, c)
    PROVE  IInv'
  <1>. USE DEF IInv, Arrive, NotYet, Operations, ExitCodes
  <1>1. CASE ServeCreate(c)
    BY <1>1 DEF ServeCreate, TypeOK, AskedOnce, Steady, DeleteSent
  <1>2. CASE ServeExec(c)
    BY <1>2 DEF ServeExec, TypeOK, AskedOnce, Steady, DeleteSent
  <1>3. CASE ServeDelete(c)
    BY <1>3 DEF ServeDelete, TypeOK, AskedOnce, Steady, DeleteSent
  <1>4. CASE Drop(op, c)
    BY <1>4 DEF Drop, TypeOK, AskedOnce, Steady, DeleteSent
  <1>. QED BY <1>1, <1>2, <1>3, <1>4

\* The process stops.
LEMMA StopIInv == IInv /\ (Stop \/ UNCHANGED vars) => IInv'
  <1>. USE DEF IInv, TypeOK, AskedOnce, Steady, DeleteSent
  <1>1. IInv /\ Stop => IInv'
    BY DEF Stop, Steps
  <1>2. IInv /\ UNCHANGED vars => IInv'
    BY DEF vars
  <1>. QED BY <1>1, <1>2

\* The invariant is inductive.
LEMMA NextIInv == IInv /\ [Next]_vars => IInv'
  BY AgentIInv, ServerIInv, StopIInv DEF Next, Operations

THEOREM SandboxInvariant == Spec => []IInv
  BY InitIInv, NextIInv, PTL DEF Spec

\* The requests under way, the workspaces and the statuses keep their types: an exit code or
\* an HTTP status never becomes the status of a call.
THEOREM SandboxTypes == Spec => []TypeOK
  BY SandboxInvariant, PTL DEF IInv

\* exec_in_sandbox's finally: what an ended call leaves behind, for any number of calls.
THEOREM SandboxNothingForgotten == Spec => []NothingForgotten
  <1>1. IInv => NothingForgotten
    BY DEF IInv, TypeOK, DeleteSent, NothingForgotten
  <1>. QED BY <1>1, SandboxInvariant, PTL

\* Status OK means that the call's script ran to its end with exit code 0.
THEOREM SandboxOkMeansItRan == Spec => []OkMeansItRan
  <1>1. IInv => OkMeansItRan
    BY DEF IInv, Steady, OkMeansItRan
  <1>. QED BY <1>1, SandboxInvariant, PTL
=============================================================================
