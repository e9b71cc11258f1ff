------------------------------- MODULE Sandbox -------------------------------
(***************************************************************************)
(* tools/sandbox_executor.py: exec_in_sandbox, create a Daytona workspace, *)
(* run a script in it, destroy it.  Each call runs on a worker thread; two *)
(* follow each other in an incident, and incidents run side by side.       *)
(*                                                                         *)
(* The three requests are kept apart from their answers: Daytona may serve *)
(* a request after the client has given up on it, refuse it, or never get  *)
(* it.  Daytona itself is external.                                        *)
(***************************************************************************)
EXTENDS Naturals, FiniteSets

CONSTANT Calls          \* the calls of exec_in_sandbox

VARIABLES step,         \* step[c]: where call c stands
          known,        \* calls whose workspace_id is set
          result,       \* result[c]: the status c has settled on
          net,          \* requests under way: <<operation, call>>
          workspaces,   \* workspaces that exist, named by the call that asked for them
          exitCode,     \* exitCode[c]: the script's, once it has run
          undone        \* history: calls whose delete was refused or never arrived

vars == <<step, known, result, net, workspaces, exitCode, undone>>

Steps == {"idle", "creating", "executing", "deleting", "ended", "killed"}
Statuses == {"OK", "FAIL", "BLOCKED", "SKIPPED", "ERROR"}
Raised == "raised"      \* an exception of another kind leaves exec_in_sandbox
NotYet == "none"
ExitCodes == {"zero", "nonzero"}
Operations == {"create", "exec", "delete"}

TypeOK ==
    /\ step \in [Calls -> Steps]
    /\ known \subseteq Calls
    /\ result \in [Calls -> Statuses \cup {Raised, NotYet}]
    /\ net \subseteq Operations \X Calls
    /\ workspaces \subseteq Calls
    /\ exitCode \in [Calls -> ExitCodes \cup {NotYet}]
    /\ undone \subseteq Calls

Init ==
    /\ step = [c \in Calls |-> "idle"]
    /\ known = {}
    /\ result = [c \in Calls |-> NotYet]
    /\ net = {}
    /\ workspaces = {}
    /\ exitCode = [c \in Calls |-> NotYet]
    /\ undone = {}
-----------------------------------------------------------------------------
(***************************************************************************)
(* The agent.                                                              *)
(***************************************************************************)
Move(c, from, to) == step[c] = from /\ step' = [step EXCEPT ![c] = to]
Settle(c, r) == result' = [result EXCEPT ![c] = r]
Send(op, c) == net' = net \cup {<<op, c>>}

\* The script fails the safety check, or there are no credentials.
Refuse(c) ==
    /\ Move(c, "idle", "ended")
    /\ \E r \in {"BLOCKED", "SKIPPED"} : Settle(c, r)
    /\ UNCHANGED <<known, net, workspaces, exitCode, undone>>

Create(c) ==
    /\ Move(c, "idle", "creating")
    /\ Send("create", c)
    /\ UNCHANGED <<known, result, workspaces, exitCode, undone>>

\* The answer carries the id; the script is sent.
Created(c) ==
    /\ c \in workspaces
    /\ Move(c, "creating", "executing")
    /\ known' = known \cup {c}
    /\ Send("exec", c)
    /\ UNCHANGED <<result, workspaces, exitCode, undone>>

\* No answer in time, or one without an id: there is nothing to delete.  A body that is no
\* object raises TypeError, which is not caught.
CreateFailed(c) ==
    /\ Move(c, "creating", "ended")
    /\ \E r \in {"ERROR", Raised} : Settle(c, r)
    /\ UNCHANGED <<known, net, workspaces, exitCode, undone>>

\* Variant: any answer is a success.
ExecutedAnyhow(c) ==
    /\ Move(c, "executing", "deleting")
    /\ Settle(c, "OK")
    /\ Send("delete", c)
    /\ UNCHANGED <<known, workspaces, exitCode, undone>>

\* An answer has come back: the script's result, or one without an exit_code (Daytona refused
\* the request: the HTTP status is not looked at), which counts as a failure.
Executed(c) ==
    /\ Move(c, "executing", "deleting")
    /\ \/ exitCode[c] = "zero" /\ Settle(c, "OK")
       \/ Settle(c, "FAIL")
    /\ Send("delete", c)
    /\ UNCHANGED <<known, workspaces, exitCode, undone>>

\* Variant: no finally.
ExecFailedAtOnce(c) ==
    /\ Move(c, "executing", "ended")
    /\ \E r \in {"ERROR", Raised} : Settle(c, r)
    /\ UNCHANGED <<known, net, workspaces, exitCode, undone>>

\* No answer in time (the script may still run), or not JSON, or not an object: the finally
\* deletes all the same.
ExecFailed(c) ==
    /\ Move(c, "executing", "deleting")
    /\ \E r \in {"ERROR", Raised} : Settle(c, r)
    /\ Send("delete", c)
    /\ UNCHANGED <<known, workspaces, exitCode, undone>>

\* Variant: wait until the workspace is gone.
DeleteConfirmed(c) ==
    /\ c \notin workspaces
    /\ Move(c, "deleting", "ended")
    /\ UNCHANGED <<known, result, net, workspaces, exitCode, undone>>

\* The delete was answered, whatever the answer (its status is not looked at), or timed out.
DeleteDone(c) ==
    /\ Move(c, "deleting", "ended")
    /\ UNCHANGED <<known, result, net, workspaces, exitCode, undone>>

\* The agent's process stops; what it has sent stays sent.
Stop ==
    /\ step' = [c \in Calls |-> IF step[c] \in {"creating", "executing", "deleting"}
                                THEN "killed" ELSE step[c]]
    /\ UNCHANGED <<known, result, net, workspaces, exitCode, undone>>
-----------------------------------------------------------------------------
(***************************************************************************)
(* Daytona and the way there.                                              *)
(***************************************************************************)
Arrive(op, c) == <<op, c>> \in net /\ net' = net \ {<<op, c>>}

ServeCreate(c) ==
    /\ Arrive("create", c)
    /\ workspaces' = workspaces \cup {c}
    /\ UNCHANGED <<step, known, result, exitCode, undone>>

ServeExec(c) ==
    /\ Arrive("exec", c)
    /\ c \in workspaces
    /\ \E code \in ExitCodes : exitCode' = [exitCode EXCEPT ![c] = code]
    /\ UNCHANGED <<step, known, result, workspaces, undone>>

ServeDelete(c) ==
    /\ Arrive("delete", c)
    /\ workspaces' = workspaces \ {c}
    /\ UNCHANGED <<step, known, result, exitCode, undone>>

\* A request is refused or lost.
Drop(op, c) ==
    /\ Arrive(op, c)
    /\ undone' = IF op = "delete" THEN undone \cup {c} ELSE undone
    /\ UNCHANGED <<step, known, result, workspaces, exitCode>>

AgentStep(c) ==
    \/ Created(c) \/ CreateFailed(c) \/ Executed(c) \/ ExecFailed(c) \/ DeleteDone(c)

Next ==
    \/ \E c \in Calls : Refuse(c) \/ Create(c) \/ AgentStep(c)
    \/ \E c \in Calls : ServeCreate(c) \/ ServeExec(c) \/ ServeDelete(c)
    \/ \E op \in Operations, c \in Calls : Drop(op, c)
    \/ Stop

Spec == Init /\ [][Next]_vars

\* Each of the three requests has a client timeout.  Daytona need not answer.
FairSpec == Spec /\ \A c \in Calls : WF_vars(AgentStep(c))
-----------------------------------------------------------------------------
(***************************************************************************)
(* Properties.                                                             *)
(***************************************************************************)

\* The finally block: once a call has ended, however it ended, its workspace is left behind
\* only if its id never reached the agent, or the delete is still on its way, was refused or
\* was lost.  ("Always destroyed", says exec_in_sandbox: these are the exceptions.)
NothingForgotten ==
    \A c \in workspaces : step[c] = "ended" =>
        \/ c \notin known
        \/ <<"delete", c>> \in net
        \/ c \in undone

\* Status OK, which the approval card shows as "sandbox passed": the call's own script ran to
\* its end in a workspace and exited with 0.
OkMeansItRan == \A c \in Calls : result[c] = "OK" => exitCode[c] = "zero" /\ c \in known

\* Each request has a timeout: a call comes back to its incident.
CallsEnd == \A c \in Calls : step[c] = "creating" ~> step[c] \in {"ended", "killed"}
=============================================================================
