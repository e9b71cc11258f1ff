-------------------------------- MODULE Retry --------------------------------
(***************************************************************************)
(* agent/utils/retry.py: retry and aretry, around calls that go through a  *)
(* circuit breaker.  (Nothing in the agent uses either; here they work     *)
(* together as their docstrings offer.)                                    *)
(***************************************************************************)
EXTENDS CircuitBreaker

CONSTANT Decorators     \* [max: max_attempts, listed: which Errors `exceptions` names]

ASSUME RetryAssumption == \A d \in Decorators : d.max \in Nat /\ d.listed \subseteq Errors

VARIABLES deco,         \* deco[c]: how c's function is decorated
          op,           \* op[c]: where the decorated function is
          attempt,      \* attempt[c]: the number of the attempt, from 1
          error,        \* error[c]: what it has raised
          calls         \* history, calls[c]: how often it has called fn

opVars == <<deco, op, attempt, error>>
vars == <<breakerVars, opVars, calls>>

Raised == Errors \cup {"unreachable", "cancelled"}

TypeOK ==
    /\ BreakerTypeOK
    /\ deco \in [Callers -> Decorators]
    /\ op \in [Callers -> {"idle", "trying", "sleeping", "returned", "raised"}]
    /\ attempt \in [Callers -> Nat]
    /\ \A c \in Callers : attempt[c] <= deco[c].max
    /\ error \in [Callers -> {"none"} \cup Raised]
    /\ calls \in [Callers -> Nat]

Init ==
    /\ BreakerInit
    /\ deco \in [Callers -> Decorators]
    /\ op = [c \in Callers |-> "idle"]
    /\ attempt = [c \in Callers |-> 0]
    /\ error = [c \in Callers |-> "none"]
    /\ calls = [c \in Callers |-> 0]
-----------------------------------------------------------------------------
Raise(c, e) ==
    /\ op' = [op EXCEPT ![c] = "raised"]
    /\ error' = [error EXCEPT ![c] = e]

\* The loop over range(1, max_attempts + 1) is entered, or falls through.
Begin(c) ==
    /\ op[c] \in {"idle", "returned", "raised"}
    /\ IF deco[c].max >= 1
       THEN /\ op' = [op EXCEPT ![c] = "trying"]
            /\ attempt' = [attempt EXCEPT ![c] = 1]
            /\ error' = [error EXCEPT ![c] = "none"]
       ELSE Raise(c, "unreachable") /\ UNCHANGED attempt
    /\ calls' = [calls EXCEPT ![c] = 0]
    /\ UNCHANGED <<breakerVars, deco>>

Count(c) ==
    calls' = IF call[c] # "calling" /\ call'[c] = "calling"
             THEN [calls EXCEPT ![c] = @ + 1] ELSE calls

Try(c) ==
    /\ op[c] = "trying" /\ Enter(c) /\ Count(c)
    /\ UNCHANGED opVars

Proceed(c) == CallStep(c) /\ Count(c) /\ UNCHANGED opVars

\* The attempt is over.
After(c, result) ==
    /\ op[c] = "trying"
    /\ Go(c, result, "out")
    /\ UNCHANGED <<failures, state, age, threads, service, older, deco, calls>>

Return(c) ==
    /\ After(c, "returned")
    /\ op' = [op EXCEPT ![c] = "returned"]
    /\ UNCHANGED <<attempt, error>>

\* Variant: the exceptions that are retried are not looked at.
RetryAny(c) ==
    \E e \in Errors :
        /\ After(c, e)
        /\ attempt[c] < deco[c].max
        /\ op' = [op EXCEPT ![c] = "sleeping"]
        /\ UNCHANGED <<attempt, error>>

\* A listed exception and attempts left: sleep, and again.
BackOff(c) ==
    \E e \in deco[c].listed :
        /\ After(c, e)
        /\ attempt[c] < deco[c].max
        /\ op' = [op EXCEPT ![c] = "sleeping"]
        /\ UNCHANGED <<attempt, error>>

\* The last attempt, or an exception that is not listed.
GiveUp(c) ==
    \E e \in Errors :
        /\ After(c, e)
        /\ e \in deco[c].listed => attempt[c] = deco[c].max
        /\ Raise(c, e)
        /\ UNCHANGED attempt

Wake(c) ==
    /\ op[c] = "sleeping"
    /\ op' = [op EXCEPT ![c] = "trying"]
    /\ attempt' = [attempt EXCEPT ![c] = @ + 1]
    /\ UNCHANGED <<breakerVars, deco, error, calls>>

\* The sleep is cancelled or interrupted, which no `except` around it catches.
Cancel(c) ==
    /\ op[c] = "sleeping"
    /\ Raise(c, "cancelled")
    /\ UNCHANGED <<breakerVars, deco, attempt, calls>>

OpStep(c) ==
    Proceed(c) \/ Return(c) \/ BackOff(c) \/ GiveUp(c) \/ Wake(c) \/ Cancel(c)

Time == Tick /\ UNCHANGED <<opVars, calls>>

Next ==
    \/ \E c \in Callers : Begin(c) \/ Try(c) \/ OpStep(c)
    \/ Time
    \/ Turn /\ UNCHANGED <<opVars, calls>>

Spec == Init /\ [][Next]_vars

\* fn comes back, sleeps end, time passes, and whoever waits for the thread gets it in turn.
\* Nobody has to call.
FairSpec ==
    /\ Spec
    /\ \A c \in Callers : WF_vars(OpStep(c)) /\ SF_vars(Try(c))
    /\ WF_vars(Time)
-----------------------------------------------------------------------------
(***************************************************************************)
(* Properties.                                                             *)
(***************************************************************************)
\* retry around call: fn is called once per attempt at most, and an error that is to be
\* retried comes out only after max_attempts calls of fn, unless an open circuit, taken for
\* one more failure to retry, has used attempts up.
AttemptsReachFn ==
    \A c \in Callers :
        /\ calls[c] <= deco[c].max
        /\ op[c] = "raised" /\ error[c] \in deco[c].listed \ {"refused"}
               /\ "refused" \notin deco[c].listed
           => calls[c] = deco[c].max

\* A decorated call comes to an end, through whatever the circuit does meanwhile.
OperationsEnd == \A c \in Callers : op[c] = "trying" ~> op[c] \in {"returned", "raised"}

\* Once fn has stopped failing and callers keep coming, the circuit is open no more: no
\* call is needed to have come at a good time.
Recovers ==
    <>[](service = "up") /\ []<>(\E c \in Callers : call[c] = "deciding" \/ state # "OPEN")
        => <>[](state # "OPEN")
=============================================================================
