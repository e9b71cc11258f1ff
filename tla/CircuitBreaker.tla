--------------------------- MODULE CircuitBreaker ---------------------------
(***************************************************************************)
(* agent/utils/circuit_breaker.py: one CircuitBreaker and its callers,     *)
(* which Retry puts in motion.                                             *)
(*                                                                         *)
(* call() has no lock.  Callers on one event loop hold it for the whole    *)
(* call; threads can be switched wherever call() runs Python code of       *)
(* others: fn, time.monotonic() and, before Python 3.12, the look-up of a  *)
(* State member.  Each action below is what runs between two such points.  *)
(***************************************************************************)
EXTENDS Naturals

CONSTANTS Callers,
          Threshold,    \* failure_threshold
          Timeout       \* recovery_timeout, in ticks

\* A threshold below 1 works as 1 does.
ASSUME BreakerAssumption == Threshold \in Nat \ {0} /\ Timeout \in Nat

VARIABLES failures,     \* the failures counted, up to Threshold: no test tells more apart
          state,
          age,          \* ticks since opened_at, up to Timeout likewise
          call,         \* call[c]: where c is in its call, or what the call has come to
          threads,      \* the callers share one thread, or have many
          service,      \* external: what is behind fn; while it is down, calls may fail
          older         \* history: whose calls were under way when the circuit last opened

breakerVars == <<failures, state, age, call, threads, service, older>>

InCall == {"deciding", "admitted", "calling", "tripping"}
Errors == {"failure", "refused", "interrupt"}   \* refused: circuit open; interrupt: no Exception
Results == {"returned"} \cup Errors

BreakerTypeOK ==
    /\ failures \in 0..Threshold
    /\ state \in {"CLOSED", "OPEN", "HALF_OPEN"}
    /\ age \in 0..Timeout
    /\ call \in [Callers -> {"out"} \cup InCall \cup Results]
    /\ threads \in {"one", "many"} /\ service \in {"up", "down"}
    /\ older \subseteq Callers

BreakerInit ==
    /\ failures = 0 /\ state = "CLOSED" /\ age = Timeout
    /\ call = [c \in Callers |-> "out"]
    /\ threads \in {"one", "many"} /\ service \in {"up", "down"}
    /\ older = {}
-----------------------------------------------------------------------------
Go(c, from, to) == call[c] = from /\ call' = [call EXCEPT ![c] = to]

\* The call comes to an end.
Come(c, from, result) == Go(c, from, result) /\ older' = older \ {c}

\* Variant: one probe at a time, and the others wait for what it comes to.
EnterUnlessProbing(c) ==
    /\ state # "HALF_OPEN"
    /\ threads = "many" \/ \A d \in Callers : call[d] \notin InCall
    /\ Go(c, "out", IF state = "OPEN" THEN "deciding" ELSE "calling")
    /\ UNCHANGED <<failures, state, age, threads, service, older>>

Enter(c) ==
    /\ threads = "many" \/ \A d \in Callers : call[d] \notin InCall
    /\ Go(c, "out", IF state = "OPEN" THEN "deciding" ELSE "calling")
    /\ UNCHANGED <<failures, state, age, threads, service, older>>

\* Variant: a refused call starts the time anew.
RefuseAnew(c) ==
    /\ age < Timeout /\ age' = 0
    /\ Come(c, "deciding", "refused")
    /\ UNCHANGED <<failures, state, threads, service>>

Refuse(c) ==
    /\ age < Timeout
    /\ Come(c, "deciding", "refused")
    /\ UNCHANGED <<failures, state, age, threads, service>>

\* Variant: the time is not looked at.
DecideAtOnce(c) ==
    /\ Go(c, "deciding", "admitted")
    /\ UNCHANGED <<failures, state, age, threads, service, older>>

Decide(c) ==
    /\ age >= Timeout
    /\ Go(c, "deciding", "admitted")
    /\ UNCHANGED <<failures, state, age, threads, service, older>>

\* HALF_OPEN is set whatever has become of the circuit since it was found open.
Admit(c) ==
    /\ Go(c, "admitted", "calling")
    /\ state' = "HALF_OPEN"
    /\ UNCHANGED <<failures, age, threads, service, older>>

\* Variant: the count is kept.
SucceedUncounted(c) ==
    /\ Come(c, "calling", "returned")
    /\ state' = "CLOSED"
    /\ UNCHANGED <<failures, age, threads, service>>

\* fn has returned: also when the circuit has opened, or half opened, in the meantime.
Succeed(c) ==
    /\ Come(c, "calling", "returned")
    /\ failures' = 0 /\ state' = "CLOSED"
    /\ UNCHANGED <<age, threads, service>>

\* Variant: the circuit opens on the failure that finds the count at the threshold.
FailOneMore(c) ==
    /\ service = "down"
    /\ failures' = IF failures < Threshold THEN failures + 1 ELSE Threshold
    /\ \/ failures = Threshold /\ Go(c, "calling", "tripping") /\ UNCHANGED older
       \/ failures < Threshold /\ Come(c, "calling", "failure")
    /\ UNCHANGED <<state, age, threads, service>>

\* fn has raised an Exception: it counts.
Fail(c) ==
    /\ service = "down"
    /\ failures' = IF failures < Threshold THEN failures + 1 ELSE Threshold
    /\ \/ failures' = Threshold /\ Go(c, "calling", "tripping") /\ UNCHANGED older
       \/ failures' < Threshold /\ Come(c, "calling", "failure")
    /\ UNCHANGED <<state, age, threads, service>>

\* The circuit opens, or opens anew, whatever has become of the count.
Trip(c) ==
    /\ Go(c, "tripping", "failure")
    /\ state' = "OPEN" /\ age' = 0
    /\ older' = {d \in Callers \ {c} : call[d] \in InCall}
    /\ UNCHANGED <<failures, threads, service>>

\* fn has raised what `except Exception` lets pass: the breaker learns nothing.
Interrupt(c) ==
    /\ Come(c, "calling", "interrupt")
    /\ UNCHANGED <<failures, state, age, threads, service>>

CallStep(c) ==
    \/ Refuse(c) \/ Decide(c) \/ Admit(c)
    \/ Succeed(c) \/ Fail(c) \/ Interrupt(c) \/ Trip(c)

Tick ==
    /\ age < Timeout /\ age' = age + 1
    /\ UNCHANGED <<failures, state, call, threads, service, older>>

\* External: what is behind fn breaks, or is repaired.
Turn ==
    /\ service' \in {"up", "down"} \ {service}
    /\ UNCHANGED <<failures, state, age, call, threads, older>>
-----------------------------------------------------------------------------
(***************************************************************************)
(* Properties.                                                             *)
(***************************************************************************)
\* CircuitBreaker on one thread: the circuit is off CLOSED exactly while the last Threshold
\* calls have failed, so one failed probe reopens it, and fn is reached only through a
\* circuit that is closed or has been open for Timeout.
SerialContract ==
    threads = "one" =>
        /\ (\A c \in Callers : call[c] # "tripping") =>
               (state = "CLOSED" <=> failures < Threshold)
        /\ \A c \in Callers : call[c] = "calling" =>
               state = "CLOSED" \/ (state = "HALF_OPEN" /\ age = Timeout)

\* On threads, too: a full count is never left on a closed circuit, whoever resets or trips.
FullCountTrips ==
    state = "CLOSED" /\ failures = Threshold => \E c \in Callers : call[c] = "tripping"

\* On threads, too: an open circuit is left before its time only by a call that was under way
\* when it opened; no call that began since gets through.
OpenHolds ==
    [][state = "OPEN" /\ state' # "OPEN" /\ age < Timeout
         => \E c \in older : call'[c] # call[c]]_breakerVars
=============================================================================
