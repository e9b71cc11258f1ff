----------------------------- MODULE RetryProofs -----------------------------
(***************************************************************************)
(* Proofs about CircuitBreaker and Retry, for any callers, on one thread   *)
(* or many, and any threshold, timeout and decorators: what the breaker    *)
(* promises, and how often a retried operation calls fn.                   *)
(***************************************************************************)
EXTENDS Retry, TLAPS

\* On one thread there is one call at a time, and the circuit does not move under it.
OneThread ==
    threads = "one" =>
        /\ \A c, d \in Callers : call[c] \in InCall /\ call[d] \in InCall => c = d
        /\ state = "HALF_OPEN" => age = Timeout
        /\ \A c \in Callers :
               /\ call[c] = "deciding" => state = "OPEN"
               /\ call[c] = "admitted" => state = "OPEN" /\ age = Timeout
               /\ call[c] = "tripping" => failures = Threshold

\* While the circuit cools, whoever is past the check was already there when it opened.
OnlyOlderInside ==
    state = "OPEN" /\ age < Timeout =>
        \A c \in Callers : call[c] \in {"admitted", "calling", "tripping"} => c \in older

\* Stages of a call that has called fn.
Reached == {"calling", "tripping", "returned", "failure", "interrupt"}

\* How an operation stands that is in stage o of its attempt a, with its call in stage k,
\* error e and n calls of fn: each attempt but one that has not got that far has called fn,
\* unless open circuits are retried.
Counted(k, o, a, e, n, max, listed) ==
    /\ a <= max
    /\ o # "trying" => k = "out" /\ n <= a
    /\ o = "trying" => n <= a /\ (k \notin Reached => n + 1 <= a) /\ 1 <= a
    /\ o = "sleeping" => a < max
    /\ "refused" \notin listed =>
           /\ o = "trying" => IF k \in Reached THEN n = a ELSE n + 1 = a
           /\ o = "sleeping" => n = a
           /\ o = "raised" /\ e \in listed => n = max

CallsCounted ==
    \A c \in Callers :
        Counted(call[c], op[c], attempt[c], error[c], calls[c], deco[c].max, deco[c].listed)

BreakerInv == BreakerTypeOK /\ SerialContract /\ OneThread /\ FullCountTrips /\ OnlyOlderInside

OpInv == TypeOK /\ CallsCounted

IInv == BreakerInv /\ OpInv

\* Before the first call.
LEMMA InitIInv == Init => IInv
  <1>. SUFFICES ASSUME Init PROVE IInv
    OBVIOUS
  <1>1. /\ failures = 0 /\ state = "CLOSED" /\ age = Timeout /\ older = {}
        /\ \A c \in Callers : /\ call[c] = "out" /\ op[c] = "idle" /\ error[c] = "none"
                              /\ attempt[c] = 0 /\ calls[c] = 0 /\ deco[c].max \in Nat
    BY RetryAssumption DEF Init, BreakerInit
  <1>2. BreakerTypeOK
    BY BreakerAssumption DEF Init, BreakerInit, BreakerTypeOK
  <1>3. SerialContract /\ OneThread /\ FullCountTrips /\ OnlyOlderInside
    BY <1>1, BreakerAssumption
    DEF SerialContract, OneThread, FullCountTrips, OnlyOlderInside, InCall
  <1>4. TypeOK
    <2>1. error \in [Callers -> {"none"} \cup Raised]
      BY DEF Init
    <2>2. /\ op \in [Callers -> {"idle", "trying", "sleeping", "returned", "raised"}]
          /\ attempt \in [Callers -> Nat] /\ calls \in [Callers -> Nat]
          /\ deco \in [Callers -> Decorators]
      BY DEF Init
    <2>3. ASSUME NEW c \in Callers PROVE attempt[c] <= deco[c].max
      <3>1. deco[c].max \in Nat
        BY <1>1
      <3>2. attempt[c] = 0
        BY <1>1
      <3>. QED BY <3>1, <3>2
    <2>. QED BY <1>2, <2>1, <2>2, <2>3 DEF TypeOK
  <1>5. ASSUME NEW c \in Callers
        PROVE  Counted(call[c], op[c], attempt[c], error[c], calls[c], deco[c].max, deco[c].listed)
    <2>1. deco[c].max \in Nat
      BY <1>1
    <2>2. call[c] = "out" /\ op[c] = "idle" /\ attempt[c] = 0 /\ calls[c] = 0
      BY <1>1
    <2>. QED BY <2>1, <2>2 DEF Counted
  <1>. QED BY <1>2, <1>3, <1>4, <1>5 DEF IInv, BreakerInv, OpInv, CallsCounted
-----------------------------------------------------------------------------
(***************************************************************************)
(* The breaker.                                                            *)
(***************************************************************************)
\* One caller moves.
LEMMA Going ==
    ASSUME BreakerTypeOK, NEW c \in Callers, NEW from, NEW to, Go(c, from, to)
    PROVE  /\ call[c] = from
           /\ \A d \in Callers : call'[d] = IF d = c THEN to ELSE call[d]
           /\ to \in {"out"} \cup InCall \cup Results =>
                  call' \in [Callers -> {"out"} \cup InCall \cup Results]
  BY DEF BreakerTypeOK, Go

\* A call begins.
LEMMA EnterInv == ASSUME BreakerInv, NEW c \in Callers, Enter(c) PROVE BreakerInv'
  <1>. DEFINE to == IF state = "OPEN" THEN "deciding" ELSE "calling"
  <1>1. /\ call[c] = "out"
        /\ \A d \in Callers : call'[d] = IF d = c THEN to ELSE call[d]
        /\ call' \in [Callers -> {"out"} \cup InCall \cup Results]
    BY Going DEF BreakerInv, Enter, InCall
  <1>2. /\ threads = "one" => \A d \in Callers : call[d] \notin InCall
        /\ UNCHANGED <<failures, state, age, threads, service, older>>
    BY DEF Enter, BreakerInv, BreakerTypeOK
  <1>. USE <1>1, <1>2 DEF BreakerInv
  <1>3. BreakerTypeOK'
    BY DEF BreakerTypeOK
  <1>4. SerialContract'
    BY DEF SerialContract, OneThread, InCall, BreakerTypeOK
  <1>5. OneThread'
    BY DEF OneThread, InCall
  <1>6. FullCountTrips' /\ OnlyOlderInside'
    BY DEF FullCountTrips, OnlyOlderInside
  <1>. QED BY <1>3, <1>4, <1>5, <1>6

\* A call finds the circuit open and is refused, or comes out interrupted.
LEMMA ComeInv ==
    ASSUME BreakerInv, NEW c \in Callers, Refuse(c) \/ Interrupt(c)
    PROVE  BreakerInv'
  <1>. PICK from \in {"deciding", "calling"}, result \in Results : Come(c, from, result)
    BY DEF Refuse, Interrupt, Results, Errors
  <1>1. /\ call[c] = from
        /\ \A d \in Callers : call'[d] = IF d = c THEN result ELSE call[d]
        /\ call' \in [Callers -> {"out"} \cup InCall \cup Results]
        /\ older' = older \ {c}
    BY Going DEF BreakerInv, Come
  <1>2. UNCHANGED <<failures, state, age, threads, service>>
    BY DEF Refuse, Interrupt
  <1>3. result \notin InCall
    BY DEF Results, Errors, InCall
  <1>. USE <1>1, <1>2, <1>3 DEF BreakerInv
  <1>4. BreakerTypeOK'
    BY DEF BreakerTypeOK
  <1>5. SerialContract'
    BY DEF SerialContract, InCall
  <1>6. OneThread'
    BY DEF OneThread, InCall
  <1>7. FullCountTrips' /\ OnlyOlderInside'
    BY DEF FullCountTrips, OnlyOlderInside, InCall
  <1>. QED BY <1>4, <1>5, <1>6, <1>7

\* A call is let through, after its time.
LEMMA DecideInv == ASSUME BreakerInv, NEW c \in Callers, Decide(c) PROVE BreakerInv'
  <1>1. /\ call[c] = "deciding"
        /\ \A d \in Callers : call'[d] = IF d = c THEN "admitted" ELSE call[d]
        /\ call' \in [Callers -> {"out"} \cup InCall \cup Results]
    BY Going DEF BreakerInv, Decide, InCall
  <1>2. age = Timeout /\ UNCHANGED <<failures, state, age, threads, service, older>>
    BY BreakerAssumption DEF Decide, BreakerInv, BreakerTypeOK
  <1>. USE <1>1, <1>2 DEF BreakerInv
  <1>3. BreakerTypeOK'
    BY DEF BreakerTypeOK
  <1>4. SerialContract'
    BY DEF SerialContract
  <1>5. OneThread'
    BY DEF OneThread, InCall
  <1>6. FullCountTrips' /\ OnlyOlderInside'
    BY BreakerAssumption DEF FullCountTrips, OnlyOlderInside
  <1>. QED BY <1>3, <1>4, <1>5, <1>6

\* It half opens the circuit.
LEMMA AdmitInv == ASSUME BreakerInv, NEW c \in Callers, Admit(c) PROVE BreakerInv'
  <1>1. /\ call[c] = "admitted"
        /\ \A d \in Callers : call'[d] = IF d = c THEN "calling" ELSE call[d]
        /\ call' \in [Callers -> {"out"} \cup InCall \cup Results]
    BY Going DEF BreakerInv, Admit, InCall
  <1>2. state' = "HALF_OPEN" /\ UNCHANGED <<failures, age, threads, service, older>>
    BY DEF Admit
  <1>. USE <1>1, <1>2 DEF BreakerInv
  <1>3. BreakerTypeOK'
    BY DEF BreakerTypeOK
  <1>4. SerialContract'
    BY DEF SerialContract, OneThread, InCall, BreakerTypeOK
  <1>5. OneThread'
    BY DEF OneThread, InCall
  <1>6. FullCountTrips' /\ OnlyOlderInside'
    BY DEF FullCountTrips, OnlyOlderInside
  <1>. QED BY <1>3, <1>4, <1>5, <1>6

\* fn has returned.
LEMMA SucceedInv == ASSUME BreakerInv, NEW c \in Callers, Succeed(c) PROVE BreakerInv'
  <1>1. /\ call[c] = "calling"
        /\ \A d \in Callers : call'[d] = IF d = c THEN "returned" ELSE call[d]
        /\ call' \in [Callers -> {"out"} \cup InCall \cup Results]
    BY Going DEF BreakerInv, Succeed, Come, Results
  <1>2. /\ failures' = 0 /\ state' = "CLOSED" /\ older' = older \ {c}
        /\ UNCHANGED <<age, threads, service>>
    BY DEF Succeed, Come
  <1>. USE <1>1, <1>2, BreakerAssumption DEF BreakerInv
  <1>3. BreakerTypeOK'
    BY DEF BreakerTypeOK
  <1>4. SerialContract'
    BY DEF SerialContract
  <1>5. OneThread'
    BY DEF OneThread, InCall
  <1>6. FullCountTrips' /\ OnlyOlderInside'
    BY DEF FullCountTrips, OnlyOlderInside
  <1>. QED BY <1>3, <1>4, <1>5, <1>6

\* fn has failed; the call that fills the count goes on to open the circuit.
LEMMA FailInv == ASSUME BreakerInv, NEW c \in Callers, Fail(c) PROVE BreakerInv'
  <1>. DEFINE to == IF failures' = Threshold THEN "tripping" ELSE "failure"
  <1>0. failures \in 0..Threshold /\ Threshold \in Nat \ {0} /\ BreakerTypeOK
    BY BreakerAssumption DEF BreakerInv, BreakerTypeOK
  <1>1. /\ failures' \in 0..Threshold /\ failures' # 0
        /\ failures' < Threshold => failures < Threshold
        /\ UNCHANGED <<state, age, threads, service>>
    BY <1>0 DEF Fail
  <1>2. Go(c, "calling", to) /\ older' \in {older, older \ {c}}
        /\ (to = "tripping" => older' = older)
    BY <1>0, <1>1 DEF Fail, Come
  <1>3. /\ call[c] = "calling"
        /\ \A d \in Callers : call'[d] = IF d = c THEN to ELSE call[d]
        /\ call' \in [Callers -> {"out"} \cup InCall \cup Results]
    BY <1>0, <1>2, Going DEF InCall, Results, Errors
  <1>4. to = "failure" => older' = older \ {c}
    BY <1>0, <1>1, <1>3 DEF Fail, Come, Go
  <1>. HIDE DEF to
  <1>5. (to = "tripping" /\ failures' = Threshold) \/ (to = "failure" /\ failures' < Threshold)
    BY <1>0, <1>1 DEF to
  <1>. USE <1>0, <1>1, <1>2, <1>3, <1>4, <1>5 DEF BreakerInv
  <1>6. BreakerTypeOK'
    BY DEF BreakerTypeOK
  <1>7. SerialContract'
    BY DEF SerialContract, OneThread, InCall
  <1>8. OneThread'
    BY DEF OneThread, InCall
  <1>9. FullCountTrips' /\ OnlyOlderInside'
    BY DEF FullCountTrips, OnlyOlderInside
  <1>. QED BY <1>6, <1>7, <1>8, <1>9

\* The circuit opens.
LEMMA TripInv == ASSUME BreakerInv, NEW c \in Callers, Trip(c) PROVE BreakerInv'
  <1>1. /\ call[c] = "tripping"
        /\ \A d \in Callers : call'[d] = IF d = c THEN "failure" ELSE call[d]
        /\ call' \in [Callers -> {"out"} \cup InCall \cup Results]
    BY Going DEF BreakerInv, Trip, Results, Errors
  <1>2. /\ state' = "OPEN" /\ age' = 0 /\ UNCHANGED <<failures, threads, service>>
        /\ older' = {d \in Callers \ {c} : call[d] \in InCall}
    BY DEF Trip
  <1>. USE <1>1, <1>2, BreakerAssumption DEF BreakerInv
  <1>3. BreakerTypeOK'
    BY DEF BreakerTypeOK
  <1>4. SerialContract'
    BY DEF SerialContract, OneThread, InCall, BreakerTypeOK
  <1>5. OneThread'
    BY DEF OneThread, InCall
  <1>6. FullCountTrips' /\ OnlyOlderInside'
    BY DEF FullCountTrips, OnlyOlderInside, InCall
  <1>. QED BY <1>3, <1>4, <1>5, <1>6

\* A call's result is taken.
LEMMA AfterInv ==
    ASSUME BreakerInv, NEW c \in Callers, NEW r \in Results, After(c, r)
    PROVE  BreakerInv'
  <1>1. /\ call[c] = r
        /\ \A d \in Callers : call'[d] = IF d = c THEN "out" ELSE call[d]
        /\ call' \in [Callers -> {"out"} \cup InCall \cup Results]
    BY Going DEF BreakerInv, After
  <1>2. UNCHANGED <<failures, state, age, threads, service, older>>
    BY DEF After
  <1>3. r \notin InCall
    BY DEF Results, Errors, InCall
  <1>. USE <1>1, <1>2, <1>3 DEF BreakerInv
  <1>4. BreakerTypeOK'
    BY DEF BreakerTypeOK
  <1>5. SerialContract' /\ OneThread'
    BY DEF SerialContract, OneThread, InCall
  <1>6. FullCountTrips' /\ OnlyOlderInside'
    BY DEF FullCountTrips, OnlyOlderInside, InCall
  <1>. QED BY <1>4, <1>5, <1>6

\* Time passes, the service behind fn changes, or nothing happens to the breaker.
LEMMA OutsideInv ==
    ASSUME BreakerInv, Tick \/ Turn \/ UNCHANGED breakerVars
    PROVE  BreakerInv'
  <1>1. /\ UNCHANGED <<failures, state, call, threads, older>>
        /\ age' = age \/ (age < Timeout /\ age' = age + 1)
        /\ service' \in {"up", "down"}
        /\ age \in 0..Timeout /\ Timeout \in Nat
    BY BreakerAssumption DEF BreakerInv, BreakerTypeOK, Tick, Turn, breakerVars
  <1>. USE <1>1 DEF BreakerInv
  <1>2. BreakerTypeOK'
    BY DEF BreakerTypeOK
  <1>3. OneThread' /\ SerialContract'
    BY DEF OneThread, SerialContract
  <1>4. FullCountTrips' /\ OnlyOlderInside'
    BY DEF FullCountTrips, OnlyOlderInside
  <1>. QED BY <1>2, <1>3, <1>4

\* Every step keeps the breaker's invariant.
LEMMA NextBreakerInv == IInv /\ [Next]_vars => BreakerInv'
  <1>. SUFFICES ASSUME IInv, [Next]_vars PROVE BreakerInv'
    OBVIOUS
  <1>. USE DEF IInv
  <1>1. CASE \E c \in Callers : Begin(c) \/ Wake(c) \/ Cancel(c)
    BY <1>1, OutsideInv DEF Begin, Wake, Cancel
  <1>2. CASE \E c \in Callers : Return(c) \/ BackOff(c) \/ GiveUp(c)
    <2>1. \A c \in Callers : deco[c].listed \subseteq Errors
      BY RetryAssumption DEF OpInv, TypeOK
    <2>2. \E c \in Callers, r \in Results : After(c, r)
      BY <1>2, <2>1 DEF Return, BackOff, GiveUp, Results
    <2>. QED BY <2>2, AfterInv
  <1>3. CASE \E c \in Callers : Try(c)
    BY <1>3, EnterInv DEF Try
  <1>4. CASE \E c \in Callers : Proceed(c)
    BY <1>4, ComeInv, DecideInv, AdmitInv, SucceedInv, FailInv, TripInv DEF Proceed, CallStep
  <1>5. CASE Time \/ Turn
    BY <1>5, OutsideInv DEF Time
  <1>6. CASE UNCHANGED vars
    BY <1>6, OutsideInv DEF vars
  <1>. QED BY <1>1, <1>2, <1>3, <1>4, <1>5, <1>6 DEF Next, OpStep
-----------------------------------------------------------------------------
(***************************************************************************)
(* The operations.                                                         *)
(***************************************************************************)
\* What the constants and the types say, for use below.
LEMMA OpTypes ==
    ASSUME OpInv, NEW c \in Callers
    PROVE  /\ deco[c].max \in Nat /\ deco[c].listed \subseteq Errors
           /\ attempt[c] \in Nat /\ calls[c] \in Nat
           /\ Counted(call[c], op[c], attempt[c], error[c], calls[c], deco[c].max, deco[c].listed)
  BY RetryAssumption DEF OpInv, TypeOK, CallsCounted

\* When one caller moves, what it comes to is all there is to check.
LEMMA OneMoves ==
    ASSUME OpInv, BreakerTypeOK', NEW c \in Callers,
           NEW k, NEW o \in {"trying", "sleeping", "returned", "raised"}, NEW a \in Nat,
           NEW e \in {"none"} \cup Raised, NEW n \in Nat,
           \A d \in Callers : call'[d] = IF d = c THEN k ELSE call[d],
           op' = [op EXCEPT ![c] = o], attempt' = [attempt EXCEPT ![c] = a],
           error' = [error EXCEPT ![c] = e], calls' = [calls EXCEPT ![c] = n],
           deco' = deco, Counted(k, o, a, e, n, deco[c].max, deco[c].listed)
    PROVE  OpInv'
  <1>1. /\ op' \in [Callers -> {"idle", "trying", "sleeping", "returned", "raised"}]
        /\ attempt' \in [Callers -> Nat] /\ calls' \in [Callers -> Nat]
        /\ error' \in [Callers -> {"none"} \cup Raised]
        /\ deco' \in [Callers -> Decorators]
    BY DEF OpInv, TypeOK
  <1>2. ASSUME NEW d \in Callers
        PROVE  Counted(call'[d], op'[d], attempt'[d], error'[d], calls'[d],
                       deco'[d].max, deco'[d].listed)
    <2>1. CASE d = c
      <3>1. call'[d] = k /\ op'[d] = o /\ attempt'[d] = a /\ error'[d] = e /\ calls'[d] = n
        BY <2>1 DEF OpInv, TypeOK
      <3>. QED BY <2>1, <3>1
    <2>2. CASE d # c
      <3>1. /\ call'[d] = call[d] /\ op'[d] = op[d] /\ attempt'[d] = attempt[d]
            /\ error'[d] = error[d] /\ calls'[d] = calls[d]
        BY <2>2 DEF OpInv, TypeOK
      <3>. QED BY <3>1, OpTypes
    <2>. QED BY <2>1, <2>2
  <1>3. \A d \in Callers : attempt'[d] <= deco'[d].max
    BY <1>2 DEF Counted
  <1>. QED BY <1>1, <1>2, <1>3 DEF OpInv, TypeOK, CallsCounted

\* An operation begins, or has no attempt to make.
LEMMA BeginInv == ASSUME IInv, NEW c \in Callers, Begin(c) PROVE OpInv'
  <1>1. /\ OpInv /\ BreakerTypeOK /\ call' = call /\ deco' = deco
        /\ op[c] \notin {"trying", "sleeping"} /\ calls' = [calls EXCEPT ![c] = 0]
    BY DEF IInv, BreakerInv, Begin, breakerVars
  <1>2. BreakerTypeOK'
    BY <1>1 DEF Begin, breakerVars, BreakerTypeOK
  <1>3. call[c] = "out" /\ attempt[c] <= deco[c].max /\ attempt[c] \in Nat
    BY <1>1, OpTypes DEF Counted
  <1>4. deco[c].max \in Nat /\ deco[c].listed \subseteq Errors
    BY <1>1, OpTypes
  <1>5. CASE deco[c].max >= 1
    <2>1. /\ op' = [op EXCEPT ![c] = "trying"] /\ attempt' = [attempt EXCEPT ![c] = 1]
          /\ error' = [error EXCEPT ![c] = "none"]
      BY <1>5 DEF Begin
    <2>2. Counted("out", "trying", 1, "none", 0, deco[c].max, deco[c].listed)
      <3>1. "out" \notin Reached /\ 1 - 1 = 0
        BY DEF Reached
      <3>. QED BY <1>4, <1>5, <3>1 DEF Counted
    <2>. QED BY <1>1, <1>2, <1>3, <2>1, <2>2, OneMoves
  <1>6. CASE ~(deco[c].max >= 1)
    <2>1. /\ op' = [op EXCEPT ![c] = "raised"]
          /\ attempt' = attempt /\ error' = [error EXCEPT ![c] = "unreachable"]
      BY <1>6 DEF Begin, Raise
    <2>2. attempt' = [attempt EXCEPT ![c] = attempt[c]]
      BY <1>1, <2>1 DEF OpInv, TypeOK
    <2>3. Counted("out", "raised", attempt[c], "unreachable", 0, deco[c].max, deco[c].listed)
      <3>1. "unreachable" \notin deco[c].listed
        BY <1>4 DEF Errors
      <3>2. 0 <= attempt[c]
        BY <1>3
      <3>. QED BY <1>3, <3>1, <3>2 DEF Counted
    <2>. QED BY <1>1, <1>2, <1>3, <2>1, <2>2, <2>3, OneMoves DEF Raised
  <1>. QED BY <1>5, <1>6

\* A step of the call an attempt makes: only the step that calls fn counts.
LEMMA CallMoves ==
    ASSUME OpInv, BreakerTypeOK', NEW c \in Callers, NEW from, NEW to, Go(c, from, to),
           BreakerTypeOK, op[c] = "trying", Count(c), UNCHANGED opVars,
           \/ from \notin Reached /\ to \notin Reached
           \/ from \notin Reached /\ to = "calling"
           \/ from \in Reached /\ to \in Reached /\ to # "calling"
    PROVE  OpInv'
  <1>1. call[c] = from /\ \A d \in Callers : call'[d] = IF d = c THEN to ELSE call[d]
    BY Going
  <1>2. /\ deco' = deco
        /\ op' = [op EXCEPT ![c] = "trying"] /\ attempt' = [attempt EXCEPT ![c] = attempt[c]]
        /\ error' = [error EXCEPT ![c] = error[c]]
    BY DEF OpInv, TypeOK, opVars
  <1>3. /\ attempt[c] \in Nat /\ calls[c] \in Nat /\ error[c] \in {"none"} \cup Raised
        /\ Counted(from, "trying", attempt[c], error[c], calls[c], deco[c].max, deco[c].listed)
    BY <1>1, OpTypes DEF OpInv, TypeOK
  <1>4. CASE from \notin Reached /\ to = "calling"
    <2>1. calls' = [calls EXCEPT ![c] = calls[c] + 1]
      BY <1>1, <1>4 DEF Count, Reached
    <2>2. Counted("calling", "trying", attempt[c], error[c], calls[c] + 1,
                  deco[c].max, deco[c].listed)
      BY <1>3, <1>4 DEF Counted, Reached
    <2>3. calls[c] + 1 \in Nat
      BY <1>3
    <2>. QED BY <1>1, <1>2, <1>3, <1>4, <2>1, <2>2, <2>3, OneMoves
  <1>5. CASE to # "calling"
    <2>1. calls' = [calls EXCEPT ![c] = calls[c]]
      BY <1>1, <1>5 DEF Count, OpInv, TypeOK
    <2>2. Counted(to, "trying", attempt[c], error[c], calls[c], deco[c].max, deco[c].listed)
      BY <1>3, <1>5 DEF Counted
    <2>. QED BY <1>1, <1>2, <1>3, <2>1, <2>2, OneMoves
  <1>. QED BY <1>4, <1>5 DEF Reached

\* An attempt calls, and the call goes on.
LEMMA CallInv ==
    ASSUME IInv, BreakerTypeOK', NEW c \in Callers, Try(c) \/ Proceed(c)
    PROVE  OpInv'
  <1>. USE DEF IInv, BreakerInv
  <1>1. PICK from \in {"out"} \cup InCall, to \in InCall \cup Results :
            /\ Go(c, from, to)
            /\ \/ from \notin Reached /\ to \notin Reached
               \/ from \notin Reached /\ to = "calling"
               \/ from \in Reached /\ to \in Reached /\ to # "calling"
    <2>1. CASE Try(c)
      BY <2>1 DEF Try, Enter, InCall, Results, Errors, Reached
    <2>2. CASE Refuse(c) \/ Decide(c)
      BY <2>2 DEF Refuse, Decide, Come, InCall, Results, Errors, Reached
    <2>3. CASE Admit(c)
      BY <2>3 DEF Admit, InCall, Results, Errors, Reached
    <2>4. CASE Succeed(c) \/ Interrupt(c)
      BY <2>4 DEF Succeed, Interrupt, Come, InCall, Results, Errors, Reached
    <2>5. CASE Fail(c)
      BY <2>5 DEF Fail, Come, InCall, Results, Errors, Reached
    <2>6. CASE Trip(c)
      BY <2>6 DEF Trip, InCall, Results, Errors, Reached
    <2>. QED BY <2>1, <2>2, <2>3, <2>4, <2>5, <2>6 DEF Proceed, CallStep
  <1>2. op[c] = "trying"
    <2>1. CASE Try(c)
      BY <2>1 DEF Try
    <2>2. CASE Proceed(c)
      <3>1. call[c] # "out"
        BY <2>2 DEF Proceed, CallStep, Refuse, Decide, Admit, Succeed, Fail, Interrupt, Trip,
                    Come, Go
      <3>. QED BY <3>1, OpTypes DEF Counted
    <2>. QED BY <2>1, <2>2
  <1>3. Count(c) /\ UNCHANGED opVars
    BY DEF Try, Proceed
  <1>. QED BY <1>1, <1>2, <1>3, CallMoves

\* An attempt is over: its result is returned, slept on or raised.
LEMMA OverInv ==
    ASSUME IInv, BreakerTypeOK', NEW c \in Callers, Return(c) \/ BackOff(c) \/ GiveUp(c)
    PROVE  OpInv'
  <1>. USE DEF IInv, BreakerInv
  <1>0. /\ deco[c].max \in Nat /\ deco[c].listed \subseteq Errors
        /\ attempt[c] \in Nat /\ calls[c] \in Nat
        /\ Counted(call[c], op[c], attempt[c], error[c], calls[c], deco[c].max, deco[c].listed)
    BY OpTypes
  <1>. PICK r \in Results : After(c, r)
    BY <1>0 DEF Return, BackOff, GiveUp, Results
  <1>1. /\ call[c] = r /\ op[c] = "trying"
        /\ \A d \in Callers : call'[d] = IF d = c THEN "out" ELSE call[d]
    BY Going DEF After
  <1>2. /\ deco' = deco /\ attempt' = [attempt EXCEPT ![c] = attempt[c]]
        /\ calls' = [calls EXCEPT ![c] = calls[c]]
        /\ error[c] \in {"none"} \cup Raised
    BY DEF OpInv, TypeOK, After, Return, BackOff, GiveUp
  <1>3. CASE Return(c)
    <2>1. /\ op' = [op EXCEPT ![c] = "returned"] /\ error' = [error EXCEPT ![c] = error[c]]
      BY <1>3 DEF Return, OpInv, TypeOK
    <2>2. Counted("out", "returned", attempt[c], error[c], calls[c], deco[c].max, deco[c].listed)
      BY <1>0, <1>1 DEF Counted
    <2>. QED BY <1>0, <1>1, <1>2, <2>1, <2>2, OneMoves
  <1>4. CASE BackOff(c)
    <2>1. /\ op' = [op EXCEPT ![c] = "sleeping"] /\ error' = [error EXCEPT ![c] = error[c]]
          /\ r \in deco[c].listed /\ attempt[c] < deco[c].max
      BY <1>1, <1>4 DEF BackOff, OpInv, TypeOK, After, Go
    <2>2. "refused" \notin deco[c].listed => r \in Reached
      BY <1>0, <2>1 DEF Errors, Reached
    <2>3. Counted("out", "sleeping", attempt[c], error[c], calls[c], deco[c].max, deco[c].listed)
      BY <1>0, <1>1, <2>1, <2>2 DEF Counted
    <2>. QED BY <1>0, <1>1, <1>2, <2>1, <2>3, OneMoves
  <1>5. CASE GiveUp(c)
    <2>1. /\ op' = [op EXCEPT ![c] = "raised"] /\ error' = [error EXCEPT ![c] = r]
          /\ r \in Errors /\ (r \in deco[c].listed => attempt[c] = deco[c].max)
      BY <1>1, <1>5 DEF GiveUp, After, Go, Raise
    <2>2. r # "refused" => r \in Reached
      BY <2>1 DEF Errors, Reached
    <2>3. Counted("out", "raised", attempt[c], r, calls[c], deco[c].max, deco[c].listed)
      BY <1>0, <1>1, <2>1, <2>2 DEF Counted
    <2>. QED BY <1>0, <1>1, <1>2, <2>1, <2>3, OneMoves DEF Raised
  <1>. QED BY <1>3, <1>4, <1>5

\* The sleep ends, or is cancelled.
LEMMA SleepInv ==
    ASSUME IInv, BreakerTypeOK', NEW c \in Callers, Wake(c) \/ Cancel(c)
    PROVE  OpInv'
  <1>. USE DEF IInv, BreakerInv
  <1>0. /\ deco[c].max \in Nat /\ deco[c].listed \subseteq Errors
        /\ attempt[c] \in Nat /\ calls[c] \in Nat /\ error[c] \in {"none"} \cup Raised
        /\ Counted(call[c], op[c], attempt[c], error[c], calls[c], deco[c].max, deco[c].listed)
    BY OpTypes DEF OpInv, TypeOK
  <1>1. op[c] = "sleeping" /\ call[c] = "out" /\ attempt[c] < deco[c].max
    BY <1>0 DEF Wake, Cancel, Counted
  <1>2. /\ deco' = deco /\ calls' = [calls EXCEPT ![c] = calls[c]]
        /\ \A d \in Callers : call'[d] = IF d = c THEN "out" ELSE call[d]
    BY <1>1 DEF Wake, Cancel, breakerVars, OpInv, TypeOK
  <1>3. CASE Wake(c)
    <2>1. /\ op' = [op EXCEPT ![c] = "trying"]
          /\ attempt' = [attempt EXCEPT ![c] = attempt[c] + 1]
          /\ error' = [error EXCEPT ![c] = error[c]]
      BY <1>3 DEF Wake, OpInv, TypeOK
    <2>2. Counted("out", "trying", attempt[c] + 1, error[c], calls[c], deco[c].max, deco[c].listed)
      <3>1. "out" \notin Reached /\ (attempt[c] + 1) - 1 = attempt[c]
        BY <1>0 DEF Reached
      <3>. QED BY <1>0, <1>1, <3>1 DEF Counted
    <2>3. attempt[c] + 1 \in Nat
      BY <1>0
    <2>. QED BY <1>0, <1>2, <2>1, <2>2, <2>3, OneMoves
  <1>4. CASE Cancel(c)
    <2>1. /\ op' = [op EXCEPT ![c] = "raised"]
          /\ attempt' = [attempt EXCEPT ![c] = attempt[c]]
          /\ error' = [error EXCEPT ![c] = "cancelled"]
      BY <1>4 DEF Cancel, Raise, OpInv, TypeOK
    <2>2. Counted("out", "raised", attempt[c], "cancelled", calls[c], deco[c].max, deco[c].listed)
      BY <1>0, <1>1 DEF Counted, Errors
    <2>. QED BY <1>0, <1>2, <2>1, <2>2, OneMoves DEF Raised
  <1>. QED BY <1>3, <1>4

\* Every step keeps the invariant.
LEMMA NextIInv == IInv /\ [Next]_vars => IInv'
  <1>. SUFFICES ASSUME IInv, [Next]_vars PROVE IInv'
    OBVIOUS
  <1>1. BreakerInv' /\ BreakerTypeOK'
    BY NextBreakerInv DEF BreakerInv
  <1>2. CASE \E c \in Callers : Begin(c)
    BY <1>1, <1>2, BeginInv DEF IInv
  <1>3. CASE \E c \in Callers : Try(c) \/ Proceed(c)
    BY <1>1, <1>3, CallInv DEF IInv
  <1>4. CASE \E c \in Callers : Return(c) \/ BackOff(c) \/ GiveUp(c)
    BY <1>1, <1>4, OverInv DEF IInv
  <1>5. CASE \E c \in Callers : Wake(c) \/ Cancel(c)
    BY <1>1, <1>5, SleepInv DEF IInv
  <1>6. CASE UNCHANGED <<call, opVars, calls>>
    BY <1>1, <1>6 DEF IInv, OpInv, TypeOK, CallsCounted, opVars
  <1>7. Time \/ (Turn /\ UNCHANGED <<opVars, calls>>) \/ UNCHANGED vars
            => UNCHANGED <<call, opVars, calls>>
    BY DEF Time, Tick, Turn, vars, breakerVars
  <1>. QED BY <1>2, <1>3, <1>4, <1>5, <1>6, <1>7 DEF Next, OpStep

\* The inductive invariant holds throughout.
THEOREM RetryInvariant == Spec => []IInv
  BY InitIInv, NextIInv, PTL DEF Spec

\* The breaker's and the operations' variables keep their types.
THEOREM RetryTypes == Spec => []TypeOK
  <1>1. IInv => TypeOK
    BY DEF IInv, OpInv
  <1>. QED BY <1>1, RetryInvariant, PTL

\* CircuitBreaker keeps its docstring's contract for callers that share one thread.
THEOREM BreakerSerialContract == Spec => []SerialContract
  <1>1. IInv => SerialContract
    BY DEF IInv, BreakerInv
  <1>. QED BY <1>1, RetryInvariant, PTL

\* On any threads, the failure that fills the count opens the circuit.
THEOREM BreakerFullCountTrips == Spec => []FullCountTrips
  <1>1. IInv => FullCountTrips
    BY DEF IInv, BreakerInv
  <1>. QED BY <1>1, RetryInvariant, PTL

\* On any threads, no call that began since the circuit opened cuts its time short.
THEOREM BreakerOpenHolds == Spec => OpenHolds
  <1>1. ASSUME IInv, [Next]_vars
        PROVE  [state = "OPEN" /\ state' # "OPEN" /\ age < Timeout
                  => \E c \in older : call'[c] # call[c]]_breakerVars
    <2>. SUFFICES ASSUME state = "OPEN", state' # "OPEN", age < Timeout
                  PROVE  \E c \in older : call'[c] # call[c]
      OBVIOUS
    <2>1. PICK c \in Callers : Admit(c) \/ Succeed(c)
      <3>. USE <1>1
      <3>1. CASE \E c \in Callers : Begin(c) \/ Try(c) \/ OpStep(c)
        BY <3>1 DEF Begin, Try, Enter, OpStep, Proceed, CallStep, Return, BackOff, GiveUp, Wake,
                    Cancel, After, breakerVars, Refuse, Decide, Fail, Interrupt, Trip
      <3>2. CASE Time \/ Turn \/ UNCHANGED vars
        BY <3>2 DEF Time, Tick, Turn, vars, breakerVars
      <3>. QED BY <3>1, <3>2 DEF Next
    <2>2. call[c] \in {"admitted", "calling"} /\ call'[c] # call[c]
      BY <1>1, <2>1 DEF IInv, BreakerInv, BreakerTypeOK, Admit, Succeed, Come, Go
    <2>3. c \in older
      BY <1>1, <2>2 DEF IInv, BreakerInv, OnlyOlderInside
    <2>. QED BY <2>2, <2>3
  <1>. QED BY <1>1, RetryInvariant, PTL DEF Spec, OpenHolds

\* A decorated call reaches fn once per attempt, and gives up no earlier than it should.
THEOREM RetryAttemptsReachFn == Spec => []AttemptsReachFn
  <1>1. ASSUME IInv, NEW c \in Callers
        PROVE  /\ calls[c] <= deco[c].max
               /\ op[c] = "raised" /\ error[c] \in deco[c].listed \ {"refused"}
                      /\ "refused" \notin deco[c].listed
                  => calls[c] = deco[c].max
    <2>1. /\ deco[c].max \in Nat /\ attempt[c] \in Nat /\ calls[c] \in Nat
          /\ Counted(call[c], op[c], attempt[c], error[c], calls[c], deco[c].max, deco[c].listed)
      BY <1>1, OpTypes DEF IInv
    <2>. QED BY <2>1 DEF Counted
  <1>2. IInv => AttemptsReachFn
    BY <1>1 DEF AttemptsReachFn
  <1>. QED BY <1>2, RetryInvariant, PTL
-----------------------------------------------------------------------------
(***************************************************************************)
(* The half of OperationsEnd that needs no fairness: a retried operation   *)
(* runs out of steps, whatever the circuit does meanwhile.                 *)
(***************************************************************************)
\* How many steps an attempt has left at most, with its call at k.
AttemptLeft(k) ==
    CASE k = "out" -> 6
      [] k = "deciding" -> 5
      [] k = "admitted" -> 4
      [] k = "calling" -> 3
      [] k = "tripping" -> 2
      [] OTHER -> 1

\* How many steps an operation has left, with n attempts after the present one.
OperationLeft(o, k, n) ==
    CASE o = "trying" -> 7 * n + AttemptLeft(k)
      [] o = "sleeping" -> 7 * n
      [] OTHER -> 0

Left(c) == OperationLeft(op[c], call[c], deco[c].max - attempt[c])

\* One step: an operation's own uses one up, and other callers' give none back.
OperationAdvances ==
    \A c \in Callers : op[c] \in {"trying", "sleeping"} =>
        Left(c)' <= Left(c) /\ (Try(c) \/ OpStep(c) => Left(c)' < Left(c))

OperationsRunOut == [][OperationAdvances]_vars

\* The steps of one caller leave the others alone.
LEMMA OthersStay ==
    ASSUME IInv, NEW c \in Callers, NEW d \in Callers, d # c, Begin(d) \/ Try(d) \/ OpStep(d)
    PROVE  Left(c)' = Left(c)
  <1>. USE DEF IInv, BreakerInv, BreakerTypeOK, OpInv, TypeOK, Go, Left
  <1>1. CASE Begin(d)
    BY <1>1 DEF Begin, Raise, breakerVars
  <1>2. CASE Try(d)
    BY <1>2 DEF Try, Enter, opVars
  <1>3. CASE Proceed(d)
    BY <1>3 DEF Proceed, CallStep, Refuse, Decide, Admit, Succeed, Fail, Interrupt, Trip, Come,
                opVars
  <1>4. CASE Return(d) \/ BackOff(d) \/ GiveUp(d)
    BY <1>4 DEF Return, BackOff, GiveUp, After, Raise
  <1>5. CASE Wake(d) \/ Cancel(d)
    BY <1>5 DEF Wake, Cancel, Raise, breakerVars
  <1>. QED BY <1>1, <1>2, <1>3, <1>4, <1>5 DEF OpStep

\* An operation's own step takes it on.
LEMMA OwnStepUses ==
    ASSUME IInv, NEW c \in Callers, Try(c) \/ OpStep(c)
    PROVE  Left(c)' <= Left(c) /\ Left(c)' < Left(c)
  <1>. DEFINE n == deco[c].max - attempt[c]
  <1>0. /\ deco[c].max \in Nat /\ attempt[c] \in Nat /\ attempt[c] <= deco[c].max /\ n \in Nat
        /\ Counted(call[c], op[c], attempt[c], error[c], calls[c], deco[c].max, deco[c].listed)
    BY OpTypes DEF IInv, Counted
  <1>1. CASE Try(c) \/ Proceed(c)
    <2>1. op[c] = "trying" /\ UNCHANGED opVars
      <3>1. CASE Try(c)
        BY <3>1 DEF Try
      <3>2. CASE Proceed(c)
        <4>1. call[c] # "out"
          BY <3>2 DEF Proceed, CallStep, Refuse, Decide, Admit, Succeed, Fail, Interrupt, Trip,
                      Come, Go
        <4>. QED BY <1>0, <3>2, <4>1 DEF Proceed, Counted
      <3>. QED BY <1>1, <3>1, <3>2
    <2>2. AttemptLeft(call'[c]) < AttemptLeft(call[c])
      BY <1>1 DEF Try, Enter, Proceed, CallStep, Refuse, Decide, Admit, Succeed, Fail, Interrupt,
                  Trip, Come, Go, AttemptLeft, IInv, BreakerInv, BreakerTypeOK
    <2>3. AttemptLeft(call'[c]) \in Nat /\ AttemptLeft(call[c]) \in Nat
      BY DEF AttemptLeft
    <2>4. Left(c) = 7 * n + AttemptLeft(call[c]) /\ Left(c)' = 7 * n + AttemptLeft(call'[c])
      BY <2>1 DEF Left, OperationLeft, opVars
    <2>. QED BY <1>0, <2>2, <2>3, <2>4
  <1>2. CASE Return(c) \/ BackOff(c) \/ GiveUp(c)
    <2>1. /\ op[c] = "trying" /\ op'[c] \in {"returned", "sleeping", "raised"}
          /\ attempt' = attempt /\ deco' = deco
      BY <1>2 DEF Return, BackOff, GiveUp, After, Raise, IInv, OpInv, TypeOK
    <2>2. AttemptLeft(call[c]) \in Nat /\ AttemptLeft(call[c]) > 0
      BY DEF AttemptLeft
    <2>3. Left(c) = 7 * n + AttemptLeft(call[c]) /\ Left(c)' \in {0, 7 * n}
      BY <2>1 DEF Left, OperationLeft
    <2>. QED BY <1>0, <2>2, <2>3
  <1>3. CASE Wake(c)
    <2>1. /\ op[c] = "sleeping" /\ op'[c] = "trying" /\ attempt'[c] = attempt[c] + 1
          /\ deco' = deco /\ call'[c] = "out"
      BY <1>0, <1>3 DEF Wake, breakerVars, Counted, IInv, OpInv, TypeOK
    <2>2. n > 0
      BY <1>0, <2>1 DEF Counted
    <2>3. Left(c) = 7 * n /\ Left(c)' = 7 * (deco[c].max - (attempt[c] + 1)) + 6
      BY <2>1 DEF Left, OperationLeft, AttemptLeft
    <2>. QED BY <1>0, <2>2, <2>3
  <1>4. CASE Cancel(c)
    <2>1. op[c] = "sleeping" /\ op'[c] = "raised"
      BY <1>4 DEF Cancel, Raise, IInv, OpInv, TypeOK
    <2>2. n > 0
      BY <1>0, <2>1 DEF Counted
    <2>3. Left(c) = 7 * n /\ Left(c)' = 0
      BY <2>1 DEF Left, OperationLeft
    <2>. QED BY <1>0, <2>2, <2>3
  <1>. QED BY <1>1, <1>2, <1>3, <1>4 DEF OpStep

\* Around a circuit that opens, refuses and recovers as it likes, an operation takes at most
\* 7 * max_attempts - 1 steps: no attempt is given back, not by a refused call either.
THEOREM RetryOperationsRunOut == Spec => OperationsRunOut
  <1>1. ASSUME IInv, [Next]_vars, NEW c \in Callers, op[c] \in {"trying", "sleeping"}
        PROVE  Left(c)' <= Left(c) /\ (Try(c) \/ OpStep(c) => Left(c)' < Left(c))
    <2>1. Left(c) \in Nat
      <3>1. /\ deco[c].max - attempt[c] \in Nat
            /\ AttemptLeft(call[c]) \in Nat
        BY <1>1, OpTypes DEF IInv, Counted, AttemptLeft
      <3>. QED BY <3>1 DEF Left, OperationLeft
    <2>2. CASE Try(c) \/ OpStep(c)
      BY <1>1, <2>2, OwnStepUses
    <2>3. CASE ~(Try(c) \/ OpStep(c))
      <3>1. Left(c)' = Left(c)
        <4>1. ~Begin(c)
          BY <1>1 DEF Begin
        <4>2. CASE \E d \in Callers : Begin(d) \/ Try(d) \/ OpStep(d)
          BY <1>1, <2>3, <4>1, <4>2, OthersStay
        <4>3. CASE Time \/ (Turn /\ UNCHANGED <<opVars, calls>>) \/ UNCHANGED vars
          BY <4>3 DEF Time, Tick, Turn, vars, breakerVars, opVars, Left
        <4>. QED BY <1>1, <4>2, <4>3 DEF Next
      <3>. QED BY <2>1, <2>3, <3>1
    <2>. QED BY <2>2, <2>3
  <1>2. IInv /\ [Next]_vars => [OperationAdvances]_vars
    BY <1>1 DEF OperationAdvances
  <1>. QED BY <1>2, RetryInvariant, PTL DEF Spec, OperationsRunOut
=============================================================================
