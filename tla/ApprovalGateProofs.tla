------------------------- MODULE ApprovalGateProofs -------------------------
(***************************************************************************)
(* Proofs about ApprovalGate, for every number of requests, ids and posts: *)
(* the types, the single use of a decision, the registry's invariants, the *)
(* finality of an answer, which of several posts counts, and the           *)
(* refinement of ApprovalPromise.                                          *)
(***************************************************************************)
EXTENDS ApprovalGate, SequenceTheorems, TLAPS

\* What a request's stage says of its id and of its answer.
StageData ==
    \A t \in Tasks :
        /\ stage[t] = "new" <=> id[t] = NoId
        /\ stage[t] \in {"new", "opened", "posting", "waiting", "dropped"} => answer[t] = 0
        /\ stage[t] \in {"answered", "decided"} => answer[t] # 0

\* The inductive invariant: SingleUse needs AnswersMatchIds (two stashed decisions are of
\* two ids), and every part needs NoStaleFuture to know whom submit_decision wakes.
IInv ==
    /\ TypeOK
    /\ StageData
    /\ AnswersMatchIds
    /\ SingleUse
    /\ NoStaleFuture
    /\ Answerable

\* A post is added at the end and the earlier ones keep their places.
LEMMA SaidGrows ==
    ASSUME said \in Seq(Submission), NEW s \in Submission, said' = Append(said, s)
    PROVE  /\ said' \in Seq(Submission)
           /\ Len(said) \in Nat /\ Len(said') = Len(said) + 1
           /\ \A k \in 1..Len(said) : said'[k] = said[k]
           /\ said'[Len(said) + 1] = s
  OBVIOUS

\* Before the first alert.
LEMMA InitIInv == Init => IInv
  <1>. SUFFICES ASSUME Init PROVE IInv
    OBVIOUS
  <1>. USE DEF Init, Empty
  <1>1. TypeOK
    BY DEF TypeOK, Stages
  <1>. QED BY <1>1, GateAssumption DEF IInv, StageData, AnswersMatchIds, SingleUse,
               NoStaleFuture, Answerable, Registered

\* An incident gets its id; no request waits under NoId, so none loses its own.
LEMMA OpenIInv == ASSUME IInv, NEW t \in Tasks, NEW i \in Ids, Open(t, i) PROVE IInv'
  <1>. USE DEF IInv, Open, Move
  <1>1. TypeOK'
    BY DEF TypeOK, Stages
  <1>2. answer[t] = 0 /\ id[t] = NoId /\ i # NoId
    BY GateAssumption DEF StageData
  <1>3. StageData'
    BY <1>2 DEF StageData, TypeOK
  <1>4. AnswersMatchIds' /\ SingleUse'
    BY <1>2 DEF AnswersMatchIds, SingleUse, TypeOK
  <1>5. NoStaleFuture'
    BY DEF NoStaleFuture, TypeOK, Registered
  <1>6. Answerable'
    <2>. SUFFICES ASSUME NEW u \in Tasks, stage'[u] \in Registered, Unshared(u)'
                  PROVE  id'[u] \in DOMAIN pending' /\ pending'[id'[u]] = u
      BY DEF Answerable
    <2>1. u # t /\ stage[u] \in Registered /\ id'[u] = id[u]
      BY DEF TypeOK, Registered
    <2>2. id[u] # NoId
      BY <2>1 DEF StageData, Registered
    <2>3. Unshared(u)
      BY <1>2, <2>1, <2>2 DEF Unshared, TypeOK
    <2>. QED BY <2>1, <2>3 DEF Answerable
  <1>. QED BY <1>1, <1>3, <1>4, <1>5, <1>6

\* Steps that move one request along and change nothing else.
LEMMA QuietIInv ==
    ASSUME IInv, NEW t \in Tasks, PostCard(t) \/ Timer(t) \/ Cancel(t)
    PROVE  IInv'
  <1>. USE DEF IInv, PostCard, Timer, Cancel, Move
  <1>1. TypeOK'
    BY DEF TypeOK, Stages
  <1>2. StageData' /\ AnswersMatchIds' /\ SingleUse'
    BY DEF StageData, AnswersMatchIds, SingleUse, TypeOK
  <1>3. \A u \in Tasks : stage'[u] \in Registered <=> stage[u] \in Registered
    BY DEF Registered, TypeOK
  <1>4. id' = id /\ pending' = pending
    OBVIOUS
  <1>5. NoStaleFuture'
    BY <1>3, <1>4 DEF NoStaleFuture, TypeOK
  <1>6. Answerable'
    BY <1>3, <1>4 DEF Answerable, Unshared
  <1>. QED BY <1>1, <1>2, <1>5, <1>6

\* The stashed decision moves from _EARLY to the request.
LEMMA TakeEarlyIInv == ASSUME IInv, NEW t \in Tasks, TakeEarly(t) PROVE IInv'
  <1>. USE DEF IInv, TakeEarly, Move, Pop
  <1>1. early[id[t]] \in 1..Len(said) /\ early[id[t]] # 0 /\ Len(said) \in Nat
    BY DEF TypeOK
  <1>2. TypeOK'
    BY <1>1 DEF TypeOK, Stages
  <1>3. StageData'
    BY <1>1 DEF StageData, TypeOK
  <1>4. AnswersMatchIds'
    BY <1>1 DEF AnswersMatchIds, TypeOK
  <1>5. SingleUse'
    BY <1>1 DEF SingleUse, AnswersMatchIds, TypeOK
  <1>6. NoStaleFuture' /\ Answerable'
    BY DEF NoStaleFuture, Answerable, Unshared, Registered, TypeOK
  <1>. QED BY <1>2, <1>3, <1>4, <1>5, <1>6

\* A future is registered, over any other under the same id.
LEMMA RegisterIInv == ASSUME IInv, NEW t \in Tasks, Register(t) PROVE IInv'
  <1>. USE DEF IInv, Register, Move, Put
  <1>1. id[t] \in Ids
    BY DEF TypeOK, StageData
  <1>2. TypeOK'
    BY <1>1 DEF TypeOK, Stages
  <1>3. StageData' /\ AnswersMatchIds' /\ SingleUse'
    BY DEF StageData, AnswersMatchIds, SingleUse, TypeOK
  <1>4. NoStaleFuture' /\ Answerable'
    BY DEF NoStaleFuture, Answerable, Unshared, Registered, TypeOK
  <1>. QED BY <1>2, <1>3, <1>4

\* A decision is posted: it resolves one future or goes to the stash.
LEMMA SubmitIInv ==
    ASSUME IInv, NEW i \in Ids, NEW text \in Texts, Submit(i, text)
    PROVE  IInv'
  <1>. DEFINE s == [id |-> i, decision |-> Parse(text), cards |-> CardsOf(i)]
              n == Len(said) + 1
  <1>. USE DEF IInv
  <1>1. s \in Submission
    BY DEF Submission, Parse, Decisions, CardsOf
  <1>2. /\ said' \in Seq(Submission) /\ Len(said) \in Nat /\ Len(said') = n
        /\ \A k \in 1..Len(said) : said'[k] = said[k]
        /\ said'[n].id = i
    BY <1>1, SaidGrows DEF Submit, TypeOK
  <1>3. id' = id /\ pending' = pending
    BY DEF Submit
  <1>4. \A t \in Tasks : answer[t] \in 0..Len(said) /\ answer[t] # n
    BY <1>2 DEF TypeOK
  <1>5. \A j \in DOMAIN early : early[j] \in 1..Len(said) /\ early[j] # n
    BY <1>2 DEF TypeOK
  <1>6. CASE Unresolved(i)
    <2>. DEFINE p == pending[i]
    <2>1. p \in Tasks /\ id[p] = i /\ answer[p] = 0 /\ stage[p] \in {"waiting", "timedout"}
      BY <1>6 DEF Unresolved, NoStaleFuture, TypeOK
    <2>2. /\ answer' = [answer EXCEPT ![p] = n]
          /\ stage' = [stage EXCEPT ![p] = IF @ = "waiting" THEN "answered" ELSE @]
          /\ early' = early
      BY <1>2, <1>6 DEF Submit
    <2>3. TypeOK'
      BY <1>2, <1>3, <1>4, <1>5, <2>1, <2>2 DEF TypeOK, Stages
    <2>4. StageData'
      BY <1>2, <1>3, <2>1, <2>2 DEF StageData, TypeOK
    <2>5. AnswersMatchIds'
      <3>1. ASSUME NEW t \in Tasks, answer'[t] # 0 PROVE said'[answer'[t]].id = id'[t]
        <4>1. CASE t = p
          BY <1>2, <1>3, <2>1, <2>2, <4>1 DEF TypeOK
        <4>2. CASE t # p
          <5>1. answer'[t] = answer[t] /\ answer[t] \in 1..Len(said)
            BY <1>2, <1>4, <2>2, <3>1, <4>2 DEF TypeOK
          <5>. QED BY <1>2, <1>3, <5>1 DEF AnswersMatchIds
        <4>. QED BY <4>1, <4>2
      <3>2. \A j \in DOMAIN early' : said'[early'[j]].id = j
        BY <1>2, <1>5, <2>2 DEF AnswersMatchIds
      <3>. QED BY <3>1, <3>2 DEF AnswersMatchIds
    <2>6. SingleUse'
      BY <1>2, <1>4, <1>5, <2>1, <2>2 DEF SingleUse, TypeOK
    <2>7. NoStaleFuture' /\ Answerable'
      BY <1>3, <2>1, <2>2 DEF NoStaleFuture, Answerable, Unshared, Registered, TypeOK
    <2>. QED BY <2>3, <2>4, <2>5, <2>6, <2>7
  <1>7. CASE ~Unresolved(i)
    <2>1. /\ early' = [j \in DOMAIN early \cup {i} |-> IF j = i THEN n ELSE early[j]]
          /\ answer' = answer /\ stage' = stage
      BY <1>2, <1>7 DEF Submit, Put
    <2>2. TypeOK'
      BY <1>2, <1>3, <1>4, <1>5, <2>1 DEF TypeOK
    <2>3. StageData'
      BY <1>3, <2>1 DEF StageData
    <2>4. AnswersMatchIds'
      <3>1. \A t \in Tasks : answer[t] # 0 => said'[answer[t]].id = id[t]
        BY <1>2, <1>4 DEF AnswersMatchIds
      <3>2. \A j \in DOMAIN early' : said'[early'[j]].id = j
        BY <1>2, <1>5, <2>1 DEF AnswersMatchIds
      <3>. QED BY <1>3, <2>1, <3>1, <3>2 DEF AnswersMatchIds
    <2>5. SingleUse'
      BY <1>4, <2>1 DEF SingleUse
    <2>6. NoStaleFuture' /\ Answerable'
      BY <1>3, <2>1 DEF NoStaleFuture, Answerable, Unshared
    <2>. QED BY <2>2, <2>3, <2>4, <2>5, <2>6
  <1>. QED BY <1>6, <1>7

\* The inner task ends and pops what is under its id: its own future, or that of another
\* request with the same id.
LEMMA PopIInv == ASSUME IInv, NEW t \in Tasks, Wake(t) \/ Expire(t) PROVE IInv'
  <1>. USE DEF IInv, Wake, Expire, Move, Pop
  <1>1. TypeOK'
    BY DEF TypeOK, Stages
  <1>2. StageData' /\ AnswersMatchIds' /\ SingleUse'
    BY DEF StageData, AnswersMatchIds, SingleUse, TypeOK
  <1>3. NoStaleFuture' /\ Answerable'
    BY DEF NoStaleFuture, Answerable, Unshared, Registered, TypeOK
  <1>. QED BY <1>1, <1>2, <1>3

\* The process restarts: nothing is registered and nothing is stashed.
LEMMA RestartIInv == IInv /\ Restart => IInv'
  <1>. SUFFICES ASSUME IInv, Restart PROVE IInv'
    OBVIOUS
  <1>. USE DEF IInv, Restart, Empty
  <1>0. \A t \in Tasks : stage'[t] \in Ended \cup {"new", "dropped"}
    BY DEF TypeOK, Stages, Ended
  <1>1. TypeOK'
    BY <1>0 DEF TypeOK, Stages, Ended
  <1>2. StageData'
    BY DEF StageData, TypeOK, Stages, Ended
  <1>3. AnswersMatchIds' /\ SingleUse'
    BY DEF AnswersMatchIds, SingleUse
  <1>4. NoStaleFuture' /\ Answerable'
    BY <1>0 DEF NoStaleFuture, Answerable, Registered, Ended
  <1>. QED BY <1>1, <1>2, <1>3, <1>4

\* Every step of the gate keeps the invariant.
LEMMA NextIInv == IInv /\ [Next]_vars => IInv'
  <1>. SUFFICES ASSUME IInv, [Next]_vars PROVE IInv'
    OBVIOUS
  <1>1. CASE \E t \in Tasks, i \in Ids : Open(t, i)
    BY <1>1, OpenIInv
  <1>2. CASE \E i \in Ids, text \in Texts : Submit(i, text)
    BY <1>2, SubmitIInv
  <1>3. CASE \E t \in Tasks : PostCard(t) \/ Timer(t) \/ Cancel(t)
    BY <1>3, QuietIInv
  <1>4. CASE \E t \in Tasks : TakeEarly(t)
    BY <1>4, TakeEarlyIInv
  <1>5. CASE \E t \in Tasks : Register(t)
    BY <1>5, RegisterIInv
  <1>6. CASE \E t \in Tasks : Wake(t) \/ Expire(t)
    BY <1>6, PopIInv
  <1>7. CASE Restart
    BY <1>7, RestartIInv
  <1>8. CASE UNCHANGED vars
    BY <1>8 DEF vars, IInv, TypeOK, StageData, AnswersMatchIds, SingleUse, NoStaleFuture,
                Answerable, Unshared
  <1>. QED BY <1>1, <1>2, <1>3, <1>4, <1>5, <1>6, <1>7, <1>8 DEF Next

\* The inductive invariant holds throughout.
THEOREM GateInvariant == Spec => []IInv
  BY InitIInv, NextIInv, PTL DEF Spec

\* ApprovalGate's variables keep their types.
THEOREM GateTypes == Spec => []TypeOK
  <1>1. IInv => TypeOK
    BY DEF IInv
  <1>. QED BY <1>1, GateInvariant, PTL

\* submit_decision / _await_decision: a decision ends at most one request.
THEOREM GateSingleUse == Spec => []SingleUse
  <1>1. IInv => SingleUse
    BY DEF IInv
  <1>. QED BY <1>1, GateInvariant, PTL

\* A request is given only what was posted for its id.
THEOREM GateAnswersMatchIds == Spec => []AnswersMatchIds
  <1>1. IInv => AnswersMatchIds
    BY DEF IInv
  <1>. QED BY <1>1, GateInvariant, PTL

\* _PENDING holds no future of an ended request.
THEOREM GateNoStaleFuture == Spec => []NoStaleFuture
  <1>1. IInv => NoStaleFuture
    BY DEF IInv
  <1>. QED BY <1>1, GateInvariant, PTL

\* A request whose id is its own stays reachable while it waits.
THEOREM GateAnswerable == Spec => []Answerable
  <1>1. IInv => Answerable
    BY DEF IInv
  <1>. QED BY <1>1, GateInvariant, PTL
-----------------------------------------------------------------------------
\* One step leaves an answer as it is, and an answer in time becomes the outcome.
LEMMA AnswerStays ==
    ASSUME IInv, [Next]_vars, NEW t \in Tasks
    PROVE  /\ answer[t] # 0 => answer'[t] = answer[t]
           /\ stage[t] = "answered" => stage'[t] \in {"answered", "decided", "lost"}
  <1>. USE DEF IInv, TypeOK, Move
  <1>1. CASE \E u \in Tasks, i \in Ids : Open(u, i)
    BY <1>1 DEF Open
  <1>2. CASE \E i \in Ids, text \in Texts : Submit(i, text)
    <2>. PICK i \in Ids, text \in Texts : Submit(i, text)
      BY <1>2
    <2>1. CASE Unresolved(i)
      BY <2>1 DEF Submit, Unresolved
    <2>2. CASE ~Unresolved(i)
      BY <2>2 DEF Submit
    <2>. QED BY <2>1, <2>2
  <1>3. CASE \E u \in Tasks : PostCard(u) \/ Timer(u) \/ Cancel(u) \/ Register(u)
    BY <1>3 DEF PostCard, Timer, Cancel, Register
  <1>4. CASE \E u \in Tasks : TakeEarly(u)
    BY <1>4 DEF TakeEarly, StageData
  <1>5. CASE \E u \in Tasks : Wake(u) \/ Expire(u)
    BY <1>5 DEF Wake, Expire
  <1>6. CASE Restart
    BY <1>6 DEF Restart, Ended
  <1>7. CASE UNCHANGED vars
    BY <1>7 DEF vars
  <1>. QED BY <1>1, <1>2, <1>3, <1>4, <1>5, <1>6, <1>7 DEF Next

\* A request that has ended, decided or expired, stays as it ended, and its answer with it.
LEMMA EndStays ==
    ASSUME IInv, [Next]_vars, NEW t \in Tasks, stage[t] \in {"decided", "expired"}
    PROVE  /\ stage'[t] = stage[t] /\ id'[t] = id[t]
           /\ stage[t] = "decided" =>
                  answer'[t] = answer[t] /\ said'[answer[t]] = said[answer[t]]
  <1>. USE DEF IInv, TypeOK, Move
  <1>1. stage[t] = "decided" => answer[t] # 0 /\ answer[t] \in 1..Len(said)
    BY DEF StageData
  <1>2. stage[t] = "decided" => answer'[t] = answer[t]
    BY <1>1, AnswerStays
  <1>3. CASE \E i \in Ids, text \in Texts : Submit(i, text)
    <2>. PICK i \in Ids, text \in Texts : Submit(i, text)
      BY <1>3
    <2>1. stage[t] = "decided" => said'[answer[t]] = said[answer[t]]
      <3>. DEFINE s == [id |-> i, decision |-> Parse(text), cards |-> CardsOf(i)]
      <3>1. s \in Submission
        BY DEF Submission, Parse, Decisions, CardsOf
      <3>2. said' = Append(said, s)
        BY DEF Submit
      <3>. QED BY <1>1, <3>1, <3>2, SaidGrows
    <2>2. stage'[t] = stage[t] /\ id' = id
      BY DEF Submit, Unresolved
    <2>. QED BY <1>2, <2>1, <2>2
  <1>4. CASE Restart
    BY <1>2, <1>4 DEF Restart, Ended
  <1>5. CASE UNCHANGED vars
    BY <1>5 DEF vars
  <1>6. CASE \E u \in Tasks, i \in Ids : Open(u, i)
    BY <1>2, <1>6 DEF Open
  <1>7. CASE \E u \in Tasks : \/ PostCard(u) \/ TakeEarly(u) \/ Register(u)
                             \/ Wake(u) \/ Timer(u) \/ Cancel(u) \/ Expire(u)
    BY <1>2, <1>7 DEF PostCard, TakeEarly, Register, Wake, Timer, Cancel, Expire
  <1>. QED BY <1>3, <1>4, <1>5, <1>6, <1>7 DEF Next

\* An approval once given stays given, for the same id.
LEMMA ApprovalStays ==
    ASSUME IInv, [Next]_vars, NEW t \in Tasks, Approved(t)
    PROVE  Approved(t)' /\ answer'[t] = answer[t] /\ id'[t] = id[t]
  BY EndStays DEF Approved

\* The first decision a request gets is final, and decides it unless the process stops.
THEOREM GateFirstAnswerWins == Spec => FirstAnswerWins
  <1>1. IInv /\ [Next]_vars =>
            [\A t \in Tasks :
               /\ answer[t] # 0 => answer'[t] = answer[t]
               /\ stage[t] = "answered" => stage'[t] \in {"answered", "decided", "lost"}]_vars
    BY AnswerStays
  <1>. QED BY <1>1, GateInvariant, PTL DEF Spec, FirstAnswerWins

\* The stash holds the last word for its id, and no future waits beside it.
StashIsLast ==
    \A i \in DOMAIN early :
        ~Unresolved(i) /\ \A k \in DOMAIN said : said[k].id = i => k <= early[i]

\* One post: it wakes the future, which then waits no more, or replaces what is stashed.
LEMMA SubmitKeepsStash ==
    ASSUME IInv, StashIsLast, NEW i \in Ids, NEW text \in Texts, Submit(i, text)
    PROVE  /\ StashIsLast'
           /\ \A t \in Tasks : answer'[t] # answer[t] => answer'[t] = Len(said')
           /\ said' \in Seq(Submission)
  <1>. DEFINE s == [id |-> i, decision |-> Parse(text), cards |-> CardsOf(i)]
              n == Len(said) + 1
  <1>. USE DEF IInv, TypeOK
  <1>1. s \in Submission
    BY DEF Submission, Parse, Decisions, CardsOf
  <1>2. /\ said' \in Seq(Submission) /\ Len(said) \in Nat /\ Len(said') = n
        /\ \A k \in 1..Len(said) : said'[k] = said[k]
        /\ said'[n].id = i
        /\ DOMAIN said = 1..Len(said) /\ DOMAIN said' = 1..n
    BY <1>1, SaidGrows DEF Submit
  <1>3. CASE Unresolved(i)
    <2>. DEFINE p == pending[i]
    <2>1. p \in Tasks /\ early' = early /\ pending' = pending /\ i \notin DOMAIN early
      BY <1>3 DEF Submit, Unresolved, StashIsLast
    <2>2. /\ answer' = [answer EXCEPT ![p] = n]
          /\ stage' = [stage EXCEPT ![p] = IF @ = "waiting" THEN "answered" ELSE @]
      BY <1>2, <1>3 DEF Submit
    <2>3. ASSUME NEW j \in DOMAIN early
          PROVE  ~Unresolved(j)' /\ \A k \in 1..n : said'[k].id = j => k <= early[j]
      <3>1. j # i /\ ~Unresolved(j)
        BY <2>1 DEF StashIsLast
      <3>2. ~Unresolved(j)'
        BY <1>2, <2>1, <2>2, <3>1 DEF Unresolved
      <3>3. ASSUME NEW k \in 1..n, said'[k].id = j PROVE k <= early[j]
        <4>1. k \in 1..Len(said) /\ said[k].id = j
          BY <1>2, <3>1, <3>3
        <4>. QED BY <1>2, <4>1 DEF StashIsLast
      <3>. QED BY <3>2, <3>3
    <2>. QED BY <1>2, <2>1, <2>2, <2>3 DEF StashIsLast
  <1>4. CASE ~Unresolved(i)
    <2>1. /\ early' = [j \in DOMAIN early \cup {i} |-> IF j = i THEN n ELSE early[j]]
          /\ answer' = answer /\ stage' = stage /\ pending' = pending
      BY <1>2, <1>4 DEF Submit, Put
    <2>2. ASSUME NEW j \in DOMAIN early'
          PROVE  ~Unresolved(j)' /\ \A k \in 1..n : said'[k].id = j => k <= early'[j]
      <3>1. CASE j = i
        BY <1>2, <1>4, <2>1, <3>1 DEF Unresolved
      <3>2. CASE j # i
        <4>1. j \in DOMAIN early /\ early'[j] = early[j] /\ ~Unresolved(j)
          BY <2>1, <3>2 DEF StashIsLast
        <4>2. ASSUME NEW k \in 1..n, said'[k].id = j PROVE k <= early[j]
          <5>1. k \in 1..Len(said) /\ said[k].id = j
            BY <1>2, <3>2, <4>2
          <5>. QED BY <1>2, <4>1, <5>1 DEF StashIsLast
        <4>. QED BY <2>1, <4>1, <4>2 DEF Unresolved
      <3>. QED BY <3>1, <3>2
    <2>. QED BY <1>2, <2>1, <2>2 DEF StashIsLast
  <1>. QED BY <1>3, <1>4

\* Without a post the stash only shrinks, and a future is registered where none is stashed.
LEMMA StashKept == IInv /\ StashIsLast /\ [Next]_vars => StashIsLast'
  <1>. SUFFICES ASSUME IInv, StashIsLast, [Next]_vars PROVE StashIsLast'
    OBVIOUS
  <1>. USE DEF IInv, TypeOK, Move, StashIsLast, Unresolved
  <1>1. CASE \E i \in Ids, text \in Texts : Submit(i, text)
    BY <1>1, SubmitKeepsStash
  <1>2. CASE \E t \in Tasks, i \in Ids : Open(t, i)
    BY <1>2 DEF Open
  <1>3. CASE \E t \in Tasks : PostCard(t) \/ Timer(t) \/ Cancel(t)
    BY <1>3 DEF PostCard, Timer, Cancel
  <1>4. CASE \E t \in Tasks : TakeEarly(t)
    BY <1>4 DEF TakeEarly, Pop, NoStaleFuture, Registered
  <1>5. CASE \E t \in Tasks : Register(t)
    BY <1>5 DEF Register, Put, NoStaleFuture, Registered
  <1>6. CASE \E t \in Tasks : Wake(t) \/ Expire(t)
    BY <1>6 DEF Wake, Expire, Pop
  <1>7. CASE Restart
    BY <1>7 DEF Restart, Empty
  <1>8. CASE UNCHANGED vars
    BY <1>8 DEF vars
  <1>. QED BY <1>1, <1>2, <1>3, <1>4, <1>5, <1>6, <1>7, <1>8 DEF Next

\* A request is given the last word there is for its id.
LEMMA GivenLastWord ==
    ASSUME IInv, StashIsLast, [Next]_vars, NEW t \in Tasks, answer'[t] # answer[t],
           NEW k \in DOMAIN said', said'[k].id = id[t]
    PROVE  k <= answer'[t]
  <1>. USE DEF IInv, TypeOK, Move
  <1>1. CASE \E i \in Ids, text \in Texts : Submit(i, text)
    BY <1>1, SubmitKeepsStash
  <1>2. CASE \E u \in Tasks : TakeEarly(u)
    BY <1>2 DEF TakeEarly, StashIsLast
  <1>3. CASE \E u \in Tasks : \/ PostCard(u) \/ Register(u) \/ Wake(u) \/ Timer(u)
                             \/ Cancel(u) \/ Expire(u)
    BY <1>3 DEF PostCard, Register, Wake, Timer, Cancel, Expire
  <1>4. CASE (\E u \in Tasks, i \in Ids : Open(u, i)) \/ Restart \/ UNCHANGED vars
    BY <1>4 DEF Open, Restart, vars
  <1>. QED BY <1>1, <1>2, <1>3, <1>4 DEF Next

\* A human who changes their mind before the agent asks is heard: of several posts for an id
\* the last one before it is taken counts.
THEOREM GateLastWordCounts == Spec => LastWordCounts
  <1>1. Init => StashIsLast
    BY DEF Init, StashIsLast, Empty
  <1>2. IInv /\ StashIsLast /\ [Next]_vars =>
            [\A t \in Tasks : answer'[t] # answer[t] =>
               \A k \in DOMAIN said' : said'[k].id = id[t] => k <= answer'[t]]_vars
    BY GivenLastWord
  <1>3. IInv /\ StashIsLast /\ [Next]_vars => StashIsLast'
    BY StashKept
  <1>. QED BY <1>1, <1>2, <1>3, GateInvariant, PTL DEF Spec, LastWordCounts

\* How many steps of its own a request that was asked has left at most.
StepsLeft(s) ==
    CASE s = "posting" -> 4
      [] s = "waiting" -> 3
      [] s = "timedout" -> 2
      [] s \in {"answered", "cancelled"} -> 1
      [] OTHER -> 0

\* One step: a request's own uses one up, and nobody else's gives one back.
RequestAdvances ==
    \A t \in Tasks : stage[t] \notin NotAsked =>
        /\ stage'[t] \notin NotAsked
        /\ StepsLeft(stage'[t]) <= StepsLeft(stage[t])
        /\ Progress(t) => StepsLeft(stage'[t]) < StepsLeft(stage[t])

RequestsRunOut == [][RequestAdvances]_vars

LEMMA NextAdvances == IInv /\ [Next]_vars => RequestAdvances
  <1>. SUFFICES ASSUME IInv, [Next]_vars, NEW t \in Tasks, stage[t] \notin NotAsked
                PROVE  /\ stage'[t] \notin NotAsked
                       /\ StepsLeft(stage'[t]) <= StepsLeft(stage[t])
                       /\ Progress(t) => StepsLeft(stage'[t]) < StepsLeft(stage[t])
    BY DEF RequestAdvances
  <1>. USE DEF IInv, TypeOK, Move, NotAsked
  <1>1. Progress(t) => StepsLeft(stage'[t]) < StepsLeft(stage[t]) /\ stage'[t] \notin NotAsked
    BY DEF Progress, TakeEarly, Register, Wake, Timer, Cancel, Expire, StepsLeft
  <1>2. stage'[t] = stage[t] => ~Progress(t)
    BY DEF Progress, TakeEarly, Register, Wake, Timer, Cancel, Expire
  <1>3. CASE \E u \in Tasks, i \in Ids : Open(u, i)
    BY <1>1, <1>2, <1>3 DEF Open, StepsLeft
  <1>4. CASE \E i \in Ids, text \in Texts : Submit(i, text)
    <2>1. stage'[t] = stage[t] \/ (stage[t] = "waiting" /\ stage'[t] = "answered")
      BY <1>4 DEF Submit, Unresolved
    <2>. QED BY <1>1, <2>1 DEF StepsLeft
  <1>5. CASE \E u \in Tasks : \/ PostCard(u) \/ TakeEarly(u) \/ Register(u)
                             \/ Wake(u) \/ Timer(u) \/ Cancel(u) \/ Expire(u)
    <2>. PICK u \in Tasks : PostCard(u) \/ Progress(u)
      BY <1>5 DEF Progress
    <2>1. CASE u = t
      BY <1>1, <2>1 DEF PostCard, StepsLeft
    <2>2. CASE u # t
      <3>1. stage'[t] = stage[t]
        BY <2>2 DEF PostCard, Progress, TakeEarly, Register, Wake, Timer, Cancel, Expire
      <3>. QED BY <1>1, <1>2, <3>1 DEF StepsLeft
    <2>. QED BY <2>1, <2>2
  <1>6. CASE Restart
    <2>1. stage'[t] = stage[t] \/ stage'[t] = "lost"
      BY <1>6 DEF Restart, Ended
    <2>. QED BY <1>1, <2>1 DEF StepsLeft
  <1>7. CASE UNCHANGED vars
    BY <1>1, <1>2, <1>7 DEF vars, StepsLeft
  <1>. QED BY <1>3, <1>4, <1>5, <1>6, <1>7 DEF Next

\* The half of "every request ends" that needs no fairness: wait_for, its timer, clicks and other
\* requests under the same id never set a request back, which takes four steps at most.
THEOREM GateRequestsRunOut == Spec => RequestsRunOut
  <1>1. IInv /\ [Next]_vars => [RequestAdvances]_vars
    BY NextAdvances
  <1>. QED BY <1>1, GateInvariant, PTL DEF Spec, RequestsRunOut
-----------------------------------------------------------------------------
(***************************************************************************)
(* Refinement: every step of the gate is one of the promise or invisible.  *)
(***************************************************************************)
Status == [t \in Tasks |-> PromiseStatus(t)]
By == [t \in Tasks |-> IF stage[t] = "decided" THEN answer[t] ELSE 0]
Posts == [k \in DOMAIN said |-> [id |-> said[k].id, decision |-> said[k].decision]]

\* A function on 1..n is a sequence of length n.
LEMMA FunctionIsSeq ==
    ASSUME NEW S, NEW n \in Nat, NEW f \in [1..n -> S]
    PROVE  f \in Seq(S) /\ Len(f) = n
  <1>1. f \in Seq(S)
    OBVIOUS
  <1>2. DOMAIN f = 1..n
    OBVIOUS
  <1>. QED BY <1>1, <1>2, LenProperties

\* A request moves between stages the promise does not tell apart.
LEMMA HiddenStep ==
    ASSUME IInv, NEW t \in Tasks, Register(t) \/ Timer(t) \/ Cancel(t)
    PROVE  UNCHANGED Promise!vars
  <1>. USE DEF IInv, TypeOK, Register, Timer, Cancel, Move
  <1>1. id' = id /\ said' = said /\ answer' = answer
    OBVIOUS
  <1>2. Status' = Status
    BY DEF Status, PromiseStatus
  <1>3. By' = By
    BY <1>1 DEF By
  <1>4. Posts' = Posts
    BY <1>1 DEF Posts
  <1>. QED BY <1>1, <1>2, <1>3, <1>4 DEF Promise!vars, Status, By, Posts

\* A post of the gate is a post of the promise; waking a future is invisible.
LEMMA SubmitIsSay ==
    ASSUME IInv, NEW i \in Ids, NEW text \in Texts, Submit(i, text)
    PROVE  \E p \in Promise!Post : Promise!Say(p)
  <1>. DEFINE s == [id |-> i, decision |-> Parse(text), cards |-> CardsOf(i)]
              p == [id |-> i, decision |-> Parse(text)]
  <1>. USE DEF IInv, TypeOK
  <1>1. s \in Submission /\ p \in Promise!Post
    BY DEF Submission, Promise!Post, Parse, Decisions, CardsOf
  <1>2. /\ said' \in Seq(Submission)
        /\ Len(said) \in Nat /\ Len(said') = Len(said) + 1
        /\ \A k \in 1..Len(said) : said'[k] = said[k]
        /\ said'[Len(said) + 1] = s
    BY <1>1, SaidGrows DEF Submit
  <1>3. Posts' = Append(Posts, p)
    <2>1. Posts \in Seq(Promise!Post) /\ Len(Posts) = Len(said)
      <3>0. DOMAIN said = 1..Len(said) /\ \A k \in 1..Len(said) : said[k] \in Submission
        BY LenProperties, ElementOfSeq
      <3>1. Posts \in [1..Len(said) -> Promise!Post]
        BY <3>0 DEF Posts, Submission, Promise!Post
      <3>. QED BY <1>2, <3>1, FunctionIsSeq
    <2>2. Posts' \in Seq(Promise!Post) /\ Len(Posts') = Len(said) + 1
      <3>0. /\ DOMAIN said' = 1..(Len(said) + 1) /\ Len(said) + 1 \in Nat
            /\ \A k \in 1..(Len(said) + 1) : said'[k] \in Submission
        BY <1>2, LenProperties, ElementOfSeq
      <3>1. Posts' \in [1..(Len(said) + 1) -> Promise!Post]
        BY <3>0 DEF Posts, Submission, Promise!Post
      <3>. QED BY <3>0, <3>1, FunctionIsSeq
    <2>3. \A k \in 1..Len(said) : Posts'[k] = Posts[k]
      BY <1>2 DEF Posts
    <2>4. Posts'[Len(said) + 1] = p
      BY <1>2 DEF Posts
    <2>. QED BY <1>1, <1>2, <2>1, <2>2, <2>3, <2>4
  <1>4. id' = id
    BY DEF Submit
  <1>5. \A t \in Tasks : PromiseStatus(t)' = PromiseStatus(t) /\
                         (stage'[t] = "decided" <=> stage[t] = "decided") /\
                         (stage[t] = "decided" => answer'[t] = answer[t])
    <2>1. CASE Unresolved(i)
      BY <2>1 DEF Submit, Unresolved, PromiseStatus
    <2>2. CASE ~Unresolved(i)
      BY <2>2 DEF Submit, PromiseStatus
    <2>. QED BY <2>1, <2>2
  <1>6. Status' = Status /\ By' = By
    BY <1>5 DEF Status, By
  <1>7. Promise!Say(p)
    BY <1>3, <1>4, <1>6 DEF Promise!Say, Status, By, Posts
  <1>. QED BY <1>1, <1>7

\* A request that comes out decided takes a post for its id that nobody took.
LEMMA DecidedIsDecide ==
    ASSUME IInv, NEW t \in Tasks, TakeEarly(t) \/ Wake(t)
    PROVE  Promise!End(t)
  <1>. USE DEF IInv, TypeOK, Move
  <1>. PICK k : k = answer'[t]
    OBVIOUS
  <1>1. /\ k \in 1..Len(said) /\ said[k].id = id[t]
        /\ \A u \in Tasks \ {t} : answer[u] # k
    <2>1. CASE TakeEarly(t)
      BY <2>1 DEF TakeEarly, AnswersMatchIds, SingleUse
    <2>2. CASE Wake(t)
      BY <2>2 DEF Wake, AnswersMatchIds, SingleUse, StageData
    <2>. QED BY <2>1, <2>2
  <1>2. /\ id' = id /\ said' = said
        /\ stage[t] \in {"posting", "answered"}
        /\ stage' = [stage EXCEPT ![t] = "decided"]
        /\ \A u \in Tasks \ {t} : answer'[u] = answer[u]
    BY DEF TakeEarly, Wake
  <1>3. k \in DOMAIN Posts /\ Posts[k].id = id[t]
    BY <1>1 DEF Posts
  <1>4. Status[t] = "asked" /\ Status' = [Status EXCEPT ![t] = "decided"]
    BY <1>2 DEF Status, PromiseStatus
  <1>5. By' = [By EXCEPT ![t] = k]
    BY <1>2 DEF By
  <1>6. \A u \in Tasks : By[u] # k
    BY <1>1, <1>2 DEF By
  <1>7. Posts' = Posts
    BY <1>2 DEF Posts
  <1>8. Promise!Decide(t, k)
    BY <1>2, <1>3, <1>4, <1>5, <1>6, <1>7 DEF Promise!Decide, Status, By, Posts
  <1>. QED BY <1>3, <1>8 DEF Promise!End, Posts

\* A request that comes out of a timeout times out.
LEMMA ExpireIsTimeOut ==
    ASSUME IInv, NEW t \in Tasks, Expire(t)
    PROVE  Promise!End(t)
  <1>. USE DEF IInv, TypeOK, Expire, Move
  <1>1. Status[t] = "asked" /\ Status' = [Status EXCEPT ![t] = "timed out"]
    BY DEF Status, PromiseStatus
  <1>2. By' = By /\ Posts' = Posts
    BY DEF By, Posts
  <1>3. Promise!TimeOut(t)
    BY <1>1, <1>2 DEF Promise!TimeOut, Status, By, Posts
  <1>. QED BY <1>3 DEF Promise!End

\* An incident gets its id.
LEMMA OpenIsName ==
    ASSUME IInv, NEW t \in Tasks, NEW i \in Ids, Open(t, i)
    PROVE  Promise!Name(t, i)
  <1>. USE DEF IInv, TypeOK, Open, Move
  <1>1. Status[t] = "none" /\ id[t] = NoId /\ Status' = Status
    BY DEF Status, PromiseStatus, StageData
  <1>2. By' = By /\ Posts' = Posts
    BY DEF By, Posts
  <1>. QED BY <1>1, <1>2 DEF Promise!Name, Status, By, Posts

\* The card goes out: the request is asked.
LEMMA PostCardIsAsk ==
    ASSUME IInv, NEW t \in Tasks, PostCard(t)
    PROVE  Promise!Ask(t)
  <1>. USE DEF IInv, TypeOK, PostCard, Move
  <1>1. Status[t] = "none" /\ id[t] # NoId /\ Status' = [Status EXCEPT ![t] = "asked"]
    BY DEF Status, PromiseStatus, StageData
  <1>2. By' = By /\ Posts' = Posts
    BY DEF By, Posts
  <1>. QED BY <1>1, <1>2 DEF Promise!Ask, Status, By, Posts

\* The process stops: what was named and not ended is gone.
LEMMA RestartIsStop == ASSUME IInv, Restart PROVE Promise!Stop
  <1>. USE DEF IInv, TypeOK, Restart
  <1>1. \A t \in Tasks :
          PromiseStatus(t)' = IF \/ Status[t] = "asked"
                                 \/ Status[t] = "none" /\ id[t] # NoId
                              THEN "gone" ELSE Status[t]
    BY DEF Status, PromiseStatus, StageData, Stages, Ended
  <1>2. By' = By /\ Posts' = Posts
    BY DEF By, Posts, Ended, Stages
  <1>. QED BY <1>1, <1>2 DEF Promise!Stop, Status, By, Posts

\* The gate implements the promise: it never makes a decision up, uses one twice, gives it
\* to another id's request, or takes an outcome back.
THEOREM GateKeepsPromise == Spec => KeepsPromise
  <1>1. Init => Promise!Init
    BY DEF Init, Promise!Init, PromiseStatus
  <1>2. IInv /\ [Next]_vars => [Promise!Next]_(Promise!vars)
    <2>. SUFFICES ASSUME IInv, [Next]_vars PROVE Promise!Next \/ UNCHANGED Promise!vars
      OBVIOUS
    <2>1. CASE \E t \in Tasks, i \in Ids : Open(t, i)
      BY <2>1, OpenIsName DEF Promise!Next
    <2>2. CASE \E i \in Ids, text \in Texts : Submit(i, text)
      BY <2>2, SubmitIsSay DEF Promise!Next
    <2>3. CASE \E t \in Tasks : PostCard(t)
      BY <2>3, PostCardIsAsk DEF Promise!Next
    <2>4. CASE \E t \in Tasks : Register(t) \/ Timer(t) \/ Cancel(t)
      BY <2>4, HiddenStep
    <2>5. CASE \E t \in Tasks : TakeEarly(t) \/ Wake(t)
      BY <2>5, DecidedIsDecide DEF Promise!Next
    <2>6. CASE \E t \in Tasks : Expire(t)
      BY <2>6, ExpireIsTimeOut DEF Promise!Next
    <2>7. CASE Restart
      BY <2>7, RestartIsStop DEF Promise!Next
    <2>8. CASE UNCHANGED vars
      BY <2>8 DEF vars, Promise!vars, PromiseStatus
    <2>. QED BY <2>1, <2>2, <2>3, <2>4, <2>5, <2>6, <2>7, <2>8 DEF Next
  <1>. QED BY <1>1, <1>2, GateInvariant, PTL DEF Spec, KeepsPromise, Promise!Spec
=============================================================================
