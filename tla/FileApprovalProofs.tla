------------------------- MODULE FileApprovalProofs -------------------------
(***************************************************************************)
(* Proofs about FileApproval, for any requests, ids and number of writes:  *)
(* the types, what can approve, and the refinement of the loose            *)
(* ApprovalPromise.                                                        *)
(***************************************************************************)
EXTENDS FileApproval, SequenceTheorems, TLAPS

\* What a request's stage says of its id and of its answer.
StageData ==
    \A t \in Tasks :
        /\ stage[t] = "new" <=> id[t] = NoId
        /\ stage[t] = "decided" <=> answer[t] # 0

\* Files and answers hold writes for their own id.
OwnId ==
    /\ \A i \in Ids : file[i] # 0 => said[file[i]].id = i
    /\ \A t \in Tasks : answer[t] # 0 => said[answer[t]].id = id[t]

\* The inductive invariant: what approves, and the refinement, need OwnId.
IInv == TypeOK /\ StageData /\ OwnId

\* A write is added at the end and the earlier ones keep their places.
LEMMA SaidGrows ==
    ASSUME said \in Seq(Write), NEW w \in Write, said' = Append(said, w)
    PROVE  /\ said' \in Seq(Write)
           /\ Len(said) \in Nat /\ Len(said') = Len(said) + 1
           /\ \A k \in 1..Len(said) : said'[k] = said[k]
           /\ said'[Len(said) + 1] = w
  OBVIOUS

\* Before the first alert.
LEMMA InitIInv == Init => IInv
  <1>. SUFFICES ASSUME Init PROVE IInv
    OBVIOUS
  <1>. USE DEF Init
  <1>1. TypeOK
    BY DEF TypeOK, Stages
  <1>. QED BY <1>1, FileAssumption DEF IInv, StageData, OwnId

\* An incident gets its id; nobody has been asked under NoId.
LEMMA OpenIInv == ASSUME IInv, NEW t \in Tasks, NEW i \in Ids, Open(t, i) PROVE IInv'
  <1>. USE DEF IInv, Open, Move
  <1>1. TypeOK'
    BY DEF TypeOK, Stages
  <1>2. answer[t] = 0 /\ id[t] = NoId /\ i # NoId
    BY FileAssumption DEF StageData
  <1>3. StageData'
    BY <1>2 DEF StageData, TypeOK
  <1>4. OwnId'
    BY <1>2 DEF OwnId, TypeOK
  <1>. QED BY <1>1, <1>3, <1>4

\* Steps that move one request along and leave the files as they are.
LEMMA QuietIInv == ASSUME IInv, NEW t \in Tasks, Ask(t) \/ Expire(t) PROVE IInv'
  <1>. USE DEF IInv, Ask, Expire, Move
  <1>1. TypeOK'
    BY DEF TypeOK, Stages
  <1>2. StageData'
    BY DEF StageData, TypeOK
  <1>3. OwnId'
    BY DEF OwnId
  <1>. QED BY <1>1, <1>2, <1>3

\* The request takes what its file holds.
LEMMA PollIInv == ASSUME IInv, NEW t \in Tasks, Poll(t) PROVE IInv'
  <1>. USE DEF IInv, Poll, Move
  <1>1. /\ id[t] \in Ids /\ file[id[t]] \in 1..Len(said) /\ file[id[t]] # 0
        /\ Len(said) \in Nat
    BY DEF TypeOK, StageData
  <1>2. TypeOK'
    BY <1>1 DEF TypeOK, Stages
  <1>3. StageData'
    BY <1>1 DEF StageData, TypeOK
  <1>4. OwnId'
    BY <1>1 DEF OwnId, TypeOK
  <1>. QED BY <1>2, <1>3, <1>4

\* The request fails on its file.
LEMMA PollFailsIInv == ASSUME IInv, NEW t \in Tasks, PollFails(t) PROVE IInv'
  <1>. USE DEF IInv, PollFails, Move
  <1>1. id[t] \in Ids /\ Len(said) \in Nat
    BY DEF TypeOK, StageData
  <1>2. file' = file \/ file' = [file EXCEPT ![id[t]] = 0]
    OBVIOUS
  <1>3. TypeOK'
    <2>1. file' \in [Ids -> 0..Len(said)]
      <3>1. file \in [Ids -> 0..Len(said)] /\ 0 \in 0..Len(said)
        BY <1>1 DEF TypeOK
      <3>2. CASE file' = file
        BY <3>1, <3>2
      <3>3. CASE file' = [file EXCEPT ![id[t]] = 0]
        BY <3>1, <3>3
      <3>. QED BY <1>2, <3>2, <3>3
    <2>2. stage' \in [Tasks -> Stages]
      BY DEF TypeOK, Stages
    <2>3. id' = id /\ answer' = answer /\ said' = said
      OBVIOUS
    <2>. QED BY <2>1, <2>2, <2>3 DEF TypeOK
  <1>4. StageData'
    <2>1. stage' = [stage EXCEPT ![t] = "failed"] /\ stage[t] = "waiting"
      OBVIOUS
    <2>2. id' = id /\ answer' = answer
      OBVIOUS
    <2>. QED BY <2>1, <2>2 DEF StageData, TypeOK
  <1>5. OwnId'
    BY <1>1, <1>2 DEF OwnId, TypeOK
  <1>. QED BY <1>3, <1>4, <1>5

\* A human writes to a file.
LEMMA PutIInv ==
    ASSUME IInv, NEW i \in Ids, NEW text \in Texts \cup {Empty}, Put(i, text)
    PROVE  IInv'
  <1>. DEFINE w == [id |-> i, text |-> text]
              n == Len(said) + 1
  <1>. USE DEF IInv, Put
  <1>1. w \in Write
    BY DEF Write
  <1>2. /\ said' \in Seq(Write) /\ Len(said) \in Nat /\ Len(said') = n
        /\ \A k \in 1..Len(said) : said'[k] = said[k]
        /\ said'[n] = w
    BY <1>1, SaidGrows DEF TypeOK
  <1>3. file' = [file EXCEPT ![i] = n]
    BY <1>2
  <1>4. TypeOK'
    BY <1>2, <1>3 DEF TypeOK
  <1>5. StageData'
    BY DEF StageData
  <1>6. OwnId'
    <2>1. ASSUME NEW j \in Ids, file'[j] # 0 PROVE said'[file'[j]].id = j
      <3>1. CASE j = i
        BY <1>2, <1>3, <3>1 DEF TypeOK
      <3>2. CASE j # i
        <4>1. file'[j] = file[j] /\ file[j] \in 1..Len(said)
          BY <1>2, <1>3, <2>1, <3>2 DEF TypeOK
        <4>. QED BY <1>2, <2>1, <4>1 DEF OwnId
      <3>. QED BY <3>1, <3>2
    <2>2. ASSUME NEW t \in Tasks, answer[t] # 0 PROVE said'[answer[t]].id = id[t]
      <3>1. answer[t] \in 1..Len(said)
        BY <1>2, <2>2 DEF TypeOK
      <3>. QED BY <1>2, <2>2, <3>1 DEF OwnId
    <2>. QED BY <2>1, <2>2 DEF OwnId
  <1>. QED BY <1>4, <1>5, <1>6

\* A human removes a file.
LEMMA RemoveIInv == ASSUME IInv, NEW i \in Ids, Remove(i) PROVE IInv'
  <1>. USE DEF IInv, Remove
  <1>1. TypeOK'
    BY DEF TypeOK
  <1>. QED BY <1>1 DEF StageData, OwnId, TypeOK

\* The process restarts; ids, answers and files stay.
LEMMA RestartIInv == IInv /\ Restart => IInv'
  <1>. SUFFICES ASSUME IInv, Restart PROVE IInv'
    OBVIOUS
  <1>. USE DEF IInv, Restart
  <1>1. TypeOK'
    BY DEF TypeOK, Stages
  <1>2. StageData'
    BY DEF StageData, TypeOK, Stages
  <1>. QED BY <1>1, <1>2 DEF OwnId

\* Every step keeps the invariant.
LEMMA NextIInv == IInv /\ [Next]_vars => IInv'
  <1>. SUFFICES ASSUME IInv, [Next]_vars PROVE IInv'
    OBVIOUS
  <1>1. CASE \E t \in Tasks, i \in Ids : Open(t, i)
    BY <1>1, OpenIInv
  <1>2. CASE \E t \in Tasks : Ask(t) \/ Expire(t)
    BY <1>2, QuietIInv
  <1>3. CASE \E t \in Tasks : Poll(t)
    BY <1>3, PollIInv
  <1>4. CASE \E t \in Tasks : PollFails(t)
    BY <1>4, PollFailsIInv
  <1>5. CASE \E i \in Ids : Create(i) \/ \E text \in Texts : Fill(i, text)
    BY <1>5, PutIInv DEF Create, Fill
  <1>6. CASE \E i \in Ids : Remove(i)
    BY <1>6, RemoveIInv
  <1>7. CASE Restart
    BY <1>7, RestartIInv
  <1>8. CASE UNCHANGED vars
    BY <1>8 DEF vars, IInv, TypeOK, StageData, OwnId
  <1>. QED BY <1>1, <1>2, <1>3, <1>4, <1>5, <1>6, <1>7, <1>8 DEF Next

\* The inductive invariant holds throughout.
THEOREM FileInvariant == Spec => []IInv
  BY InitIInv, NextIInv, PTL DEF Spec

\* FileApproval's variables keep their types.
THEOREM FileTypes == Spec => []TypeOK
  <1>1. IInv => TypeOK
    BY DEF IInv
  <1>. QED BY <1>1, FileInvariant, PTL

\* _await_decision: only the whole word, in the request's own file, approves.
THEOREM FileOnlyAWrittenApproval == Spec => []OnlyAWrittenApproval
  <1>1. IInv => OnlyAWrittenApproval
    BY DEF IInv, StageData, OwnId, OnlyAWrittenApproval, Parse, Decisions
  <1>. QED BY <1>1, FileInvariant, PTL
-----------------------------------------------------------------------------
(***************************************************************************)
(* Refinement: every step of file mode is one of the promise or invisible. *)
(***************************************************************************)
Status == [t \in Tasks |-> PromiseStatus(t)]
Posts == [k \in DOMAIN said |-> [id |-> said[k].id, decision |-> Parse(said[k].text)]]

\* A function on 1..n is a sequence of length n.
LEMMA FunctionIsSeq ==
    ASSUME NEW S, NEW n \in Nat, NEW f \in [1..n -> S]
    PROVE  f \in Seq(S) /\ Len(f) = n
  <1>1. f \in Seq(S)
    OBVIOUS
  <1>2. DOMAIN f = 1..n
    OBVIOUS
  <1>. QED BY <1>1, <1>2, LenProperties

\* A write to a file is a post of the promise.
LEMMA PutIsSay ==
    ASSUME IInv, NEW i \in Ids, NEW text \in Texts \cup {Empty}, Put(i, text)
    PROVE  \E p \in Promise!Post : Promise!Say(p)
  <1>. DEFINE w == [id |-> i, text |-> text]
              p == [id |-> i, decision |-> Parse(text)]
  <1>. USE DEF IInv, TypeOK, Put
  <1>1. w \in Write /\ p \in Promise!Post
    BY DEF Write, Promise!Post, Parse, Decisions
  <1>2. /\ said' \in Seq(Write)
        /\ Len(said) \in Nat /\ Len(said') = Len(said) + 1
        /\ \A k \in 1..Len(said) : said'[k] = said[k]
        /\ said'[Len(said) + 1] = w
    BY <1>1, SaidGrows
  <1>3. Posts' = Append(Posts, p)
    <2>. \A x : Parse(x) \in Decisions
      BY DEF Parse, Decisions
    <2>1. Posts \in Seq(Promise!Post) /\ Len(Posts) = Len(said)
      <3>0. DOMAIN said = 1..Len(said) /\ \A k \in 1..Len(said) : said[k] \in Write
        BY LenProperties, ElementOfSeq
      <3>1. Posts \in [1..Len(said) -> Promise!Post]
        BY <3>0 DEF Posts, Write, Promise!Post
      <3>. QED BY <1>2, <3>1, FunctionIsSeq
    <2>2. Posts' \in Seq(Promise!Post) /\ Len(Posts') = Len(said) + 1
      <3>0. /\ DOMAIN said' = 1..(Len(said) + 1) /\ Len(said) + 1 \in Nat
            /\ \A k \in 1..(Len(said) + 1) : said'[k] \in Write
        BY <1>2, LenProperties, ElementOfSeq
      <3>1. Posts' \in [1..(Len(said) + 1) -> Promise!Post]
        BY <3>0 DEF Posts, Write, Promise!Post
      <3>. QED BY <3>0, <3>1, FunctionIsSeq
    <2>3. \A k \in 1..Len(said) : Posts'[k] = Posts[k]
      BY <1>2 DEF Posts
    <2>4. Posts'[Len(said) + 1] = p
      BY <1>2 DEF Posts
    <2>. QED BY <1>1, <1>2, <2>1, <2>2, <2>3, <2>4
  <1>4. UNCHANGED <<id, Status, answer>>
    BY DEF Status, PromiseStatus
  <1>5. Promise!Say(p)
    BY <1>3, <1>4 DEF Promise!Say, Status, Posts
  <1>. QED BY <1>1, <1>5

\* What one request does leaves the posts alone; its id is given, it asks or it ends.
LEMMA RequestSteps ==
    ASSUME IInv, NEW t \in Tasks
    PROVE  /\ \A i \in Ids : Open(t, i) => Promise!Name(t, i)
           /\ Ask(t) => Promise!Ask(t)
           /\ Expire(t) => Promise!TimeOut(t)
           /\ PollFails(t) => Promise!Fail(t)
           /\ Poll(t) => \E k \in DOMAIN Posts : Promise!Decide(t, k)
  <1>. USE DEF IInv, TypeOK, StageData, Move
  <1>1. ASSUME NEW i \in Ids, Open(t, i) PROVE Promise!Name(t, i)
    <2>1. Status[t] = "none" /\ id[t] = NoId /\ Status' = Status /\ Posts' = Posts
      BY <1>1 DEF Open, Status, PromiseStatus, Posts
    <2>. QED BY <1>1, <2>1 DEF Open, Promise!Name, Status, Posts
  <1>2. ASSUME Ask(t) PROVE Promise!Ask(t)
    <2>1. /\ Status[t] = "none" /\ id[t] # NoId /\ Posts' = Posts
          /\ Status' = [Status EXCEPT ![t] = "asked"]
      BY <1>2 DEF Ask, Status, PromiseStatus, Posts
    <2>. QED BY <1>2, <2>1 DEF Ask, Promise!Ask, Status, Posts
  <1>3. ASSUME Expire(t) PROVE Promise!TimeOut(t)
    <2>1. /\ Status[t] = "asked" /\ Posts' = Posts
          /\ Status' = [Status EXCEPT ![t] = "timed out"]
      BY <1>3 DEF Expire, Status, PromiseStatus, Posts
    <2>. QED BY <1>3, <2>1 DEF Expire, Promise!TimeOut, Status, Posts
  <1>4. ASSUME PollFails(t) PROVE Promise!Fail(t)
    <2>1. /\ Status[t] = "asked" /\ Posts' = Posts
          /\ Status' = [Status EXCEPT ![t] = "gone"]
      BY <1>4 DEF PollFails, Status, PromiseStatus, Posts
    <2>. QED BY <1>4, <2>1 DEF PollFails, Promise!Fail, Status, Posts
  <1>5. ASSUME Poll(t) PROVE \E k \in DOMAIN Posts : Promise!Decide(t, k)
    <2>1. /\ file[id[t]] \in DOMAIN Posts /\ Posts[file[id[t]]].id = id[t]
      BY <1>5 DEF Poll, OwnId, Posts
    <2>2. /\ Status[t] = "asked" /\ Posts' = Posts
          /\ Status' = [Status EXCEPT ![t] = "decided"]
      BY <1>5 DEF Poll, Status, PromiseStatus, Posts
    <2>3. Promise!Decide(t, file[id[t]])
      BY <1>5, <2>1, <2>2 DEF Poll, Promise!Decide, Status, Posts
    <2>. QED BY <2>1, <2>3
  <1>. QED BY <1>1, <1>2, <1>3, <1>4, <1>5

\* The process stops: what was named and not ended is gone.
LEMMA RestartIsStop == ASSUME IInv, Restart PROVE Promise!Stop
  <1>. USE DEF IInv, TypeOK, Restart
  <1>1. \A t \in Tasks :
          PromiseStatus(t)' = IF \/ Status[t] = "asked"
                                 \/ Status[t] = "none" /\ id[t] # NoId
                              THEN "gone" ELSE Status[t]
    BY DEF Status, PromiseStatus, StageData, Stages
  <1>2. Posts' = Posts
    BY DEF Posts
  <1>. QED BY <1>1, <1>2 DEF Promise!Stop, Status, Posts

\* File mode implements the loose promise: it gives a request only what was written for its
\* id, ends it once, and takes no outcome back.
THEOREM FileKeepsLoosePromise == Spec => KeepsLoosePromise
  <1>1. Init => Promise!Init
    BY DEF Init, Promise!Init, PromiseStatus
  <1>2. IInv /\ [Next]_vars => [Promise!Next]_(Promise!vars)
    <2>. SUFFICES ASSUME IInv, [Next]_vars PROVE Promise!Next \/ UNCHANGED Promise!vars
      OBVIOUS
    <2>1. CASE \E t \in Tasks : \/ \E i \in Ids : Open(t, i)
                                \/ Ask(t) \/ Poll(t) \/ PollFails(t) \/ Expire(t)
      <3>. PICK t \in Tasks : \/ \E i \in Ids : Open(t, i)
                              \/ Ask(t) \/ Poll(t) \/ PollFails(t) \/ Expire(t)
        BY <2>1
      <3>. QED BY RequestSteps DEF Promise!Next, Promise!End, Posts
    <2>2. CASE \E i \in Ids : Create(i) \/ \E text \in Texts : Fill(i, text)
      BY <2>2, PutIsSay DEF Create, Fill, Promise!Next
    <2>3. CASE \E i \in Ids : Remove(i)
      BY <2>3 DEF Remove, Promise!vars, PromiseStatus
    <2>4. CASE Restart
      BY <2>4, RestartIsStop DEF Promise!Next
    <2>5. CASE UNCHANGED vars
      BY <2>5 DEF vars, Promise!vars, PromiseStatus
    <2>. QED BY <2>1, <2>2, <2>3, <2>4, <2>5 DEF Next
  <1>. QED BY <1>1, <1>2, FileInvariant, PTL DEF Spec, KeepsLoosePromise, Promise!Spec
=============================================================================
