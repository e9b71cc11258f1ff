----------------------------- MODULE FixPRProofs -----------------------------
(***************************************************************************)
(* The safety of FixPR for any number of incidents, ids and kinds of plan. *)
(***************************************************************************)
EXTENDS FixPR, TLAPS

\* Whose pull request may still come into being.
Unproposed(t) ==
    pc[t] \in {"idle"} \cup Requests \/ <<t, "proposing">> \in late

\* Whose next request opens a pull request, or whose late one does.
Ready(t) == pc[t] = "proposing" \/ <<t, "proposing">> \in late

\* A request is left to GitHub by a call that has failed or was stopped.
LateIsOver == \A t \in Tasks, r \in Requests : <<t, r>> \in late => pc[t] \in {"ERROR", "lost"}

\* A pull request is asked for once.
ProposedOnce == \A t \in Tasks : Unproposed(t) => t \notin opened

\* By then the branch holds the call's own note.
ReadyHasNote == \A t \in Tasks : Ready(t) => branch[BranchName(t)] = t

IInv ==
    /\ TypeOK
    /\ LateIsOver
    /\ ProposedOnce
    /\ ReadyHasNote
    /\ ReviewShowsItsIncident
    /\ MergedWasReviewed
-----------------------------------------------------------------------------
\* What GitHub does keeps the types of its own state.
LEMMA GithubTypes ==
    ASSUME TypeOK, NEW t \in Tasks,
           CreateBranch(t) \/ PutNote(t) \/ CreatePull(t) \/ UNCHANGED github
    PROVE  /\ branch' \in [Branches -> Note \cup {Absent}]
           /\ main' \in [Ids -> Note]
           /\ open' \subseteq opened' /\ opened' \subseteq Tasks
  <1>1. CASE CreateBranch(t)
    BY <1>1 DEF TypeOK, CreateBranch
  <1>2. CASE PutNote(t)
    BY <1>2 DEF TypeOK, PutNote, Note
  <1>3. CASE CreatePull(t)
    BY <1>3 DEF TypeOK, CreatePull
  <1>4. CASE UNCHANGED github
    BY <1>4 DEF TypeOK, github
  <1>. QED BY <1>1, <1>2, <1>3, <1>4

LEMMA InitIInv == Init => IInv
  <1>. SUFFICES ASSUME Init PROVE IInv
    OBVIOUS
  <1>1. TypeOK
    BY DEF Init, TypeOK, Note
  <1>2. MergedWasReviewed
    BY FixPRAssumption DEF Init, MergedWasReviewed
  <1>. QED
    BY <1>1, <1>2 DEF Init, IInv, LateIsOver, ProposedOnce, ReadyHasNote, Ready,
                      ReviewShowsItsIncident

LEMMA TypesKept == TypeOK /\ ReviewShowsItsIncident /\ [Next]_vars => TypeOK'
  <1>. SUFFICES ASSUME TypeOK, ReviewShowsItsIncident, [Next]_vars PROVE TypeOK'
    OBVIOUS
  <1>. USE DEF Step, Requests, Results
  <1>1. ASSUME NEW t \in Tasks, Begin(t) PROVE TypeOK'
    BY <1>1 DEF TypeOK, Begin, github
  <1>2. ASSUME NEW t \in Tasks, ReadBase(t) PROVE TypeOK'
    BY <1>2 DEF TypeOK, ReadBase, github, NotePath, Branches
  <1>3. ASSUME NEW t \in Tasks, MakeBranch(t) PROVE TypeOK'
    BY <1>3, GithubTypes DEF TypeOK, MakeBranch
  <1>4. ASSUME NEW t \in Tasks, WriteNote(t) PROVE TypeOK'
    BY <1>4, GithubTypes DEF TypeOK, WriteNote
  <1>5. ASSUME NEW t \in Tasks, Propose(t) PROVE TypeOK'
    BY <1>5, GithubTypes DEF TypeOK, Propose
  <1>6. ASSUME NEW t \in Tasks, Fail(t) PROVE TypeOK'
    <2>1. <<t, pc[t]>> \in Tasks \X Requests /\ late' \subseteq late \cup {<<t, pc[t]>>}
      BY <1>6 DEF Fail
    <2>2. pc' \in [Tasks -> {"idle"} \cup Requests \cup Results]
      BY <1>6 DEF TypeOK, Fail
    <2>3. late' \subseteq Tasks \X Requests
      BY <2>1 DEF TypeOK
    <2>. QED BY <1>6, <2>2, <2>3 DEF TypeOK, Fail, github
  <1>7. ASSUME NEW t \in Tasks, Raise(t) PROVE TypeOK'
    BY <1>7, GithubTypes DEF TypeOK, Raise
  <1>8. ASSUME NEW t \in Tasks, Review(t) PROVE TypeOK'
    <2>1. open' \subseteq opened' /\ opened' \subseteq Tasks
      BY <1>8 DEF TypeOK, Review
    <2>2. branch' \in [Branches -> Note \cup {Absent}]
      BY <1>8 DEF TypeOK, Review
    <2>3. main' \in [Ids -> Note]
      <3>1. branch[BranchName(t)] \in Note
        BY <1>8 DEF TypeOK, Review, ReviewShowsItsIncident, Note
      <3>. QED BY <1>8, <3>1 DEF TypeOK, Review
    <2>. QED BY <1>8, <2>1, <2>2, <2>3 DEF TypeOK, Review
  <1>9. ASSUME NEW t \in Tasks, NEW r \in Requests, ServeLate(t, r) PROVE TypeOK'
    BY <1>9, GithubTypes DEF TypeOK, ServeLate, Serve
  <1>10. ASSUME Stop PROVE TypeOK'
    <2>1. {<<t, pc[t]>> : t \in {u \in Tasks : pc[u] \in Requests}} \subseteq Tasks \X Requests
      OBVIOUS
    <2>2. pc' \in [Tasks -> {"idle"} \cup Requests \cup Results]
      BY <1>10 DEF TypeOK, Stop
    <2>3. late' \subseteq Tasks \X Requests
      BY <1>10, <2>1 DEF TypeOK, Stop
    <2>. QED BY <1>10, <2>2, <2>3 DEF TypeOK, Stop, github
  <1>11. ASSUME UNCHANGED vars PROVE TypeOK'
    BY <1>11 DEF TypeOK, vars, github
  <1>. QED
    BY <1>1, <1>2, <1>3, <1>4, <1>5, <1>6, <1>7, <1>8, <1>9, <1>10, <1>11 DEF Next, CallStep

\* Whose late request GitHub serves is over; a call that is under way has none.
LEMMA LateKept == TypeOK /\ LateIsOver /\ [Next]_vars => LateIsOver'
  <1>. SUFFICES ASSUME TypeOK, LateIsOver, [Next]_vars PROVE LateIsOver'
    OBVIOUS
  <1>. USE DEF LateIsOver, Step, Requests
  <1>1. ASSUME NEW t \in Tasks,
               Begin(t) \/ ReadBase(t) \/ MakeBranch(t) \/ WriteNote(t) \/ Propose(t) \/ Raise(t)
        PROVE  LateIsOver'
    BY <1>1 DEF TypeOK, Begin, ReadBase, MakeBranch, WriteNote, Propose, Raise
  <1>2. ASSUME NEW t \in Tasks, Fail(t) PROVE LateIsOver'
    <2>1. late' \subseteq late \cup {<<t, pc[t]>>}
      BY <1>2 DEF Fail
    <2>2. pc'[t] = "ERROR" /\ \A u \in Tasks \ {t} : pc'[u] = pc[u]
      BY <1>2 DEF TypeOK, Fail
    <2>. QED BY <2>1, <2>2
  <1>3. ASSUME Stop PROVE LateIsOver'
    BY <1>3 DEF TypeOK, Stop
  <1>4. ASSUME NEW t \in Tasks, NEW r \in Requests, ServeLate(t, r) PROVE LateIsOver'
    BY <1>4 DEF ServeLate
  <1>5. ASSUME NEW t \in Tasks, Review(t) PROVE LateIsOver'
    BY <1>5 DEF Review
  <1>6. ASSUME UNCHANGED vars PROVE LateIsOver'
    BY <1>6 DEF vars
  <1>. QED
    BY <1>1, <1>2, <1>3, <1>4, <1>5, <1>6 DEF Next, CallStep

\* A pull request is asked for by Propose, Raise and ServeLate only, and by a task once.
LEMMA OnceKept == TypeOK /\ LateIsOver /\ ProposedOnce /\ [Next]_vars => ProposedOnce'
  <1>. SUFFICES ASSUME TypeOK, LateIsOver, ProposedOnce, [Next]_vars
                PROVE  ProposedOnce'
    OBVIOUS
  <1>. USE DEF ProposedOnce, Unproposed, Step, Requests, github
  <1>1. ASSUME NEW t \in Tasks, Begin(t) \/ ReadBase(t) PROVE ProposedOnce'
    BY <1>1 DEF TypeOK, Begin, ReadBase
  <1>2. ASSUME NEW t \in Tasks, MakeBranch(t) \/ WriteNote(t) PROVE ProposedOnce'
    <2>1. opened' = opened /\ late' = late
      BY <1>2 DEF MakeBranch, WriteNote, CreateBranch, PutNote
    <2>. QED BY <1>2, <2>1 DEF TypeOK, MakeBranch, WriteNote
  <1>3. ASSUME NEW t \in Tasks, Propose(t) PROVE ProposedOnce'
    BY <1>3 DEF TypeOK, Propose, CreatePull, LateIsOver
  <1>4. ASSUME NEW t \in Tasks, Raise(t) PROVE ProposedOnce'
    BY <1>4 DEF TypeOK, Raise, CreatePull, LateIsOver
  <1>5. ASSUME NEW t \in Tasks, Fail(t) PROVE ProposedOnce'
    <2>1. opened' = opened /\ late' \subseteq late \cup {<<t, pc[t]>>} /\ pc[t] \in Requests
      BY <1>5 DEF Fail
    <2>2. \A u \in Tasks : pc'[u] \in {"idle"} \cup Requests => pc'[u] = pc[u]
      BY <1>5 DEF TypeOK, Fail
    <2>. QED BY <2>1, <2>2
  <1>6. ASSUME Stop PROVE ProposedOnce'
    BY <1>6 DEF TypeOK, Stop
  <1>7. ASSUME NEW t \in Tasks, NEW r \in Requests, ServeLate(t, r) PROVE ProposedOnce'
    <2>1. CASE r = "proposing" /\ CreatePull(t)
      <3>1. pc[t] \in {"ERROR", "lost"} /\ <<t, "proposing">> \notin late'
        BY <1>7, <2>1 DEF ServeLate, LateIsOver
      <3>. QED BY <1>7, <2>1, <3>1 DEF ServeLate, CreatePull
    <2>2. CASE UNCHANGED <<open, opened>>
      BY <1>7, <2>2 DEF ServeLate
    <2>. QED BY <1>7, <2>1, <2>2 DEF ServeLate, Serve, CreateBranch, PutNote
  <1>8. ASSUME NEW t \in Tasks, Review(t) PROVE ProposedOnce'
    BY <1>8 DEF Review
  <1>9. ASSUME UNCHANGED vars PROVE ProposedOnce'
    BY <1>9 DEF vars
  <1>. QED
    BY <1>1, <1>2, <1>3, <1>4, <1>5, <1>6, <1>7, <1>8, <1>9 DEF Next, CallStep

\* What is ready to be proposed keeps its note, and what is open keeps it until its review.
LEMMA NotesKept == IInv /\ [Next]_vars => ReadyHasNote' /\ ReviewShowsItsIncident'
  <1>. SUFFICES ASSUME IInv, [Next]_vars PROVE ReadyHasNote' /\ ReviewShowsItsIncident'
    OBVIOUS
  <1>. USE DEF IInv, ReadyHasNote, ReviewShowsItsIncident, Ready, BranchName
  <1>. DEFINE Kept == \A b \in Branches : branch[b] \in Tasks => branch'[b] = branch[b]
  <1>1. ASSUME Kept, open' \subseteq open, incident' = incident,
               \A t \in Tasks : Ready(t)' => Ready(t)
        PROVE  ReadyHasNote' /\ ReviewShowsItsIncident'
    BY <1>1 DEF TypeOK
  <1>2. ASSUME NEW t \in Tasks, CreateBranch(t) PROVE Kept
    BY <1>2, FixPRAssumption DEF TypeOK, CreateBranch
  <1>3. ASSUME NEW t \in Tasks, PutNote(t) PROVE Kept /\ branch'[BranchName(t)] = t
    BY <1>3, FixPRAssumption DEF TypeOK, PutNote
  <1>4. ASSUME NEW t \in Tasks, Begin(t) \/ ReadBase(t) \/ Fail(t)
        PROVE  ReadyHasNote' /\ ReviewShowsItsIncident'
    <2>1. \A u \in Tasks : Ready(u)' => Ready(u)
      <3>1. /\ late' \subseteq late \cup {<<t, pc[t]>>}
            /\ \A u \in Tasks : pc'[u] = "proposing" => pc[u] = "proposing"
        BY <1>4 DEF TypeOK, Begin, ReadBase, Fail, Step
      <3>. QED BY <3>1
    <2>. QED BY <1>4, <1>1, <2>1 DEF Begin, ReadBase, Fail, github
  <1>5. ASSUME NEW t \in Tasks, MakeBranch(t) PROVE ReadyHasNote' /\ ReviewShowsItsIncident'
    <2>1. \A u \in Tasks : Ready(u)' => Ready(u)
      BY <1>5 DEF TypeOK, MakeBranch, Step
    <2>2. Kept /\ open' = open
      BY <1>5, <1>2 DEF MakeBranch, CreateBranch, github
    <2>. QED BY <1>5, <1>1, <2>1, <2>2 DEF MakeBranch
  <1>6. ASSUME NEW t \in Tasks, WriteNote(t) PROVE ReadyHasNote' /\ ReviewShowsItsIncident'
    <2>1. \A u \in Tasks \ {t} : Ready(u)' => Ready(u)
      BY <1>6 DEF TypeOK, WriteNote, Step
    <2>2. Kept /\ branch'[BranchName(t)] = t /\ open' = open /\ incident' = incident
      BY <1>6, <1>3 DEF WriteNote, PutNote
    <2>. QED BY <2>1, <2>2 DEF TypeOK
  <1>7. ASSUME NEW t \in Tasks, Ready(t), CreatePull(t), incident' = incident,
               \A u \in Tasks : Ready(u)' => Ready(u)
        PROVE  ReadyHasNote' /\ ReviewShowsItsIncident'
    BY <1>7 DEF TypeOK, CreatePull
  <1>8. ASSUME NEW t \in Tasks, Propose(t) \/ Raise(t)
        PROVE  ReadyHasNote' /\ ReviewShowsItsIncident'
    <2>1. incident' = incident /\ \A u \in Tasks : Ready(u)' => Ready(u)
      BY <1>8 DEF TypeOK, Propose, Raise, Step
    <2>2. CASE pc[t] = "proposing" /\ CreatePull(t)
      BY <1>7, <2>1, <2>2
    <2>3. CASE UNCHANGED github
      BY <1>1, <2>1, <2>3 DEF github
    <2>. QED BY <1>8, <2>2, <2>3 DEF Propose, Raise, Step
  <1>9. ASSUME Stop PROVE ReadyHasNote' /\ ReviewShowsItsIncident'
    <2>1. \A u \in Tasks : Ready(u)' => Ready(u)
      BY <1>9 DEF TypeOK, Stop, Requests
    <2>. QED BY <1>9, <1>1, <2>1 DEF Stop, github
  <1>10. ASSUME NEW t \in Tasks, NEW r \in Requests, ServeLate(t, r)
         PROVE  ReadyHasNote' /\ ReviewShowsItsIncident'
    <2>1. incident' = incident /\ \A u \in Tasks : Ready(u)' => Ready(u)
      BY <1>10 DEF ServeLate
    <2>2. CASE CreateBranch(t) \/ PutNote(t) \/ UNCHANGED github
      <3>1. Kept /\ open' = open
        BY <2>2, <1>2, <1>3 DEF CreateBranch, PutNote, github
      <3>. QED BY <1>1, <2>1, <3>1
    <2>3. CASE r = "proposing" /\ CreatePull(t)
      BY <1>10, <1>7, <2>1, <2>3 DEF ServeLate
    <2>. QED BY <1>10, <2>2, <2>3 DEF ServeLate, Serve
  <1>11. ASSUME NEW t \in Tasks, Review(t) PROVE ReadyHasNote' /\ ReviewShowsItsIncident'
    <2>1. t \in opened /\ branch[BranchName(t)] = t /\ BranchName(t) \in Branches
      BY <1>11 DEF Review, TypeOK
    <2>2. \A b \in Branches : branch[b] # t => branch'[b] = branch[b]
      BY <1>11, <2>1 DEF Review, TypeOK
    <2>3. ~Ready(t)
      BY <2>1 DEF ProposedOnce, Unproposed, Requests
    <2>4. UNCHANGED <<incident, pc, late>> /\ open' = open \ {t}
      BY <1>11 DEF Review
    <2>. QED BY <2>2, <2>3, <2>4 DEF TypeOK
  <1>12. ASSUME UNCHANGED vars PROVE ReadyHasNote' /\ ReviewShowsItsIncident'
    BY <1>12 DEF vars, github
  <1>. QED
    BY <1>4, <1>5, <1>6, <1>8, <1>9, <1>10, <1>11, <1>12 DEF Next, CallStep

\* Only a review changes the default branch, and it merges what is open.
LEMMA MergedKept == IInv /\ [Next]_vars => MergedWasReviewed'
  <1>. SUFFICES ASSUME IInv, [Next]_vars PROVE MergedWasReviewed'
    OBVIOUS
  <1>. USE DEF IInv, MergedWasReviewed
  <1>1. ASSUME main' = main, opened \subseteq opened' PROVE MergedWasReviewed'
    BY <1>1
  <1>2. ASSUME NEW t \in Tasks, Review(t) PROVE MergedWasReviewed'
    <2>1. t \in opened /\ branch[BranchName(t)] = t /\ opened' = opened
      BY <1>2 DEF Review, TypeOK, ReviewShowsItsIncident
    <2>2. main' = main \/ main' = [main EXCEPT ![NotePath(t)] = t]
      BY <1>2, <2>1 DEF Review
    <2>. QED BY <2>1, <2>2 DEF TypeOK
  <1>3. (main' = main /\ opened \subseteq opened') \/ \E t \in Tasks : Review(t)
    BY DEF Next, CallStep, Begin, ReadBase, MakeBranch, WriteNote, Propose, Fail, Raise, Stop,
           ServeLate, Serve, CreateBranch, PutNote, CreatePull, github, vars
  <1>. QED BY <1>1, <1>2, <1>3

\* A pull request comes up for a call that had none so far.
LEMMA OpensOnce == IInv /\ [Next]_vars => \A t \in opened : t \notin open => t \notin open'
  <1>. SUFFICES ASSUME IInv, [Next]_vars, NEW t \in opened, t \notin open PROVE t \notin open'
    OBVIOUS
  <1>. USE DEF IInv, ProposedOnce, Unproposed, Requests, github
  <1>1. ASSUME NEW u \in Tasks, Propose(u) \/ Raise(u) PROVE t \notin open'
    BY <1>1 DEF Propose, Raise, CreatePull, Step
  <1>2. ASSUME NEW u \in Tasks, NEW r \in Requests, ServeLate(u, r) PROVE t \notin open'
    BY <1>2 DEF ServeLate, Serve, CreatePull, CreateBranch, PutNote
  <1>3. ASSUME NEW u \in Tasks,
               Begin(u) \/ ReadBase(u) \/ MakeBranch(u) \/ WriteNote(u) \/ Fail(u) \/ Review(u)
        PROVE  t \notin open'
    BY <1>3 DEF Begin, ReadBase, MakeBranch, WriteNote, Fail, Review, CreateBranch, PutNote
  <1>4. CASE Stop \/ UNCHANGED vars
    BY <1>4 DEF Stop, vars
  <1>. QED BY <1>1, <1>2, <1>3, <1>4 DEF Next, CallStep

LEMMA Invariance == Spec => []IInv
  <1>1. IInv /\ [Next]_vars => IInv'
    BY TypesKept, LateKept, OnceKept, NotesKept, MergedKept DEF IInv
  <1>. QED BY InitIInv, <1>1, PTL DEF Spec
-----------------------------------------------------------------------------
\* open_fix_pr's state and GitHub's keep their types.
THEOREM FixPRTypes == Spec => []TypeOK
  BY Invariance, PTL DEF IInv

\* Whoever shares a branch's name, however late a request is served: an open pull request
\* and the note on its branch tell of the same incident.
THEOREM FixPRReviewShowsItsIncident == Spec => []ReviewShowsItsIncident
  BY Invariance, PTL DEF IInv

\* What reaches the default branch has been up for review.
THEOREM FixPRMergedWasReviewed == Spec => []MergedWasReviewed
  BY Invariance, PTL DEF IInv

\* No call proposes twice: what a reviewer has merged or closed does not come up again.
THEOREM FixPRReviewIsFinal == Spec => ReviewIsFinal
  <1>1. IInv /\ [Next]_vars => [\A t \in opened : t \notin open => t \notin open']_vars
    BY OpensOnce
  <1>. QED BY Invariance, <1>1, PTL DEF Spec, ReviewIsFinal
=============================================================================
