-------------------------------- MODULE FixPR --------------------------------
(***************************************************************************)
(* tools/github_pr.py: open_fix_pr, the pull request of an approved fix.   *)
(*                                                                         *)
(* Four requests, one after the other: read the base branch, create the    *)
(* fix branch, put the incident's note on it, open the pull request.  The  *)
(* branch is named after the incident's id and its plan, the note's path   *)
(* after its id, and two incidents may have the same id (IncidentStore).   *)
(* A request times out after 15 s, and GitHub may serve it all the same.   *)
(*                                                                         *)
(* GitHub and its users are external: branches, pull requests, merges.     *)
(***************************************************************************)
CONSTANTS Tasks,        \* incidents with an approved fix, each on its own thread
          Ids, Kinds,   \* incident ids, kinds of fix_plan
          None,         \* no note at the path
          Absent        \* no such branch

ASSUME FixPRAssumption == None # Absent /\ None \notin Tasks /\ Absent \notin Tasks

VARIABLES env,          \* what the environment variables say
          incident,     \* incident[t]: the id and the kind t's call is made with
          pc,           \* pc[t]: the request under way, or what the call has come to
          base,         \* base[t]: the note at t's path in the commit base_sha names
          late,         \* requests nobody waits for any more, and GitHub may yet serve
          branch,       \* branch[b]: whose note is on branch b, at the path its name implies
          main,         \* main[i]: whose note the default branch has for id i
          open,         \* incidents whose pull request is open
          opened        \* incidents whose pull request has ever been open

vars == <<env, incident, pc, base, late, branch, main, open, opened>>
github == <<branch, main, open, opened>>

Requests == {"reading", "branching", "noting", "proposing"}
Results == {"OK", "ERROR", "DISABLED", "SKIPPED", "raised", "lost"}   \* lost: the agent stopped
Branches == Ids \X Kinds
Note == Tasks \cup {None}

TypeOK ==
    /\ env \in {"on", "disabled", "no credentials"}
    /\ incident \in [Tasks -> Branches]
    /\ pc \in [Tasks -> {"idle"} \cup Requests \cup Results]
    /\ base \in [Tasks -> Note]
    /\ late \subseteq Tasks \X Requests
    /\ branch \in [Branches -> Note \cup {Absent}]
    /\ main \in [Ids -> Note]
    /\ open \subseteq opened /\ opened \subseteq Tasks

Init ==
    /\ env \in {"on", "disabled", "no credentials"}
    /\ incident \in [Tasks -> Branches]
    /\ pc = [t \in Tasks |-> "idle"]
    /\ base = [t \in Tasks |-> None]
    /\ late = {}
    /\ branch = [b \in Branches |-> Absent]
    /\ main = [i \in Ids |-> None]
    /\ open = {} /\ opened = {}
-----------------------------------------------------------------------------
BranchName(t) == incident[t]
NotePath(t) == incident[t][1]

Step(t, from, to) == pc[t] = from /\ pc' = [pc EXCEPT ![t] = to]

\* What GitHub does when it accepts a request.
CreateBranch(t) ==
    /\ branch[BranchName(t)] = Absent
    /\ branch' = [branch EXCEPT ![BranchName(t)] = base[t]]
    /\ UNCHANGED <<main, open, opened>>

\* Variant: the put carries the sha of the file that is there.
PutOverNote(t) ==
    /\ branch[BranchName(t)] # Absent
    /\ branch' = [branch EXCEPT ![BranchName(t)] = t]
    /\ UNCHANGED <<main, open, opened>>

\* Variant: the put names no branch, and goes to the default one.
PutOnMain(t) ==
    /\ main[NotePath(t)] = None
    /\ main' = [main EXCEPT ![NotePath(t)] = t]
    /\ UNCHANGED <<branch, open, opened>>

\* A put without the sha of the file it replaces is refused when there is one.
PutNote(t) ==
    /\ branch[BranchName(t)] = None
    /\ branch' = [branch EXCEPT ![BranchName(t)] = t]
    /\ UNCHANGED <<main, open, opened>>

\* One open pull request per head branch, which has to be there.
CreatePull(t) ==
    /\ branch[BranchName(t)] # Absent
    /\ \A u \in open : BranchName(u) # BranchName(t)
    /\ open' = open \cup {t} /\ opened' = opened \cup {t}
    /\ UNCHANGED <<branch, main>>

Serve(t, request) ==
    \/ request = "branching" /\ CreateBranch(t)
    \/ request = "noting" /\ PutNote(t)
    \/ request = "proposing" /\ CreatePull(t)
-----------------------------------------------------------------------------
\* The two early returns, and the start of the exchange.
Begin(t) ==
    /\ \/ env = "disabled" /\ Step(t, "idle", "DISABLED")
       \/ env = "no credentials" /\ Step(t, "idle", "SKIPPED")
       \/ env = "on" /\ Step(t, "idle", "reading")
    /\ UNCHANGED <<env, incident, base, late, github>>

\* The base branch's sha names a commit, which stays as it is.
ReadBase(t) ==
    /\ Step(t, "reading", "branching")
    /\ base' = [base EXCEPT ![t] = main[NotePath(t)]]
    /\ UNCHANGED <<env, incident, late, github>>

\* POST /git/refs: 201, or a 422 that is taken to mean that the branch is there.
MakeBranch(t) ==
    /\ Step(t, "branching", "noting")
    /\ CreateBranch(t) \/ UNCHANGED github
    /\ UNCHANGED <<env, incident, base, late>>

WriteNote(t) ==
    /\ Step(t, "noting", "proposing")
    /\ PutNote(t)
    /\ UNCHANGED <<env, incident, base, late>>

\* POST /pulls was served; its answer is read inside the try, used after it.
Propose(t) ==
    /\ Step(t, "proposing", "OK")
    /\ CreatePull(t)
    /\ UNCHANGED <<env, incident, base, late>>

\* Variant: a request without an answer is sent again.
SendAgain(t) ==
    /\ pc[t] \in Requests
    /\ late' = late \cup {<<t, pc[t]>>}
    /\ UNCHANGED <<env, incident, pc, base, github>>

\* httpx.HTTPError or KeyError: GitHub refused the request, never got it, or its answer did
\* not arrive in time; in that case the request may be served after the call has returned.
Fail(t) ==
    /\ pc[t] \in Requests
    /\ pc' = [pc EXCEPT ![t] = "ERROR"]
    /\ late' \in {late, late \cup {<<t, pc[t]>>}}
    /\ UNCHANGED <<env, incident, base, github>>

\* A 2xx answer that is not JSON, or whose JSON has another shape, where it is looked into:
\* ValueError, TypeError, or KeyError outside the try.
Raise(t) ==
    /\ \/ Step(t, "reading", "raised") /\ UNCHANGED github
       \/ Step(t, "proposing", "raised") /\ (CreatePull(t) \/ UNCHANGED github)
    /\ UNCHANGED <<env, incident, base, late>>

\* The agent's process stops; what was sent stays sent.
Stop ==
    /\ pc' = [t \in Tasks |-> IF pc[t] \in Requests THEN "lost" ELSE pc[t]]
    /\ late' = late \cup {<<t, pc[t]>> : t \in {u \in Tasks : pc[u] \in Requests}}
    /\ UNCHANGED <<env, incident, base, github>>

\* External: GitHub serves a request nobody waits for, or drops it.
ServeLate(t, request) ==
    /\ <<t, request>> \in late
    /\ late' = late \ {<<t, request>>}
    /\ Serve(t, request) \/ UNCHANGED github
    /\ UNCHANGED <<env, incident, pc, base>>

\* External: a reviewer merges a pull request (unless the default branch has another note at
\* its path) or closes it, and with it goes the branch, if the repository is set up so.
Review(t) ==
    /\ t \in open
    /\ open' = open \ {t}
    /\ \/ main' = main
       \/ main[NotePath(t)] = None /\ main' = [main EXCEPT ![NotePath(t)] = branch[BranchName(t)]]
    /\ branch' \in {branch, [branch EXCEPT ![BranchName(t)] = Absent]}
    /\ UNCHANGED <<env, incident, pc, base, late, opened>>

CallStep(t) ==
    Begin(t) \/ ReadBase(t) \/ MakeBranch(t) \/ WriteNote(t) \/ Propose(t) \/ Fail(t) \/ Raise(t)

Next ==
    \/ \E t \in Tasks : CallStep(t) \/ Review(t)
    \/ \E t \in Tasks, request \in Requests : ServeLate(t, request)
    \/ Stop

Spec == Init /\ [][Next]_vars
-----------------------------------------------------------------------------
(***************************************************************************)
(* Properties.                                                             *)
(***************************************************************************)
\* open_fix_pr's put without a sha: an open pull request and the note on its branch tell of
\* the same incident, whoever shares the branch's name, however late GitHub is, and also
\* when the call ended in ERROR.
ReviewShowsItsIncident == \A t \in open : branch[BranchName(t)] = t

\* The note that is merged is one whose own pull request was up for review, although a
\* branch may start from a default branch that has another incident's note.
MergedWasReviewed == \A i \in Ids : main[i] \in Tasks => main[i] \in opened

\* open_fix_pr gives up at a request that fails and sends none twice: a pull request that a
\* reviewer has merged or closed stays so, whatever is served late.
ReviewIsFinal == [][\A t \in opened : t \notin open => t \notin open']_vars
=============================================================================
