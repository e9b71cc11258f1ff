# SENTINEL in TLA+

SENTINEL is a Python agent that takes an alert to its resolution: it investigates, proposes
a fix, asks a human, applies the fix with `kubectl`, verifies, opens a pull request and
records what happened. This directory models the agent's control in TLA+, checks it on small
instances with TLC, and proves its most important invariants for every size with TLAPS.

Paths below are relative to the repository root (`src/` in the `map` of `PROJECT.json`).

## The system

One process, one asyncio event loop. Every alert is handled on a task of its own
(`asyncio.create_task(self._safe_handle(alert))`); whatever blocks (inspectors, sandbox,
`kubectl`, GitHub, the card's POST) runs in a worker thread behind `asyncio.to_thread`. What
runs between two awaits is atomic; at an await any other task, timer or HTTP handler may run.

| Component | Code | State it keeps | Operations |
|---|---|---|---|
| Incident lifecycle | `agent/core/orchestrator.py` | the task's position and locals in `handle_alert` | open, investigate, save, diagnose, validate, request approval, apply, verify, open PR, mark, escalate |
| Approval gate, callback mode | `tools/approval_handler.py` | `_PENDING` (futures by incident id), `_EARLY` (decisions by incident id) | `request`, `_post_card`, `_await_decision`, `submit_decision` |
| Approval gate, file and auto modes | `tools/approval_handler.py` | decision files | poll, read |
| Incident table | `session/incident_store.py` | SQLite table `incidents` | `next_incident_id`, `save_incident`, `mark_resolved`, `get_recent`, `load_incident` |
| Incident history | `session/pattern_matcher.py`, `session/history_reader.py` | none (reads the table) | `suggest_from_history`, `find_similar_patterns`, `summarize` |
| Investigation and RCA | `agent/subagents/*`, `agent/core/aggregator.py`, `agent/core/rca_synthesizer.py` | none | four inspectors in parallel, `aggregate`, `synthesize` |
| Sandbox executor | `tools/sandbox_executor.py`, `security/input_sanitizer.py` | a remote workspace | create, exec, delete |
| Fix pull request | `tools/github_pr.py` | a remote branch, note and pull request | `open_fix_pr` |
| Escalation | `tools/escalation.py` | none (Slack, log) | `escalate` |
| Audit log | `security/audit_logger.py` | `audit.jsonl`, append only | `log_action` |
| Circuit breaker, retry | `agent/utils/*` | failure count, state, time of opening | `call`; not called by the agent |
| Secrets, logging, start-up, console, scripts, configuration | the rest | none a property is about | |

How they interact:

- The HTTP listener gets alerts and decisions: `POST /api/v1/alerts` starts tasks,
  `POST /api/v1/approvals/{id}` calls `submit_decision`.
- A task calls the table (id, save, mark), the gate (`await self.approval.request(...)`), the
  sandbox, `kubectl` and GitHub in a fixed order, and shares with other tasks only the table,
  `_PENDING` and `_EARLY`.
- All three are keyed by the incident id, and ids come from a count of rows that are written
  much later: this is where incidents meet.

What is hard in it:

- **Concurrency at the awaits.** An id is allocated before the first await and saved after
  the investigation. Two alerts in flight together get the same id; from then on they share a
  row, a slot in `_PENDING` and a slot in `_EARLY`.
- **Timer, click and wake-up.** `asyncio.wait_for` splits a request over two tasks. The timer
  firing, the future being resolved, and the task noticing are three events of the loop.
- **Restarts.** Futures, stash and tasks are lost; table, audit file and production are not.
- **Failures after the write.** `kubectl` may time out after the API server took the write;
  Prometheus or GitHub may fail after the fix was applied.
- **New Year.** The id carries the year of its allocation, the row that of its save, and the
  count restarts.

What makes each component correct:

- *Lifecycle*: no production change without an approval of its own; audit record and session
  row before the change; without approval an escalation and no change; the row holds the verdict,
  the approved proposal and what the verification returned; every incident ends.
- *Gate*: a decision ends at most one request and only one with its id; the last one posted
  by the time the request looks counts, and then stands; a request can be answered as long as it waits; every request ends.
- *Table*: a new id is not in the table; replacing a row keeps its outcome.
- *Sandbox*: an ended call has sent the delete of every workspace it knows of; OK means that the
  script ran. *Fix PR*: a pull request shows its own incident's note,
  only reviewed notes are merged, and what was merged or closed is not put up again.
  *Investigation*: a write rests on something seen, and an inspector without an answer to its first
  query never lowers the risk. (Its later queries fail into defaults, and those can.)
- *File mode*: only a written approval for the request's own id approves. A file that is there
  decides, however old it is.
- *Breaker, retry*: an open circuit holds for its time and recovers after it; a full count
  opens the circuit; an error comes out after all attempts, not before; calls end.

## The modules

| Module | What it is | Models |
|---|---|---|
| `IncidentStore` | component | `incident_store.py`, `suggest_from_history` |
| `ApprovalGate` | component | callback mode of `approval_handler.py`, with `asyncio.wait_for` |
| `FileApproval` | component | file mode of `approval_handler.py`, with the humans who write the files |
| `IncidentPromise` | abstract specification | what `handle_alert` promises of an incident, without ids, table, gate and awaits |
| `ApprovalPromise` | abstract specification | what `request()` promises, without registry, stash and files: strictly (callback mode) or loosely (file mode) |
| `Orchestrator` | composition | `handle_alert`, its routes and restarts, over instances of `IncidentStore` and `ApprovalGate` |
| `Sandbox` | component | `sandbox_executor.py`, with Daytona as the external side |
| `Investigation` | component | `investigate`, the four inspectors, `aggregator.py`, `rca_synthesizer.py` |
| `FixPR` | component | `github_pr.py`, with GitHub and its reviewers as the external side |
| `CircuitBreaker` | component | `circuit_breaker.py`, without a specification of its own |
| `Retry` | composition | `retry.py`, around calls through `CircuitBreaker` |
| `IncidentStoreProofs`, `ApprovalGateProofs`, `FileApprovalProofs`, `OrchestratorProofs`, `SandboxProofs`, `InvestigationProofs`, `FixPRProofs`, `RetryProofs` | proofs | invariants of each, the refinements of `ApprovalPromise`, `IncidentPromise`, `IncidentStore` and `ApprovalGate` |
| `MC...` (one for each component) | instances for TLC | small sets of tasks, ids, types, calls and measurements |

Each component marks some definitions "Variant": the same definition with a plausible bug.
No specification uses them; `PROJECT.json` pairs each with the property that notices it.

### IncidentStore

An id `INC-YYYY-NNN` is the pair `<<YYYY, NNN>>`. `rows` maps ids to rows; of `created_at` a row
keeps the calendar year (what the `LIKE 'YYYY%'` of `next_incident_id` reads) and the save's
ordinal (what `get_recent` orders by). `Allocate`, `SaveIncident` and `MarkResolved` are the
three functions; each is atomic because it is one synchronous call, made on the event loop.
`issued` is a history variable. `Spec` lets any incident in flight save or mark at any time,
as often as it likes: more than the agent does, which is why the properties carry over to the
agent by the refinement `UsesStore`.

### ApprovalGate

`stage[t]` says where request `t` stands. The steps are those of the loop:

- `PostCard`: `request()` starts the card's POST in a thread; the humans may answer at once.
- `TakeEarly` / `Register`: the inner task of `wait_for` pops `_EARLY`, or registers a future.
- `Submit`: `submit_decision`, resolving the registered future if it is not done and else
  stashing. It may come with any id at any time, before the request too; the bound on their number is `MaxSubmits`.
- `Wake`: the inner task runs, pops `_PENDING` by id and returns.
- `Timer`, `Cancel`, `Expire`: the timer makes the outer task ready; the outer task finds the
  inner one not done and cancels it; the inner one's `finally` pops `_PENDING` by id. A future
  that is resolved between `Timer` and `Cancel` does not change this: its decision is lost.
  A timer that fires after the future was resolved changes nothing, since the inner task is
  ahead of the outer one in the loop's queue.
- `Restart`: all of it is gone.

`answer[t]` and `early` hold indices of posts in the history `said`, so that "the same
decision" means the same post and not the same word. `Parse` maps what is not a decision's name to
`REJECTED`. A timeout of zero or less, where `wait_for` never waits, is not modelled.

### ApprovalPromise

What a caller may rely on: a request that is asked ends with a post made for its id, or with a
timeout, or the process stops. With `Strict`, a post decides one request at most and a request
does not fail. `KeepsPromise` and `KeepsFairPromise` state that `ApprovalGate` implements the
strict promise; the mapping hides registry, stash and the four stages between asked and ended.
`KeepsLoosePromise` and `KeepsFairLoosePromise` state that `FileApproval` implements the loose
one, where a file may answer again and again and reading it may raise.

### FileApproval

`file[i]` is the last write to the decision file of id `i`, as an index in the history `said`;
a human's shell first empties the file (`Create`) and then fills it (`Fill`), with a decision's
name or with what is not UTF-8, at any time: also before anything is asked under that id. `Poll` is a look at the file that finds it and reads it: no
await comes between `exists()` and `read_text()`, but other processes do not wait for the loop,
so the file may be gone in between (`PollFails`). A poll that finds no file changes nothing and
is no step. `Expire` is `wait_for` cancelling the loop. Unlike in callback mode, what is in the
file survives a `Restart`. Auto mode answers at once from an environment variable and has no
state to model.

### Orchestrator

`pc[t]` is the position of alert `t` in `handle_alert`; each action is what runs between two
awaits, or one step of the worker thread that changes something outside it (audit record, then `kubectl`).
`Gate` and `Store` are instances over the orchestrator's variables, and every action says what
it does to each. `Verify` takes any answer without samples for a quiet alert, as the code does,
an error answer of Prometheus too; `quiet` is a history of which it was. `Answer` is the route for decisions: any id of the constant
`PostIds`, at any time, whether or not an incident has it yet. `Raise` is an exception at the steps that can
raise (SQLite, a response of an unexpected shape, an audit file that cannot be written, output of `kubectl`
that is no text, after the write or without one), caught by `_safe_handle`. `RunKubectl` returns
OK, or fails with or without the write having reached production. `Restart` may come between
any two steps. Fix plans are reduced to two kinds, with and without a write; apply results to the
values the code tells apart. The calls of `Sandbox` and `FixPR` are one step each here, that
returns or raises: their own modules say what happens in between, and nothing of it comes back
into `handle_alert` but a status for the card, the log or the session's text.

### IncidentPromise

Six variables for an incident as its humans see it: how far it is (`status`), the post that approved it
(`by`, with all `posts`), and whether it alarmed, was audited and changed production. `Change` needs an
approval by a post that no other incident uses and an audit record; `Refuse` alarms, also when the end is an
error; `Fail` is an exception, which may come after an approved and recorded change was made; an incident opens once and ends once. `Orchestrator!KeepsIncidentPromise` states that the agent
implements it: `PromiseStatus` maps positions in `handle_alert` and the request's stage to a status, and the ids,
the table, the future and the stash, verification and pull request are hidden.

### Sandbox

`step[c]` is where call `c` of `exec_in_sandbox` stands. Its three requests are kept in `net`,
apart from their answers: Daytona (external) serves one, refuses it or never gets it, and may
serve it after the client has given up. `known` are the calls whose `workspace_id` is set, which
is all the `finally` block has to go by. An exec answer without an exit code is `FAIL` (the HTTP
status is not looked at), a body that is no object escapes as an exception of another kind
(`Raised`). `Stop` is the process ending: what was sent stays sent. `undone` is a history of
deletes that were refused or lost.

### Investigation

The four inspectors report in any order; each may give up at its first query (`GiveUp`: no
answer, or no sample in it) or lose a later one, which fails into a default. The pod's memory changes and the
container restarts between the reports, to any usage, so that a restart between `kubectl describe` and
`kubectl top` is among them. Then `Synthesize` applies `Synthesis`, the operators
translated from `aggregate` and `synthesize`, to the four results. Memory is in MiB (what
`_to_mib` returns for what `kubectl top` prints, `Unknown` for the rest); a rate is in
ten-thousandths, `round(err / tot, 4)`; `ceil(1.6 p / 128)` is `ceil(p / 80)`. `service` gives
the request rate by series, of which the code takes the first. `everKilled` is a
history. Container and owner lookups, status, events, latency, query counts and texts decide
nothing and are left out.

### FixPR

`pc[t]` is the request of `open_fix_pr` that call `t` is at. A request that fails for the client
(`Fail`) may stay in `late` and be served after the call has returned. A branch is named by
incident id and plan kind, a note by the id alone, so calls meet in both. `branch[b]` is whose
note branch `b` holds at the path that its name implies, `main[i]` whose note the default branch
holds. GitHub's rules are external and taken from how the code uses them: no branch is created
twice, a put without the sha of the file it replaces is refused, a branch has one open pull
request. `Review` merges or closes, and may delete the branch. `Raise` is what `except
(httpx.HTTPError, KeyError)` does not catch.

### CircuitBreaker and Retry

No part of the agent calls either, on threads or not; they are modelled as the library they are, and what the
runs say of threads is about callers it may get. `call()` has no
lock, so each action is what runs between two points where a thread can be switched; with
`threads = "one"` the callers are on one thread and a call runs to its end before the next
begins. The failure count and the time since opening are capped at the values the code compares
them with. Between `monotonic()` and the assignment to `opened_at` no time passes.
`Interrupt` is an exception that `except Exception` does not catch; one raised between two
lines of `call()` itself (a signal) is not modelled. `service` is what is behind `fn`: while it is
up, `fn` does not raise an `Exception`. `older` is a history of the calls that were under way when the
circuit opened.

`Retry` puts the callers in motion: `attempt` is the loop variable of `wrapper`, `deco[c].listed` says which
errors `exceptions` names, and `calls` is a history of the calls of `fn`. How long a delay is does
not matter to any property, and is left out. `aretry` is the same loop; its sleep can be cancelled.

## What is checked

Every passing run explores the whole reachable state space of its instance.

| Run | Instance | Shows |
|---|---|---|
| `store` | 2 calendar years, 3 saves, 1 fix | `IdsFresh`, `NumbersBounded`, `SaveKeepsOutcome` |
| `gate` | 2 requests, 2 ids, 2 posts | `SingleUse`, `NoStaleFuture`, `Answerable`, `FirstAnswerWins`, `LastWordCounts`, `KeepsPromise`; live: `KeepsFairPromise` |
| `orchestrator` | 2 alerts, 1 post for either of 2 ids, 2 years | `NoSilentApply`, `ChangeLeavesTraces`, `RowTellsOutcome`, `UnapprovedIsEscalated`, `SuggestedFixWasApproved`, `UsesStore` and `KeepsIncidentPromise`: the agent implements `IncidentStore` and `IncidentPromise`; live: `IncidentsEnd` |
| `sandbox` | 2 calls | `NothingForgotten`, `OkMeansItRan`; live: `CallsEnd` |
| `investigation` | 4 usages, 5 services, 3 databases, limit 512 MiB | `RiskMatchesPlan`, `WritesRestOnFacts`, `LimitFitsUsage`, `DegradedIsNeverSafer` |
| `fixpr` | 3 calls, 1 id, 2 plan kinds | `ReviewShowsItsIncident`, `MergedWasReviewed`, `ReviewIsFinal` |
| `file_approval` | 2 requests, 2 ids, 4 writes | `OnlyAWrittenApproval`, `KeepsLoosePromise`; live: `KeepsFairLoosePromise` |
| `retry` | 2 callers, threshold 2, 2 ticks, 3 decorators | `SerialContract`, `FullCountTrips`, `OpenHolds`, `AttemptsReachFn`; live: `OperationsEnd`, `Recovers` |

The runs also check `TypeOK` of the table and the gate; it is proved of every component.
`fixpr` runs without fairness: its properties are safety.

Why the bounds are enough to see the interesting cases:

- Two tasks are what every hazard here takes: two alerts with one id, two futures under one
  id, one task's decision stashed for the other. The ids a task may get include both a shared and a separate one.
- Two posts let one be stashed and the other resolve a future or replace the first in the stash, come
  twice or come too late. In `orchestrator` one post, for the first or the second id of the first year, can
  approve, reject, come before its request or after it, be stashed for the other task or be lost; `find_consent`
  takes no more. (The safety properties are proved for any number of posts and any `PostIds`.)
- One incident type in `orchestrator` shows every order of saves and marks; that a suggestion is for its own
  type (`SuggestedFixWasApproved`) is shown for several types by the theorem only.
- Two years let the year turn once between any two steps. Three saves let a row be replaced
  after its outcome was recorded and another one be added.
- Two calls are the most that overlap in `sandbox` between two incidents, and no call looks at
  another's workspace. The measurements of `investigation` lie at, beside and away from each
  boundary of `synthesize`: no usage, 160 and 161 MiB (where the 256 MiB floor ends), the limit
  itself; none, one and two failed requests in twenty, only failed ones, no series; a pool that is free,
  one over 80 % full, and one that looks so when its size is replaced by the default.
- Three calls in `fixpr`: one leaves a branch or a late request behind, the second is merged or
  closed, the third proposes. They share the note's path, and the branch or not; calls with different ids have
  nothing in common. Four writes in `file_approval` are two files opened and filled, or one twice.
- A threshold of 2 tells a failure that counts from one that trips, and 2 ticks an open circuit
  that is young from one that is not yet due; with two callers one can be inside while the other opens,
  half opens or closes the circuit. The decorators retry everything, do not retry a refusal, and allow no
  attempt at all.

**Fairness.** `Progress(t)` in the gate and `TaskStep(t)` in the orchestrator are weakly fair:
the event loop runs every ready task, each worker thread returns because each call it makes has
a timeout (card 5 s, `kubectl` 15/30 s, sandbox `MAX_SANDBOX_EXEC_SECONDS`, GitHub 15 s; those of httpx
are for each connect, read and write, so that a service that trickles bytes is assumed to stop some time), and
`wait_for`'s timer fires. In the sandbox only the agent's side of a call is weakly fair (its three
requests have timeouts); Daytona need never answer. So are, in `file_approval`, the
loop's poll and timer. In `retry`, `fn` comes back and sleeps end (`WF`), time passes, and a caller that waits
for the thread gets it although others take it in between (`SF` of `Try`: the loop and the lock of
the interpreter serve in turn); `Recovers` adds that the service stays up and that callers keep coming. Nothing assumes that an alert arrives, that a human answers, that a
step succeeds, or that a restart happens or does not.

### What the code does not keep

Four runs end in a violation, each of a sentence in the repository:

| Run | Sentence | What happens |
|---|---|---|
| `find_persisted` | "Every incident is persisted" (`README.md:7`) | two alerts in flight count the same rows and get the same id; the second `INSERT OR REPLACE` drops the first session |
| `find_consent` | "Requests human approval with a concrete diff" (`docs/blog-post.md:28`) | two alerts in flight have one id; the only click, on the first one's card, comes before that request has registered its future, is stashed under the id, and is taken by the second incident, whose fix is applied |
| `find_suggested` | "reuse a known-good fix" (`session/pattern_matcher.py:1`) | the proposal is recorded as `fix_applied` even if the write failed or there was none (a manual plan), and counts as resolved when Prometheus answers without samples, be it with an error |
| `find_raises` | "raises one container's memory limit" (`rca_synthesizer.py:26`) | usage is read after the restart, and the present limit nowhere: the patch may lower it |

More sentences do not hold, as the modules show at the places named; no run is spent on
them:

- "ALWAYS propose a fix with a sandbox-validated result" (`config/agent.yaml:16`): the sandbox
  status is put on the card and tested nowhere (`Orchestrator!ValidateFix`).
- "Return True when the incident's Prometheus alert expression no longer returns samples"
  (`orchestrator.py:236`): an error answer has none, either (`Orchestrator!Verify`).
- "Every remediation ships as a pull request" (`README.md:29`): the call may be switched off, fail or
  time out, and is not repeated (`FixPR!Begin`, `FixPR!Fail`).
- "never raises" (`github_pr.py:55`): an answer that is not JSON, or has another shape, does
  (`FixPR!Raise`).
- The callback "Resolves the waiting provider ... accepted" (`docs/api.md:18`): a click between the timer and the
  waiting task is accepted, and the request still ends `ESCALATED` (`ApprovalGate!Cancel`).
- "decision beat the agent to the wait; keep it" (`approval_handler.py:34`): late and second
  clicks are stashed too, and stay (`ApprovalGate!Submit`).
- `echo APPROVED > logs/approvals/<incident_id>.decision` (`README.md:150`): a poll between the shell's
  opening of the file and the write reads an empty file, which is a rejection; an `echo` that
  writes UTF-16 makes the read raise (`FileApproval!Create`, `FileApproval!PollFails`).
- "The workspace is always destroyed" (`sandbox_executor.py:29`): when the answer to the create is
  lost there is no id to delete by (`Sandbox!CreateFailed`).
- "Every query now ... marks the subagent as degraded" (`docs/blog-post.md:64`): only an inspector's
  first query does; a lost pool size is 100 and the analysis is complete (`Investigation!InspectDb`).
- "Exit 137 + `OOM` in logs" (`skills/INC-001-crashloop.md:31`): either one is enough for the
  memory patch (`Investigation!Oom`).
- "Compute 5xx error rate" (`api_inspector.py:26`): it is the first 5xx series over the first series of
  all, and 5 % can read as 100 % (`Investigation!InspectApi`).
- "After `failure_threshold` consecutive failures the circuit opens" (`circuit_breaker.py:20`): on threads,
  a success between the count and the trip leaves the circuit open with no failures counted, and
  a half-open circuit lets in any number of calls (`CircuitBreaker!Trip`, `CircuitBreaker!Enter`).
- `RuntimeError("unreachable")` (`retry.py:33`) is what `max_attempts` below 1 gives (`Retry!Begin`).

The safety properties above are what remains true all the same: even with shared ids and stray
clicks, one click never approves two changes and never one under another id; and whichever queries of an
investigation fail, no write is proposed that nothing seen speaks for. However late GitHub
is, no incident's note goes up under another's pull request, and no reviewed one goes up again.

## What is proved

TLAPS checks these for every value of the constants: any number of tasks, posts, saves,
years, sandbox calls, pull requests, decision files and callers. Every invariant, action property and
safety refinement that a passing run checks is among them. The only assumptions are the named `ASSUME`s of the modules (bounds are numbers, the
set of tasks is finite, `NoId` is no id, posts name ids, the empty text is no fix, measurements are natural numbers,
no branch is no note, a threshold is at least 1).

- `IncidentStoreProofs`: `StoreTypes`, `StoreNumbersBounded`, `StoreIdsFresh`,
  `StoreSaveKeepsOutcome`, `StoreRowsInOrder`, `StoreRecentAreNewest`, `StoreSuggestsLatest`. That the next id is fresh is not inductive: it needs
  `NumbersCounted`, that the rows of a year are at least as many as the highest number among
  them. A save under a fresh number keeps it because no issued number exceeds the next one
  (`NumbersBounded`), and a re-save keeps it because the replaced row is counted in the year of the save,
  never an earlier one (`YearsInOrder`). The last three are about reading: no two rows were saved at
  once, so `get_recent(n)` returns the `n` newest rows, or all there are, and
  `suggest_from_history` the fix of the newest that is resolved. They rest on least and greatest elements of sets of numbers
  (`LeastNat`, `GreatestNat`), which the library's theorem on well-founded relations gives
  without an operator parameter.
- `ApprovalGateProofs`: `GateTypes`, `GateSingleUse`, `GateAnswersMatchIds`,
  `GateNoStaleFuture`, `GateAnswerable`, `GateFirstAnswerWins`, `GateLastWordCounts`, `GateRequestsRunOut`, and the
  refinement `GateKeepsPromise`. The invariant joins the stages to the answers (`StageData`); `SingleUse` needs `AnswersMatchIds`
  (two stashed decisions are of two ids), and each needs `NoStaleFuture` to know whom
  `submit_decision` wakes. What is in the stash is the last post for its id (`StashIsLast`), which is why a request
  is given the last word.
- `OrchestratorProofs`, in five parts:
  - *Safety of a change*: `AgentTypes`, `AgentIdsFresh`, `AgentNoSilentApply`,
    `AgentChangeLeavesTraces`, `AgentOwnCardOrNone`, `AgentUnapprovedIsEscalated`. The
    invariant is the two components' invariants, carried over by showing that each step of the agent
    is a step of the gate (`GateStep`) and changes the table only as its own lemmas allow (`StoreKept`), and what
    ties tasks to both: a task past the save has its row, a task past the approval has its
    approval (`Progressed`), a change has all of it behind it (`Backed`), and the cards that were out when a post was made
    are of its id (`CardsKeepIds`): an approval under an unshared id answered the incident's own card, or came before it
    was out (`AgentOwnCardOrNone`).
  - *The row*: `AgentRowTellsOutcome`, `AgentOwnIdPersisted`, with a second
    invariant (`RInv`): a row's content is a task of that row's id (`RowsOwned`), so what other tasks save and mark
    leaves an unshared row alone. The row's fix is the approved
    proposal, whatever `kubectl` did, and `resolved` what the verification returned, which an error of
    Prometheus makes true. `AgentSharesOnlyUnsaved`: an id is shared only with an incident not yet
    saved. Together these two say how far "every incident is persisted" goes.
  - *Composition*: `AgentUsesStore` and `AgentUsesGate`, the agent implements both components'
    specifications. `UsesStore` needs that the table is saved to once per
    task (`SavesCounted`), since the instance bounds the saves by the number of tasks. What is proved of a component
    then holds inside the agent: `AgentKeepsApprovalPromise`, `AgentFirstAnswerWins`, `AgentLastWordCounts`,
    `AgentAnswerable`, `AgentSaveKeepsOutcome`, `AgentSuggestsLatest`.
  - *History*: `AgentSuggestedFixWasApproved`. Behind each recorded fix stands a closed, approved task of the
    row's id (`FixesBacked`), whatever saves replaced the row since; the row's type is that of the task it
    tells of (`RowsTyped`). Under a shared id these are two tasks: the theorem claims no more.
    `AgentSuggestedWorksUnlessMisled` follows: a shared id and an unverified success are the only ways to a
    suggestion that did not work.
  - *Refinement and ends*: `AgentKeepsIncidentPromise`, one lemma per action for the step of
    `IncidentPromise` it is or is hidden behind; it needs that a request under way belongs to a task that waits for it
    (`AskingWaits`). `AgentRequestIsThere` is the converse, and `AgentIncidentsRunOut` the
    bound below.
- `FileApprovalProofs`: `FileTypes`, `FileOnlyAWrittenApproval`, and
  the refinement `FileKeepsLoosePromise`. A file and an answer hold writes for their own id (`OwnId`).
- `FixPRProofs`: `FixPRTypes`, `FixPRReviewShowsItsIncident`, `FixPRMergedWasReviewed`,
  `FixPRReviewIsFinal`. A call whose pull request may still come into being, by its own request or by one
  served late, has its note on the branch (`ReadyHasNote`), and proposes once (`ProposedOnce`), which is why a review is final.
- `RetryProofs`: `RetryTypes`, `BreakerSerialContract`, `BreakerFullCountTrips`,
  `BreakerOpenHolds`, `RetryAttemptsReachFn`, `RetryOperationsRunOut`. On one thread the circuit does not move under a call
  (`OneThread`); on many, whoever is past the check of a circuit still cooling was there when it opened
  (`OnlyOlderInside`); attempts are counted against calls of `fn` (`CallsCounted`).
- `SandboxProofs`: `SandboxTypes`, `SandboxNothingForgotten`, `SandboxOkMeansItRan`. A workspace is asked for
  once (`AskedOnce`), and a call at its `finally` with an id has sent the delete (`DeleteSent`).
- `InvestigationProofs`: `InvestigationTypes`, `InvestigationRiskMatchesPlan`, `InvestigationWritesRestOnFacts`,
  `InvestigationLimitFitsUsage`, `InvestigationDegradedIsNeverSafer`, `InvestigationPatchRaisesUsedLimit`,
  for every usage, rate and pool. The invariant says of each result that it was there to be seen or is the degraded one
  (`K8sSeen` and its like), and that the analysis is of the results as they stay
  (`Synthesized`); `RecommendIsLeast` is the arithmetic of `_recommend_mib`;
  from it follows where the sentence that `find_raises` refutes is true.

Only model-checked is liveness, which is beyond the prover (it has no `ENABLED`): `KeepsFairPromise`,
`IncidentsEnd`, `CallsEnd`, `KeepsFairLoosePromise`, `OperationsEnd` and
`Recovers`. So are the four violations. The half of three of them that needs no fairness is proved, as
action properties over a count of steps left: a request's own steps use it up and no timer, click or restart gives one
back (`GateRequestsRunOut`, four steps); the same of an incident (`AgentIncidentsRunOut`, thirteen) and of a retried
operation around any circuit (`RetryOperationsRunOut`, `7 * max_attempts - 1`). What fairness and `ENABLED`
add, that the next step is possible and is taken, is what TLC checks.

## Plan

Every component with state and control of its own is modelled, and every safety property a run checks is
proved. Each of the four findings has a theorem beside it that says where its sentence does hold
(`AgentOwnIdPersisted`, `AgentOwnCardOrNone`, `AgentSuggestedWorksUnlessMisled`,
`InvestigationPatchRaisesUsedLimit`). What proofs could still add: the step counts of
the sandbox and pull-request calls, and an abstract specification of each of the two to refine.

What could be added to the model is a
composition finer than the present one: `Orchestrator` with the plan kinds of `Investigation` and
the calls of `Sandbox` and `FixPR` step by step. It would show no new interaction, since
`handle_alert` does not look at what they return beyond what `Orchestrator` keeps, and is
many times larger.

## Not modelled

- Wording of logs, cards and pull requests; the commands a sandbox runs and the regular expressions
  that allow them (`security/input_sanitizer.py`): no state.
- `validate_env` and log redaction and formatting (`security/secrets.py`, `tools/sentinel_logger.py`),
  the HTTP server's start and stop: nothing a property could relate.
- `load_incident`, `history_reader`, `find_similar_patterns`: read-only formatting and
  keyword matching, which the agent does not call.
- The console, the deployment files and the operator scripts: the console posts to the two routes that
  `Orchestrator` has, the scripts are one-shot helpers without state.
- A `timeout_minutes` of zero or less, with which `wait_for` does not wait.
