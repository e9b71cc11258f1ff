---------------------------- MODULE Investigation ----------------------------
(***************************************************************************)
(* core/orchestrator.py, investigate: the four inspectors look at the pod  *)
(* side by side, each on a thread of its own and each by several queries   *)
(* that may fail one by one; aggregator.aggregate and                      *)
(* rca_synthesizer.synthesize turn what they bring into a fix plan and a   *)
(* risk score.  The pod lives on meanwhile: it uses more memory or less,   *)
(* and is killed again.                                                    *)
(*                                                                         *)
(* Memory is in MiB.  A rate is in ten-thousandths, as api_inspector       *)
(* rounds it.  The texts (status, events, container, owner, error          *)
(* patterns, latency, query counts) no decision rests on are left out.     *)
(***************************************************************************)
EXTENDS Integers, FiniteSets

CONSTANTS Limit,        \* the memory limit the pod's container has now
          Usages,       \* what the container may be using
          Services,     \* http_requests_total: request rates by series, "2xx" and "5xx"
          Databases     \* the database: connections used, their limit, and its lag

ASSUME InvestigationAssumption ==
    /\ Limit \in Nat \ {0}
    /\ Usages \subseteq Nat
    /\ \A s \in Services : \E D \in SUBSET {"2xx", "5xx"} : s \in [D -> Nat]
    /\ Databases \subseteq [used : Nat, max : Nat, lagging : BOOLEAN]

Names == {"k8s", "api", "logs", "db"}
Unknown == -1           \* memory_usage "unknown"

VARIABLES pod,          \* is its last exit code 137, has its log an OOM line, its memory
          everKilled,   \* history: the pod has had such a code or such a line
          service, database,
          results,      \* the four results, as _as_dict leaves them
          answered,     \* inspectors that have come back
          rca           \* what synthesize returns

vars == <<pod, everKilled, service, database, results, answered, rca>>
world == <<pod, everKilled, service, database>>

Results == [
    k8s  : [degraded : BOOLEAN, exit137 : BOOLEAN, usage : Usages \cup {Unknown}],
    api  : [degraded : BOOLEAN, rate : Nat],
    logs : [degraded : BOOLEAN, oom : BOOLEAN],
    db   : [degraded : BOOLEAN, used : Nat, max : Nat, lagging : BOOLEAN]]

\* What a degraded inspector returns.
Degraded == [
    k8s  |-> [degraded |-> TRUE, exit137 |-> FALSE, usage |-> Unknown],
    api  |-> [degraded |-> TRUE, rate |-> 0],
    logs |-> [degraded |-> TRUE, oom |-> FALSE],
    db   |-> [degraded |-> TRUE, used |-> 0, max |-> 100, lagging |-> FALSE]]

Plans == {"memory_limit", "pool_and_timeout", "rollback", "manual"}
Signals == {"exit137", "oomLogs", "errors", "pool", "lag"}
Confidences == {"HIGH", "MEDIUM", "LOW"}

RCAs == [plan : Plans, limit : Nat, risk : 0 .. 10, evidence : SUBSET Signals,
         confidence : Confidences, incomplete : BOOLEAN]
NoRca == [plan |-> "manual", limit |-> 0, risk |-> 0, evidence |-> {},
          confidence |-> "LOW", incomplete |-> FALSE]
-----------------------------------------------------------------------------
(***************************************************************************)
(* rca_synthesizer.py, over the results r.                                 *)
(***************************************************************************)
Oom(r) == r.k8s.exit137 \/ r.logs.oom
ErrorsHigh(r) == r.api.rate > 500
PoolMax(r) == IF r.db.max > 0 THEN r.db.max ELSE 1
PoolHigh(r) == 5 * r.db.used > 4 * PoolMax(r)

Evidence(r) == {s \in Signals :
    \/ s = "exit137" /\ r.k8s.exit137
    \/ s = "oomLogs" /\ r.logs.oom
    \/ s = "errors"  /\ ErrorsHigh(r)
    \/ s = "pool"    /\ PoolHigh(r)
    \/ s = "lag"     /\ r.db.lagging}

Confidence(signals) ==
    IF signals = {} THEN "LOW" ELSE IF \E s \in signals : signals = {s} THEN "MEDIUM" ELSE "HIGH"

\* Variant: without the "or 512.0".
PeakAsRead(r) == IF r.k8s.usage > 0 THEN r.k8s.usage ELSE 0

\* peak_mib when oom holds: 0 and "unknown" are falsy.
Peak(r) == IF r.k8s.usage > 0 THEN r.k8s.usage ELSE 512

\* Variant: int() for ceil().
RecommendFloor(p) == IF (p \div 80) * 128 > 256 THEN (p \div 80) * 128 ELSE 256

\* ceil(1.6 p / 128) * 128, at least 256.
Recommend(p) == IF p > 160 THEN ((p + 79) \div 80) * 128 ELSE 256

FixPlan(r) ==
    IF Oom(r) /\ Peak(r) > 0 THEN "memory_limit"
    ELSE IF PoolHigh(r) THEN "pool_and_timeout"
    ELSE IF ErrorsHigh(r) THEN "rollback"
    ELSE "manual"

\* aggregate: degraded is not empty.
Incomplete(r) == \E n \in Names : r[n].degraded

BaseRisk(r) == IF Oom(r) THEN 2 ELSE IF PoolHigh(r) THEN 4 ELSE IF ErrorsHigh(r) THEN 6 ELSE 8

\* Variant: what is missing is not priced.
RiskAsIs(r) == BaseRisk(r)

\* (min(..., 10) never bites.)
Risk(r) == BaseRisk(r) + (IF Incomplete(r) THEN 1 ELSE 0)

Synthesis(r) == [
    plan |-> FixPlan(r),
    limit |-> IF FixPlan(r) = "memory_limit" THEN Recommend(Peak(r)) ELSE 0,
    risk |-> Risk(r),
    evidence |-> Evidence(r),
    confidence |-> Confidence(Evidence(r)),
    incomplete |-> Incomplete(r)]
-----------------------------------------------------------------------------
TypeOK ==
    /\ pod \in [exit137 : BOOLEAN, oomLine : BOOLEAN, usage : Usages]
    /\ everKilled \in BOOLEAN
    /\ service \in Services
    /\ database \in Databases
    /\ results \in Results
    /\ answered \subseteq Names
    /\ rca \in RCAs

Init ==
    /\ pod \in [exit137 : BOOLEAN, oomLine : BOOLEAN, usage : Usages]
    /\ everKilled = (pod.exit137 \/ pod.oomLine)
    /\ service \in Services
    /\ database \in Databases
    /\ results = Degraded
    /\ answered = {}
    /\ rca = NoRca
-----------------------------------------------------------------------------
(***************************************************************************)
(* The pod, external.                                                      *)
(***************************************************************************)
UseMemory ==
    /\ \E u \in Usages : pod' = [pod EXCEPT !.usage = u]
    /\ UNCHANGED <<everKilled, service, database, results, answered, rca>>

\* The container ends, killed or by itself, and is started again.
Restarted ==
    /\ \E p \in [exit137 : BOOLEAN, oomLine : BOOLEAN, usage : Usages] :
        /\ pod' = p
        /\ everKilled' = (everKilled \/ p.exit137 \/ p.oomLine)
    /\ UNCHANGED <<service, database, results, answered, rca>>
-----------------------------------------------------------------------------
(***************************************************************************)
(* The inspectors.  Any query of theirs may fail.                          *)
(***************************************************************************)
Report(n, result) ==
    /\ n \notin answered
    /\ answered' = answered \cup {n}
    /\ results' = [results EXCEPT ![n] = result]
    /\ UNCHANGED <<world, rca>>

\* No kubectl, no answer to the first query or no sample in it, or an exception.
GiveUp(n) == Report(n, Degraded[n])

\* The pod is described; kubectl top, asked after that, may fail.  A restart between the two
\* needs no step of its own: what is described is already there, and the usage that the pod
\* starts again with may be any.
InspectK8s ==
    \E failed \in BOOLEAN :
        Report("k8s", [degraded |-> FALSE, exit137 |-> pod.exit137,
                       usage |-> IF failed THEN Unknown ELSE pod.usage])

\* round(err / tot, 4)
ErrorRate(err, tot) == IF tot = 0 THEN 0 ELSE (20000 * err + tot) \div (2 * tot)

\* Variant: the default of the pool's size.
ErrorsOrHundred(failed) == IF failed \/ "5xx" \notin DOMAIN service THEN 100 ELSE service["5xx"]

\* The first 5xx series; 0 without an answer, as without such a series.
Errors(failed) == IF failed \/ "5xx" \notin DOMAIN service THEN 0 ELSE service["5xx"]

\* The total is the first series of all, whichever Prometheus puts first.
InspectApi ==
    \E s \in DOMAIN service, failed \in BOOLEAN :
        Report("api", [degraded |-> FALSE, rate |-> ErrorRate(Errors(failed), service[s])])

\* kubectl logs may fail with nothing on stdout.
AnalyzeLogs ==
    \E failed \in BOOLEAN :
        Report("logs", [degraded |-> FALSE, oom |-> ~failed /\ pod.oomLine])

\* The limit and the lag are asked for after the connections, with defaults.
InspectDb ==
    \E noMax, noLag \in BOOLEAN :
        Report("db", [degraded |-> FALSE, used |-> database.used,
                      max |-> IF noMax THEN 100 ELSE database.max,
                      lagging |-> ~noLag /\ database.lagging])

\* gather has all four.
Synthesize ==
    /\ answered = Names
    /\ rca = NoRca
    /\ rca' = Synthesis(results)
    /\ UNCHANGED <<world, results, answered>>

Inspect ==
    \/ InspectK8s \/ InspectApi \/ AnalyzeLogs \/ InspectDb
    \/ \E n \in Names : GiveUp(n)

Next == UseMemory \/ Restarted \/ Inspect \/ Synthesize

Spec == Init /\ [][Next]_vars
-----------------------------------------------------------------------------
(***************************************************************************)
(* Properties.                                                             *)
(***************************************************************************)
Done == rca # NoRca

\* What an inspector that gets its answers may report.
Answers(n) ==
    CASE n = "k8s" -> [degraded : {FALSE}, exit137 : BOOLEAN, usage : Usages \cup {Unknown}]
      [] n = "api" -> [degraded : {FALSE}, rate : {0, 500, 501, 10000}]
      [] n = "logs" -> [degraded : {FALSE}, oom : BOOLEAN]
      [] n = "db" -> [degraded : {FALSE}, used : {d.used : d \in Databases},
                      max : {d.max : d \in Databases} \cup {100}, lagging : BOOLEAN]

\* synthesize decides the plan and the risk by two chains of conditions, and only one of them
\* asks for a peak: the risk on the card is that of the plan on the card.
RiskMatchesPlan ==
    Done => LET base == rca.risk - (IF rca.incomplete THEN 1 ELSE 0)
            IN \/ rca.plan = "memory_limit"     /\ base = 2
               \/ rca.plan = "pool_and_timeout" /\ base = 4
               \/ rca.plan = "rollback"         /\ base = 6
               \/ rca.plan = "manual"           /\ base = 8

\* Whatever queries fail, and whatever the pod does while it is looked at: a write is proposed
\* only on something that was there to be seen, an exit code 137 or an OOM line (of this run
\* of the container or an earlier one), or requests that failed.
WritesRestOnFacts ==
    Done =>
        /\ rca.plan = "memory_limit" => everKilled
        /\ rca.plan = "rollback" => "5xx" \in DOMAIN service /\ service["5xx"] > 0

\* _recommend_mib: the least multiple of 128 MiB, from 256 on, that is 1.6 times the usage
\* the plan is about.
LimitFitsUsage ==
    Done /\ rca.plan = "memory_limit" =>
        /\ rca.limit % 128 = 0 /\ rca.limit >= 256
        /\ 5 * rca.limit >= 8 * results.k8s.usage
        /\ rca.limit > 256 /\ results.k8s.usage > 0 =>
               5 * (rca.limit - 128) < 8 * results.k8s.usage

\* An inspector that came back degraded never makes the incident look safer: with any answer
\* it could have given instead, the card would have shown a risk no higher, and a lower one
\* if the other three had answered.
DegradedIsNeverSafer ==
    Done => \A n \in {m \in Names : results[m].degraded} : \A answer \in Answers(n) :
        LET full == [results EXCEPT ![n] = answer]
        IN rca.risk >= Risk(full) + (IF Incomplete(full) THEN 0 ELSE 1)

\* _memory_patch "raises one container's memory limit": the patch is an increase.  (Not so: the
\* usage is read after the restart, and the present limit is read nowhere.)
PatchRaisesLimit == Done /\ rca.plan = "memory_limit" => rca.limit > Limit
=============================================================================
