------------------------- MODULE InvestigationProofs -------------------------
(***************************************************************************)
(* Proofs about Investigation, for every amount of memory, every rate and  *)
(* every database: what synthesize decides rests on what the inspectors    *)
(* saw, and what they did not see makes it no bolder.                      *)
(***************************************************************************)
EXTENDS Investigation, TLAPS

World ==
    /\ pod \in [exit137 : BOOLEAN, oomLine : BOOLEAN, usage : Usages]
    /\ everKilled \in BOOLEAN
    /\ pod.exit137 \/ pod.oomLine => everKilled
    /\ service \in Services
    /\ database \in Databases

\* What the inspectors report was there to be seen; the degraded ones report nothing.
K8sSeen ==
    /\ results.k8s \in [degraded : BOOLEAN, exit137 : BOOLEAN, usage : Usages \cup {Unknown}]
    /\ results.k8s.exit137 => everKilled
    /\ results.k8s.degraded => results.k8s = Degraded.k8s

ApiSeen ==
    /\ results.api \in [degraded : BOOLEAN, rate : Nat]
    /\ results.api.rate > 0 => "5xx" \in DOMAIN service /\ service["5xx"] > 0
    /\ results.api.degraded => results.api = Degraded.api

LogsSeen ==
    /\ results.logs \in [degraded : BOOLEAN, oom : BOOLEAN]
    /\ results.logs.oom => everKilled
    /\ results.logs.degraded => results.logs = Degraded.logs

DbSeen ==
    /\ results.db \in [degraded : BOOLEAN, used : Nat, max : Nat, lagging : BOOLEAN]
    /\ results.db.degraded => results.db = Degraded.db

\* results has these four fields and no other.
FourResults == results = [k8s |-> results.k8s, api |-> results.api, logs |-> results.logs,
                          db |-> results.db]

\* The analysis is made once, of the four results as they stay.
Synthesized == rca # NoRca => answered = Names /\ rca = Synthesis(results)

\* The inductive invariant.
IInv ==
    /\ World
    /\ FourResults
    /\ K8sSeen
    /\ ApiSeen
    /\ LogsSeen
    /\ DbSeen
    /\ answered \subseteq Names
    /\ Synthesized
-----------------------------------------------------------------------------
\* Half of something over the whole of it rounds down to 0, and a quotient is a number.
LEMMA Quotients ==
    /\ \A a \in Nat : a > 0 => a \div (2 * a) = 0
    /\ \A a, b \in Nat : b > 0 => (20000 * a + b) \div (2 * b) \in Nat
  <1>1. \A a \in Nat : a > 0 => a \div (2 * a) = 0
    OBVIOUS
  <1>2. \A a, b \in Nat : b > 0 => (20000 * a + b) \div (2 * b) \in Nat
    OBVIOUS
  <1>. QED BY <1>1, <1>2

LEMMA InitIInv == Init => IInv
  BY DEF Init, IInv, World, FourResults, K8sSeen, ApiSeen, LogsSeen, DbSeen, Synthesized,
         Degraded, Unknown

\* A report of inspector n replaces its result, before the analysis, and nothing else.
LEMMA ReportIInv ==
    ASSUME IInv, NEW n \in Names, NEW result, Report(n, result)
    PROVE  /\ World' /\ FourResults' /\ answered' \subseteq Names
           /\ Synthesized' /\ UNCHANGED world
           /\ n = "k8s"  => results'.k8s = result
           /\ n = "api"  => results'.api = result
           /\ n = "logs" => results'.logs = result
           /\ n = "db"   => results'.db = result
           /\ n # "k8s"  => K8sSeen'
           /\ n # "api"  => ApiSeen'
           /\ n # "logs" => LogsSeen'
           /\ n # "db"   => DbSeen'
  <1>1. /\ UNCHANGED world /\ rca' = rca /\ n \notin answered
        /\ answered' = answered \cup {n}
        /\ results' = [results EXCEPT ![n] = result]
    BY DEF Report
  <1>2. World' /\ Synthesized' /\ answered' \subseteq Names
    BY <1>1 DEF IInv, World, Synthesized, world
  <1>3. results = [k8s |-> results.k8s, api |-> results.api, logs |-> results.logs,
                   db |-> results.db]
    BY DEF IInv, FourResults
  <1>4. results' = [k8s  |-> IF n = "k8s" THEN result ELSE results.k8s,
                    api  |-> IF n = "api" THEN result ELSE results.api,
                    logs |-> IF n = "logs" THEN result ELSE results.logs,
                    db   |-> IF n = "db" THEN result ELSE results.db]
    <2>. DEFINE k == results.k8s  a == results.api  l == results.logs  d == results.db
    <2>1. results = [k8s |-> k, api |-> a, logs |-> l, db |-> d]
      BY <1>3
    <2>. HIDE DEF k, a, l, d
    <2>2. results' = [k8s  |-> IF n = "k8s" THEN result ELSE k,
                      api  |-> IF n = "api" THEN result ELSE a,
                      logs |-> IF n = "logs" THEN result ELSE l,
                      db   |-> IF n = "db" THEN result ELSE d]
      BY <1>1, <2>1 DEF Names
    <2>. QED BY <2>2 DEF k, a, l, d
  <1>5. /\ results'.k8s = IF n = "k8s" THEN result ELSE results.k8s
        /\ results'.api = IF n = "api" THEN result ELSE results.api
        /\ results'.logs = IF n = "logs" THEN result ELSE results.logs
        /\ results'.db = IF n = "db" THEN result ELSE results.db
        /\ FourResults'
    BY <1>4 DEF FourResults
  <1>6. /\ n # "k8s"  => K8sSeen'
        /\ n # "api"  => ApiSeen'
        /\ n # "logs" => LogsSeen'
        /\ n # "db"   => DbSeen'
    BY <1>1, <1>5 DEF IInv, world, K8sSeen, ApiSeen, LogsSeen, DbSeen, Degraded
  <1>. QED BY <1>1, <1>2, <1>5, <1>6

\* The inspectors.
LEMMA InspectIInv == IInv /\ Inspect => IInv'
  <1>. SUFFICES ASSUME IInv, Inspect PROVE IInv'
    OBVIOUS
  <1>. USE DEF Names
  <1>1. CASE InspectK8s
    <2>1. PICK failed \in BOOLEAN :
            Report("k8s", [degraded |-> FALSE, exit137 |-> pod.exit137,
                           usage |-> IF failed THEN Unknown ELSE pod.usage])
      BY <1>1 DEF InspectK8s
    <2>2. /\ results'.k8s = [degraded |-> FALSE, exit137 |-> pod.exit137,
                             usage |-> IF failed THEN Unknown ELSE pod.usage]
          /\ everKilled' = everKilled
      BY <2>1, ReportIInv DEF world
    <2>3. K8sSeen'
      BY <2>2 DEF K8sSeen, IInv, World, Degraded
    <2>. QED BY <2>1, <2>3, ReportIInv DEF IInv
  <1>2. CASE InspectApi
    <2>1. PICK s \in DOMAIN service, failed \in BOOLEAN :
            Report("api", [degraded |-> FALSE, rate |-> ErrorRate(Errors(failed), service[s])])
      BY <1>2 DEF InspectApi
    <2>. DEFINE rate == ErrorRate(Errors(failed), service[s])
    <2>2. PICK D \in SUBSET {"2xx", "5xx"} : service \in [D -> Nat]
      BY InvestigationAssumption DEF IInv, World
    <2>3. /\ service[s] \in Nat /\ Errors(failed) \in Nat
          /\ Errors(failed) > 0 => "5xx" \in DOMAIN service /\ service["5xx"] > 0
      BY <2>2 DEF Errors
    <2>4. rate \in Nat /\ (rate > 0 => Errors(failed) > 0)
      BY <2>3, Quotients DEF ErrorRate
    <2>. HIDE DEF rate
    <2>5. results'.api = [degraded |-> FALSE, rate |-> rate] /\ service' = service
      BY <2>1, ReportIInv DEF world, rate
    <2>6. ApiSeen'
      BY <2>3, <2>4, <2>5 DEF ApiSeen
    <2>. QED BY <2>1, <2>6, ReportIInv DEF IInv
  <1>3. CASE AnalyzeLogs
    <2>1. PICK failed \in BOOLEAN :
            Report("logs", [degraded |-> FALSE, oom |-> ~failed /\ pod.oomLine])
      BY <1>3 DEF AnalyzeLogs
    <2>2. /\ results'.logs = [degraded |-> FALSE, oom |-> ~failed /\ pod.oomLine]
          /\ everKilled' = everKilled
      BY <2>1, ReportIInv DEF world
    <2>3. LogsSeen'
      BY <2>2 DEF LogsSeen, IInv, World, Degraded
    <2>. QED BY <2>1, <2>3, ReportIInv DEF IInv
  <1>4. CASE InspectDb
    <2>1. PICK noMax \in BOOLEAN, noLag \in BOOLEAN :
            Report("db", [degraded |-> FALSE, used |-> database.used,
                          max |-> IF noMax THEN 100 ELSE database.max,
                          lagging |-> ~noLag /\ database.lagging])
      BY <1>4 DEF InspectDb
    <2>2. database \in [used : Nat, max : Nat, lagging : BOOLEAN]
      BY InvestigationAssumption DEF IInv, World
    <2>3. results'.db = [degraded |-> FALSE, used |-> database.used,
                         max |-> IF noMax THEN 100 ELSE database.max,
                         lagging |-> ~noLag /\ database.lagging]
      BY <2>1, ReportIInv
    <2>4. DbSeen'
      BY <2>2, <2>3 DEF DbSeen
    <2>. QED BY <2>1, <2>4, ReportIInv DEF IInv
  <1>5. ASSUME NEW n \in Names, GiveUp(n) PROVE IInv'
    <2>1. Report(n, Degraded[n])
      BY <1>5 DEF GiveUp
    <2>2. n = "k8s" => K8sSeen'
      <3>. SUFFICES ASSUME n = "k8s" PROVE K8sSeen'
        OBVIOUS
      <3>1. results'.k8s = Degraded.k8s
        BY <2>1, ReportIInv
      <3>. QED BY <3>1 DEF K8sSeen, Degraded
    <2>3. n = "api" => ApiSeen'
      <3>. SUFFICES ASSUME n = "api" PROVE ApiSeen'
        OBVIOUS
      <3>1. results'.api = Degraded.api
        BY <2>1, ReportIInv
      <3>. QED BY <3>1 DEF ApiSeen, Degraded
    <2>4. n = "logs" => LogsSeen'
      <3>. SUFFICES ASSUME n = "logs" PROVE LogsSeen'
        OBVIOUS
      <3>1. results'.logs = Degraded.logs
        BY <2>1, ReportIInv
      <3>. QED BY <3>1 DEF LogsSeen, Degraded
    <2>5. n = "db" => DbSeen'
      <3>. SUFFICES ASSUME n = "db" PROVE DbSeen'
        OBVIOUS
      <3>1. results'.db = Degraded.db
        BY <2>1, ReportIInv
      <3>. QED BY <3>1 DEF DbSeen, Degraded
    <2>. QED BY <2>1, <2>2, <2>3, <2>4, <2>5, ReportIInv DEF IInv
  <1>. QED BY <1>1, <1>2, <1>3, <1>4, <1>5 DEF Inspect

\* The invariant is inductive.
LEMMA NextIInv == IInv /\ [Next]_vars => IInv'
  <1>. USE DEF IInv, World, FourResults, K8sSeen, ApiSeen, LogsSeen, DbSeen, Synthesized
  <1>1. IInv /\ UseMemory => IInv'
    BY DEF UseMemory
  <1>2. IInv /\ Restarted => IInv'
    BY DEF Restarted
  <1>3. IInv /\ Synthesize => IInv'
    BY DEF Synthesize, world
  <1>4. IInv /\ UNCHANGED vars => IInv'
    BY DEF vars
  <1>. QED BY <1>1, <1>2, <1>3, <1>4, InspectIInv DEF Next

THEOREM InvestigationInvariant == Spec => []IInv
  BY InitIInv, NextIInv, PTL DEF Spec
-----------------------------------------------------------------------------
\* The plan and the risk agree, whatever the four results are.
THEOREM InvestigationRiskMatchesPlan == Spec => []RiskMatchesPlan
  <1>1. IInv => RiskMatchesPlan
    <2>. SUFFICES ASSUME IInv, Done PROVE RiskMatchesPlan
      BY DEF RiskMatchesPlan
    <2>1. rca = Synthesis(results)
      BY DEF IInv, Synthesized, Done
    <2>2. Peak(results) > 0
      BY InvestigationAssumption DEF Peak, IInv, K8sSeen, Unknown
    <2>. QED BY <2>1, <2>2 DEF RiskMatchesPlan, Synthesis, Risk, BaseRisk, FixPlan
  <1>. QED BY <1>1, InvestigationInvariant, PTL

\* No failure of a query, and no restart during the investigation, makes up a reason to write.
THEOREM InvestigationWritesRestOnFacts == Spec => []WritesRestOnFacts
  <1>1. IInv => WritesRestOnFacts
    <2>. SUFFICES ASSUME IInv, Done PROVE WritesRestOnFacts
      BY DEF WritesRestOnFacts
    <2>1. rca.plan = FixPlan(results)
      BY DEF IInv, Synthesized, Done, Synthesis
    <2>2. FixPlan(results) = "memory_limit" => Oom(results)
      BY DEF FixPlan
    <2>3. FixPlan(results) = "rollback" => ErrorsHigh(results)
      BY DEF FixPlan
    <2>. QED BY <2>1, <2>2, <2>3 DEF WritesRestOnFacts, Oom, ErrorsHigh, IInv, K8sSeen,
                                     LogsSeen, ApiSeen
  <1>. QED BY <1>1, InvestigationInvariant, PTL

\* _recommend_mib for every peak: the least multiple of 128 that is 1.6 times as much.
LEMMA RecommendIsLeast ==
    ASSUME NEW p \in Nat, p > 0
    PROVE  /\ Recommend(p) \in Nat /\ Recommend(p) % 128 = 0 /\ Recommend(p) >= 256
           /\ 5 * Recommend(p) >= 8 * p
           /\ Recommend(p) > 256 => 5 * (Recommend(p) - 128) < 8 * p
  <1>1. PICK q \in Nat : q = (p + 79) \div 80 /\ 80 * q >= p /\ 80 * q < p + 80
    OBVIOUS
  <1>2. (q * 128) % 128 = 0
    OBVIOUS
  <1>. QED BY <1>1, <1>2 DEF Recommend

THEOREM InvestigationLimitFitsUsage == Spec => []LimitFitsUsage
  <1>1. IInv => LimitFitsUsage
    <2>. SUFFICES ASSUME IInv, Done, rca.plan = "memory_limit" PROVE LimitFitsUsage
      BY DEF LimitFitsUsage
    <2>1. rca.limit = Recommend(Peak(results))
      BY DEF IInv, Synthesized, Done, Synthesis
    <2>2. results.k8s.usage \in Nat \cup {-1}
      BY InvestigationAssumption DEF IInv, K8sSeen, Unknown
    <2>3. /\ Peak(results) \in Nat /\ Peak(results) > 0 /\ Peak(results) >= results.k8s.usage
          /\ results.k8s.usage > 0 => Peak(results) = results.k8s.usage
      BY <2>2 DEF Peak
    <2>. DEFINE p == Peak(results)  limit == rca.limit
    <2>4. /\ limit \in Nat /\ limit % 128 = 0 /\ limit >= 256 /\ 5 * limit >= 8 * p
          /\ limit > 256 => 5 * (limit - 128) < 8 * p
      BY <2>1, <2>3, RecommendIsLeast
    <2>5. 5 * limit >= 8 * results.k8s.usage
      BY <2>2, <2>3, <2>4
    <2>. QED BY <2>3, <2>4, <2>5 DEF LimitFitsUsage
  <1>. QED BY <1>1, InvestigationInvariant, PTL

\* What comes out of synthesize has its types, whatever goes in: a limit that is a number, a
\* risk on the scale of ten, a confidence for every set of signals.
LEMMA SynthesisType == IInv => Synthesis(results) \in RCAs
  <1>. SUFFICES ASSUME IInv PROVE Synthesis(results) \in RCAs
    OBVIOUS
  <1>1. FixPlan(results) \in Plans
    BY DEF FixPlan, Plans
  <1>2. results.k8s.usage \in Nat \cup {-1}
    BY InvestigationAssumption DEF IInv, K8sSeen, Unknown
  <1>3. Peak(results) \in Nat /\ Peak(results) > 0
    BY <1>2 DEF Peak
  <1>4. (IF FixPlan(results) = "memory_limit" THEN Recommend(Peak(results)) ELSE 0) \in Nat
    BY <1>3, RecommendIsLeast
  <1>5. Risk(results) \in 0 .. 10
    BY DEF Risk, BaseRisk
  <1>6. Evidence(results) \in SUBSET Signals
    BY DEF Evidence
  <1>7. Confidence(Evidence(results)) \in Confidences
    BY DEF Confidence, Confidences
  <1>8. Incomplete(results) \in BOOLEAN
    BY DEF Incomplete
  <1>. QED BY <1>1, <1>4, <1>5, <1>6, <1>7, <1>8 DEF Synthesis, RCAs

\* The inspectors' results and the analysis keep their types, whatever fails.
THEOREM InvestigationTypes == Spec => []TypeOK
  <1>1. IInv => TypeOK
    <2>. SUFFICES ASSUME IInv PROVE TypeOK
      OBVIOUS
    <2>1. results \in Results
      BY DEF IInv, FourResults, K8sSeen, ApiSeen, LogsSeen, DbSeen, Results
    <2>2. NoRca \in RCAs
      BY DEF NoRca, RCAs, Plans, Signals, Confidences
    <2>3. rca \in RCAs
      BY <2>2, SynthesisType DEF IInv, Synthesized
    <2>. QED BY <2>1, <2>3 DEF IInv, World, TypeOK
  <1>. QED BY <1>1, InvestigationInvariant, PTL

\* _memory_patch is an increase when the pod, as `kubectl top` shows it after the restart, still
\* uses over five eighths of its limit, or when the limit is below the 256 MiB floor.
PatchRaisesUsedLimit ==
    Done /\ rca.plan = "memory_limit" /\ (8 * results.k8s.usage > 5 * Limit \/ Limit < 256)
        => rca.limit > Limit

THEOREM InvestigationPatchRaisesUsedLimit == Spec => []PatchRaisesUsedLimit
  <1>1. IInv /\ LimitFitsUsage => PatchRaisesUsedLimit
    <2>. SUFFICES ASSUME IInv, LimitFitsUsage, Done, rca.plan = "memory_limit",
                         8 * results.k8s.usage > 5 * Limit \/ Limit < 256
                  PROVE  rca.limit > Limit
      BY DEF PatchRaisesUsedLimit
    <2>0. results.k8s.usage \in Nat \cup {-1}
      BY InvestigationAssumption DEF IInv, K8sSeen, Unknown
    <2>1. results.k8s.usage \in Int /\ Limit \in Int
      BY <2>0, InvestigationAssumption
    <2>2. rca.limit \in Nat /\ rca.limit >= 256 /\ 5 * rca.limit >= 8 * results.k8s.usage
      <3>1. rca.limit = Recommend(Peak(results))
        BY DEF IInv, Synthesized, Done, Synthesis
      <3>2. Peak(results) \in Nat /\ Peak(results) > 0
        BY <2>1 DEF Peak
      <3>3. rca.limit \in Nat /\ rca.limit >= 256
        BY <3>1, <3>2, RecommendIsLeast
      <3>. QED BY <3>3 DEF LimitFitsUsage
    <2>. QED BY <2>1, <2>2
  <1>. QED BY <1>1, InvestigationInvariant, InvestigationLimitFitsUsage, PTL

\* With more to go on, the base risk is no higher.
LEMMA MoreSignalsLessRisk ==
    ASSUME NEW r, NEW full,
           Oom(r) => Oom(full), PoolHigh(r) => PoolHigh(full), ErrorsHigh(r) => ErrorsHigh(full)
    PROVE  BaseRisk(full) <= BaseRisk(r) /\ BaseRisk(r) \in Nat /\ BaseRisk(full) \in Nat
  BY DEF BaseRisk

\* A degraded inspector makes the card's risk at least that of any answer it might have given.
THEOREM InvestigationDegradedIsNeverSafer == Spec => []DegradedIsNeverSafer
  <1>1. IInv => DegradedIsNeverSafer
    <2>. SUFFICES ASSUME IInv, Done, NEW n \in Names, results[n].degraded, NEW answer \in Answers(n)
                  PROVE  LET full == [results EXCEPT ![n] = answer]
                         IN rca.risk >= Risk(full) + (IF Incomplete(full) THEN 0 ELSE 1)
      BY DEF DegradedIsNeverSafer
    <2>. DEFINE full == [results EXCEPT ![n] = answer]
    <2>1. rca.risk = BaseRisk(results) + 1
      BY DEF IInv, Synthesized, Done, Synthesis, Risk, Incomplete
    <2>2. /\ Oom(results) => Oom(full)
          /\ PoolHigh(results) => PoolHigh(full)
          /\ ErrorsHigh(results) => ErrorsHigh(full)
      <3>1. \A m \in Names : m # n => full[m] = results[m]
        BY DEF IInv, FourResults, Names
      <3>2. CASE n = "k8s"
        <4>1. ~results.k8s.exit137
          BY <3>2 DEF IInv, K8sSeen, Degraded
        <4>. HIDE DEF full
        <4>. QED BY <3>1, <3>2, <4>1 DEF Oom, PoolHigh, PoolMax, ErrorsHigh, Names
      <3>3. CASE n = "api"
        <4>1. ~ErrorsHigh(results)
          BY <3>3 DEF IInv, ApiSeen, Degraded, ErrorsHigh
        <4>. HIDE DEF full
        <4>. QED BY <3>1, <3>3, <4>1 DEF Oom, PoolHigh, PoolMax, Names
      <3>4. CASE n = "logs"
        <4>1. ~results.logs.oom
          BY <3>4 DEF IInv, LogsSeen, Degraded
        <4>. HIDE DEF full
        <4>. QED BY <3>1, <3>4, <4>1 DEF Oom, PoolHigh, PoolMax, ErrorsHigh, Names
      <3>5. CASE n = "db"
        <4>1. ~PoolHigh(results)
          BY <3>5 DEF IInv, DbSeen, Degraded, PoolHigh, PoolMax
        <4>. HIDE DEF full
        <4>. QED BY <3>1, <3>5, <4>1 DEF Oom, ErrorsHigh, Names
      <3>. QED BY <3>2, <3>3, <3>4, <3>5 DEF Names
    <2>3. BaseRisk(full) <= BaseRisk(results) /\ BaseRisk(results) \in Nat /\ BaseRisk(full) \in Nat
      <3>. HIDE DEF full
      <3>. QED BY <2>2, MoreSignalsLessRisk
    <2>. HIDE DEF full
    <2>4. rca.risk >= Risk(full) + (IF Incomplete(full) THEN 0 ELSE 1)
      BY <2>1, <2>3 DEF Risk
    <2>. QED BY <2>4 DEF full
  <1>. QED BY <1>1, InvestigationInvariant, PTL

=============================================================================
