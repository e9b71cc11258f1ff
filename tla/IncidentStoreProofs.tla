------------------------- MODULE IncidentStoreProofs -------------------------
(***************************************************************************)
(* Proofs about IncidentStore: types, the bound on the numbers in use, the *)
(* freshness of the next id and what get_recent and suggest_from_history   *)
(* return, for every number of saves, ids and years.                       *)
(***************************************************************************)
EXTENDS IncidentStore, FiniteSetTheorems, WellFoundedInduction, TLAPS

\* Rows are written only under ids that were handed out.
RowsIssued == DOMAIN rows \subseteq issued

\* An id is handed out in its own year; its row is created then or later.
YearsInOrder ==
    /\ \A i \in issued : IdYear(i) <= year
    /\ \A i \in DOMAIN rows : IdYear(i) <= rows[i].year /\ rows[i].year <= year

\* The rows of this year number at least as many as the highest number among them: why the
\* row count never falls behind the ids in the table.
NumbersCounted ==
    \A i \in DOMAIN rows :
        IdYear(i) = year => IdNumber(i) <= Cardinality(CreatedIn(year))

\* The inductive invariant.
IInv ==
    /\ TypeOK
    /\ IsFiniteSet(DOMAIN rows)
    /\ RowsIssued
    /\ YearsInOrder
    /\ NumbersCounted
    /\ NumbersBounded

\* The next id is an id.
LEMMA NextIdType ==
    ASSUME TypeOK, IsFiniteSet(DOMAIN rows)
    PROVE  /\ \A y : IsFiniteSet(CreatedIn(y)) /\ Cardinality(CreatedIn(y)) \in Nat
           /\ NextIncidentId \in Ids
           /\ IdYear(NextIncidentId) = year
           /\ IdNumber(NextIncidentId) = Cardinality(CreatedIn(year)) + 1
  <1>1. ASSUME NEW y PROVE IsFiniteSet(CreatedIn(y)) /\ Cardinality(CreatedIn(y)) \in Nat
    <2>1. CreatedIn(y) \in SUBSET (DOMAIN rows)
      BY DEF CreatedIn
    <2>2. IsFiniteSet(CreatedIn(y))
      BY <2>1, FS_Subset
    <2>. QED BY <2>2, FS_CardinalityType
  <1>. QED BY <1>1 DEF NextIncidentId, Ids, IdYear, IdNumber, TypeOK

\* In a reachable table it is an id, and a new one.
LEMMA NextIdFromIInv == IInv => NextIncidentId \in Ids
  BY NextIdType DEF IInv

\* The initial table.
LEMMA InitIInv == Init => IInv
  <1>. SUFFICES ASSUME Init PROVE IInv
    OBVIOUS
  <1>1. DOMAIN rows = {} /\ issued = {}
    BY DEF Init
  <1>2. TypeOK
    BY <1>1, StoreAssumption DEF Init, TypeOK
  <1>3. IsFiniteSet(DOMAIN rows)
    BY <1>1, FS_EmptySet
  <1>. QED BY <1>1, <1>2, <1>3 DEF IInv, RowsIssued, YearsInOrder, NumbersCounted, NumbersBounded

\* A new id is handed out.
LEMMA AllocateIInv == IInv /\ Allocate => IInv'
  <1>. SUFFICES ASSUME IInv, Allocate PROVE IInv'
    OBVIOUS
  <1>. USE DEF IInv, Allocate
  <1>1. CreatedIn(year)' = CreatedIn(year) /\ NextIncidentId' = NextIncidentId
    BY DEF CreatedIn, NextIncidentId
  <1>2. /\ NextIncidentId \in Ids /\ IdYear(NextIncidentId) = year
        /\ IdNumber(NextIncidentId) \in Nat
    BY NextIdType
  <1>3. TypeOK'
    BY <1>2 DEF TypeOK
  <1>4. RowsIssued'
    BY DEF RowsIssued
  <1>5. YearsInOrder'
    BY <1>2 DEF YearsInOrder, TypeOK
  <1>6. NumbersCounted'
    BY <1>1 DEF NumbersCounted
  <1>7. NumbersBounded'
    BY <1>1, <1>2 DEF NumbersBounded
  <1>. QED BY <1>3, <1>4, <1>5, <1>6, <1>7

\* A row is inserted, or replaced.
LEMMA SaveIInv ==
    ASSUME IInv, NEW i \in issued, NEW ty \in Types, NEW c \in Contents,
           SaveIncident(i, ty, c)
    PROVE  IInv'
  <1>. DEFINE n == Cardinality(CreatedIn(year))
  <1>. USE DEF IInv
  <1>1. i \in Ids /\ IdYear(i) \in Nat /\ IdNumber(i) \in Nat
    BY DEF TypeOK, Ids, IdYear, IdNumber
  <1>2. /\ DOMAIN rows' = DOMAIN rows \cup {i}
        /\ \A j \in DOMAIN rows : j # i => rows'[j] = rows[j]
        /\ rows'[i].year = year
        /\ year' = year /\ issued' = issued /\ saves' = saves + 1
    BY DEF SaveIncident
  <1>3. rows'[i] \in Row
    <2>1. CASE i \in DOMAIN rows
      BY <2>1 DEF SaveIncident, PriorOutcome, Outcome, TypeOK, Row
    <2>2. CASE i \notin DOMAIN rows
      BY <2>2 DEF SaveIncident, PriorOutcome, NoOutcome, TypeOK, Row
    <2>. QED BY <2>1, <2>2
  <1>4. TypeOK'
    BY <1>1, <1>2, <1>3 DEF TypeOK
  <1>5. IsFiniteSet(DOMAIN rows)'
    BY <1>2, FS_AddElement
  <1>6. RowsIssued'
    BY <1>2 DEF RowsIssued
  <1>7. YearsInOrder'
    BY <1>2 DEF YearsInOrder, TypeOK
  <1>8. CreatedIn(year)' = CreatedIn(year) \cup {i}
    BY <1>2 DEF CreatedIn
  <1>9. /\ n \in Nat /\ IsFiniteSet(CreatedIn(year))
        /\ Cardinality(CreatedIn(year))' = IF i \in CreatedIn(year) THEN n ELSE n + 1
    BY <1>8, NextIdType, FS_AddElement
  <1>10. \A j \in DOMAIN rows : IdNumber(j) \in Nat
    BY DEF TypeOK, Ids, IdNumber
  <1>11. IdYear(i) = year => IdNumber(i) <= Cardinality(CreatedIn(year))'
    <2>. SUFFICES ASSUME IdYear(i) = year
                  PROVE  IdNumber(i) <= Cardinality(CreatedIn(year))'
      OBVIOUS
    <2>1. CASE i \in CreatedIn(year)
      BY <1>1, <1>9, <2>1 DEF NumbersCounted, CreatedIn
    <2>2. CASE i \notin CreatedIn(year)
      <3>1. IdNumber(i) <= n + 1
        BY <1>1, NextIdType DEF NumbersBounded
      <3>. QED BY <1>9, <2>2, <3>1
    <2>. QED BY <2>1, <2>2
  <1>12. NumbersCounted'
    <2>. SUFFICES ASSUME NEW j \in DOMAIN rows', IdYear(j) = year
                  PROVE  IdNumber(j) <= Cardinality(CreatedIn(year))'
      BY <1>2 DEF NumbersCounted, IdYear, IdNumber
    <2>1. CASE j = i
      BY <1>11, <2>1
    <2>2. CASE j # i
      <3>1. j \in DOMAIN rows /\ IdNumber(j) <= n
        BY <1>2, <2>2 DEF NumbersCounted
      <3>. QED BY <1>9, <1>10, <3>1
    <2>. QED BY <2>1, <2>2
  <1>13. NumbersBounded'
    <2>1. IdNumber(NextIncidentId)' = Cardinality(CreatedIn(year))' + 1
      BY DEF NextIncidentId, IdNumber
    <2>2. \A j \in issued : IdYear(j) = year => IdNumber(j) \in Nat /\ IdNumber(j) <= n + 1
      BY NextIdType DEF NumbersBounded, TypeOK, Ids, IdNumber
    <2>3. \A j \in issued' : (IdYear(j) = year)' => IdNumber(j) <= n + 1 /\ IdNumber(j) \in Nat
      BY <1>2, <2>2
    <2>. QED BY <1>9, <2>1, <2>3 DEF NumbersBounded, IdYear, IdNumber
  <1>. QED BY <1>4, <1>5, <1>6, <1>7, <1>12, <1>13

\* A row's outcome is recorded: no id, no year, no count changes.
LEMMA MarkIInv ==
    ASSUME IInv, NEW i, NEW f \in Fixes \cup {NoFix}, NEW d \in Decisions, NEW r \in BOOLEAN,
           MarkResolved(i, f, d, r)
    PROVE  IInv'
  <1>. USE DEF IInv
  <1>1. /\ DOMAIN rows' = DOMAIN rows
        /\ year' = year /\ issued' = issued /\ saves' = saves
    BY DEF MarkResolved
  <1>2. \A j \in DOMAIN rows : rows'[j] \in Row /\ rows'[j].year = rows[j].year
    BY DEF MarkResolved, TypeOK, Row
  <1>3. CreatedIn(year)' = CreatedIn(year) /\ NextIncidentId' = NextIncidentId
    BY <1>1, <1>2 DEF CreatedIn, NextIncidentId
  <1>4. TypeOK'
    BY <1>1, <1>2 DEF TypeOK
  <1>5. RowsIssued' /\ YearsInOrder'
    BY <1>1, <1>2 DEF RowsIssued, YearsInOrder
  <1>6. NumbersCounted' /\ NumbersBounded'
    BY <1>1, <1>3 DEF NumbersCounted, NumbersBounded
  <1>. QED BY <1>1, <1>4, <1>5, <1>6

\* The calendar turns: no id of the new year is in use yet.
LEMMA NewYearIInv == IInv /\ NewYear => IInv'
  <1>. SUFFICES ASSUME IInv, NewYear PROVE IInv'
    OBVIOUS
  <1>. USE DEF IInv, NewYear
  <1>1. year \in Nat /\ year' = year + 1
    BY DEF TypeOK
  <1>2. TypeOK' /\ RowsIssued'
    BY <1>1 DEF TypeOK, RowsIssued
  <1>3. \A j \in issued : IdYear(j) \in Nat /\ IdYear(j) <= year
    BY DEF YearsInOrder, TypeOK, Ids, IdYear
  <1>4. YearsInOrder'
    BY <1>1, <1>3 DEF YearsInOrder, TypeOK, Row
  <1>5. \A j \in issued' : (IdYear(j) # year)'
    BY <1>1, <1>3 DEF IdYear
  <1>6. NumbersCounted' /\ NumbersBounded'
    BY <1>2, <1>5 DEF NumbersCounted, NumbersBounded, RowsIssued
  <1>. QED BY <1>2, <1>4, <1>6

\* Every step of the table keeps the invariant.
LEMMA NextIInv == IInv /\ [Next]_vars => IInv'
  <1>. SUFFICES ASSUME IInv, [Next]_vars PROVE IInv'
    OBVIOUS
  <1>1. CASE Allocate
    BY <1>1, AllocateIInv
  <1>2. CASE SaveAny
    BY <1>2, SaveIInv DEF SaveAny
  <1>3. CASE MarkAny
    BY <1>3, MarkIInv DEF MarkAny
  <1>4. CASE NewYear
    BY <1>4, NewYearIInv
  <1>5. CASE UNCHANGED vars
    BY <1>5 DEF vars, IInv, TypeOK, RowsIssued, YearsInOrder, NumbersCounted,
                NumbersBounded, CreatedIn, NextIncidentId
  <1>. QED BY <1>1, <1>2, <1>3, <1>4, <1>5 DEF Next

\* The inductive invariant holds throughout.
THEOREM StoreInvariant == Spec => []IInv
  BY InitIInv, NextIInv, PTL DEF Spec

\* IncidentStore's rows, ids and counters keep their types.
THEOREM StoreTypes == Spec => []TypeOK
  <1>1. IInv => TypeOK
    BY DEF IInv
  <1>. QED BY <1>1, StoreInvariant, PTL

\* next_incident_id: no id handed out this year is above the next one.
THEOREM StoreNumbersBounded == Spec => []NumbersBounded
  <1>1. IInv => NumbersBounded
    BY DEF IInv
  <1>. QED BY <1>1, StoreInvariant, PTL

\* The next id is above every number of this year in the table.
LEMMA FreshFromIInv == IInv => IdsFresh
  <1>. SUFFICES ASSUME IInv, NextIncidentId \in DOMAIN rows PROVE FALSE
    BY DEF IdsFresh
  <1>1. /\ Cardinality(CreatedIn(year)) \in Nat
        /\ IdYear(NextIncidentId) = year
        /\ IdNumber(NextIncidentId) = Cardinality(CreatedIn(year)) + 1
    BY NextIdType DEF IInv
  <1>2. IdNumber(NextIncidentId) <= Cardinality(CreatedIn(year))
    BY <1>1 DEF IInv, NumbersCounted
  <1>. QED BY <1>1, <1>2

\* next_incident_id never returns the id of a row already in the table.
THEOREM StoreIdsFresh == Spec => []IdsFresh
  BY FreshFromIInv, StoreInvariant, PTL

\* save_incident: replacing a row keeps the outcome recorded in it, and rows stay.
THEOREM StoreSaveKeepsOutcome == Spec => SaveKeepsOutcome
  <1>1. ASSUME IInv, [Next]_vars, NEW i \in DOMAIN rows
        PROVE  /\ i \in DOMAIN rows'
               /\ rows'[i].seq # rows[i].seq => Outcome(rows'[i]) = Outcome(rows[i])
    <2>1. CASE Allocate \/ NewYear \/ UNCHANGED vars
      BY <2>1 DEF Allocate, NewYear, vars
    <2>2. CASE SaveAny
      BY <1>1, <2>2 DEF SaveAny, SaveIncident, PriorOutcome, Outcome
    <2>3. CASE MarkAny
      <3>1. rows[i] \in Row
        BY <1>1 DEF IInv, TypeOK
      <3>. QED BY <2>3, <3>1 DEF MarkAny, MarkResolved, Row
    <2>. QED BY <1>1, <2>1, <2>2, <2>3 DEF Next
  <1>2. IInv /\ [Next]_vars =>
            [\A i \in DOMAIN rows :
               /\ i \in DOMAIN rows'
               /\ rows'[i].seq # rows[i].seq => Outcome(rows'[i]) = Outcome(rows[i])]_vars
    BY <1>1
  <1>. QED BY <1>2, StoreInvariant, PTL DEF Spec, SaveKeepsOutcome
-----------------------------------------------------------------------------
(***************************************************************************)
(* What get_recent and suggest_from_history return.                        *)
(***************************************************************************)
Below == {ss \in Nat \X Nat : ss[1] < ss[2]}

\* A non-empty set of natural numbers has a least element.
LEMMA LeastNat ==
    ASSUME NEW S \in SUBSET Nat, S # {}
    PROVE  \E m \in S : \A n \in S : m <= n
  <1>1. IsWellFoundedOn(Below, Nat)
    BY NatLessThanWellFounded DEF OpToRel, Below
  <1>2. PICK m \in S : \A n \in S : <<n, m>> \notin Below
    BY <1>1, WFMin
  <1>3. \A n \in S : ~(n < m)
    BY <1>2 DEF Below
  <1>. QED BY <1>3

\* A bounded one has a greatest.
LEMMA GreatestNat ==
    ASSUME NEW S \in SUBSET Nat, S # {}, NEW b \in Nat, \A n \in S : n <= b
    PROVE  \E m \in S : \A n \in S : n <= m
  <1>. DEFINE T == {b - n : n \in S}
  <1>1. T \in SUBSET Nat /\ T # {}
    <2>1. \A n \in S : b - n \in Nat
      OBVIOUS
    <2>. QED BY <2>1
  <1>2. PICK d \in T : \A e \in T : d <= e
    BY <1>1, LeastNat
  <1>3. PICK m \in S : d = b - m
    BY <1>2
  <1>4. ASSUME NEW n \in S PROVE n <= m
    <2>1. b - m <= b - n
      BY <1>2, <1>3
    <2>. QED BY <2>1
  <1>. QED BY <1>4

\* Every save has an ordinal of its own, so the rows are in one order.
RowsInOrder ==
    /\ \A i \in DOMAIN rows : rows[i].seq < saves
    /\ \A i, j \in DOMAIN rows : i # j => rows[i].seq # rows[j].seq

\* get_recent's order by created_at is an order of all rows: no two are saved at once.
THEOREM StoreRowsInOrder == Spec => []RowsInOrder
  <1>1. Init => RowsInOrder
    BY DEF Init, RowsInOrder
  <1>2. ASSUME IInv, RowsInOrder, [Next]_vars PROVE RowsInOrder'
    <2>. USE DEF IInv, TypeOK
    <2>1. CASE Allocate \/ NewYear \/ UNCHANGED vars
      BY <1>2, <2>1 DEF Allocate, NewYear, vars, RowsInOrder
    <2>2. CASE SaveAny
      <3>1. PICK i \in issued, ty \in Types, c \in Contents : SaveIncident(i, ty, c)
        BY <2>2 DEF SaveAny
      <3>2. /\ DOMAIN rows' = DOMAIN rows \cup {i} /\ saves' = saves + 1
            /\ rows'[i].seq = saves
            /\ \A j \in DOMAIN rows \ {i} : rows'[j] = rows[j]
        BY <3>1 DEF SaveIncident
      <3>3. \A j \in DOMAIN rows : rows[j].seq \in Nat
        BY <1>2 DEF Row
      <3>. QED BY <1>2, <3>2, <3>3 DEF RowsInOrder
    <2>3. CASE MarkAny
      <3>1. /\ DOMAIN rows' = DOMAIN rows /\ saves' = saves
            /\ \A j \in DOMAIN rows : rows'[j].seq = rows[j].seq
        <4>1. \A j \in DOMAIN rows : rows[j] \in Row
          BY <1>2
        <4>. QED BY <2>3, <4>1 DEF MarkAny, MarkResolved, Row
      <3>. QED BY <1>2, <3>1 DEF RowsInOrder
    <2>. QED BY <1>2, <2>1, <2>2, <2>3 DEF Next
  <1>. QED BY <1>1, <1>2, StoreInvariant, PTL DEF Spec

\* A set of rows has an oldest and a newest one.
LEMMA OldestNewest ==
    ASSUME IInv, RowsInOrder, NEW R \in SUBSET (DOMAIN rows), R # {}
    PROVE  /\ \E i \in R : \A j \in R \ {i} : Newer(j, i)
           /\ \E i \in R : \A j \in R \ {i} : Newer(i, j)
  <1>. DEFINE S == {rows[i].seq : i \in R}
  <1>1. \A i \in DOMAIN rows : rows[i].seq \in Nat /\ rows[i].seq <= saves /\ saves \in Nat
    BY DEF IInv, TypeOK, Row, RowsInOrder
  <1>2. S \in SUBSET Nat /\ S # {} /\ saves \in Nat /\ \A n \in S : n <= saves
    BY <1>1
  <1>3. \A i, j \in R : i # j => rows[i].seq # rows[j].seq
    BY DEF RowsInOrder
  <1>4. \E i \in R : \A j \in R \ {i} : Newer(j, i)
    <2>1. PICK m \in S : \A n \in S : m <= n
      BY <1>2, LeastNat
    <2>2. PICK i \in R : m = rows[i].seq
      BY <2>1
    <2>3. ASSUME NEW j \in R \ {i} PROVE rows[j].seq > rows[i].seq
      <3>1. m <= rows[j].seq /\ rows[j].seq # rows[i].seq
        BY <1>3, <2>1
      <3>. QED BY <1>1, <2>2, <3>1
    <2>. QED BY <2>3 DEF Newer
  <1>5. \E i \in R : \A j \in R \ {i} : Newer(i, j)
    <2>1. PICK m \in S : \A n \in S : n <= m
      BY <1>2, GreatestNat
    <2>2. PICK i \in R : m = rows[i].seq
      BY <2>1
    <2>3. \A j \in R \ {i} : rows[i].seq > rows[j].seq
      BY <1>1, <1>3, <2>1, <2>2
    <2>. QED BY <2>3 DEF Newer
  <1>. QED BY <1>4, <1>5

\* get_recent(n): at most n rows, and a row is left out only for n rows that are newer.
RecentAreNewest ==
    \A n \in Nat :
        /\ IsFiniteSet(GetRecent(n)) /\ Cardinality(GetRecent(n)) <= n
        /\ \A i \in GetRecent(n), j \in DOMAIN rows \ GetRecent(n) : Newer(i, j)
        /\ DOMAIN rows # GetRecent(n) => Cardinality(GetRecent(n)) = n

\* get_recent(n) returns the n newest rows, or all there are.
THEOREM StoreRecentAreNewest == Spec => []RecentAreNewest
  <1>1. ASSUME IInv, RowsInOrder PROVE RecentAreNewest
    <2>. SUFFICES ASSUME NEW n \in Nat
                  PROVE  /\ IsFiniteSet(GetRecent(n)) /\ Cardinality(GetRecent(n)) <= n
                         /\ \A i \in GetRecent(n), j \in DOMAIN rows \ GetRecent(n) : Newer(i, j)
                         /\ DOMAIN rows # GetRecent(n) => Cardinality(GetRecent(n)) = n
      BY DEF RecentAreNewest
    <2>. DEFINE After(i) == {j \in DOMAIN rows : Newer(j, i)}
    <2>0. \A i \in DOMAIN rows : IsFiniteSet(After(i)) /\ Cardinality(After(i)) \in Nat
      BY <1>1, FS_Subset, FS_CardinalityType DEF IInv
    <2>1. IsFiniteSet(GetRecent(n)) /\ Cardinality(GetRecent(n)) \in Nat
      <3>1. GetRecent(n) \in SUBSET (DOMAIN rows)
        BY DEF GetRecent
      <3>. QED BY <1>1, <3>1, FS_Subset, FS_CardinalityType DEF IInv
    <2>2. Cardinality(GetRecent(n)) <= n
      <3>1. CASE GetRecent(n) = {}
        BY <3>1, FS_EmptySet
      <3>2. CASE GetRecent(n) # {}
        <4>1. GetRecent(n) \in SUBSET (DOMAIN rows)
          BY DEF GetRecent
        <4>2. PICK o \in GetRecent(n) : \A j \in GetRecent(n) \ {o} : Newer(j, o)
          BY <1>1, <3>2, <4>1, OldestNewest
        <4>3. GetRecent(n) \ {o} \in SUBSET After(o)
          BY <4>1, <4>2
        <4>4. Cardinality(GetRecent(n) \ {o}) <= Cardinality(After(o))
          BY <2>0, <4>1, <4>3, FS_Subset
        <4>5. Cardinality(After(o)) < n
          BY DEF GetRecent
        <4>6. Cardinality(GetRecent(n) \ {o}) = Cardinality(GetRecent(n)) - 1
          BY <2>1, FS_RemoveElement
        <4>7. Cardinality(After(o)) \in Nat
          BY <2>0, <4>1
        <4>. HIDE DEF After
        <4>. QED BY <2>1, <4>4, <4>5, <4>6, <4>7
      <3>. QED BY <3>1, <3>2
    <2>3. ASSUME NEW i \in GetRecent(n), NEW j \in DOMAIN rows, Newer(j, i)
          PROVE  j \in GetRecent(n)
      <3>1. \A k \in DOMAIN rows : rows[k].seq \in Nat
        BY <1>1 DEF IInv, TypeOK, Row
      <3>2. After(j) \in SUBSET After(i) /\ i \in DOMAIN rows
        BY <2>3, <3>1 DEF Newer, GetRecent
      <3>3. Cardinality(After(j)) <= Cardinality(After(i)) /\ Cardinality(After(i)) < n
        BY <2>0, <3>2, FS_Subset DEF GetRecent
      <3>4. Cardinality(After(j)) < n
        BY <2>0, <3>2, <3>3
      <3>. QED BY <3>4 DEF GetRecent
    <2>4. ASSUME NEW i \in GetRecent(n), NEW j \in DOMAIN rows \ GetRecent(n)
          PROVE  Newer(i, j)
      <3>1. /\ rows[i].seq \in Nat /\ rows[j].seq \in Nat /\ rows[i].seq # rows[j].seq
            /\ i \in DOMAIN rows
        BY <1>1 DEF IInv, TypeOK, Row, RowsInOrder, GetRecent
      <3>. QED BY <2>3, <3>1 DEF Newer
    <2>5. ASSUME DOMAIN rows # GetRecent(n) PROVE Cardinality(GetRecent(n)) = n
      <3>. DEFINE Out == DOMAIN rows \ GetRecent(n)
      <3>1. Out # {} /\ Out \in SUBSET (DOMAIN rows)
        BY <2>5 DEF GetRecent
      <3>2. PICK o \in Out : \A j \in Out \ {o} : Newer(o, j)
        BY <1>1, <3>1, OldestNewest
      <3>3. \A k \in DOMAIN rows : rows[k].seq \in Nat
        BY <1>1 DEF IInv, TypeOK, Row
      <3>4. After(o) \in SUBSET GetRecent(n)
        BY <3>2, <3>3 DEF Newer
      <3>5. Cardinality(After(o)) <= Cardinality(GetRecent(n))
        BY <2>1, <3>4, FS_Subset
      <3>6. ~(Cardinality(After(o)) < n) /\ Cardinality(After(o)) \in Nat
        BY <2>0, <3>2 DEF GetRecent
      <3>. HIDE DEF After
      <3>. QED BY <2>1, <2>2, <3>5, <3>6
    <2>. QED BY <2>1, <2>2, <2>4, <2>5
  <1>. QED BY <1>1, StoreInvariant, StoreRowsInOrder, PTL

\* suggest_from_history: the resolved rows of this type among the last n, and the fix of
\* the latest of them.
Resolved(ty, n) ==
    {i \in GetRecent(n) : rows[i].type = ty /\ rows[i].resolved /\ rows[i].fix # NoFix}

SuggestsLatest ==
    \A ty \in Types, n \in Nat :
        /\ SuggestFromHistory(ty, n) = NoFix <=> Resolved(ty, n) = {}
        /\ Resolved(ty, n) # {} =>
               \E i \in Resolved(ty, n) : /\ SuggestFromHistory(ty, n) = rows[i].fix
                                          /\ \A j \in Resolved(ty, n) \ {i} : Newer(i, j)

LEMMA LatestFromOrder == ASSUME IInv, RowsInOrder PROVE SuggestsLatest
  <1>. SUFFICES ASSUME NEW ty \in Types, NEW n \in Nat
                PROVE  /\ SuggestFromHistory(ty, n) = NoFix <=> Resolved(ty, n) = {}
                       /\ Resolved(ty, n) # {} =>
                              \E i \in Resolved(ty, n) :
                                  /\ SuggestFromHistory(ty, n) = rows[i].fix
                                  /\ \A j \in Resolved(ty, n) \ {i} : Newer(i, j)
    BY DEF SuggestsLatest
  <1>1. CASE Resolved(ty, n) = {}
    BY <1>1 DEF SuggestFromHistory, Resolved
  <1>2. CASE Resolved(ty, n) # {}
    <2>. DEFINE R == Resolved(ty, n)
    <2>1. R # {} /\ R \in SUBSET (DOMAIN rows)
      BY <1>2 DEF Resolved, GetRecent
    <2>2. PICK k \in R : \A j \in R \ {k} : Newer(k, j)
      BY <2>1, OldestNewest
    <2>. DEFINE i == CHOOSE i \in R : \A j \in R : ~Newer(j, i)
    <2>3. \A j \in DOMAIN rows : rows[j].seq \in Nat
      BY DEF IInv, TypeOK, Row
    <2>4. i \in R /\ \A j \in R : ~Newer(j, i)
      <3>1. \A j \in R : ~Newer(j, k)
        BY <2>1, <2>2, <2>3 DEF Newer
      <3>. QED BY <3>1
    <2>5. SuggestFromHistory(ty, n) = rows[i].fix
      BY <1>2 DEF SuggestFromHistory, Resolved
    <2>6. \A j \in R \ {i} : Newer(i, j)
      BY <2>1, <2>3, <2>4 DEF Newer, RowsInOrder
    <2>7. rows[i].fix # NoFix
      BY <2>4 DEF Resolved
    <2>. HIDE DEF i
    <2>. QED BY <1>2, <2>4, <2>5, <2>6, <2>7
  <1>. QED BY <1>1, <1>2

\* suggest_from_history returns the fix of the latest resolved row of the type, or none.
THEOREM StoreSuggestsLatest == Spec => []SuggestsLatest
  BY LatestFromOrder, StoreInvariant, StoreRowsInOrder, PTL
=============================================================================
