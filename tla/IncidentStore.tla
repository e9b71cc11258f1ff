---------------------------- MODULE IncidentStore ----------------------------
(***************************************************************************)
(* session/incident_store.py and session/pattern_matcher.py: the SQLite    *)
(* table of incidents.  An incident allocates its id from a row count, and *)
(* writes its row only later, after the investigation; between the two any *)
(* other incident may allocate, save or resolve.                           *)
(*                                                                         *)
(* An id INC-YYYY-NNN is the pair <<YYYY, NNN>>.  created_at is kept as    *)
(* the calendar year (the part next_incident_id reads) and the save's      *)
(* ordinal (the part get_recent orders by).                                *)
(***************************************************************************)
EXTENDS Naturals, FiniteSets

CONSTANTS FirstYear,    \* the calendar year when the table is created
          LastYear,     \* bound: the calendar stops turning here
          MaxSaves,     \* bound: how often save_incident is called
          Contents,     \* what a save can say of an incident (its RCA and results)
          Types,        \* incident types
          Fixes,        \* non-empty proposed_fix texts
          NoFix         \* the empty text in column fix_applied

ASSUME StoreAssumption ==
    /\ FirstYear \in Nat /\ LastYear \in Nat /\ MaxSaves \in Nat
    /\ NoFix \notin Fixes

VARIABLES rows,         \* the table: id -> row
          year,         \* the calendar year of datetime.now
          saves,        \* how many times save_incident has run
          issued        \* ids next_incident_id has returned so far

vars == <<rows, year, saves, issued>>

Decisions == {"APPROVED", "REJECTED", "ESCALATED"}
NotDecided == ""

Ids == Nat \X (Nat \ {0})
IdYear(i) == i[1]
IdNumber(i) == i[2]

Row == [year : Nat, seq : Nat, type : Types, content : Contents,
        fix : Fixes \cup {NoFix}, decision : Decisions \cup {NotDecided},
        resolved : BOOLEAN]

TypeOK ==
    /\ DOMAIN rows \subseteq Ids
    /\ \A i \in DOMAIN rows : rows[i] \in Row
    /\ year \in Nat
    /\ saves \in Nat
    /\ issued \subseteq Ids

Init ==
    /\ rows = [i \in {} |-> NoFix]
    /\ year = FirstYear
    /\ saves = 0
    /\ issued = {}
-----------------------------------------------------------------------------
\* Variant: only the incidents still waiting for a decision are counted.
PendingIn(y) == {i \in DOMAIN rows : rows[i].year = y /\ rows[i].decision = NotDecided}

CreatedIn(y) == {i \in DOMAIN rows : rows[i].year = y}

\* Variant: the row count itself.
NextIncidentIdFromZero == <<year, Cardinality(CreatedIn(year))>>

NextIncidentId == <<year, Cardinality(CreatedIn(year)) + 1>>

Allocate ==
    /\ issued' = issued \cup {NextIncidentId}
    /\ UNCHANGED <<rows, year, saves>>

\* A row's decision, resolved flag and applied fix, as mark_resolved writes them.
Outcome(row) == [fix |-> row.fix, decision |-> row.decision, resolved |-> row.resolved]
NoOutcome == [fix |-> NoFix, decision |-> NotDecided, resolved |-> FALSE]

\* Variant: no SELECT before the INSERT.
NoPriorOutcome(i) == NoOutcome

\* What the SELECT before the INSERT finds and the new row keeps.
PriorOutcome(i) == IF i \in DOMAIN rows THEN Outcome(rows[i]) ELSE NoOutcome

\* INSERT OR REPLACE: the whole row is written anew, created_at included.
SaveIncident(i, ty, c) ==
    LET row == [year |-> year, seq |-> saves, type |-> ty, content |-> c,
                fix |-> PriorOutcome(i).fix, decision |-> PriorOutcome(i).decision,
                resolved |-> PriorOutcome(i).resolved]
    IN  /\ rows' = [j \in DOMAIN rows \cup {i} |-> IF j = i THEN row ELSE rows[j]]
        /\ saves' = saves + 1
        /\ UNCHANGED <<year, issued>>

\* Variant: no WHERE clause.
MarkEveryRow(i, f, d, r) ==
    /\ rows' = [j \in DOMAIN rows |->
                  [rows[j] EXCEPT !.fix = f, !.decision = d, !.resolved = r]]
    /\ UNCHANGED <<year, saves, issued>>

\* UPDATE ... WHERE id = i: no row, no effect.
MarkResolved(i, f, d, r) ==
    /\ rows' = [j \in DOMAIN rows |->
                  IF j = i THEN [rows[j] EXCEPT !.fix = f, !.decision = d, !.resolved = r]
                           ELSE rows[j]]
    /\ UNCHANGED <<year, saves, issued>>

NewYear ==
    /\ year < LastYear
    /\ year' = year + 1
    /\ UNCHANGED <<rows, saves, issued>>

SaveAny ==
    /\ saves < MaxSaves
    /\ \E i \in issued, ty \in Types, c \in Contents : SaveIncident(i, ty, c)

MarkAny ==
    \E i \in issued, f \in Fixes \cup {NoFix}, d \in Decisions, r \in BOOLEAN :
        MarkResolved(i, f, d, r)

Next == Allocate \/ SaveAny \/ MarkAny \/ NewYear

Spec == Init /\ [][Next]_vars
-----------------------------------------------------------------------------
\* get_recent and suggest_from_history.  Rows are saved one at a time, so seq orders
\* them as created_at does.
Newer(i, j) == rows[i].seq > rows[j].seq

GetRecent(n) == {i \in DOMAIN rows : Cardinality({j \in DOMAIN rows : Newer(j, i)}) < n}

\* The recorded fix of the latest resolved incident of this type among the last n.
SuggestFromHistory(ty, n) ==
    LET resolved == {i \in GetRecent(n) : /\ rows[i].type = ty
                                          /\ rows[i].resolved
                                          /\ rows[i].fix # NoFix}
    IN  IF resolved = {} THEN NoFix
        ELSE rows[CHOOSE i \in resolved : \A j \in resolved : ~Newer(j, i)].fix
-----------------------------------------------------------------------------
(***************************************************************************)
(* Properties.                                                             *)
(***************************************************************************)

\* next_incident_id never returns the id of a row that is already in the table, whatever
\* was saved, re-saved or resolved since, and across New Year.  (Two incidents that are
\* both between allocation and save can still be given the same id.)
IdsFresh == NextIncidentId \notin DOMAIN rows

\* Whatever incidents in flight still hold, no id handed out this year is above the next
\* one: the row count never runs backwards, which is what makes it usable as an id.
NumbersBounded ==
    \A i \in issued : IdYear(i) = year => IdNumber(i) <= IdNumber(NextIncidentId)

\* save_incident "preserves any prior decision / resolved state": replacing a row (its
\* created_at moves) never changes the outcome recorded in it, and no row disappears.
SaveKeepsOutcome ==
    [][\A i \in DOMAIN rows :
         /\ i \in DOMAIN rows'
         /\ rows'[i].seq # rows[i].seq => Outcome(rows'[i]) = Outcome(rows[i])]_vars
=============================================================================
