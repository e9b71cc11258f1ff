--------------------------- MODULE MCInvestigation ---------------------------
(***************************************************************************)
(* Investigation of one pod: memory below, at and next to the boundaries   *)
(* of _recommend_mib; error rates of none, one in a hundred, one in twenty *)
(* and more; a pool that is free, one that is full and one that only       *)
(* looks so when its size is not known.                                    *)
(***************************************************************************)
EXTENDS Investigation

MCUsages == {0, 160, 161, 512}

MCServices ==
    {[s \in {} |-> 0], [s \in {"5xx"} |-> 3]}
    \cup {[s \in {"2xx", "5xx"} |-> IF s = "2xx" THEN 20 - e ELSE e] : e \in {0, 1, 2}}

MCDatabases ==
    {[used |-> 10, max |-> 100, lagging |-> TRUE], [used |-> 81, max |-> 100, lagging |-> FALSE],
     [used |-> 90, max |-> 200, lagging |-> FALSE]}
=============================================================================
