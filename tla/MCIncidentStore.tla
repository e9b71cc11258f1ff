--------------------------- MODULE MCIncidentStore ---------------------------
(***************************************************************************)
(* A table shared by incidents that allocate, save and resolve in every    *)
(* order, over one New Year.                                               *)
(***************************************************************************)
EXTENDS IncidentStore
=============================================================================
