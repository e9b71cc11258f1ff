--------------------------- MODULE MCOrchestrator ---------------------------
(***************************************************************************)
(* Two alerts, in flight together or one after the other, in one year or   *)
(* across two, and one answer.                                             *)
(***************************************************************************)
EXTENDS Orchestrator

\* The ids of two incidents one after the other; two in flight together share the first.
MCPostIds == {<<FirstYear, 1>>, <<FirstYear, 2>>}
=============================================================================
