------------------------------ MODULE MCSandbox ------------------------------
(***************************************************************************)
(* Sandbox with two calls, those of two incidents.                         *)
(***************************************************************************)
EXTENDS Sandbox

CONSTANTS c1, c2

MCCalls == {c1, c2}
=============================================================================
