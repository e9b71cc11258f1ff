------------------------------- MODULE MCFixPR -------------------------------
(***************************************************************************)
(* Three incidents with one id: one note path, and one branch or two.      *)
(***************************************************************************)
EXTENDS FixPR
=============================================================================
