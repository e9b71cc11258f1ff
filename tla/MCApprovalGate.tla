--------------------------- MODULE MCApprovalGate ---------------------------
(***************************************************************************)
(* Two requests, under one id or under two, and a few posts.               *)
(***************************************************************************)
EXTENDS ApprovalGate

CONSTANTS t1, t2, i1, i2

MCTasks == {t1, t2}
MCIds == {i1, i2}
=============================================================================
