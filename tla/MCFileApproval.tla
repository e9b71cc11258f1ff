--------------------------- MODULE MCFileApproval ---------------------------
(***************************************************************************)
(* Two requests, under one id or two, and files that are written twice.    *)
(***************************************************************************)
EXTENDS FileApproval
=============================================================================
