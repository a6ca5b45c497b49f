---------------------------- MODULE MCApprovals ----------------------------
(* A small instance of Approvals for TLC. *)
EXTENDS Approvals, TLC
=============================================================================
