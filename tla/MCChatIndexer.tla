---------------------------- MODULE MCChatIndexer ----------------------------
(* A small instance of ChatIndexer for TLC. *)
EXTENDS ChatIndexer
MCPositions == 1..2
=============================================================================
