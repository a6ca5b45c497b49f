----------------------------- MODULE MCMcpClient -----------------------------
(* A small instance of McpClient for TLC. *)
EXTENDS McpClient
CONSTANTS d1, d2
MCUses == [c \in Callers |-> IF c \in Listers THEN {d1} ELSE {d1, d2}]
=============================================================================
