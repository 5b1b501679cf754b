---------------------------- MODULE MCMcpBreaker ----------------------------
(* A small instance of McpBreaker for TLC.                                 *)
EXTENDS McpBreaker

CONSTANTS c1, c2, c3, c4, c5
=============================================================================
