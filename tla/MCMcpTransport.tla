----------------------------- MODULE MCMcpTransport -----------------------------
(***************************************************************************)
(* Two tool calls and a discovery, from three threads, on a server that    *)
(* may die more often than it is restarted and prints one line unasked.    *)
(***************************************************************************)
EXTENDS McpTransport

CONSTANTS call1, call2, list
=============================================================================
