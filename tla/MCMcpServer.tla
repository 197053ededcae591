----------------------------- MODULE MCMcpServer -----------------------------
(***************************************************************************)
(* McpServer for two operations and two calls.  One operation can ask for  *)
(* approval and then for a sign-in, or for two sign-ins; the other asks    *)
(* nothing.                                                                *)
(***************************************************************************)
EXTENDS McpServer, TLC

CONSTANTS o1, o2, c1, c2
MCMaxAsks == (o1 :> 2) @@ (o2 :> 0)
=============================================================================
