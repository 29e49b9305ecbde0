-------------------------- MODULE MCMCPConnection --------------------------
(***************************************************************************)
(* MCPConnection for TLC; the bounds are in the configurations.             *)
(***************************************************************************)
EXTENDS MCPConnection
=============================================================================
