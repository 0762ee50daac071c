------------------------------ MODULE MCMcpConn ------------------------------
(* The instance of McpConn that TLC checks; the constants are in the .cfg. *)
EXTENDS McpConn
=============================================================================
