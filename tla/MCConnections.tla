---------------------------- MODULE MCConnections ----------------------------
(***************************************************************************)
(* Connections with two clients of either server.                          *)
(***************************************************************************)
EXTENDS Connections
=============================================================================
