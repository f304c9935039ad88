---------------------------- MODULE MCCliExchange ----------------------------
(* CliExchange for TLC: one client, the wait of the code (leisure 5, plus    *)
(* one second), a peer that may answer anything.                             *)
EXTENDS CliExchange
=============================================================================
