---------------------------- MODULE MCRelayProc -----------------------------
(* The relay supervisor with two requests at a time.                       *)
EXTENDS RelayProc

CONSTANTS h1, h2
=============================================================================
