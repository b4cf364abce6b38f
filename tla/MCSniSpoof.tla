----------------------------- MODULE MCSniSpoof -----------------------------
(* The SNI-spoof supervisor with one or two requests at a time.            *)
EXTENDS SniSpoof

CONSTANTS h1, h2, m1, m2
=============================================================================
