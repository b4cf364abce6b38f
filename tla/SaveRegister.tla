---------------------------- MODULE SaveRegister ----------------------------
(***************************************************************************)
(* What saving a file by way of a temporary one is meant to be: the file   *)
(* holds one of the values somebody saved, a save takes effect at one      *)
(* moment or not at all, and nothing else changes the file.                *)
(***************************************************************************)
CONSTANTS Writers, Values, None

VARIABLES
  value,    \* the content of the file, None before the first save
  pending   \* the value each writer is saving, None when it is not

RegInit ==
  /\ value = None
  /\ pending = [w \in Writers |-> None]

Begin(w, v) ==
  /\ pending[w] = None
  /\ pending' = [pending EXCEPT ![w] = v]
  /\ UNCHANGED value

Commit(w) ==
  /\ pending[w] # None
  /\ value' = pending[w]
  /\ pending' = [pending EXCEPT ![w] = None]

Abort(w) ==
  /\ pending[w] # None
  /\ pending' = [pending EXCEPT ![w] = None]
  /\ UNCHANGED value

\* The daemon dies: no save that has not taken effect ever will.
Die ==
  /\ pending' = [w \in Writers |-> None]
  /\ UNCHANGED value

RegNext ==
  \/ \E w \in Writers, v \in Values : Begin(w, v)
  \/ \E w \in Writers : Commit(w) \/ Abort(w)
  \/ Die

RegSpec == RegInit /\ [][RegNext]_<<value, pending>>
=============================================================================
