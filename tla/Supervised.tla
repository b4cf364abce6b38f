----------------------------- MODULE Supervised -----------------------------
(***************************************************************************)
(* What a supervisor is to make of one of its child processes, as the      *)
(* operating system sees it: a child is spawned only when the one before   *)
(* has exited, the signals sent to it only get stronger, and a supervisor  *)
(* that is done spawns none and leaves none that was not sent SIGKILL.     *)
(***************************************************************************)
CONSTANT Child   \* the processes spawned over a behaviour

VARIABLES
  running,  \* the children that run, each with the strongest signal it was sent
  done      \* the supervisor has returned

SupInit == running = {} /\ done = FALSE

Spawn(n) ==
  /\ ~done
  /\ running = {}
  /\ running' = {<<n, "none">>}
  /\ UNCHANGED done

Stronger == {<<"none", "term">>, <<"none", "kill">>, <<"term", "kill">>}

Signal(n) ==
  \E s \in Stronger :
    /\ running = {<<n, s[1]>>}
    /\ running' = {<<n, s[2]>>}
    /\ UNCHANGED done

\* On its own or by a signal.
Exit == running' = {} /\ UNCHANGED done

Return ==
  /\ running \subseteq Child \X {"kill"}
  /\ done' = TRUE
  /\ UNCHANGED running

SupNext == (\E n \in Child : Spawn(n) \/ Signal(n)) \/ Exit \/ Return

SupSpec == SupInit /\ [][SupNext]_<<running, done>>
=============================================================================
