---------------------------- MODULE MCAtomicFile ----------------------------
(* Instances of AtomicFile for TLC: writers that each have a temporary     *)
(* name of their own, as Apply, ApplyRaw and EnsureConfigFile do, and two  *)
(* requests that run the same function and so share one.                   *)
EXTENDS AtomicFile, TLC

CONSTANTS apply, raw1, raw2, ensure, tmpApply, tmpRaw, tmpEnsure

DistinctTmp == apply :> tmpApply @@ raw1 :> tmpRaw @@ ensure :> tmpEnsure
SharedTmp == raw1 :> tmpRaw @@ raw2 :> tmpRaw

FourInodes == 1 .. 4
=============================================================================
