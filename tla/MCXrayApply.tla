---------------------------- MODULE MCXrayApply -----------------------------
(* The apply path for TLC.  Callers are interchangeable, and so are the    *)
(* configs, as long as xray accepts all of them.                           *)
EXTENDS XrayApply, TLC

Symmetry == {p @@ q : p \in Permutations(Callers), q \in Permutations(Configs)}
=============================================================================
