--------------------------- MODULE MCXrayInstall ---------------------------
(* Model values for checking XrayInstall with TLC.                         *)
EXTENDS XrayInstall

CONSTANTS r1, r2, r3, t1, t2, v1, v2, v3

(* Two versions were installed; the later of them or, after a rollback, the *)
(* earlier one is live.                                                    *)
Two == {<<v2, v1>>}

=============================================================================
