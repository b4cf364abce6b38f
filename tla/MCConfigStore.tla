--------------------------- MODULE MCConfigStore ---------------------------
(* Instances of ConfigStore for TLC.                                       *)
EXTENDS ConfigStore, TLC

CONSTANTS u1, u2, s1, a1, a2, k1, d1, e1, x1, t1, t2, j1, j2

(* Port 1 is fixed, 2 the one bandwidth port, and an admin may ask for     *)
(* both of them, or for the free port 3, for a SOCKS inbound.              *)
Fixed == {1}
Bandwidth == {2}
Asked == {1, 2, 3}

(* The jobs are interchangeable.                                           *)
JobSymmetry == Permutations(Jobs)

First ==
  [users |-> [u \in Users |-> IF u = u1 THEN [on |-> TRUE, limit |-> "ok", port |-> 0] ELSE None],
   socks |-> [s \in Socks |-> None],
   admins |-> {a1},
   tokens |-> {k1},
   domains |-> {},
   endpoints |-> [e \in Endpoints |-> "absent"],
   relay |-> [sites |-> {}, listen |-> "good"],
   via |-> t1]

=============================================================================
