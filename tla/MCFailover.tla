----------------------------- MODULE MCFailover -----------------------------
(* The failover manager on two tunnels.                          *)
EXTENDS Failover

CONSTANTS t1, t2

TwoTunnels == <<t1, t2>>
=============================================================================
