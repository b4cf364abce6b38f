------------------------------- MODULE MCUsage -------------------------------
(* The usage accounting of one user, whose days have two hours.            *)
EXTENDS Usage

CONSTANTS u1, loop, click, reset, roller, editor, enforcer

Daily == {"daily"}
Weekly == {"daily", "weekly"}
Lengths == [p \in Periods |-> IF p = "daily" THEN 2 ELSE 3]
SecondHour == [u \in Users |-> 1]
NoCaps == [p \in Periods |-> 0]
DailyCap == [p \in Periods |-> IF p = "daily" THEN 1 ELSE 0]
DailyCap2 == [p \in Periods |-> IF p = "daily" THEN 2 ELSE 0]
=============================================================================
