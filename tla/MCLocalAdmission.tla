-------------------------- MODULE MCLocalAdmission --------------------------
(* A small instance of LocalAdmission: four calls, two of each of two       *)
(* users. With MaxGlobal = 2 and MaxPerUser = 1 a slot can be free for one  *)
(* user while a waiter of the other must go on waiting; with three keys two *)
(* calls may carry the same one.                                            *)
EXTENDS LocalAdmission, TLC

CONSTANTS t1, t2, t3, t4, u1, u2

MCUserOf == (t1 :> u1) @@ (t2 :> u1) @@ (t3 :> u2) @@ (t4 :> u2)
=============================================================================
