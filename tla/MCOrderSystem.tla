--------------------------- MODULE MCOrderSystem ---------------------------
(***************************************************************************)
(* OrderSystem with finite constants.  The configurations choose how many  *)
(* processes there are and which faults they meet; the catalogues and the  *)
(* sessions are named here.                                                *)
(***************************************************************************)
EXTENDS OrderInvariants, TLC

(* One user on one tab; one user on two tabs; two users on a tab each. *)
OneTab == [t \in Tabs |-> "alice"]
TabPerUser == [t \in Tabs |-> IF t = "t1" THEN "alice" ELSE "bob"]

(* Workers are alike: no property and no fairness of the run tells them    *)
(* apart.                                                                   *)
AnyWorker == Permutations(Workers)

(* 10.495 dong, which the two roundings take up to 11, and its variants.   *)
Listed == [price |-> 10495, stock |-> 2, status |-> "active"]
Asked == {-1, 2}
NoEdits == {}
Reprice == {[price |-> 20004, stock |-> -1, status |-> ""],
            [price |-> 0, stock |-> 0, status |-> "active"]}
=============================================================================
