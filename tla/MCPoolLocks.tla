----------------------------- MODULE MCPoolLocks -----------------------------
(* Every connection is of the first client; the other one only shares the     *)
(* lock with it.                                                             *)
EXTENDS PoolLocks

SharedOwner == [k \in Conns |-> "c1"]
==============================================================================
