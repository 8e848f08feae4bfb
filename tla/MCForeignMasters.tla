-------------------------- MODULE MCForeignMasters --------------------------
(* Four masters compete for three slots, so that records are evicted and   *)
(* the indices wrap; two ranks let a master overtake another.              *)
EXTENDS ForeignMasters
=============================================================================
