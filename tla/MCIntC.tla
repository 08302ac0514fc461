------------------------------ MODULE MCIntC ------------------------------
(* Instances of IntC for TLC.                                              *)
EXTENDS IntC
=============================================================================
