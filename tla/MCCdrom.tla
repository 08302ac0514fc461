------------------------------ MODULE MCCdrom ------------------------------
(* Instances of Cdrom for TLC.                                             *)
EXTENDS Cdrom
=============================================================================
