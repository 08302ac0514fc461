----------------------------- MODULE MCPsxDma -----------------------------
(* Instances of Console for TLC.                                           *)
EXTENDS Console
=============================================================================
