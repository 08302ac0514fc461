---------------------------- MODULE MCPsxEvents ----------------------------
(* PsxEvents with the SPU and exception events and two devices, one of     *)
(* them given two different delays.                                        *)
EXTENDS PsxEvents

CONSTANTS Cdrom, SIO

MCTimes == SPU :> {} @@ Exception :> {0} @@ Cdrom :> {1, 3} @@ SIO :> {2}

=============================================================================
