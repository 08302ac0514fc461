--------------------------- MODULE MCPsxEventsHLE ---------------------------
(* PsxEventsHLE with the SPU and exception events and one device that is   *)
(* given two different delays.                                             *)
EXTENDS PsxEventsHLE

CONSTANT Cdrom

MCTimes == SPU :> {} @@ Exception :> {0} @@ Cdrom :> {1, 4}

=============================================================================
