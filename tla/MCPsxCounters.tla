--------------------------- MODULE MCPsxCounters ---------------------------
(* Counts of two bits; the system clock (two counts to a cycle) and its    *)
(* eighth (four cycles to a count); words that wrap after 32 cycles.       *)
EXTENDS PsxCounters

MCMode(on) ==
  [b \in {"Stop", "Reset", "Tar", "IRQTARGET", "IRQOVF", "Repeat"} |-> b \in on]

MCModes ==
  {MCMode({}), MCMode({"Stop"}),
   MCMode({"IRQTARGET", "Tar", "Repeat"}), MCMode({"IRQTARGET", "Tar", "Reset"}),
   MCMode({"IRQTARGET", "IRQOVF", "Tar", "Repeat"}), MCMode({"IRQOVF", "Repeat"}),
   MCMode({"IRQTARGET", "Repeat"})}
=============================================================================
