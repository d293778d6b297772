SPECIFICATION Spec
CONSTANTS
  Runs = {r1, r2}
  Models = {m1}
  Unknown = Unknown
  Registered = {"openai", "openai_responses", "anthropic"}
  Schemaless = {"openai_responses", "anthropic"}
  Attempts = 3
  MaxMoves = 2
SYMMETRY Symmetry
INVARIANTS CallsBounded RepairBudgetKept RefusalPaidOnce
PROPERTY ReachesServingProtocol
CHECK_DEADLOCK FALSE
