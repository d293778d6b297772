SPECIFICATION Spec
CONSTANTS
  Threads = {t1, t2}
  Activations = {x1}
  Deletions = {d1}
  MaxTurns = 3
  Stores = {"memory", "sqlite", "postgres"}
  Root = Root
  Nobody = Nobody
SYMMETRY Symmetry
INVARIANTS BranchesComplete RolesAlternate NoOrphans VersionsNumbered PromptIsBranch
CHECK_DEADLOCK FALSE
