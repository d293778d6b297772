SPECIFICATION Spec
CONSTANTS
  Admins = {a1, a2}
  Updates <- SomeUpdates
  Urls = {"u1", "u2", "bad"}
  BadUrls = {"bad"}
  Keys = {"k1", "k2"}
  Worlds <- AllWorlds
  None = None
  Blank = Blank
  Callers = {c1, c2}
  Wants <- SomeWants
  Shelves <- SomeShelves
  Capacity = 1
  Window = 2
  CatalogTTL = 2
  CatalogTimeout = 1
  MaxTime = 3
INVARIANTS UnnamedFieldsKept KeyFlagTruthful SelectionAdvertised LimiterKeepsItsWord
CHECK_DEADLOCK FALSE
