SPECIFICATION Spec
CONSTANTS
  Orchestrator = Orchestrator
  Clients = {c1, c2}
  Kinds = {"edit", "back", "order"}
  MaxRequests = 2
  Budget = 1
  Ids = {1, 2}
  Paths = {"api", "web"}
  Repos = {"api"}
  Companies <- AllCompanies
  MaxCommands = 2
  MaxEdits = 1
  MaxRestarts = 1
INVARIANTS NothingUndone SettingsWhole
PROPERTIES RepositoryKept
SYMMETRY Symmetry
CHECK_DEADLOCK FALSE
