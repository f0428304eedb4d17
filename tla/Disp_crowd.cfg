CONSTANTS
  Tickets = {1, 2, 3, 4}
  Projects = {"one", "two"}
  Routes = {"impl", "plan"}
  Choices = {"a", "b"}
  Hosts = {1, 2}
  ProjectOf <- TwoProjects
  Deps <- NoDeps
  Serial = {}
  MaxConcurrency <- TwoAndOne
  Cap <- CapOne
  Total <- TwoSlots
  Pin <- FirstPinned
  Override <- OverrideLast
  Satisfies <- Picky
  Preferences <- Fallback
  ProjectRoutes <- OwnTable
  Usable = {"a", "b"}
  Installed <- OnlyA
  Unreadable = {}
  FirstRank <- RankByNumber
  Course = {"run_failed", "requeue", "reject"}
  Edits = {"host", "cool", "project", "order", "route"}
  FirstRoute <- Alternate
  MaxEdits = 1
  Prompt = TRUE
SPECIFICATION Spec
INVARIANTS WellPlaced
CHECK_DEADLOCK FALSE
