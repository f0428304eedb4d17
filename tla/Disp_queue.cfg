CONSTANTS
  Tickets = {1, 2, 3, 4, 5}
  Projects = {"one", "two"}
  Routes = {"impl", "plan"}
  Choices = {"a", "b"}
  Hosts = {1, 2}
  ProjectOf <- QueueProjects
  Deps <- QueueDeps
  Serial = {"one"}
  MaxConcurrency <- One
  Cap <- CapOne
  Total <- OneSlot
  Pin <- Unpinned
  Override <- NoOverride
  Satisfies <- AnyHost
  Preferences <- Fallback
  ProjectRoutes <- NoTable
  Usable = {"a", "b"}
  Installed <- AllInstalled
  Unreadable = {1}
  FirstRank <- RankByNumber
  Course = {"return_to_backlog", "run_failed", "return_to_review", "approve", "landed", "handed_off"}
  Edits = {"host", "withdraw"}
  FirstRoute <- QueueRoutes
  MaxEdits = 2
  Prompt = TRUE
SPECIFICATION FairSpec
INVARIANTS WithinLimits BuildsOnLanded
PROPERTY Starts
CHECK_DEADLOCK FALSE
