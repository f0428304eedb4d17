CONSTANTS
  Tickets = {t1, t2}
  Slots = 1
  Budget = 0
  MaxCrashes = 0
  MaxFaults = 0
  MaxMishaps = 1
  MaxOpenRows = 1
  EditedIn = {"ready"}
SPECIFICATION Spec
SYMMETRY Symmetry
INVARIANTS SlotsMatch OnlyWriter NothingStranded QueueExact
CHECK_DEADLOCK FALSE
