CONSTANTS
  Tickets = {t1}
  Slots = 1
  Budget = 1
  MaxCrashes = 1
  MaxFaults = 0
  MaxMishaps = 0
  MaxOpenRows = 2
  EditedIn = {}
SPECIFICATION Spec
INVARIANT SoleAgent
CHECK_DEADLOCK FALSE
