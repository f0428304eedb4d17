CONSTANTS
  Tickets = {t1}
  Slots = 1
  Budget = 1
  MaxCrashes = 2
  MaxFaults = 1
  MaxMishaps = 1
  MaxOpenRows = 1
  EditedIn = {"ready", "review"}
SPECIFICATION FaultSpec
INVARIANTS TypeOK Recovered
CHECK_DEADLOCK FALSE
PROPERTIES CustodyKept WorkSettles
