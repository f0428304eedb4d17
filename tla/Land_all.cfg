CONSTANTS
  Tickets = {t1, t2}
  Upstream = {u1}
  Repositories <- RemoteOrAshore
  Approvals = {"push", "local", "hand_off"}
  OneAtATime = TRUE
  MaxDeaths = 1
SPECIFICATION Spec
INVARIANTS LandsItselfOnce DoneIsMergedElseKept CheckoutGivenBack
PROPERTIES GateHonoured
SYMMETRY Symmetry
CHECK_DEADLOCK FALSE
