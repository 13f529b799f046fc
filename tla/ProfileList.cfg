CONSTANTS
  Profiles  <- MCProfiles
  Masters   <- MCMasters
  Existing  <- MCExisting
  Changing  <- MCChanging
  Times     <- MCTimes
  PageSizes <- MCPageSizes
  Writes    = 2
  Failures  = TRUE
SPECIFICATION Spec
INVARIANTS TypeOK VisitsEvery
PROPERTIES VisitsOnce TurningReturns
CHECK_DEADLOCK FALSE
