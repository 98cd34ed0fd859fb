SPECIFICATION CSpec
CONSTANTS
  Calls = {1, 2}
  BeatActive = 1
  BeatQueued = 1
  WarnFrom = 3
  IdleAfter = 4
  Grace = 3
  Delay = 0
  MaxFaults = 1
INVARIANTS SignedOutStaysOut
PROPERTIES SteadyTabKeepsSeat TheLineMovesOn
CHECK_DEADLOCK FALSE
