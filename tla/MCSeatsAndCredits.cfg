SPECIFICATION MCSpec
CONSTANTS
  Users = {a, b, c}
  Capacity = 1
  SessionMs = 4
  IdleMs = 1
  GraceMs = 2
  LockWaitMs = 1
  MaxTime = 1000
  MaxSeq = 1000
  welcome = welcome
  again = again
  invite = invite
  chat = chat
  followUp = followUp
  Grants = {welcome, again}
  Chats = {chat, followUp}
  References = {"signup"}
  ReferenceOf <- SignupTwice
  GrantAmount = 4
  Estimate <- EstimateEach
  Costs = {1, 5}
INVARIANTS CapacityRespected NoSeatLeftEmpty LineIsOrdered SeatedAreEntitled HourIsNeverExtended
  BalanceIsTheLedger NeverOverdrawn ReferenceHonouredOnce HoldsAreHonoured
PROPERTIES PlaceNeverWorsens FirstComeFirstSeated ImplementsSeatService EveryCallEnds
CHECK_DEADLOCK FALSE
VIEW Shown
