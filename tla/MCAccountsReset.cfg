SPECIFICATION HSpec
CONSTANTS
  r1 = r1
  r2 = r2
  r3 = r3
  r4 = r4
  old = old
  new = new
  weak = weak
  Requests = {r1, r2, r3, r4}
  Scenarios <- OneReset
  Passwords = {old, new, weak}
  Strong = {old, new}
  MayType <- Typing
  MustConfirm = TRUE
INVARIANTS EverySessionGoes
CHECK_DEADLOCK FALSE
