SPECIFICATION HSpec
CONSTANTS
  r1 = r1
  r2 = r2
  r3 = r3
  r4 = r4
  old = old
  new = new
  weak = weak
  Requests = {r1, r2, r3, r4}
  Scenarios <- Everyday
  Passwords = {old, new, weak}
  Strong = {old, new}
  MayType <- Typing
  MustConfirm = TRUE
INVARIANTS NothingBeforeConfirmation RewardedIsPaid LinksAreSound OnlyRacersOutliveAReset
PROPERTIES SignedOutStaysOut
VIEW Future
CHECK_DEADLOCK FALSE
