SPECIFICATION CreditsSpec
CONSTANTS
  welcome = welcome
  again = again
  invite = invite
  chat = chat
  followUp = followUp
  Grants = {invite, welcome, again}
  Chats = {}
  References = {"signup", "invite"}
  ReferenceOf <- InviteAndRest
  GrantAmount = 4
  Estimate <- EstimateEach
  Costs = {1, 5}
INVARIANTS ReferenceHonouredOnce
CHECK_DEADLOCK FALSE
