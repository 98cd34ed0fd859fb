SPECIFICATION CreditsSpec
CONSTANTS
  welcome = welcome
  again = again
  invite = invite
  chat = chat
  followUp = followUp
  Grants = {welcome}
  Chats = {chat}
  References = {"signup"}
  ReferenceOf <- SignupTwice
  GrantAmount = 4
  Estimate <- EstimateEach
  Costs = {1, 5}
INVARIANTS WithinGrants
CHECK_DEADLOCK FALSE
