SPECIFICATION LiveSpec
CONSTANTS
  u1 = u1
  Users = {u1, u2, u3}
  Slots = 2
  MaxTokens = 4
  MaxArrivals = 3
  Holders = {u1}
  Changes = {"password", "deactivate", "activate", "demote"}
  FirstAdmins = {u1, u2}
  FirstUsers = {}
  SignedIn <- FirstSessions
  NoUser = NoUser
  NoToken = NoToken
INVARIANTS
  TypeOK
PROPERTIES
  SignOutIsComplete
  ImplementsLifecycle
  LastAdminOnlyByRace EveryRequestAnswered
CHECK_DEADLOCK FALSE
