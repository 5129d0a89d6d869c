CONSTANTS
  Tasks = {t1, t2}
  Users = {u1, u2}
  Serials = {1, 2}
  Methods <- OnlyPut
  NoUser = NoUser
  NoToken = NoToken
  RefreshExpired = TRUE
  ExclusiveUpdates = FALSE
SPECIFICATION Spec
INVARIANTS Agreement
