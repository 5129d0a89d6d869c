CONSTANTS
  c1 = c1
  c2 = c2
  Clients = {c1, c2}
  NoLease = NoLease
  Nobody = Nobody
  MaxRevision = 3
  MaxLate = 1
SPECIFICATION FairSpec
INVARIANTS TypeOK
PROPERTIES UpdatesOnlyByHolder TicketsNameTheirHold RetryJoinsOwnLock
CHECK_DEADLOCK FALSE
