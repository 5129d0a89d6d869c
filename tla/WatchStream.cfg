CONSTANTS
  Capacity = 1
  Window = 1
  NoRequest = NoRequest
  WatchIds = {0, 1}
  ChosenIds = {1}
  Starts = {1}
  Unread = 1
  MaxWatches = 2
  MaxCalls = 4
  MaxRevision = 2
SPECIFICATION FairSpec
INVARIANTS TypeOK RequestsInOrder AnswersFindTheirWatch
PROPERTIES ImplementsWatches WatchReturns SendsReturn WatchesAreAnswered
CHECK_DEADLOCK FALSE
