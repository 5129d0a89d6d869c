CONSTANTS
  Endpoints = {e1, e2}
  Requests = {r1, r2}
  Initial = 1
  Max = 3
  Horizon = 4
  NoEndpoint = NoEndpoint
SPECIFICATION FairSpec
INVARIANTS TypeOK Ladder BackOffWithinOutage
PROPERTIES OutageClimbsLadder RecoveredEndpointReturns
