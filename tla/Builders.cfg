CONSTANTS
  ByteMax = 2
  MaxLen = 3
  Lists = {{"a"}, {"b"}}
SPECIFICATION BuilderSpec
INVARIANTS BuilderTypeOK RequestIsWhatWasAsked RevokeMatchesGrant GrantedIsFound TxnKeepsItsLists
CHECK_DEADLOCK FALSE
