CONSTANTS
  ByteMax = 2
  MaxLen = 2
  Prefix <- CarryingPrefix
  UserKeys <- NamespacedKeys
  OutsideKeys <- KeysBeside
  GetBy = {"one", "range", "prefix"}
  TxnBy = {"one", "range", "prefix", "from_key", "all_keys"}
  NestedBy = {"one", "prefix"}
SPECIFICATION Spec
INVARIANTS TypeOK
PROPERTIES OutsideUntouched ImplementsKvStore
