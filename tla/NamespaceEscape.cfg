CONSTANTS
  ByteMax = 2
  MaxLen = 2
  Prefix <- OneBytePrefix
  UserKeys <- NamespacedKeys
  OutsideKeys <- KeysAround
  GetBy = {"one", "range", "prefix", "from_key", "all_keys"}
  TxnBy = {"one", "range", "prefix", "from_key", "all_keys"}
  NestedBy = {"one", "prefix"}
SPECIFICATION Spec
PROPERTIES OutsideUntouched
