\* Bytes of eight values, u32 of two bytes, u64 of three.  What has arrived stays.
CONSTANTS
  Base = 8
  Width32 = 2
  Width64 = 3
  Messages <- MCMessages
  Batches <- MCBatches
SPECIFICATION Spec
CHECK_DEADLOCK FALSE
INVARIANTS TypeOK RoundTrip PrefixFree Canonical
