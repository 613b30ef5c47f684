\* Four saves of two contents, every failure, flushes, damage and two crashes.
CONSTANTS
  Contents = {a, b}
  Unwritten = Unwritten
  MaxSaves = 4
  MaxCrashes = 2
SPECIFICATION FairSpec
INVARIANTS
  TypeOK
  AcknowledgedIsOnDisk
  FlushSettlesAll
PROPERTIES
  EverySaveSettles
CHECK_DEADLOCK FALSE
