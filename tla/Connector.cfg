\* Start-up, drops, both retry loops, the heartbeat and two uses of the button.
CONSTANTS
  MaxReconnectAttempts = 3
  MaxManual = 2
SPECIFICATION FairSpec
INVARIANTS
  ConnectorTypeOK
  BeatsWhileConnected
  NeverAbandoned
PROPERTIES
  FalseConnectionHeals
CHECK_DEADLOCK FALSE
