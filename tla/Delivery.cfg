\* Safety with acknowledgements, failed writes and a restart, on one push channel.
CONSTANTS
  MaxAttempts = 2
  MaxActive = 2
  MaxTerminal = 1
  MaxPersisted = 1
  PushChannels = {feishu}
  PollChannels = {}
  HostKeys = {h1, h2}
  PollKeys = {}
  InboundKeys = {n1}
  MaxId = 3
  MaxAcks = 1
  MaxRestarts = 1
  MaxRebinds = 1
  NotSaving = NotSaving
SPECIFICATION Spec
INVARIANTS
  TypeOK
  OneDrainPerChannel
  NeverDoubleSent
PROPERTIES
  ShedsOnlyTheOldest
CHECK_DEADLOCK FALSE
