\* Liveness and the per-reply contract on a push channel driven by Codex events
\* and a channel that polls, with answers to messages, an acknowledgement and a driver taken or given back.
\* On the polled channel one key stands for both kinds of reply: they fare alike there.
CONSTANTS
  MaxAttempts = 3
  MaxActive = 1
  MaxTerminal = 1
  MaxPersisted = 1
  PushChannels = {feishu}
  PollChannels = {wechat}
  HostKeys = {h1}
  PollKeys = {n1}
  InboundKeys = {n1}
  MaxId = 2
  MaxAcks = 1
  MaxRestarts = 0
  MaxRebinds = 1
  NotSaving = NotSaving
SPECIFICATION FairSpec
PROPERTIES
  
  KeepsContract
CHECK_DEADLOCK FALSE
