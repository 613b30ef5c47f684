\* One lost connection, or one restart, between two turns of a thread.
CONSTANTS
  Threads = {t1}
  NoCard = NoCard
  Labels = {a, b}
  NoLabel = NoLabel
  NoWatch = NoWatch
  MaxPerTurn = 2
  MaxTurns = 2
  MaxIncidents = 1
SPECIFICATION Spec
INVARIANTS
  NoReplySwallowed
CHECK_DEADLOCK FALSE
