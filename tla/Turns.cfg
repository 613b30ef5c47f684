\* One thread on any kind of channel: turns that end in every way, a lost
\* connection, a restart and a thread that moves to another channel.
CONSTANTS
  Threads = {t1}
  NoCard = NoCard
  Labels = {a, b}
  NoLabel = NoLabel
  NoWatch = NoWatch
  MaxPerTurn = 2
  MaxTurns = 2
  MaxIncidents = 1
SPECIFICATION Spec
INVARIANTS
  TypeOK
  WatchedWhileRunning
  SwallowsNothingWhileUp
  FilesOnceIfTimely
PROPERTIES
  NoUpdateAfterFinal
CHECK_DEADLOCK FALSE
