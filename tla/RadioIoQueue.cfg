SPECIFICATION FairSpec
CONSTANTS
  ptt = ptt
  freq = freq
  reader1 = reader1
  reader2 = reader2
  poller = poller
  getFrequency = getFrequency
  pollMeters = pollMeters
  NoId = NoId
  NoTask = NoTask
  Caller <- MCCaller
  Critical <- MCCritical
  LowPriority <- MCLowPriority
  Ids <- MCIds
  Id <- MCId
  Options <- MCOptions
  MaxSession = 1
INVARIANTS
  TypeOK
  NoLostWakeup
  Bookkeeping
PROPERTIES
  SessionSound
  FifoPerClass
  ImplementsCalls
  Served
