\* Two partitions, three messages, overlapping flushes, one rewind, one failing write.
SPECIFICATION FairSpec
CONSTANTS
  p1 = p1
  p2 = p2
  c1 = c1
  c2 = c2
  t1 = t1
  eachMessage = eachMessage
  Partition <- TwoPartitions
  Comment <- TwoComments
  Tick <- OneTick
  Consumer <- eachMessage
  MaxBatchSize = 1
  MaxLog = 2
  MaxMessages = 3
  MaxRewinds = 1
  MaxDbErrors = 1
INVARIANTS
  TypeOK
  FlushIsExclusive
  NothingForgotten
  DuplicatesOnlyFromRewinds
  CommittedIsSettled
PROPERTIES
  EventuallySettled
  ImplementsAckedConsumer
CHECK_DEADLOCK FALSE
