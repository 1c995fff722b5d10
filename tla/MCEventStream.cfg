\* A reconnecting client that starts after event 1 and a one-shot client.
SPECIFICATION FairSpec
CONSTANTS
  c1 = c1
  c2 = c2
  Writers = {w1, w2}
  Reconnecting = {c1}
  OneShot = {c2}
  From <- FromSecond
  MaxEvents = 3
  MaxBreaks = 2
INVARIANTS
  TypeOK
  SequenceIsCommitOrder
PROPERTIES
  ImplementsFeed
  EventsArrive
  SnapshotArrives
CHECK_DEADLOCK FALSE
