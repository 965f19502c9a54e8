SPECIFICATION FairSpec
CONSTANTS
  u1 = u1
  u2 = u2
  w1 = w1
  w2 = w2
  b1 = b1
  b2 = b2
  b3 = b3
  b4 = b4
  Null = Null
  Users = {u1, u2}
  Workers = {w1, w2}
  LongWrites <- MCLongWrites
  Actors = {u1, u2, w1, w2}
  Blocks = {b1, b2, b3, b4}
  BLK_SIZE = 2
  INITIAL_IMPLICIT_PRODUCER_HASH_SIZE = 2
  hash_thread_id <- MCHash
  Setups <- MCSetups
  MAX_OVERCOMMIT = 2
INVARIANTS BlocksOnce InFlightBounded OneProducer Asserts EnqueueSucceeds TypeOK
PROPERTIES ImplementsQueue AllServed
