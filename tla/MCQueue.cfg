SPECIFICATION SpecQueue
CONSTANTS
  p1 = p1
  p2 = p2
  c1 = c1
  c2 = c2
  nullptr = nullptr
  nonfull_ = nonfull_
  nonempty_ = nonempty_
  Threads <- FourThreads
  Producers <- TwoProducers
  Consumers <- TwoConsumers
  CVs <- TwoCVs
  Priority <- SamePriority
  kMaxWaitingThreads = 2
  max_capacity_ = 2
  Values = 2
INVARIANTS
  IInvQueue
  Bounded
  NobodySleepsInVain
PROPERTIES
  ImplementsChannel
  Delivers
