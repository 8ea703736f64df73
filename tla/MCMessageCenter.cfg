SPECIFICATION Spec
CONSTANTS
    PlainTopics <- MCPlainTopics
    KeyedUse <- TwoKeys
    TopicUse <- EitherPhase
    QueueLen = 3
    LatestCapacity = 2
    DispatchBudget = 1
    CounterModulus = 16
    MaxPublish = 2
INVARIANTS
    Conservation
    NewestKept
    RingHoldsNewest
    ControlAfterState
PROPERTIES
    SlotsKeepTheirOwner
    ImplementsBus
