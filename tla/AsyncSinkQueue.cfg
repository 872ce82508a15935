SPECIFICATION FairSpec
CONSTANTS
    Producers = {p1, p2}
    p1 = p1
    p2 = p2
    ConfiguredBuffer = 0
    ConfiguredPolicies <- PolicyTexts
    DefaultQueueSize = 2
    MaxOffers = 2
INVARIANTS
    TypeOK
    Fifo
    OfferOrder
    MetricsAccount
PROPERTIES
    ParkedSenderReturns
    ImplementsContract
    ImplementsFairContract
