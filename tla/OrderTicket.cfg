SPECIFICATION FairSpec
CONSTANTS
    MaxPosts = 2
    Brokers = {oanda}
    Polls = {p1, p2}
    MaxTicks = 2
    NoBroker = NoBroker
    Unmounted = Unmounted
INVARIANTS
    TypeOK
    OneOrderPerTick
    MessageIsTrue
PROPERTIES
    TicketRecovers
    EventuallyFresh
