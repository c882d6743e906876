SPECIFICATION OpenMarketSpec
CONSTANTS
    Streams = {s1}
    NoStream = NoStream
    Buffer = 2
    Numbers = 4
INVARIANTS
    TypeOK
    NoPriceLostOrReordered
PROPERTIES
    ImplementsPriceFeed
    AbandonedStreamEnds
