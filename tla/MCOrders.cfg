SPECIFICATION FairSpec
CONSTANTS
    Requests = {r1, r2}
    Users = {u1}
    NoUser = NoUser
    Brokers <- AllBrokers
INVARIANTS
    TypeOK
    LedgerMatchesBroker
    AcceptedOrdersAccountedFor
    ResponsesAreTruthful
    GateIsNeverFooled
PROPERTY
    HandlersFinish
    ImplementsOrderBook
