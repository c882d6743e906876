SPECIFICATION FairSpec
CONSTANTS
    Requests = {r1, r2}
    Tokens = {t1, t2, t3, t4}
    NoToken = NoToken
INVARIANTS
    TypeOK
    PresentedTokenRecoverable
PROPERTIES
    SavesOnlyLiveTokens
    RequestsFinish
