SPECIFICATION TabsSpec
CONSTANTS
    r1 = r1
    r2 = r2
    t1 = t1
    t2 = t2
    b = b
    Requests = {r1, r2}
    Browsers = {b}
    JarOf <- OneJar
    Tabs = {t1, t2}
    BrowserOf <- OneBrowser
    TabOf <- OneTabEach
    Emails = {e1, e2}
    Tokens = {k1, k2}
    Nothing = Nothing
    SessionTTL = 1
    MaxTime = 1
SYMMETRY Interchangeable
INVARIANTS
    TabsTypeOK
    EmailRegisteredOnce
    SessionsAreAccountedFor
    ShownUserActs
PROPERTY
    EndedSessionsStayEnded
