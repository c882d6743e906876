SPECIFICATION Spec
CONSTANTS
    Requests = {r1}
    Tokens = {t1, t2, t3, t4}
    NoToken = NoToken
PROPERTY
    ReconnectRestoresAccess
