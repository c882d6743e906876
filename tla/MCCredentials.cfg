SPECIFICATION CredentialsSpec
CONSTANTS
    Keys = {k1, k2}
    Imports = {i1, i2}
    EnvBrokers = {"alpaca", "questrade"}
    NoRow = NoRow
SYMMETRY Interchangeable
INVARIANTS
    CredentialsTypeOK
    ReportedImportsHappened
PROPERTY
    ImportOverwritesOnlyRacingSaves
