SPECIFICATION FairSpec
CONSTANTS
    None = None
    c1 = c1
    c2 = c2
    l1 = l1
    l2 = l2
    Connections = {c1, c2}
    Locators = {l1, l2}
    Values = {"a", "b"}
    Clients = {t1, t2}
    Workers = {k1, k2}
    Installations <- MCInstallations
INVARIANTS
    SecretsAreKept
    InterimIsOver
PROPERTIES
    MigrationSettles
