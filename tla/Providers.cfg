SPECIFICATION ProvidersSpec
CONSTANTS
    p1 = p1
    p2 = p2
    q1 = q1
    q2 = q2
    Provider = {p1, p2}
    NoProvider = NoProvider
    RefOf <- OwnRef
    Capable = {p1, p2}
    Override = NoProvider
    Priority <- Priorities
    Request = {q1, q2}
    Operations = {"delete", "reload", "select", "health", "blocked", "store_fails", "load_fails", "start_fails", "no_adapter", "create", "report"}
    Secrets = {k1, NoSecret}
    NoSecret = NoSecret
    Production = FALSE
    k1 = k1
    MaxCrashes = 1
INVARIANTS
    ProvidersInv
    RegisteredRoutable
    StoredKeyUsed
    SelectionPrefers
SYMMETRY Requests
