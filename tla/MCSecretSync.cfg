CONSTANTS
    n1 = n1
    n2 = n2
    p1 = p1
    p2 = p2
    m1 = m1
    m2 = m2
    o1 = o1
    o2 = o2
    k1 = k1
    k2 = k2
    t1 = t1
    t2 = t2
    None = None
    Node = {n1, n2}
    Pod = {p1, p2}
    NodeOf <- TwoNodes
    StatusName = {m1, m2}
    NameOf <- TwoNames
    Object = {o1}
    Content = {{o1}}
    Key = {t1}
    Secret = {k1, k2}
    Class <- SkipInvalid
    BackoffSteps = 2
    Disturbance = {"api", "restart", "deleteSecret", "stripRefs", "editData"}
SPECIFICATION FairSpec
CHECK_DEADLOCK FALSE
INVARIANTS
    TypeOK
    NoStatusForgotten
    OwnersAreReal
PROPERTIES
    PatchKeepsOtherOwners
    DataIsNeverOverwritten
    SecretsGetOwned
