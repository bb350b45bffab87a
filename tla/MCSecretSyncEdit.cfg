CONSTANTS
    n1 = n1
    n2 = n2
    p1 = p1
    p2 = p2
    m1 = m1
    m2 = m2
    o1 = o1
    o2 = o2
    k1 = k1
    k2 = k2
    t1 = t1
    t2 = t2
    None = None
    Node = {n1}
    Pod = {p1}
    NodeOf <- OnePodNode
    StatusName = {m1}
    NameOf <- OnePodName
    Object = {o1}
    Content = {{o1}}
    Key = {t1}
    Secret = {k1}
    Class <- OneSecret
    BackoffSteps = 1
    Disturbance = {"editData"}
SPECIFICATION FairSpec
CHECK_DEADLOCK FALSE
PROPERTIES
    EditedDataIsRestored
