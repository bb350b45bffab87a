CONSTANTS
    t1 = t1
    t2 = t2
    h1 = h1
    h2 = h2
    o1 = o1
    o2 = o2
    Target = {t1}
    Handler = {h1, h2}
    Object = {o1, o2}
    Request <- OneVolume
    FaultKind = {"timeout", "crash", "unmount"}
SPECIFICATION FairSpec
CHECK_DEADLOCK FALSE
INVARIANTS
    PublishedIsWhole
    FailedIsAllOrNothing
    SecretsOffDisk
    RemovedIsClean
    LayersAreBounded
PROPERTIES
    KeepsContract
    PublishRecovers
    TeardownEnds
