CONSTANTS
    t1 = t1
    t2 = t2
    h1 = h1
    h2 = h2
    o1 = o1
    o2 = o2
    Target = {t1, t2}
    Handler = {h1}
    Object = {o1}
    Request <- VolumeInvalid
    FaultKind = {"timeout", "crash"}
    CommandLine <- OneMistake
SPECIFICATION DriverSpec
CHECK_DEADLOCK FALSE
INVARIANTS
    
    ServesComplete
    SocketIsServed
    CallsHaveServer
PROPERTIES
    DriverComesBack
    PublishRecovers
    TeardownEnds
