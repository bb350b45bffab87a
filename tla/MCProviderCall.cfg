CONSTANTS
    azure = azure
    vault = vault
    Provider = {azure, vault}
    Entry <- Entries
    MaxEntries = 2
    GrpcFlag = {{}, {vault}}
    Binary <- Binaries
    o1 = o1
    o2 = o2
    Object = {o1, o2}
    p1 = p1
    p2 = p2
    m1 = m1
    Pod = {p1, p2}
    StatusName = {m1}
    NameOf <- OneName
SPECIFICATION Spec
INVARIANTS
    TypeOK
    OnlyCheckedProvidersRun
    FlagsAreObeyedOrRefused
PROPERTIES
    StatusRecordsReport
