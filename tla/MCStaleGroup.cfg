SPECIFICATION Spec
CONSTANTS
    Proc = {p1, p2}
    Node <- MCNode
    TagOrder <- MCTagOrder
    IdOrder <- MCIdOrder
    Name = {"a", "b"}
    Url = {"u", "v"}
    Feed <- MCFeed
    Override <- MCOverride
    Defaults <- MCDefaults
    UserOutbound <- MCUser
    InitFile <- MCInitFile
    InitSub <- MCInitSub
    MaxSubs = 2
    MaxRequests = 3
    MaxFaults = 0
    MaxCrashes = 0
SYMMETRY Symmetry
INVARIANT StaleGroupsAreFound
