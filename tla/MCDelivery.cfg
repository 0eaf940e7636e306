SPECIFICATION FairSpec
CONSTANTS
    r1 = r1
    r2 = r2
    v1 = v1
    v2 = v2
    Runs = {r1, r2}
    Versions = {v1, v2}
    VersionOf <- MCVersionOf
    Objects = {o1, o2}
    Deletable = {r1}
    None = None
    MaxFaults = 1
INVARIANT DeliveryIsHonest
PROPERTY SpokeFollows
CHECK_DEADLOCK FALSE
