SPECIFICATION FairSpec
CONSTANTS
    Versions = {v1, v2}
    Initial = v1
    NoVersion = NoVersion
    Clients = {c1, c2}
    MaxExpiries = 1
    MaxFaults = 1
INVARIANTS TypeOK HoldersAreBounded OneIsActive
PROPERTIES LockIsFreed
