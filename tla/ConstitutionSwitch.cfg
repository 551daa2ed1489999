SPECIFICATION Spec
CONSTANTS
    Versions = {v1, v2}
    Initial = v1
    NoVersion = NoVersion
    Clients = {c1, c2}
    MaxExpiries = 0
    MaxFaults = 0
INVARIANTS ActivatesAtomically
