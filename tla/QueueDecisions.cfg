SPECIFICATION Spec
CONSTANTS
    Items = {i1, i2}
    Agents = {a1}
    VoteTypes = {"approve"}
    RequiredVotes = 1
    LoadedVotes = 1
    Threshold = 66
    Saves = {s1, s2}
    NoSave = NoSave
    Empty = Empty
    Corrupt = Corrupt
    NewStatuses = {"rejected"}
    MaxOverrides = 0
    MaxEscalations = 1
    MaxCancels = 1
    MaxRestarts = 0
SYMMETRY QueueSymmetry
INVARIANTS TypeOK StatsAddUp
PROPERTIES DecisionStands
CHECK_DEADLOCK FALSE
