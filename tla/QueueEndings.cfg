SPECIFICATION FairSpec
CONSTANTS
    Items = {i1}
    Agents = {a1, a2}
    VoteTypes = {"approve", "reject"}
    RequiredVotes = 2
    LoadedVotes = 1
    Threshold = 66
    Saves = {s1, s2}
    NoSave = NoSave
    Empty = Empty
    Corrupt = Corrupt
    NewStatuses = {"rejected"}
    MaxOverrides = 1
    MaxEscalations = 0
    MaxCancels = 1
    MaxRestarts = 1
INVARIANTS DecisionIsEarned PersistedWhenQuiet
PROPERTIES ItemEnds
CHECK_DEADLOCK FALSE
