SPECIFICATION Spec
CONSTANTS
    Agents = {a1, a2}
    Callers = {c1, c2}
    Decisions = {"APPROVE", "DENY"}
    Weight <- UnitWeight
    Strategy = "QUORUM"
    Required = NoRequirement
    NoRequirement = NoRequirement
    NoElection = NoElection
    NoBallot = NoBallot
    MaxActive = 2
    MaxBallots = 3
    MaxEvents = 1
    MaxFaults = 1
SYMMETRY TaskSymmetry
INVARIANTS TypeOK ResultIsJustified
PROPERTIES KeepsBallot AnswersAgree
CHECK_DEADLOCK FALSE
