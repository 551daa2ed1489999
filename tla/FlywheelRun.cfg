SPECIFICATION Spec
CONSTANTS
    Tasks = {t1, t2}
    Steps = {0, 1}
    NoRun = NoRun
    MaxOps = 4
SYMMETRY TaskSymmetry
INVARIANTS TypeOK FoundByState IndexAgrees CheckpointHasDataset
PROPERTIES VersionsAscend KeepsLifecycle
CHECK_DEADLOCK FALSE
