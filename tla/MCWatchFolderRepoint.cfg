CONSTANTS
    Profiles = {p1}
    None = None
    Paths = {f1}
    Contents = {c1}
    MaxWrites = 1
    MaxPrints = 1
    MaxSums = 1
    MaxAttempts = 2
    MaxMishaps = 1
    Many = 2
    Faults = {"elsewhere"}
SPECIFICATION Spec
INVARIANTS CheckpointsApply
