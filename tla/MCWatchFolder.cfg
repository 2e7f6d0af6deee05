CONSTANTS
    Profiles = {p1}
    None = None
    Paths = {f1, f2}
    Contents = {c1, c2}
    MaxWrites = 2
    MaxPrints = 1
    MaxSums = 1
    MaxAttempts = 2
    MaxMishaps = 1
    Many = 2
    Faults = {"read", "net", "answer", "reject", "write"}
SPECIFICATION FairSpec
INVARIANTS TypeOK SkippedIsFiled OneDocumentPerContent
PROPERTIES FileSettles
