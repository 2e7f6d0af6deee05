CONSTANTS
    Docs = {d1}
    Jobs = {j1, j2}
    Handlers = {w1, w2}
    Requests = {r1}
    Reapers = {p1}
    RetryLimit = 1
    PatchStatuses = {"processing"}
    Faults = {"crash", "outside", "expiry"}
    Edits = {"patch", "resolve"}
    NoDoc = NoDoc
    NoJob = NoJob
SPECIFICATION Spec
INVARIANTS TypeOK AttemptOwnership FailedRowIsGivenUp
    ExhaustedIsReported
    FailedIsVisible
PROPERTIES NeverReapLiveJob ImplementsLifecycle
CHECK_DEADLOCK FALSE
SYMMETRY Symmetry
