CONSTANTS
    Docs = {d1}
    Jobs = {j1, j2}
    Handlers = {w1}
    Requests = {r1}
    Reapers = {p1}
    RetryLimit = 1
    PatchStatuses = {}
    Faults = {"crash", "outside", "expiry"}
    Edits = {}
    NoDoc = NoDoc
    NoJob = NoJob
SPECIFICATION FairSpec
PROPERTIES Settles
CHECK_DEADLOCK FALSE
