CONSTANTS
    h1 = h1
    h2 = h2
    Hashes = {h1, h2}
    None = None
    MaxChunks = 2
    Texts <- TextsOfTwo
    MaxCommits = 2
    Jobs = {j1, j2}
    Users = {}
    Worker = worker
    RetryLimit = 1
    Faults = {"provider", "outside", "enqueue", "processing", "expiry"}
SPECIFICATION Spec
INVARIANTS TypeOK SettledIsIndexed
CHECK_DEADLOCK FALSE
