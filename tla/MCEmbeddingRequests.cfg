CONSTANTS
    h1 = h1
    h2 = h2
    Hashes = {h1, h2}
    None = None
    MaxChunks = 2
    Texts <- TextsOfTwo
    MaxCommits = 1
    Jobs = {j1, j2}
    Users = {u1}
    Worker = worker
    RetryLimit = 1
    Faults = {"provider", "outside", "enqueue", "processing", "expiry"}
SPECIFICATION FairSpec
INVARIANTS PendingHasJob
PROPERTIES PendingEnds
CHECK_DEADLOCK FALSE
