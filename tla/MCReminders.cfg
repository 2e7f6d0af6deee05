CONSTANTS
    Docs = {d1}
    LastDay = 2
    UpcomingDays = 1
    Scans = {s1}
    Digests = {g1}
    Relays = {r1, r2}
    Ops = {"reopen"}
    Faults = {"crash", "smtp", "claim", "page"}
    MaxFaults = 2
    None = None
SPECIFICATION Spec
INVARIANTS
    TypeOK
    DeadlinesArmed
    ExtraMailsAreFaults
    LostClaimsAreFaults
    ShownAtMostOnce
    RemindersCleared
SYMMETRY Symmetry
CHECK_DEADLOCK FALSE
