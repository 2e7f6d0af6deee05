CONSTANTS
    Tabs = {t1, t2}
    Requests = {r1, r2}
    None = None
    MaxSessions = 3
    MaxLogins = 2
    MaxExpired = 1
SPECIFICATION Spec
INVARIANTS TypeOK OneSessionPerLogin ReplayEndsFamily TokenWorks
SYMMETRY Symmetry
