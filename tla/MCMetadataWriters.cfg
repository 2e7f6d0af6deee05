CONSTANTS
    Fields = {title, corr, type}
    Title = title
    Correspondent = corr
    TextFields = {}
    BulkFields = {type}
    Values = {v1}
    Null = Null
    Editors = {e1, e2}
    Handlers = {h1}
    Aliasers = {a1}
    Edits = {"set", "unlock", "title", "bulk"}
    Free = Free
SPECIFICATION Spec
INVARIANTS TypeOK LocksAreHuman LocksRecordEdits LockedIsShown
PROPERTIES EditsLostOnlyToStaleWrites
SYMMETRY Symmetry
