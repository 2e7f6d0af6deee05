CONSTANTS
    Docs = {d1, d2, d3}
    Files = {f1, f2, f3}
    Contents = {k1}
    Requests = {r1, r2, r3}
    Ops = {"upload", "delete"}
    Faults = {"put", "delete", "statement"}
    None = None
SPECIFICATION Spec
INVARIANTS
    TypeOK
    OneRowPerContent
    NothingLeftBehind
PROPERTIES
    ImplementsPrivateOriginals
SYMMETRY Symmetry
CHECK_DEADLOCK FALSE
