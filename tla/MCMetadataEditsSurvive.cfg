CONSTANTS
    Fields = {title, corr, ref}
    Title = title
    Correspondent = corr
    TextFields = {ref}
    BulkFields = {}
    Values = {v1, v2}
    Null = Null
    Editors = {e1}
    Handlers = {h1}
    Aliasers = {}
    Edits = {"set"}
    Free = Free
SPECIFICATION Spec
PROPERTIES EditsSurvive
SYMMETRY Symmetry
