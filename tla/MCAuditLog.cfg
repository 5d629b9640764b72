CONSTANTS
    NULL = NULL
    p1 = p1
    p2 = p2
    none = none
    Postamats = {p1, p2, none}
    Watched = {p1}
    CatchUpLimit = 2
    MaxEntries = 5
    Nobody = none
    Wanted = {p1, none}
    Limit = 2
    ExportBatch = 1
    ExportMax = 3
    Sides = {"stream", "pages", "export"}
SPECIFICATION AuditSpec
INVARIANTS
    InOrderOnce
    NoGap
    PagesAreWhole
    ExportIsWhole
