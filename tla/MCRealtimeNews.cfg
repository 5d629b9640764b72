CONSTANTS
    NULL = NULL
    Postamats = {p1, p2}
    Watched = {p1}
    CatchUpLimit = 2
    MaxEntries = 2
SPECIFICATION FairSpec
PROPERTY NewsArrive
