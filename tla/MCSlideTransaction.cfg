CONSTANTS
    Absent = Absent
    LegacyID = legacy
    Writers = {v, w}
    RequestIDs = {p, q}
    OtherIDs = {x}
    Sidecars = {a, b}
    Contents = {{a}, {a, b}}
    MaxSlideRevisions = 3
    MaxRequests = 3
    MaxMishaps = 1
    MaxOutages = 1
SPECIFICATION Spec
SYMMETRY Symmetry
CHECK_DEADLOCK FALSE
INVARIANTS
    RecordWhole
    ConfirmedKept
PROPERTIES
    ReplacesWhatWasRead
