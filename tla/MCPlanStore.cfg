CONSTANTS
    None = None
    Writers = {v, w}
    Tasks = {s, t}
    Phases = {p, q}
    Reviews = {r}
    Prototypes = {x}
    MaxFaults = 1
SPECIFICATION Spec
SYMMETRY Symmetry
CHECK_DEADLOCK FALSE
INVARIANTS
    GraphKeptByWriters
    DeliveredComplete
    NamedKept
PROPERTY
    DeliveredFrozen
