CONSTANTS
    a = a
    b = b
    c = c
    p = p
    q = q
    r = r
    before = before
    after = after
    Nobody = Nobody
    Calls = {a, b, c}
    Stores = {p, q, r}
    Keys = {before, after}
    Settings <- TwoClients
    KeyOf <- TwoKeys
    Keep = 1
    MaxMishaps = 1
SPECIFICATION FairCacheSpec
CHECK_DEADLOCK FALSE
INVARIANTS
    GenerationsBounded
PROPERTIES
    PublishedWhole
    CallsEnd
