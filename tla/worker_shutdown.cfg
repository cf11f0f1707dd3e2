SPECIFICATION FairSpec
CONSTANTS
    w1 = w1
    w2 = w2
    p = p
    q = q
    r = r
    c = c
    d = d
    e = e
    Workers = {w1, w2}
    Pages = {p, q}
    Contents = {c, d, e}
    Hashes <- Fingerprints
    ContentOf <- Copied
    SimHashOf <- Chain
    Near <- NextToEachOther
    Bodiless = {e}
    Linking = {p}
    Rendered = {q}
    MaxFaults = 1
INVARIANTS
    HashedIsFindable
    CompletedIsFindable
PROPERTIES
    StoppingWorkerStops
CHECK_DEADLOCK FALSE
