SPECIFICATION Spec
CONSTANTS
    w1 = w1
    w2 = w2
    p = p
    q = q
    r = r
    c = c
    d = d
    e = e
    Workers = {w1, w2}
    Pages = {p, q, r}
    Contents = {c, d, e}
    Hashes <- Fingerprints
    ContentOf <- Different
    SimHashOf <- Chain
    Near <- NextToEachOther
    Bodiless = {e}
    Linking = {p}
    Rendered = {q}
    MaxFaults = 1
INVARIANTS
    TypeOK
    HashedIsFindable
    CompletedIsFindable
    VettedAreDissimilar
    IndexedIsArchived
    StoresAreReady
SYMMETRY Alike
CHECK_DEADLOCK FALSE
