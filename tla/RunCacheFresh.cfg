SPECIFICATION cacheSpec
CONSTANTS
    Runs = {r1, r2}
    r1 = r1
    r2 = r2
    Readers = {p, q}
    p = p
    q = q
    Writers = {w}
    w = w
    Capacity = 1
    MaxVersion = 2
INVARIANT NextGetReadsFresh
