\* Imports and upgrades of one release by two requests; the process may die.
SPECIFICATION FairSpec
CONSTANTS
    r1 = r1  r2 = r2
    t1 = t1  t2 = t2  t3 = t3
    d1 = d1  d2 = d2
    b1 = b1  b2 = b2  b3 = b3  b4 = b4  b5 = b5  old = old  alien = alien
    None = None
    Bytes = {b1, b2, b3, b4, b5, old, alien}
    Alien <- AlienFile
    Sessions = {s1, s2}
    Releases = {r1}
    Tracks = {t1, t2}
    Dests = {d1, d2}
    Order <- OneRelease
    DestOf <- TwoPaths
    Arrives <- TwoArrive
    Prior <- NoPrior
    Kinds = {"import", "upgrade"}
    Faults = {"unlink", "undo", "crash", "cleanup"}
INVARIANTS NoLoss
PROPERTY RequestsEnd
