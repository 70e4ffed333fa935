\* Imports and upgrades of two releases that share a path, with errors but no death.
SPECIFICATION Spec
CONSTANTS
    r1 = r1  r2 = r2
    t1 = t1  t2 = t2  t3 = t3
    d1 = d1  d2 = d2
    b1 = b1  b2 = b2  b3 = b3  b4 = b4  b5 = b5  old = old  alien = alien
    None = None
    Bytes = {b1, b2, b3, b4, b5, old, alien}
    Alien <- AlienFile
    Sessions = {s1}
    Releases = {r1, r2}
    Tracks = {t1, t2, t3}
    Dests = {d1, d2}
    Order <- TwoReleases
    DestOf <- OneTemplate
    Arrives <- ThreeArrive
    Prior <- OldFile
    Kinds = {"import", "upgrade"}
    Faults = {"tag", "link", "unlink", "rename", "record", "flush", "commit", "restage"}
INVARIANTS NoLitter
PROPERTY ImportIsAtomic
