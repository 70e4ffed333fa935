\* Imports of two releases that share a path, by two concurrent requests; the process may die.
SPECIFICATION Spec
CONSTANTS
    r1 = r1  r2 = r2
    t1 = t1  t2 = t2  t3 = t3
    d1 = d1  d2 = d2
    b1 = b1  b2 = b2  b3 = b3  b4 = b4  b5 = b5  old = old  alien = alien
    None = None
    Bytes = {b1, b2, b3, b4, b5, old, alien}
    Alien <- AlienFile
    Sessions = {s1, s2}
    Releases = {r1, r2}
    Tracks = {t1, t2, t3}
    Dests = {d1, d2}
    Order <- TwoReleases
    DestOf <- OneTemplate
    Arrives <- ThreeArrive
    Prior <- NoPrior
    Kinds = {"import"}
    Faults = {"tag", "fsync", "commit", "undo", "crash"}
SYMMETRY Symmetry
INVARIANTS ImportedMatchesLibrary
