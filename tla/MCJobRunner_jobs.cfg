\* Three jobs of two requests over the shared write lock; the process may die.
SPECIFICATION FairSpec
CONSTANTS
    j1 = j1  j2 = j2  j3 = j3
    c1 = c1  c2 = c2
    m1 = m1  m2 = m2  v1 = v1  v2 = v2  n1 = n1
    None = None
    Jobs = {j1, j2, j3}
    Media = {m1, m2, v1, v2, n1}
    Catalog = {c1, c2}
    Batches <- TwoBatches
    Asks <- ThreeAsks
    Enabled <- PeersThenVideos
    Offers <- Answers
    Faults = {"flush", "cancel", "crash", "lost"}
INVARIANTS TypeOK VerdictFits ServedInTurn FetchedIsRecorded
PROPERTIES OneVerdict JobsEnd
