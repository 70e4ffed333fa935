SPECIFICATION Spec
CONSTANTS
  r1 = r1  r2 = r2  t1 = t1  l1 = l1  l2 = l2  c1 = c1
  NoTask = NoTask  NoTrack = NoTrack
  Releases <- MCReleases
  Tracks <- MCTracks
  ReleaseOf <- MCReleaseOf
  Loops <- MCLoops
  Callers <- MCCallers
  Evidences <- MCEvidences
  Offers <- MCOffers
  Unknown <- MCUnknown
  Profile <- MCProfile
  Faults <- MCFaults
  MaxCandidates = 2
SYMMETRY Symmetry
INVARIANTS TypeOK ChecksDoNotOverlap BarredOnlyByAFlush LoopsAreCancellable 
PROPERTIES UpgradesClimb ReviewStands
CHECK_DEADLOCK FALSE
