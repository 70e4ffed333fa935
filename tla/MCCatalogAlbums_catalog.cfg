SPECIFICATION Spec
CONSTANTS
  t1 = t1  t2 = t2
  Providers <- MCProviders
  Discographies <- MCDiscographies
  ArtistIds <- MCArtistIds
  Singles = {"y"}
  Tasks <- MCTasks
  FirstAlbums <- MCFirstAlbums
  FirstArtists <- MCFirstArtists
  AutoDownload = TRUE
  MaxSessions = 3
  MaxAlbums = 4
  MaxJobs = 3
SYMMETRY Symmetry
INVARIANTS TypeOK MergedIsTidy JobsHaveAlbums
  
CHECK_DEADLOCK FALSE
