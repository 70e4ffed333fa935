SPECIFICATION Spec
CONSTANTS
  a = a  b = b  c = c  d = d
  Pool <- MCPool
  Of <- MCOf
  Known <- MCKnown
  Listings <- MCListings
  Detail = 3
  PerPage = 2
  BatchSize = 1
  MaxRows = 2
  ReadableAtFirst <- MCReadable
  MountedLate <- MCMounted
  MaxFailures = 1
INVARIANTS TypeOK WalkMissesNothing CountsAgree 
PROPERTIES FilesGetRead
CHECK_DEADLOCK FALSE
