\* Two creations and deletions with every failure, the ones that are compensated apart,
\* while a client lists the table.
SPECIFICATION ListingSpec
CONSTANTS
  Ids = {1, 2}
  Hosts = {h1, h2}
  FirstPort = 1
  LastPort = 2
  NoRow = NoRow
  FaultSets = {{"call", "db", "gone"}, {"call", "token", "undo", "db", "crash"}}
  Times = {1, 2}
  PageSizes = {1}
  Pages = {0}
  Cursors = {NoCursor, BadCursor}
  Filters = {{h1, h2}}
  NoCursor = NoCursor
  BadCursor = BadCursor
\* Each id is created once; afterwards there is nothing left to do.
CHECK_DEADLOCK FALSE
SYMMETRY HostSymmetry
INVARIANTS ListingTypeOK RowIsComplete  ListsEveryone
