\* A list client and a log client; one change, one deletion, one process.
SPECIFICATION FairSpec
CONSTANTS
  Writers = {w, d}
  Deleter = d
  Viewers = {v}
  Readers = {r}
  Buffers = {b1, b2}
  NoBuffer = none
  Capacity = 2
  MaxVersion = 2
  MaxPieces = 3
INVARIANTS TypeOK NoChangeMissed NoLineMissed LogIsTail
PROPERTIES ViewersConverge ReadersConverge

