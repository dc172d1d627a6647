SPECIFICATION DiskSpec
CONSTANTS
  TRACKS = 2
  SECTORS_PER_TRACK = 2
  SECTOR_SIZE = 2
  Images <- TwoImages
  Accs = {0, 3, 8, 9}
  Pages <- OnePage
CONSTRAINT WithinBound
INVARIANTS DiskTypeOK
PROPERTIES ImageKept ImplementsStore
