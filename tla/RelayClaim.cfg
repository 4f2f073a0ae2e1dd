SPECIFICATION FairSpec
CONSTANTS
  Floor = 2
  Quiet = 3
  ContestMoves = 3
  MaxAge = 4
  Dwells <- HeaterAndCompressor
INVARIANTS OnlyMovesCount
PROPERTIES DwellKept PutBacksSpaced Settles
