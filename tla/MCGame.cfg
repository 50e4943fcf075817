CONSTANTS
  Board <- MCBoard
  Move <- MCMove
  Turn <- MCTurn
  Legal <- MCLegal
  Zeroing <- MCZeroing
  InCheck <- MCInCheck
  Insufficient <- MCInsufficient
  After <- MCAfter
  FiftyMoves = 5
  SeventyFiveMoves = 7
  Threefold = 3
  Fivefold = 4
  Start <- MCStart
  MaxMoves = 9
SPECIFICATION Spec
INVARIANTS LineFollowsRules PGNReadsBack
PROPERTIES KeepsTimeline
