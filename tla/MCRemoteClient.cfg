CONSTANTS
  alice = alice
  bob = bob
  carol = carol
  Player = {alice, bob}
  NoPlayer = nobody
  Position <- MCPosition
  Start = "p0"
  Move <- MCMove
  Turn <- MCTurn
  Legal <- MCLegal
  InCheck <- MCInCheck
  After <- MCAfter
  Hash <- MCHash
  Initial = 0
  Increment = 0
  Side <- TwoSides
  Lossy = TRUE
  MaxLate = 2
  MaxMoves = 4
SPECIFICATION Spec
CHECK_DEADLOCK FALSE
INVARIANT ViewIsPast
PROPERTY NoMoveOnStaleBoard
