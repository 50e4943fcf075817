CONSTANTS
  Player = {alice, bob, carol}
  NoPlayer = nobody
  Position <- MCPosition
  Start = "p0"
  Move <- MCMove
  Turn <- MCTurn
  Legal <- MCLegal
  InCheck <- MCInCheck
  After <- MCAfter
  Hash <- MCHash
  MatchID = {m1, m2}
  ThisMatch = m1
  Initial = 2
  Increment = 1
  MaxMoves = 3
  MaxNow = 4
SPECIFICATION Spec
SYMMETRY MCSymmetry
CHECK_DEADLOCK FALSE
INVARIANTS SeatsExclusive ClockIsExact DrawIsAgreed
PROPERTIES NoMoveAfterFlag KeepsContract
