CONSTANTS
  Player = {alice, bob}
  NoPlayer = nobody
  Position <- MCPosition
  Start = "p0"
  Move <- MCMove
  Turn <- MCTurn
  Legal <- MCLegal
  InCheck <- MCInCheck
  After <- MCAfter
  Hash <- MCHash
  Initial = 0
  Increment = 0
  Ms = 1
  MatchID = {1}
  Handler = {h1, h2}
  Main = main
  HookMayFail = FALSE
  MaxBusy = 2
  MaxMoves = 1
  MaxRequests = 2
  MaxRestarts = 0
SPECIFICATION Spec
SYMMETRY MCSymmetry
INVARIANT QuietMeansStored
