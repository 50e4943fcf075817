CONSTANTS
  Player = {alice, bob}
  NoPlayer = nobody
  Position <- MCPosition
  Start = "p0"
  Move <- MCMove
  Turn <- MCTurn
  Legal <- MCLegal
  InCheck <- MCInCheck
  After <- MCAfter
  Hash <- MCHash
  Initial = 0
  Increment = 0
  Ms = 1
  MatchID = {1, 2}
  Handler = {h1, h2}
  Main = main
  HookMayFail = TRUE
  MaxBusy = 2
  MaxMoves = 1
  MaxRequests = 3
  MaxRestarts = 1
SPECIFICATION Spec
CHECK_DEADLOCK FALSE
SYMMETRY MCSymmetry
INVARIANTS AckedSurvives StoreIsPast 
