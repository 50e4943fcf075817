CONSTANTS
  Player = {alice, bob}
  NoPlayer = nobody
  Position <- MCPosition
  Start = "p0"
  Move <- MCMove
  Turn <- MCTurn
  Legal <- MCLegal
  InCheck <- MCInCheck
  After <- MCAfter
  Hash <- MCHash
  MatchID = {m1}
  ThisMatch = m1
  Initial = 2
  Increment = 2
  MaxMoves = 2
  MaxNow = 4
  Ms = 2
  MaxRestarts = 2
SPECIFICATION DurableSpec
SYMMETRY MCSymmetry
CHECK_DEADLOCK FALSE
INVARIANTS ClockSurvivesRestart FlagSurvivesRestart RestoredIsSound StoreRefusesOnlyBonus
