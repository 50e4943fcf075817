CONSTANTS
  alice = alice
  bob = bob
  dave = dave
  s1 = s1
  s2 = s2
  s3 = s3
  Player = {alice, bob, dave}
  NoPlayer = nobody
  Position <- MCPosition
  Start = "p0"
  Move <- MCMove
  Turn <- MCTurn
  Legal <- MCLegal
  InCheck <- MCInCheck
  After <- MCAfter
  Hash <- MCHash
  Initial = 0
  Increment = 0
  Seeker = {s1, s2, s3}
  Asking <- ThreeAsking
  Wants <- ThreeWants
  Guest = {dave}
  Named = {1}
  MaxMatches = 4
  Rank <- MCRank
SPECIFICATION Spec
CHECK_DEADLOCK FALSE
INVARIANTS SeatAsAsked NobodyWaitsInVain OneMatchPerSeeker
PROPERTIES EveryCallAnswered
