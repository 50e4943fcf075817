CONSTANTS
  alice = alice
  c1 = c1
  c2 = c2
  c3 = c3
  PlayerID = {alice}
  Anonymous = Anonymous
  Conn = {c1, c2, c3}
  PlayerOf <- Again
  MaxFrames <- Frames
SPECIFICATION SocketSpec
CHECK_DEADLOCK FALSE
INVARIANT RepliesInOrder
PROPERTY NoGhostSession
