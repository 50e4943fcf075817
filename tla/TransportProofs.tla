-------------------------- MODULE TransportProofs --------------------------
(***************************************************************************)
(* Proofs about the two ways over the network.                             *)
(*                                                                         *)
(* RemoteClient: for every game, any number of clients and any loss and    *)
(* delay of requests and answers, what a client shows has been the state   *)
(* of the match, and no move is made on a board its player does not see.   *)
(*                                                                         *)
(* WebSocket: for any players, any connections over time and any number of *)
(* frames on each, the replies of a connection are in order.               *)
(***************************************************************************)
EXTENDS RemoteClient, WebSocket, MatchOpsProofs

\* The position of a match after its first n moves.
AtMove(m, n) == Replay(Start, SubSeq(m.moves, 1, n))

-----------------------------------------------------------------------------
(* The inductive invariant.                                                *)

\* The match is untimed, its line is the game on the board, and everybody has
\* the seat he joined for.
InOrder(m) ==
    /\ m \in MatchRecord
    /\ m.running = FALSE
    /\ LineOK(m)
    /\ \A p \in Player : \A c \in Color : Side[p] = c => m.players[c] = p

Snapshots ==
    [sequence : Nat, position : Position, turn : Color \cup {NoSide},
     result : Result \cup {NoResult}]

\* A snapshot was taken of this match, some moves ago, or is the zero one.
TakenFrom(s, m) ==
    /\ s \in Snapshots
    /\ s.sequence <= Len(m.moves)
    /\ s.position = AtMove(m, s.sequence)
    /\ s.turn \in {NoSide, Turn[s.position]}
    /\ s.result = NoResult => s.turn = NoSide
    /\ s.result \in Result \ {"*"} => s.result = m.result /\ s.sequence = Len(m.moves)

ViewOK(p) ==
    /\ TakenFrom(snapshot[p], match)
    /\ \E n \in 0 .. Len(match.moves) : board[p] = AtMove(match, n)
    /\ snapshot[p].result # NoResult => board[p] = snapshot[p].position

\* A player has seen the position after n moves, or a later one.
Seen(p, n) ==
    /\ \E k \in n .. Len(match.moves) : board[p] = AtMove(match, k)
    /\ snapshot[p].result # NoResult => n <= snapshot[p].sequence

\* A move on its way was made for a position in which it was its player's
\* turn and which he has seen.
MoveOK(r) ==
    /\ r.player \in Player
    /\ r.move \in Move
    /\ r.sequence \in 0 .. Len(match.moves)
    /\ Turn[AtMove(match, r.sequence)] = Side[r.player]
    /\ Seen(r.player, r.sequence)

RequestOK(r) ==
    /\ r.kind = "move" => MoveOK(r)
    /\ r.kind \in {"draw", "resign"} => r.player \in Player

LateOK == \A r \in late : r.kind \in {"move", "draw", "resign"} /\ RequestOK(r)

\* An answer is a snapshot that none of its player's late moves is ahead of.
AnswerOK(p, a) ==
    /\ TakenFrom(a, match)
    /\ a.result # NoResult
    /\ \A r \in late : r.kind = "move" /\ r.player = p => r.sequence <= a.sequence

\* What a client has asked for, and what it was answered.
WaitOK(p, w) ==
    /\ w.at \in {"sent", "answered"} =>
         /\ RequestOK(w.request)
         /\ w.request.kind \in {"move", "draw", "resign"} => w.request.player = p
         /\ w.request.kind = "follow" => AnswerOK(p, w.request.accepted)
    /\ w.at = "answered" => AnswerOK(p, w.answer)

Functions == DOMAIN snapshot = Player /\ DOMAIN board = Player /\ DOMAIN client = Player

IInv ==
    /\ InOrder(match)
    /\ Functions
    /\ \A p \in Player : ViewOK(p) /\ WaitOK(p, client[p])
    /\ LateOK

-----------------------------------------------------------------------------
(* The match.                                                              *)

\* A match has gone on from another: the line has only grown, and not at all
\* once there was an outcome.
Extends(m, f) ==
    /\ Len(m.moves) <= Len(f.moves)
    /\ \A n \in 0 .. Len(m.moves) : AtMove(f, n) = AtMove(m, n)
    /\ m.result # "*" => f.result = m.result /\ Len(f.moves) = Len(m.moves)

\* A line in order ends in the position on the board.
LEMMA AtTheEnd ==
    ASSUME NEW m, InOrder(m)
    PROVE  /\ Len(m.moves) \in Nat /\ m.sequence = Len(m.moves)
           /\ AtMove(m, Len(m.moves)) = m.position
<1>1. m.moves \in Seq(Move)
  BY DEF InOrder, MatchRecord
<1>2. SubSeq(m.moves, 1, Len(m.moves)) = m.moves
  BY <1>1, SubSeqFull
<1>3. Len(m.moves) \in Nat
  BY <1>1
<1>4. QED BY <1>2, <1>3 DEF InOrder, LineOK, AtMove

\* A match in order has an untouched clock: settling it changes nothing.
LEMMA NoClock == ASSUME NEW m, InOrder(m) PROVE SyncClock(m, 0) = m
BY DEF InOrder, SyncClock, Thinking, Live

\* A legal move in an undecided match.
LEMMA CommitExtends ==
    ASSUME NEW m, InOrder(m), NEW mv \in Legal[m.position], m.result = "*"
    PROVE  InOrder(CommitMove(m, mv, 0)) /\ Extends(m, CommitMove(m, mv, 0))
<1> DEFINE f == CommitMove(m, mv, 0)
           n == Len(m.moves)
<1>0. m \in MatchRecord /\ 0 \in Int /\ LineOK(m)
  BY DEF InOrder
<1>1. m.moves \in Seq(Move) /\ mv \in Move /\ n \in Nat /\ m.position \in Position
  BY <1>0, GameAssumption DEF MatchRecord
<1>2. f \in MatchRecord /\ LineOK(f) /\ CommitCase(m, mv, 0, f)
  BY <1>0, <1>1, CommitType, LineOfCommit, CommitCases
<1>3. f.running = FALSE /\ f.players = m.players
  BY <1>0, ClientAssumption DEF InOrder, CommitMove, FinishMoveClock, MatchRecord
<1> HIDE DEF f
<1>4. InOrder(f)
  BY <1>2, <1>3 DEF InOrder
<1>5. f.moves = Append(m.moves, mv)
  BY <1>2 DEF CommitCase
<1>6. Len(f.moves) = n + 1
  BY <1>1, <1>5
<1>7. \A k \in 0 .. n : SubSeq(f.moves, 1, k) = SubSeq(m.moves, 1, k)
  BY <1>1, <1>5, BeginningKept
<1>8. Extends(m, f)
  <2> HIDE DEF n
  <2>1. n <= Len(f.moves)
    BY <1>1, <1>6
  <2>2. QED BY <2>1, <1>7 DEF Extends, AtMove, n
<1>9. QED BY <1>4, <1>8 DEF f

\* A match that is as it was has gone on, too.
LEMMA ExtendsSelf == ASSUME NEW m, InOrder(m) PROVE Extends(m, m)
BY AtTheEnd DEF Extends

\* What leaves the line alone, and an outcome as it is.
LEMMA SameLineExtends ==
    ASSUME NEW m, InOrder(m), NEW f \in MatchRecord, f.moves = m.moves,
           f.position = m.position, f.sequence = m.sequence,
           f.players = m.players, f.running = m.running,
           m.result # "*" => f.result = m.result
    PROVE  InOrder(f) /\ Extends(m, f)
<1>1. InOrder(f)
  BY SameLineOK DEF InOrder
<1>2. Len(m.moves) \in Nat
  BY AtTheEnd
<1>3. QED BY <1>1, <1>2 DEF Extends, AtMove

\* The request of a move that is accepted.
Accepted(r, m) ==
    /\ r.kind = "move" /\ r.sequence = m.sequence
    /\ m.players[Turn[m.position]] \in {NoPlayer, r.player}

\* Whatever the server carries out, the match goes on from where it was; it
\* makes a move only if the request was computed from its last position.
LEMMA PerformCases ==
    ASSUME InOrder(match), NEW r, r.kind = "move" => r.move \in Move,
           r.kind \in {"draw", "resign"} => r.player \in Player
    PROVE  LET f == Perform(r).match
           IN  /\ InOrder(f) /\ Extends(match, f)
               /\ f.sequence # match.sequence => Accepted(r, match)
<1> DEFINE f == Perform(r).match
<1>0. match \in MatchRecord /\ 0 \in Int /\ SyncClock(match, 0) = match
  <2>1. match \in MatchRecord /\ 0 \in Int
    BY DEF InOrder
  <2>2. SyncClock(match, 0) = match
    BY NoClock
  <2>3. QED BY <2>1, <2>2
<1>1. CASE f = match
  BY <1>1, ExtendsSelf
<1>2. CASE r.kind = "move"
  <2>1. f = ApplyMove(match, r, 0).match
    BY <1>2 DEF Perform
  <2>2. \/ ApplyMove(match, r, 0).match = match
        \/ /\ ApplyMove(match, r, 0).err = OK /\ match.result = "*"
           /\ r.move \in Legal[match.position]
           /\ ApplyMove(match, r, 0).match = CommitMove(match, r.move, 0)
    BY <1>0, <1>2, ApplyCases
  <2>3. ASSUME ApplyMove(match, r, 0).err = OK, match.result = "*",
               r.move \in Legal[match.position], f = CommitMove(match, r.move, 0)
        PROVE  InOrder(f) /\ Extends(match, f) /\ Accepted(r, match)
    <3>1. MoveError(match, r) = OK
      BY <1>0, <2>3 DEF ApplyMove, Fail
    <3>2. Accepted(r, match)
      BY <1>2, <3>1 DEF MoveError, OK, Accepted
    <3>3. InOrder(CommitMove(match, r.move, 0)) /\ Extends(match, CommitMove(match, r.move, 0))
      BY <2>3, CommitExtends
    <3>4. QED
      <4> HIDE DEF f
      <4> QED BY <2>3, <3>2, <3>3
  <2>4. QED BY <1>1, <2>1, <2>2, <2>3
<1>3. CASE r.kind \in {"draw", "resign"}
  <2>1. \/ f = OfferDraw(match, r.player, 0).match
        \/ f = Resign(match, r.player, 0).match
    BY <1>3 DEF Perform
  <2>2. \/ f = match
        \/ match.result = "*" /\ \E w \in Result : f = [match EXCEPT !.result = w]
        \/ f = [match EXCEPT !.drawOfferedBy = r.player]
    <3>1. /\ \/ OfferDraw(match, r.player, 0).match = match
             \/ /\ MayAct(match, r.player)
                /\ OfferDraw(match, r.player, 0).match = [match EXCEPT !.result = Drawn]
             \/ OfferDraw(match, r.player, 0).match = [match EXCEPT !.drawOfferedBy = r.player]
          /\ \/ Resign(match, r.player, 0).match = match
             \/ /\ MayAct(match, r.player)
                /\ \E w \in Result \ {"*", Drawn} :
                     Resign(match, r.player, 0).match = [match EXCEPT !.result = w]
      BY <1>0, <1>3, OfferCases, ResignCases
    <3>2. Drawn \in Result
      BY DEF Drawn, Result
    <3>3. QED
      <4> HIDE DEF f
      <4> QED BY <2>1, <3>1, <3>2 DEF MayAct
  <2>3. f \in MatchRecord
    BY <1>0, <1>3, <2>1, OfferType, ResignType
  <2>4. /\ f.moves = match.moves /\ f.position = match.position
        /\ f.sequence = match.sequence /\ f.players = match.players
        /\ f.running = match.running /\ (match.result # "*" => f.result = match.result)
    <3> HIDE DEF f
    <3> QED BY <1>0, <2>2 DEF MatchRecord
  <2>5. InOrder(f) /\ Extends(match, f) /\ f.sequence = match.sequence
    <3> HIDE DEF f
    <3> QED BY <2>3, <2>4, SameLineExtends
  <2>6. QED BY <2>5
<1>4. CASE r.kind \notin {"move", "draw", "resign"}
  <2>1. f = match
    BY <1>4 DEF Perform, Done
  <2>2. QED BY <1>1, <2>1
<1>5. QED BY <1>2, <1>3, <1>4

-----------------------------------------------------------------------------
(* What clients hold while the match goes on.                              *)

\* A snapshot of the match is one of what the match becomes.
LEMMA TakenStays ==
    ASSUME NEW m, InOrder(m), NEW f, InOrder(f), Extends(m, f), NEW s, TakenFrom(s, m)
    PROVE  TakenFrom(s, f)
<1>1. s.sequence \in 0 .. Len(m.moves) /\ Len(m.moves) \in Nat /\ Len(f.moves) \in Nat
  BY AtTheEnd DEF TakenFrom, Snapshots
<1>2. s.sequence <= Len(f.moves) /\ s.position = AtMove(f, s.sequence)
  BY <1>1 DEF TakenFrom, Extends
<1>3. s.result \in Result \ {"*"} => s.result = f.result /\ s.sequence = Len(f.moves)
  BY DEF TakenFrom, Extends
<1>4. QED BY <1>2, <1>3 DEF TakenFrom

\* A snapshot that is taken now.
LEMMA TakenNow ==
    ASSUME NEW m, InOrder(m)
    PROVE  /\ TakenFrom(SnapshotOf(m), m) /\ SnapshotOf(m).result # NoResult
           /\ SnapshotOf(m).sequence = Len(m.moves)
<1>1. m \in MatchRecord /\ m.sequence = Len(m.moves) /\ Len(m.moves) \in Nat
      /\ AtMove(m, Len(m.moves)) = m.position
  BY AtTheEnd DEF InOrder
<1>2. /\ SnapshotOf(m).sequence = m.sequence /\ SnapshotOf(m).position = m.position
      /\ SnapshotOf(m).turn = Turn[m.position] /\ SnapshotOf(m).result = m.result
  BY DEF SnapshotOf
<1>3. m.result # NoResult /\ m.position \in Position /\ Turn[m.position] \in Color
  BY <1>1, GameAssumption DEF MatchRecord, NoResult, Result
<1>4. SnapshotOf(m) \in Snapshots
  BY <1>1, <1>3 DEF SnapshotOf, Snapshots, MatchRecord
<1>5. QED BY <1>1, <1>2, <1>3, <1>4 DEF TakenFrom

\* The snapshot of a failed request.
LEMMA TakenZero ==
    ASSUME NEW m, InOrder(m) PROVE TakenFrom(ZeroSnapshot, m) /\ ZeroSnapshot.result = NoResult
<1>1. Len(m.moves) \in Nat /\ m.moves \in Seq(Move)
  BY AtTheEnd DEF InOrder, MatchRecord
<1>2. SubSeq(m.moves, 1, 0) = << >>
  BY <1>1, SubSeqEmpty
<1>3. AtMove(m, 0) = Start
  BY <1>2, ReplayEmpty DEF AtMove
<1>4. ZeroSnapshot \in Snapshots
  BY GameAssumption DEF ZeroSnapshot, Snapshots
<1>5. NoResult \notin Result
  BY DEF NoResult, Result
<1>6. QED BY <1>1, <1>3, <1>4, <1>5 DEF TakenFrom, ZeroSnapshot

\* The snapshot of an acknowledged move of which no more is known.
LEMMA TakenAcknowledgement ==
    ASSUME NEW m, NEW s, TakenFrom(s, m)
    PROVE  LET a == FromAcknowledgement(s)
           IN  TakenFrom(a, m) /\ a.sequence = s.sequence /\ a.result = s.result
<1> DEFINE a == FromAcknowledgement(s)
<1>1. s \in Snapshots
  BY DEF TakenFrom
<1>2. /\ a.sequence = s.sequence /\ a.position = s.position /\ a.turn = NoSide
      /\ a.result = s.result /\ a \in Snapshots
  BY <1>1 DEF FromAcknowledgement, Snapshots
<1>3. TakenFrom(a, m)
  <2> HIDE DEF a
  <2> QED BY <1>2 DEF TakenFrom
<1>4. QED BY <1>2, <1>3

\* What a player sees after a step: what he saw, or a snapshot that has all of
\* the first n moves.
Forward(p, n) ==
    \/ /\ board'[p] = board[p]
       /\ snapshot'[p] \in {snapshot[p], ZeroSnapshot}
    \/ /\ TakenFrom(snapshot'[p], match')
       /\ board'[p] = snapshot'[p].position
       /\ n <= snapshot'[p].sequence

\* What has been seen stays seen.
LEMMA SeenStays ==
    ASSUME InOrder(match), InOrder(match)', Extends(match, match'),
           NEW p, NEW n \in 0 .. Len(match.moves), Seen(p, n), Forward(p, n)
    PROVE  Seen(p, n)'
<1>0. Len(match.moves) \in Nat /\ Len(match'.moves) \in Nat
  <2>1. Len(match.moves) \in Nat
    BY AtTheEnd
  <2>2. Len(match'.moves) \in Nat
    BY AtTheEnd
  <2>3. QED BY <2>1, <2>2
<1>1. CASE /\ board'[p] = board[p]
           /\ snapshot'[p] \in {snapshot[p], ZeroSnapshot}
  <2>1. PICK k \in n .. Len(match.moves) : board[p] = AtMove(match, k)
    BY DEF Seen
  <2>2. k \in n .. Len(match'.moves) /\ AtMove(match', k) = AtMove(match, k)
    BY <1>0, <2>1 DEF Extends
  <2>3. snapshot'[p].result # NoResult => n <= snapshot'[p].sequence
    BY <1>1, TakenZero DEF Seen
  <2>4. QED BY <1>1, <2>1, <2>2, <2>3 DEF Seen
<1>2. CASE /\ TakenFrom(snapshot'[p], match')
           /\ board'[p] = snapshot'[p].position
           /\ n <= snapshot'[p].sequence
  <2>1. snapshot'[p].sequence \in n .. Len(match'.moves)
    BY <1>0, <1>2 DEF TakenFrom, Snapshots
  <2>2. board'[p] = AtMove(match', snapshot'[p].sequence)
    BY <1>2 DEF TakenFrom
  <2>3. QED BY <1>2, <2>1, <2>2 DEF Seen
<1>3. QED BY <1>1, <1>2 DEF Forward

\* A move on its way stays one that was made on a board its player has seen.
LEMMA RequestStays ==
    ASSUME InOrder(match), InOrder(match)', Extends(match, match'),
           NEW r, RequestOK(r), r.kind = "move" => Forward(r.player, r.sequence)
    PROVE  RequestOK(r)'
<1>1. CASE r.kind = "move"
  <2>1. MoveOK(r)
    BY <1>1 DEF RequestOK
  <2>2. Len(match.moves) \in Nat
    BY AtTheEnd
  <2>3. Len(match'.moves) \in Nat
    BY AtTheEnd
  <2>4. /\ r.sequence \in 0 .. Len(match'.moves)
        /\ AtMove(match', r.sequence) = AtMove(match, r.sequence)
    BY <2>1, <2>2, <2>3 DEF MoveOK, Extends
  <2>5. Seen(r.player, r.sequence)'
    BY <1>1, <2>1, SeenStays DEF MoveOK
  <2>6. QED BY <1>1, <2>1, <2>4, <2>5 DEF MoveOK, RequestOK
<1>2. CASE r.kind # "move"
  BY <1>2 DEF RequestOK
<1>3. QED BY <1>1, <1>2

\* An answer stays one while its player sends no other move late.
LEMMA AnswerStays ==
    ASSUME InOrder(match), InOrder(match)', Extends(match, match'),
           NEW p, NEW a, AnswerOK(p, a),
           \A r \in late' : r \in late \/ r.player # p
    PROVE  AnswerOK(p, a)'
<1>1. TakenFrom(a, match')
  BY TakenStays DEF AnswerOK
<1>2. QED BY <1>1 DEF AnswerOK

\* A client that does nothing in this step.
Rests(p) ==
    /\ client'[p] = client[p]
    /\ snapshot'[p] = snapshot[p]
    /\ board'[p] = board[p]
    /\ \A r \in late' : r \in late \/ r.player # p

\* Its view and its request are as good as before.
LEMMA RestsOK ==
    ASSUME IInv, InOrder(match)', Extends(match, match'),
           NEW p \in Player, Rests(p)
    PROVE  ViewOK(p)' /\ WaitOK(p, client[p])'
<1>0. InOrder(match) /\ ViewOK(p) /\ WaitOK(p, client[p])
  BY DEF IInv
<1>1. ViewOK(p)'
  <2>1. TakenFrom(snapshot[p], match')
    BY <1>0, TakenStays DEF ViewOK
  <2>2. PICK n \in 0 .. Len(match.moves) : board[p] = AtMove(match, n)
    BY <1>0 DEF ViewOK
  <2>3. Len(match.moves) \in Nat
    BY <1>0, AtTheEnd
  <2>4. Len(match'.moves) \in Nat
    BY AtTheEnd
  <2>5. n \in 0 .. Len(match'.moves) /\ AtMove(match', n) = AtMove(match, n)
    BY <2>2, <2>3, <2>4 DEF Extends
  <2>6. QED BY <1>0, <2>1, <2>2, <2>5 DEF ViewOK, Rests
<1>2. ASSUME NEW r, RequestOK(r), r.kind = "move" => r.player = p PROVE RequestOK(r)'
  <2>1. r.kind = "move" => Forward(r.player, r.sequence)
    BY <1>2 DEF Forward, Rests
  <2>2. QED BY <1>0, <1>2, <2>1, RequestStays
<1>3. ASSUME NEW a, AnswerOK(p, a) PROVE AnswerOK(p, a)'
  BY <1>0, <1>3, AnswerStays DEF Rests
<1>4. QED BY <1>0, <1>1, <1>2, <1>3 DEF WaitOK, Rests

-----------------------------------------------------------------------------
(* Steps.                                                                  *)

\* What is on its way late stays so, and what is added was asked for.
LEMMA LateStays ==
    ASSUME InOrder(match), InOrder(match)', Extends(match, match'),
           \A r \in late' :
              /\ r.kind \in {"move", "draw", "resign"} /\ RequestOK(r)
              /\ r.kind = "move" => Forward(r.player, r.sequence)
    PROVE  LateOK'
<1>1. ASSUME NEW r \in late' PROVE RequestOK(r)'
  BY RequestStays
<1>2. QED BY <1>1 DEF LateOK

\* The rest of the invariant, once the step's own client is seen to.
LEMMA OneActs ==
    ASSUME IInv, InOrder(match)', Extends(match, match'), NEW p \in Player,
           \A q \in Player \ {p} : Rests(q),
           Functions', ViewOK(p)', WaitOK(p, client[p])', LateOK'
    PROVE  IInv'
<1>1. \A q \in Player \ {p} : ViewOK(q)' /\ WaitOK(q, client[q])'
  BY RestsOK
<1>2. QED BY <1>1 DEF IInv

\* A client that goes on to something else, with the same view.
LEMMA TalkOK ==
    ASSUME IInv, NEW p \in Player, NEW w, WaitOK(p, w),
           client' = [client EXCEPT ![p] = w],
           UNCHANGED <<match, snapshot, board, late>>
    PROVE  IInv'
<1>1. DOMAIN client = Player /\ client'[p] = w /\ DOMAIN client' = Player
  BY DEF IInv, Functions
<1>2. \A q \in Player : ViewOK(q)'
  BY DEF IInv, ViewOK
<1>3. \A q \in Player : WaitOK(q, client[q])'
  <2>1. ASSUME NEW q \in Player PROVE WaitOK(q, client'[q])
    BY <1>1 DEF IInv
  <2>2. ASSUME NEW q \in Player PROVE WaitOK(q, client[q])'
    <3>1. WaitOK(q, client'[q])
      BY <2>1
    <3>2. QED BY <3>1 DEF WaitOK, RequestOK, MoveOK, Seen, AnswerOK
  <2>3. QED BY <2>2
<1>4. LateOK' /\ InOrder(match)' /\ Functions'
  BY <1>1 DEF IInv, LateOK, RequestOK, MoveOK, Seen, Functions
<1>5. QED BY <1>2, <1>3, <1>4 DEF IInv

\* A client that looks at its board again: at what it saw, with nothing more
\* known of the match, or at an answer. A request may have been left behind.
LEMMA LookOK ==
    ASSUME IInv, NEW p \in Player, NEW s, NEW b, match' = match,
           client' = [client EXCEPT ![p] = Show],
           snapshot' = [snapshot EXCEPT ![p] = s],
           board' = [board EXCEPT ![p] = b],
           \/ /\ s \in {snapshot[p], ZeroSnapshot} /\ b = board[p]
              /\ \A r \in late' :
                    \/ r \in late
                    \/ /\ r.kind \in {"move", "draw", "resign"}
                       /\ RequestOK(r) /\ r.player = p
           \/ AnswerOK(p, s) /\ b = s.position /\ late' = late
    PROVE  IInv'
<1>1. /\ DOMAIN client = Player /\ DOMAIN snapshot = Player /\ DOMAIN board = Player
      /\ InOrder(match) /\ InOrder(match)' /\ LateOK /\ ViewOK(p)
  BY DEF IInv, Functions
<1>2. Extends(match, match')
  BY <1>1, ExtendsSelf
<1>3. /\ client'[p] = Show /\ snapshot'[p] = s /\ board'[p] = b /\ Functions'
      /\ \A q \in Player \ {p} :
            client'[q] = client[q] /\ snapshot'[q] = snapshot[q] /\ board'[q] = board[q]
  BY <1>1 DEF Functions
<1>4. \A q \in Player \ {p} : Rests(q)
  BY <1>3 DEF Rests
<1>5. ViewOK(p)'
  <2>1. CASE s = snapshot[p] /\ b = board[p]
    BY <1>1, <1>3, <2>1 DEF ViewOK
  <2>2. CASE s = ZeroSnapshot /\ b = board[p]
    BY <1>1, <1>3, <2>2, TakenZero DEF ViewOK
  <2>3. CASE AnswerOK(p, s) /\ b = s.position
    <3>1. s.sequence \in 0 .. Len(match.moves) /\ s.position = AtMove(match, s.sequence)
      BY <1>1, <2>3, AtTheEnd DEF AnswerOK, TakenFrom, Snapshots
    <3>2. QED BY <1>3, <2>3, <3>1 DEF ViewOK, AnswerOK
  <2>4. QED BY <2>1, <2>2, <2>3
<1>6. WaitOK(p, client[p])'
  BY <1>3 DEF WaitOK, Show
<1>7. LateOK'
  <2>1. ASSUME NEW r \in late'
        PROVE  /\ r.kind \in {"move", "draw", "resign"} /\ RequestOK(r)
               /\ r.kind = "move" => Forward(r.player, r.sequence)
    <3>1. r.kind \in {"move", "draw", "resign"} /\ RequestOK(r)
      BY <1>1 DEF LateOK
    <3>2. CASE r.player # p
      BY <1>3, <3>1, <3>2 DEF Forward, RequestOK, MoveOK
    <3>3. CASE r.player = p /\ s \in {snapshot[p], ZeroSnapshot} /\ b = board[p]
      BY <1>3, <3>1, <3>3 DEF Forward
    <3>4. CASE r.player = p /\ AnswerOK(p, s) /\ b = s.position /\ late' = late
      <4>1. r.kind = "move" => r.sequence <= s.sequence
        BY <3>4 DEF AnswerOK
      <4>2. QED BY <1>3, <3>1, <3>4, <4>1 DEF Forward, AnswerOK
    <3>5. QED BY <3>1, <3>2, <3>3, <3>4
  <2>2. QED BY <1>1, <1>2, <2>1, LateStays
<1>8. QED BY <1>1, <1>2, <1>3, <1>4, <1>5, <1>6, <1>7, OneActs

\* A request fails. Nothing is known of the match any more, but by a client
\* that has had a move of its own acknowledged.
LEMMA FailsOK ==
    ASSUME IInv, NEW p \in Player, client[p].at \in {"sent", "answered"},
           Fails(p, client[p].request), match' = match,
           \/ late' = late
           \/ /\ late' = late \cup {client[p].request}
              /\ client[p].request.kind \in {"move", "draw", "resign"}
    PROVE  IInv'
<1> DEFINE request == client[p].request
           after == AfterError(p, request)
           shown == IF request.kind = "follow" THEN after.position ELSE board[p]
<1>1. /\ WaitOK(p, client[p]) /\ DOMAIN board = Player
  BY DEF IInv, Functions
<1>2. /\ client' = [client EXCEPT ![p] = Show]
      /\ snapshot' = [snapshot EXCEPT ![p] = after]
      /\ board' = [board EXCEPT ![p] = shown]
  BY <1>1 DEF Fails
<1>3. CASE request.kind = "follow"
  <2>1. AnswerOK(p, request.accepted)
    BY <1>1, <1>3 DEF WaitOK
  <2>2. after = FromAcknowledgement(request.accepted) /\ shown = after.position
    BY <1>3 DEF AfterError
  <2>3. AnswerOK(p, after)
    <3>1. /\ TakenFrom(after, match) /\ after.sequence = request.accepted.sequence
          /\ after.result = request.accepted.result
      BY <2>1, <2>2, TakenAcknowledgement DEF AnswerOK
    <3>2. QED
      <4> HIDE DEF after
      <4> QED BY <2>1, <3>1 DEF AnswerOK
  <2>4. late' = late
    BY <1>3
  <2>5. QED
    <3> HIDE DEF after, shown
    <3> QED BY <1>2, <2>2, <2>3, <2>4, LookOK
<1>4. CASE request.kind # "follow"
  <2>1. after \in {snapshot[p], ZeroSnapshot} /\ shown = board[p]
    BY <1>4 DEF AfterError
  <2>2. \A r \in late' :
           \/ r \in late
           \/ /\ r.kind \in {"move", "draw", "resign"}
              /\ RequestOK(r) /\ r.player = p
    BY <1>1 DEF WaitOK
  <2>3. QED
    <3> HIDE DEF after, shown
    <3> QED BY <1>2, <2>1, <2>2, LookOK
<1>5. QED BY <1>3, <1>4

\* An answer: of a move, which asks for a snapshot, or a snapshot.
LEMMA ReceiveOK == ASSUME IInv, NEW p \in Player, Receive(p) PROVE IInv'
<1> DEFINE request == client[p].request
           answer == client[p].answer
           follow == [kind |-> "follow", accepted |-> answer]
<1>1. WaitOK(p, client[p]) /\ client[p].at = "answered"
  BY DEF IInv, Receive
<1>2. AnswerOK(p, answer)
  BY <1>1 DEF WaitOK
<1>3. CASE /\ client' = [client EXCEPT ![p] = Sent(follow)]
           /\ UNCHANGED <<snapshot, board>>
  <2>1. WaitOK(p, Sent(follow))
    BY <1>2 DEF WaitOK, Sent, RequestOK
  <2>2. match' = match /\ late' = late
    BY DEF Receive
  <2>3. QED BY <1>3, <2>1, <2>2, TalkOK
<1>4. CASE /\ snapshot' = [snapshot EXCEPT ![p] = answer]
           /\ board' = [board EXCEPT ![p] = answer.position]
           /\ client' = [client EXCEPT ![p] = Show]
  <2>1. match' = match /\ late' = late
    BY DEF Receive
  <2>2. QED BY <1>2, <1>4, <2>1, LookOK
<1>5. QED BY <1>3, <1>4 DEF Receive

\* What a player types goes out with what he sees.
LEMMA TypeMoveOK ==
    ASSUME IInv, NEW p \in Player, NEW mv \in Move, TypeMove(p, mv) PROVE IInv'
<1> DEFINE request == [kind |-> "move", player |-> p, move |-> mv,
                       sequence |-> snapshot[p].sequence,
                       hash |-> Hash[snapshot[p].position]]
           s == snapshot[p]
<1>1. ViewOK(p) /\ InOrder(match)
  BY DEF IInv
<1>2. s.turn = Side[p] /\ Side[p] # NoSide
  BY ClientAssumption DEF TypeMove, NoSide, Color
<1>3. /\ s.sequence \in 0 .. Len(match.moves) /\ s.result # NoResult
      /\ Turn[s.position] = Side[p] /\ s.position = AtMove(match, s.sequence)
      /\ board[p] = s.position
  BY <1>1, <1>2, AtTheEnd DEF ViewOK, TakenFrom, Snapshots
<1>4. /\ request.kind = "move" /\ request.player = p /\ request.move = mv
      /\ request.sequence = s.sequence
  OBVIOUS
<1>5. client' = [client EXCEPT ![p] = Sent(request)]
      /\ UNCHANGED <<match, snapshot, board, late>>
  BY DEF TypeMove
<1> HIDE DEF request
<1>6. Seen(p, s.sequence)
  <2>1. Len(match.moves) \in Nat
    BY <1>1, AtTheEnd
  <2>2. s.sequence \in s.sequence .. Len(match.moves)
    BY <1>3, <2>1
  <2>3. QED BY <1>3, <2>2 DEF Seen
<1>7. RequestOK(request)
  BY <1>3, <1>4, <1>6 DEF RequestOK, MoveOK
<1>8. WaitOK(p, Sent(request))
  BY <1>4, <1>7 DEF WaitOK, Sent
<1>9. QED BY <1>5, <1>8, TalkOK

\* The other things a client does by itself.
LEMMA ClientOK ==
    ASSUME IInv, NEW p \in Player,
           \/ ShowBoard(p) \/ Quit(p)
           \/ \E command \in {"refresh", "draw", "resign"} : TypeCommand(p, command)
    PROVE  IInv'
<1>1. ASSUME NEW w, w.at \notin {"sent", "answered"} PROVE WaitOK(p, w)
  BY <1>1 DEF WaitOK
<1>2. CASE ShowBoard(p)
  <2>1. PICK w : /\ w \in {[at |-> "over"], Prompt}
                 /\ client' = [client EXCEPT ![p] = w]
    BY <1>2 DEF ShowBoard
  <2>2. WaitOK(p, w)
    BY <1>1, <2>1 DEF Prompt
  <2>3. QED BY <1>2, <2>1, <2>2, TalkOK DEF ShowBoard
<1>3. CASE Quit(p)
  <2>1. WaitOK(p, [at |-> "quit"])
    BY <1>1
  <2>2. QED BY <1>3, <2>1, TalkOK DEF Quit
<1>4. ASSUME NEW command \in {"refresh", "draw", "resign"}, TypeCommand(p, command)
      PROVE  IInv'
  <2>1. WaitOK(p, Sent([kind |-> command, player |-> p]))
    BY DEF WaitOK, Sent, RequestOK
  <2>2. QED BY <1>4, <2>1, TalkOK DEF TypeCommand
<1>5. QED BY <1>2, <1>3, <1>4

\* The match goes on and nobody's view changes: the invariant needs only the
\* client that waits to be seen to.
LEMMA ServesOK ==
    ASSUME IInv, InOrder(match)', Extends(match, match'), NEW p \in Player,
           UNCHANGED <<snapshot, board>>, late' \subseteq late,
           DOMAIN client' = Player,
           \A q \in Player \ {p} : client'[q] = client[q],
           NEW w, client'[p] = w, WaitOK(p, w)'
    PROVE  IInv'
<1>1. \A q \in Player \ {p} : Rests(q)
  BY DEF Rests
<1>2. ViewOK(p)'
  <2>1. InOrder(match) /\ ViewOK(p)
    BY DEF IInv
  <2>2. TakenFrom(snapshot[p], match')
    BY <2>1, TakenStays DEF ViewOK
  <2>3. PICK n \in 0 .. Len(match.moves) : board[p] = AtMove(match, n)
    BY <2>1 DEF ViewOK
  <2>4. Len(match.moves) \in Nat
    BY <2>1, AtTheEnd
  <2>5. Len(match'.moves) \in Nat
    BY AtTheEnd
  <2>6. n \in 0 .. Len(match'.moves) /\ AtMove(match', n) = AtMove(match, n)
    BY <2>3, <2>4, <2>5 DEF Extends
  <2>7. QED BY <2>1, <2>2, <2>3, <2>6 DEF ViewOK
<1>3. LateOK'
  <2>1. \A r \in late' :
           /\ r.kind \in {"move", "draw", "resign"} /\ RequestOK(r)
           /\ r.kind = "move" => Forward(r.player, r.sequence)
    BY DEF IInv, LateOK, Forward
  <2>2. QED BY <2>1, LateStays DEF IInv
<1>4. Functions'
  BY DEF IInv, Functions
<1>5. WaitOK(p, client[p])'
  BY DEF WaitOK, RequestOK, MoveOK, Seen, AnswerOK
<1>6. QED BY <1>1, <1>2, <1>3, <1>4, <1>5, OneActs

\* What the server has carried out.
Served(r) ==
    /\ InOrder(match)' /\ Extends(match, match')
    /\ match'.sequence # match.sequence => Accepted(r, match)

LEMMA PerformServes ==
    ASSUME IInv, NEW r, RequestOK(r), match' = Perform(r).match PROVE Served(r)
<1>1. InOrder(match) /\ (r.kind = "move" => r.move \in Move)
      /\ (r.kind \in {"draw", "resign"} => r.player \in Player)
  BY DEF IInv, RequestOK, MoveOK
<1>2. InOrder(match') /\ Extends(match, match')
      /\ (match'.sequence # match.sequence => Accepted(r, match))
  BY <1>1, PerformCases
<1>3. QED BY <1>2 DEF Served

\* A request and its answer.
LEMMA HandleOK == ASSUME IInv, NEW p \in Player, Handle(p) PROVE IInv'
<1>1. PICK r : r = client[p].request
  OBVIOUS
<1>2. PICK w : w = Answered(r, Perform(r).err, SnapshotOf(Perform(r).match))
  OBVIOUS
<1>3. WaitOK(p, client[p]) /\ client[p].at = "sent" /\ InOrder(match) /\ LateOK
  BY DEF IInv, Handle
<1>4. /\ match' = Perform(r).match /\ client' = [client EXCEPT ![p] = w]
      /\ UNCHANGED <<snapshot, board, late>>
  BY <1>1, <1>2 DEF Handle
<1>5. /\ RequestOK(r) /\ (r.kind \in {"move", "draw", "resign"} => r.player = p)
      /\ (r.kind = "follow" => AnswerOK(p, r.accepted))
  BY <1>1, <1>3 DEF WaitOK
<1>6. InOrder(match)' /\ Extends(match, match')
  BY <1>4, <1>5, PerformServes DEF Served
<1>7. /\ DOMAIN client' = Player /\ client'[p] = w
      /\ \A q \in Player \ {p} : client'[q] = client[q]
  BY <1>4 DEF IInv, Functions
<1>8. w.at = "answered" /\ w.request = r /\ w.answer = SnapshotOf(match')
  BY <1>2, <1>4 DEF Answered
<1>9. RequestOK(r)'
  <2>1. r.kind = "move" => Forward(r.player, r.sequence)
    BY <1>4 DEF Forward
  <2>2. QED BY <1>3, <1>5, <1>6, <2>1, RequestStays
<1>10. r.kind = "follow" => AnswerOK(p, r.accepted)'
  BY <1>3, <1>4, <1>5, <1>6, AnswerStays
<1>11. AnswerOK(p, w.answer)'
  <2>1. /\ TakenFrom(w.answer, match') /\ w.answer.result # NoResult
        /\ w.answer.sequence = Len(match'.moves)
    BY <1>6, <1>8, TakenNow
  <2>2. Len(match.moves) \in Nat
    BY <1>3, AtTheEnd
  <2>3. Len(match'.moves) \in Nat
    BY <1>6, AtTheEnd
  <2>4. \A q \in late' : q.kind = "move" => q.sequence <= Len(match'.moves)
    BY <1>3, <1>4, <1>6, <2>2, <2>3 DEF LateOK, RequestOK, MoveOK, Extends
  <2>5. QED BY <2>1, <2>4 DEF AnswerOK
<1>12. WaitOK(p, w)'
  BY <1>5, <1>8, <1>9, <1>10, <1>11 DEF WaitOK
<1>13. QED BY <1>4, <1>6, <1>7, <1>12, ServesOK

\* A request that arrives late.
LEMMA HandleLateOK == ASSUME IInv, NEW r \in late, HandleLate(r) PROVE IInv'
<1>1. RequestOK(r) /\ r.player \in Player
  BY DEF IInv, LateOK, RequestOK, MoveOK
<1>2. match' = Perform(r).match /\ UNCHANGED <<snapshot, board, client>>
      /\ late' \subseteq late
  BY DEF HandleLate
<1>3. InOrder(match)' /\ Extends(match, match')
  BY <1>1, <1>2, PerformServes DEF Served
<1>4. PICK p \in Player : p = r.player
  BY <1>1
<1>5. \A q \in Player : Rests(q)
  BY <1>2 DEF Rests
<1>6. WaitOK(p, client[p])'
  BY <1>3, <1>5, RestsOK
<1>7. PICK w : w = client'[p]
  OBVIOUS
<1>8. WaitOK(p, w)'
  BY <1>6, <1>7 DEF WaitOK, RequestOK, MoveOK, Seen, AnswerOK
<1>9. DOMAIN client' = Player /\ \A q \in Player \ {p} : client'[q] = client[q]
  BY <1>2 DEF IInv, Functions
<1>10. QED BY <1>2, <1>3, <1>7, <1>8, <1>9, ServesOK

-----------------------------------------------------------------------------
(* The theorems.                                                           *)

\* Everybody has the seat he joined for when the game begins.
LEMMA OpeningInOrder == InOrder(Opening)
<1> DEFINE seats == [c \in Color |->
                       IF \E p \in Player : Side[p] = c
                       THEN CHOOSE p \in Player : Side[p] = c ELSE NoPlayer]
           watching == {p \in Player : Side[p] = "spectator"}
<1>1. seats \in [Color -> Seat] /\ watching \in SUBSET Player
  BY DEF Seat
<1>2. ASSUME NEW p \in Player, NEW c \in Color, Side[p] = c PROVE seats[c] = p
  <2>1. \A q \in Player : Side[q] = c => q = p
    BY <1>2, ClientAssumption DEF Color
  <2>2. (CHOOSE q \in Player : Side[q] = c) = p
    BY <1>2, <2>1
  <2>3. QED BY <1>2, <2>2
<1>3. /\ NewMatch \in MatchRecord /\ LineOK(NewMatch)
      /\ NewMatch.running = FALSE
  BY NewMatchType, LineOfNew DEF NewMatch
<1>4. Opening = [NewMatch EXCEPT !.players = seats, !.spectators = watching]
  BY DEF Opening
<1> HIDE DEF seats, watching
<1>5. /\ Opening \in MatchRecord /\ Opening.players = seats
      /\ Opening.running = NewMatch.running /\ Opening.moves = NewMatch.moves
      /\ Opening.position = NewMatch.position /\ Opening.sequence = NewMatch.sequence
  BY <1>1, <1>3, <1>4 DEF MatchRecord
<1>6. LineOK(Opening)
  BY <1>3, <1>5, SameLineOK
<1>7. QED BY <1>2, <1>3, <1>5, <1>6 DEF InOrder

LEMMA InitHolds == Init => IInv
<1>1. SUFFICES ASSUME Init PROVE IInv
  OBVIOUS
<1>2. InOrder(match) /\ match = Opening
  BY <1>1, OpeningInOrder DEF Init
<1>3. /\ TakenFrom(SnapshotOf(match), match)
      /\ SnapshotOf(match).position = Start
      /\ Len(match.moves) = 0 /\ AtMove(match, 0) = Start
  <2>1. match.moves = << >> /\ match.position = Start
    BY <1>2 DEF Opening, NewMatch
  <2>2. Len(match.moves) = 0
    BY <2>1
  <2>3. AtMove(match, 0) = Start
    BY <1>2, <2>1, <2>2, AtTheEnd
  <2>4. QED BY <1>2, <2>1, <2>2, <2>3, TakenNow DEF SnapshotOf
<1>4. ASSUME NEW p \in Player PROVE ViewOK(p) /\ WaitOK(p, client[p])
  <2>1. /\ snapshot[p] = SnapshotOf(match) /\ board[p] = Start /\ client[p] = Show
    BY <1>1, <1>2 DEF Init
  <2>2. ViewOK(p)
    BY <1>3, <2>1 DEF ViewOK
  <2>3. WaitOK(p, client[p])
    BY <2>1 DEF WaitOK, Show
  <2>4. QED BY <2>2, <2>3
<1>5. Functions /\ LateOK
  BY <1>1 DEF Init, Functions, LateOK
<1>6. QED BY <1>2, <1>4, <1>5 DEF IInv

\* Whatever a client, the server or the network does.
LEMMA StepHolds == IInv /\ [Next]_vars => IInv'
<1>1. SUFFICES ASSUME IInv, [Next]_vars PROVE IInv'
  OBVIOUS
<1>2. CASE UNCHANGED vars
  <2>1. InOrder(match) /\ InOrder(match)' /\ match' = match
    BY <1>1, <1>2 DEF vars, IInv
  <2>2. Extends(match, match')
    BY <2>1, ExtendsSelf
  <2>3. \A p \in Player : Rests(p)
    BY <1>2 DEF vars, Rests
  <2>4. \A p \in Player : ViewOK(p)' /\ WaitOK(p, client[p])'
    BY <1>1, <2>1, <2>2, <2>3, RestsOK
  <2>5. LateOK'
    <3>1. \A r \in late' :
             /\ r.kind \in {"move", "draw", "resign"} /\ RequestOK(r)
             /\ r.kind = "move" => Forward(r.player, r.sequence)
      BY <1>1, <1>2 DEF vars, IInv, LateOK, Forward
    <3>2. QED BY <2>1, <2>2, <3>1, LateStays
  <2>6. Functions'
    BY <1>1, <1>2 DEF vars, IInv, Functions
  <2>7. QED BY <2>1, <2>4, <2>5, <2>6 DEF IInv
<1>3. CASE \E p \in Player :
             \/ ShowBoard(p) \/ Quit(p)
             \/ \E command \in {"refresh", "draw", "resign"} : TypeCommand(p, command)
  BY <1>1, <1>3, ClientOK
<1>4. CASE \E p \in Player, mv \in Move : TypeMove(p, mv)
  BY <1>1, <1>4, TypeMoveOK
<1>5. CASE \E p \in Player : Handle(p)
  BY <1>1, <1>5, HandleOK
<1>6. CASE \E r \in late : HandleLate(r)
  BY <1>1, <1>6, HandleLateOK
<1>7. CASE \E p \in Player : LoseRequest(p) \/ GiveUp(p) \/ LoseAnswer(p) \/ ReceiveRefusal(p)
  <2>1. PICK p \in Player : LoseRequest(p) \/ GiveUp(p) \/ LoseAnswer(p) \/ ReceiveRefusal(p)
    BY <1>7
  <2>2. /\ client[p].at \in {"sent", "answered"} /\ match' = match
        /\ Fails(p, client[p].request)
        /\ \/ late' = late
           \/ /\ late' = late \cup {client[p].request}
              /\ client[p].request.kind \in {"move", "draw", "resign"}
    BY <2>1 DEF LoseRequest, GiveUp, LoseAnswer, ReceiveRefusal
  <2>3. QED BY <1>1, <2>2, FailsOK
<1>8. CASE \E p \in Player : Receive(p)
  BY <1>1, <1>8, ReceiveOK
<1>9. QED BY <1>1, <1>2, <1>3, <1>4, <1>5, <1>6, <1>7, <1>8 DEF Next

\* For every game, any clients and any loss and delay, the invariant.
THEOREM Invariance == Spec => []IInv
BY InitHolds, StepHolds, PTL DEF Spec

\* What a client shows has been the state of the match (runRemote): the board
\* is the position some moves ago, the sequence number says how many, and an
\* outcome it knows is the outcome.
THEOREM ViewsStayPast == Spec => []ViewIsPast
<1>1. IInv => ViewIsPast
  BY DEF IInv, ViewOK, TakenFrom, AtMove, ViewIsPast
<1>2. QED BY <1>1, Invariance, PTL

\* A move that was typed in the position on the board is its mover's, who sees
\* that position.
LEMMA MoverSees ==
    ASSUME IInv, NEW r, RequestOK(r), Accepted(r, match)
    PROVE  LET mover == match.players[Turn[match.position]]
           IN  /\ board[mover] = match.position
               /\ snapshot[mover].result # NoResult =>
                    snapshot[mover].sequence = Len(match.moves)
<1> DEFINE n == Len(match.moves)
<1>1. /\ InOrder(match) /\ n \in Nat /\ match.sequence = n
      /\ AtMove(match, n) = match.position
  BY AtTheEnd DEF IInv
<1>2. /\ r.player \in Player /\ r.sequence = n /\ Seen(r.player, n)
      /\ Turn[match.position] = Side[r.player]
  BY <1>1 DEF RequestOK, Accepted, MoveOK
<1>3. Turn[match.position] \in Color
  BY <1>1, GameAssumption DEF InOrder, MatchRecord
<1>4. match.players[Turn[match.position]] = r.player
  BY <1>1, <1>2, <1>3 DEF InOrder
<1>5. board[r.player] = match.position
  <2>1. PICK k \in n .. n : board[r.player] = AtMove(match, k)
    BY <1>2 DEF Seen
  <2>2. k = n
    BY <1>1, <2>1
  <2>3. QED BY <1>1, <2>1, <2>2
<1>6. snapshot[r.player].result # NoResult => snapshot[r.player].sequence = n
  BY <1>1, <1>2 DEF Seen, IInv, ViewOK, TakenFrom, Snapshots
<1>7. QED BY <1>4, <1>5, <1>6

\* A move is made only in the position its player is looking at, and once:
\* whatever is lost, typed again or arrives late (ApplyMove's sequence and hash,
\* with what runRemote keeps of an answer).
THEOREM MovesAreSeen == Spec => NoMoveOnStaleBoard
<1>1. ASSUME IInv, [Next]_vars, match'.sequence # match.sequence
      PROVE  LET mover == match.players[Turn[match.position]]
             IN  /\ board[mover] = match.position
                 /\ snapshot[mover].result # NoResult =>
                      snapshot[mover].sequence = Len(match.moves)
  <2>1. \/ \E p \in Player : Handle(p)
        \/ \E r \in late : HandleLate(r)
    BY <1>1 DEF Next, vars, ShowBoard, TypeMove, TypeCommand, Quit, LoseRequest, GiveUp,
                LoseAnswer, ReceiveRefusal, Receive
  <2>2. \E r : RequestOK(r) /\ match' = Perform(r).match
    <3>1. ASSUME NEW p \in Player, Handle(p)
          PROVE  \E r : RequestOK(r) /\ match' = Perform(r).match
      <4>1. RequestOK(client[p].request)
        BY <1>1, <3>1 DEF IInv, WaitOK, Handle
      <4>2. match' = Perform(client[p].request).match
        BY <3>1 DEF Handle
      <4>3. QED BY <4>1, <4>2
    <3>2. ASSUME NEW r \in late, HandleLate(r)
          PROVE  RequestOK(r) /\ match' = Perform(r).match
      BY <1>1, <3>2 DEF IInv, LateOK, HandleLate
    <3>3. QED BY <2>1, <3>1, <3>2
  <2>3. PICK r : RequestOK(r) /\ match' = Perform(r).match
    BY <2>2
  <2>4. Accepted(r, match)
    BY <1>1, <2>3, PerformServes DEF Served
  <2>5. QED BY <1>1, <2>3, <2>4, MoverSees
<1>2. IInv /\ [Next]_vars =>
        [match'.sequence # match.sequence =>
         LET mover == match.players[Turn[match.position]]
         IN  /\ board[mover] = match.position
             /\ snapshot[mover].result # NoResult =>
                  snapshot[mover].sequence = Len(match.moves)]_vars
  BY <1>1
<1>3. QED BY <1>2, Invariance, PTL DEF Spec, NoMoveOnStaleBoard
-----------------------------------------------------------------------------
(* What is joined by FlattenSeq. It is a function defined by recursion on  *)
(* the length, so that a property of a longer sequence has to be brought   *)
(* down to the shorter one by a least counterexample.                      *)

\* f joins the first n sequences of t, one after the other.
Joins(f, t, n) ==
    f = [i \in 1 .. n |-> IF i = 1 THEN t[i] ELSE f[i - 1] \o t[i]]

LEMMA JoinExists ==
    ASSUME NEW t, NEW n \in Nat
    PROVE  \E f : Joins(f, t, n)
<1> DEFINE T == {k \in Nat : \E f : Joins(f, t, k)}
<1>1. 0 \in T
  <2>1. Joins([i \in 1 .. 0 |-> t[i]], t, 0)
    BY DEF Joins
  <2>2. QED BY <2>1
<1>2. ASSUME NEW k \in T PROVE k + 1 \in T
  <2>1. PICK f : k \in Nat /\ Joins(f, t, k)
    OBVIOUS
  <2> DEFINE last == IF k = 0 THEN t[1] ELSE f[k] \o t[k + 1]
             g == [i \in 1 .. k + 1 |-> IF i = k + 1 THEN last ELSE f[i]]
  <2>2. ASSUME NEW i \in 1 .. k + 1
        PROVE  g[i] = IF i = 1 THEN t[i] ELSE g[i - 1] \o t[i]
    <3>1. CASE i = k + 1 /\ k = 0
      BY <3>1, <2>1
    <3>2. CASE i = k + 1 /\ k # 0
      <4>1. i - 1 = k /\ k \in 1 .. k + 1 /\ k # k + 1 /\ i # 1
        BY <2>1, <3>2
      <4>2. g[i] = f[k] \o t[k + 1] /\ g[k] = f[k]
        BY <3>2, <4>1
      <4>3. QED BY <3>2, <4>1, <4>2
    <3>3. CASE i # k + 1
      <4>1. i \in 1 .. k /\ (i # 1 => i - 1 \in 1 .. k /\ i - 1 \in 1 .. k + 1 /\ i - 1 # k + 1)
        BY <2>1, <2>2, <3>3
      <4>2. f[i] = IF i = 1 THEN t[i] ELSE f[i - 1] \o t[i]
        BY <2>1, <4>1 DEF Joins
      <4>3. g[i] = f[i] /\ (i # 1 => g[i - 1] = f[i - 1])
        BY <2>2, <3>3, <4>1
      <4>4. QED BY <4>2, <4>3
    <3>4. QED BY <3>1, <3>2, <3>3
  <2>3. Joins(g, t, k + 1)
    <3> HIDE DEF last
    <3>1. g = [i \in 1 .. k + 1 |-> IF i = 1 THEN t[i] ELSE g[i - 1] \o t[i]]
      BY <2>2
    <3>2. QED BY <3>1 DEF Joins
  <2>4. QED BY <2>1, <2>3
<1>3. T = Nat
  <2> HIDE DEF T
  <2>1. T \in SUBSET Nat
    BY DEF T
  <2>2. QED BY <1>1, <1>2, <2>1, InductiveSet
<1>4. QED BY <1>3

\* One more sequence is put behind those before it.
LEMMA JoinsStep ==
    ASSUME NEW t, NEW n \in Nat, NEW f, Joins(f, t, n), NEW i \in 1 .. n
    PROVE  f[i] = IF i = 1 THEN t[i] ELSE f[i - 1] \o t[i]
BY DEF Joins

\* What is joined depends on no later sequence.
LEMMA JoinsAgree ==
    ASSUME NEW t, NEW u, NEW n \in Nat, NEW m \in Nat, n <= m, NEW f, NEW g,
           Joins(f, t, n), Joins(g, u, m), \A i \in 1 .. n : t[i] = u[i]
    PROVE  \A i \in 1 .. n : f[i] = g[i]
<1> DEFINE T == {k \in Nat : k + 1 \in 1 .. n => f[k + 1] = g[k + 1]}
<1>1. \A i \in 1 .. n : /\ f[i] = IF i = 1 THEN t[i] ELSE f[i - 1] \o t[i]
                        /\ g[i] = IF i = 1 THEN u[i] ELSE g[i - 1] \o u[i]
  <2>1. ASSUME NEW i \in 1 .. n PROVE i \in 1 .. m
    BY <2>1
  <2>2. QED BY <2>1, JoinsStep
<1>2. 0 \in T
  BY <1>1
<1>3. ASSUME NEW k \in T PROVE k + 1 \in T
  <2>1. SUFFICES ASSUME k + 2 \in 1 .. n PROVE f[k + 2] = g[k + 2]
    OBVIOUS
  <2>2. k \in Nat /\ k + 1 \in 1 .. n /\ (k + 2) - 1 = k + 1 /\ k + 2 # 1
    BY <2>1
  <2>3. f[k + 1] = g[k + 1]
    BY <2>2
  <2>4. f[k + 2] = f[k + 1] \o t[k + 2] /\ g[k + 2] = g[k + 1] \o u[k + 2]
    BY <1>1, <2>1, <2>2
  <2>5. QED BY <2>1, <2>3, <2>4
<1>4. T = Nat
  <2> HIDE DEF T
  <2>1. T \in SUBSET Nat
    BY DEF T
  <2>2. QED BY <1>2, <1>3, <2>1, InductiveSet
<1>5. ASSUME NEW i \in 1 .. n PROVE f[i] = g[i]
  <2>1. i - 1 \in Nat /\ (i - 1) + 1 = i
    BY <1>5
  <2>2. i - 1 \in T
    BY <1>4, <2>1
  <2>3. QED BY <1>5, <2>1, <2>2
<1>6. QED BY <1>5

\* FlattenSeq reads such a function.
LEMMA FlattenJoins ==
    ASSUME NEW t, Len(t) \in Nat \ {0}
    PROVE  \E f : Joins(f, t, Len(t)) /\ FlattenSeq(t) = f[Len(t)]
<1> DEFINE f == CHOOSE h : h = [i \in 1 .. Len(t) |-> IF i = 1 THEN t[i] ELSE h[i - 1] \o t[i]]
<1>1. FlattenSeq(t) = f[Len(t)]
  BY DEF FlattenSeq
<1>2. \E h : h = [i \in 1 .. Len(t) |-> IF i = 1 THEN t[i] ELSE h[i - 1] \o t[i]]
  BY JoinExists DEF Joins
<1>3. Joins(f, t, Len(t))
  BY <1>2 DEF Joins
<1>4. QED BY <1>1, <1>3

\* What the first k frames of s call for.
Answers(s, k) == FlattenSeq([i \in 1 .. k |-> Replies(s[i])])

\* A frame more calls for its replies, after all that was called for before.
LEMMA AnswersStep ==
    ASSUME NEW s, NEW k \in Nat
    PROVE  /\ Answers(s, 0) = << >>
           /\ Answers(s, k + 1) = IF k = 0 THEN Replies(s[1]) ELSE Answers(s, k) \o Replies(s[k + 1])
<1> DEFINE t(n) == [i \in 1 .. n |-> Replies(s[i])]
<1>0. ASSUME NEW n \in Nat PROVE Len(t(n)) = n
  BY <1>0
<1>1. t(0) = << >>
  OBVIOUS
<1>2. Answers(s, 0) = << >>
  <2>1. Answers(s, 0) = FlattenSeq(<< >>)
    BY <1>1 DEF Answers
  <2>2. QED BY <2>1 DEF FlattenSeq
<1>3. PICK g : Joins(g, t(k + 1), k + 1) /\ Answers(s, k + 1) = g[k + 1]
  <2>1. k + 1 \in Nat \ {0} /\ Len(t(k + 1)) = k + 1
    BY <1>0
  <2> DEFINE more == t(k + 1)
  <2>2. Answers(s, k + 1) = FlattenSeq(more)
    BY DEF Answers
  <2> HIDE DEF more
  <2>3. \E f : Joins(f, more, Len(more)) /\ FlattenSeq(more) = f[Len(more)]
    BY <2>1, FlattenJoins DEF more
  <2>4. QED BY <2>1, <2>2, <2>3 DEF more
<1>4. g[k + 1] = IF k = 0 THEN Replies(s[1]) ELSE g[k] \o Replies(s[k + 1])
  <2> DEFINE more == t(k + 1)
  <2>1. more[k + 1] = Replies(s[k + 1]) /\ k + 1 \in 1 .. k + 1
    OBVIOUS
  <2> HIDE DEF more
  <2>2. Joins(g, more, k + 1)
    BY <1>3 DEF more
  <2>3. g[k + 1] = IF k + 1 = 1 THEN more[k + 1] ELSE g[(k + 1) - 1] \o more[k + 1]
    BY <2>1, <2>2 DEF Joins
  <2>4. (k + 1) - 1 = k /\ (k + 1 = 1 <=> k = 0) /\ (k = 0 => s[k + 1] = s[1])
    OBVIOUS
  <2>5. QED BY <2>1, <2>3, <2>4
<1>5. CASE k = 0
  BY <1>2, <1>3, <1>4, <1>5
<1>6. CASE k # 0
  <2> DEFINE less == t(k)
             more == t(k + 1)
  <2>1. Len(less) = k /\ k \in Nat \ {0} /\ Answers(s, k) = FlattenSeq(less)
    BY <1>0, <1>6 DEF Answers
  <2>2. \A i \in 1 .. k : less[i] = more[i]
    OBVIOUS
  <2> HIDE DEF less, more
  <2>3. PICK f : Joins(f, less, k) /\ Answers(s, k) = f[k]
    BY <2>1, FlattenJoins
  <2>4. Joins(g, more, k + 1) /\ k <= k + 1 /\ k + 1 \in Nat /\ k \in 1 .. k
    BY <1>3, <2>1 DEF more
  <2>5. f[k] = g[k]
    BY <2>2, <2>3, <2>4, JoinsAgree
  <2>6. QED BY <1>2, <1>3, <1>4, <1>6, <2>3, <2>5
<1>7. QED BY <1>5, <1>6

-----------------------------------------------------------------------------
(* The frames of a connection. RepliesInOrder does not say which of the    *)
(* frames sent are still to be read, so that it is not inductive: Unread   *)
(* and Caught tie what is written to what the goroutine has read so far.   *)

SentFrame == [kind : Kind, n : Nat] \cup [kind : {"join"}, n : Nat, names : PlayerID]
WrittenFrame == [kind : {"reply", "pong", "close"}, n : Nat]

TypeOK ==
    /\ connected \in [PlayerID -> BOOLEAN]
    /\ server \in [Conn -> {"new", "serving", "leaving", "gone"}]
    /\ peer \in [Conn -> BOOLEAN]
    /\ inbox \in [Conn -> Seq(SentFrame)]
    /\ outbox \in [Conn -> Seq(WrittenFrame)]
    /\ sent \in [Conn -> Seq(SentFrame)]

\* How many of its frames a connection has read.
Read(c) == Len(sent[c]) - Len(inbox[c])

\* What is to be read is the rest of what was sent.
Unread(c) ==
    /\ Read(c) >= 0
    /\ \A i \in 1 .. Len(inbox[c]) : inbox[c][i] = sent[c][Read(c) + i]

\* Only a connection that is served has a peer that can still send.
Quiet(c) == server[c] # "serving" => ~peer[c]

\* Nothing was said on a connection before it is upgraded.
Fresh(c) == server[c] = "new" => sent[c] = << >> /\ inbox[c] = << >> /\ outbox[c] = << >>

\* While a connection is served, everything read is answered, and the close
\* frame is not written.
Caught(c) ==
    server[c] = "serving" =>
        /\ outbox[c] = Answers(sent[c], Read(c))
        /\ \A i \in 1 .. Len(outbox[c]) : outbox[c][i].kind # "close"

\* RepliesInOrder for one connection.
Ordered(c) ==
    /\ \A i \in 1 .. Len(outbox[c]) : outbox[c][i].kind = "close" => i = Len(outbox[c])
    /\ \E k \in 0 .. Len(sent[c]) : outbox[c] = Answers(sent[c], k)

ConnOK(c) == Unread(c) /\ Quiet(c) /\ Fresh(c) /\ Caught(c) /\ Ordered(c)

SocketInv == TypeOK /\ \A c \in Conn : ConnOK(c)

\* Nothing is sent yet.
LEMMA SocketInitHolds == SocketInit => SocketInv
<1> SUFFICES ASSUME SocketInit PROVE SocketInv
  OBVIOUS
<1>1. TypeOK
  <2>1. << >> \in Seq(SentFrame)
        /\ << >> \in Seq(WrittenFrame)
    OBVIOUS
  <2>2. QED BY <2>1 DEF SocketInit, TypeOK
<1>2. ASSUME NEW c \in Conn PROVE ConnOK(c)
  <2>1. server[c] = "new" /\ ~peer[c] /\ sent[c] = << >> /\ inbox[c] = << >> /\ outbox[c] = << >>
    BY DEF SocketInit
  <2>2. Unread(c) /\ Quiet(c) /\ Fresh(c) /\ Caught(c)
    BY <2>1 DEF Unread, Read, Quiet, Fresh, Caught
  <2>3. outbox[c] = Answers(sent[c], 0) /\ 0 \in 0 .. Len(sent[c])
    BY <2>1, AnswersStep
  <2>4. Ordered(c)
    BY <2>1, <2>3 DEF Ordered
  <2>5. QED BY <2>2, <2>4 DEF ConnOK
<1>3. QED BY <1>1, <1>2 DEF SocketInv

\* Connecting or disconnecting a player leaves a session state for each.
LEMMA MarkType ==
    ASSUME TypeOK, NEW p \in PlayerID \cup {Anonymous}, NEW now \in BOOLEAN
    PROVE  Mark(p, now) \in [PlayerID -> BOOLEAN]
BY DEF TypeOK, Mark

LEMMA HandledType ==
    ASSUME TypeOK, NEW frame \in SentFrame
    PROVE  Handled(frame) \in [PlayerID -> BOOLEAN]
<1>1. CASE frame.kind = "join"
  <2>1. frame.names \in PlayerID
    BY <1>1 DEF SentFrame, Kind
  <2>2. QED BY <1>1, <2>1, MarkType DEF Handled
<1>2. QED BY <1>1 DEF Handled, TypeOK

\* A connection of which nothing changes.
LEMMA ConnSame ==
    ASSUME NEW c \in Conn, ConnOK(c), server'[c] = server[c], peer'[c] = peer[c],
           inbox'[c] = inbox[c], outbox'[c] = outbox[c], sent'[c] = sent[c]
    PROVE  ConnOK(c)'
<1>1. Unread(c)' /\ Ordered(c)'
  BY DEF ConnOK, Unread, Ordered, Read, Answers
<1>2. Quiet(c)' /\ Fresh(c)'
  BY DEF ConnOK, Quiet, Fresh
<1>3. Caught(c)'
  BY DEF ConnOK, Caught, Read, Answers
<1>4. QED BY <1>1, <1>2, <1>3 DEF ConnOK

\* The frame of an action of c alone.
LEMMA OthersSame ==
    ASSUME SocketInv, NEW c \in Conn, ConnOK(c)',
           \A d \in Conn \ {c} : /\ server'[d] = server[d] /\ peer'[d] = peer[d]
                                 /\ inbox'[d] = inbox[d] /\ outbox'[d] = outbox[d]
                                 /\ sent'[d] = sent[d]
    PROVE  \A d \in Conn : ConnOK(d)'
<1>1. ASSUME NEW d \in Conn \ {c} PROVE ConnOK(d)'
  BY <1>1, ConnSame DEF SocketInv
<1>2. QED BY <1>1

\* A goroutine leaves, or its peer goes: what was said stays as it was.
LEMMA LeavesOrdered ==
    ASSUME NEW c \in Conn, ConnOK(c), outbox'[c] = outbox[c], sent'[c] = sent[c],
           inbox'[c] = inbox[c], peer'[c] \in BOOLEAN, peer'[c] => peer[c],
           \/ server'[c] = server[c]
           \/ server'[c] \in {"leaving", "gone"} /\ ~peer[c]
    PROVE  ConnOK(c)'
<1>1. Unread(c)' /\ Ordered(c)'
  BY DEF ConnOK, Unread, Ordered, Read, Answers
<1>2. Quiet(c)' /\ Fresh(c)' /\ Caught(c)'
  BY DEF ConnOK, Quiet, Fresh, Caught, Read, Answers
<1>3. QED BY <1>1, <1>2 DEF ConnOK

\* The peer sends a frame: a longer rest to read.
LEMMA SendKeeps ==
    ASSUME SocketInv, NEW c \in Conn, Send(c)
    PROVE  SocketInv'
<1>0. PICK frame \in {Frame(kind, Len(sent[c]) + 1) : kind \in Kind}
                       \cup {Request(Len(sent[c]) + 1, p) : p \in PlayerID} :
        /\ sent' = [sent EXCEPT ![c] = Append(@, frame)]
        /\ inbox' = [inbox EXCEPT ![c] = Append(@, frame)]
  BY DEF Send
<1>1. /\ sent' = [sent EXCEPT ![c] = Append(@, frame)]
      /\ inbox' = [inbox EXCEPT ![c] = Append(@, frame)]
      /\ UNCHANGED <<connected, server, peer, outbox>> /\ peer[c]
  BY <1>0 DEF Send
<1>2. frame \in SentFrame /\ TypeOK
  <2>1. TypeOK /\ sent[c] \in Seq(SentFrame)
    BY DEF SocketInv, TypeOK
  <2>2. Len(sent[c]) + 1 \in Nat
    BY <2>1
  <2> DEFINE place == Len(sent[c]) + 1
  <2> HIDE DEF place
  <2>3. /\ \A kind \in Kind : Frame(kind, place) \in SentFrame
        /\ \A p \in PlayerID : Request(place, p) \in SentFrame
    BY <2>2 DEF Frame, Request, SentFrame, place
  <2>4. frame \in {Frame(kind, place) : kind \in Kind} \cup {Request(place, p) : p \in PlayerID}
    BY <1>0 DEF place
  <2>5. QED BY <2>1, <2>3, <2>4
<1>3. /\ sent[c] \in Seq(SentFrame) /\ inbox[c] \in Seq(SentFrame)
      /\ sent'[c] = Append(sent[c], frame) /\ inbox'[c] = Append(inbox[c], frame)
  BY <1>1, <1>2 DEF TypeOK
<1>4. TypeOK'
  <2>1. Append(sent[c], frame) \in Seq(SentFrame) /\ Append(inbox[c], frame) \in Seq(SentFrame)
    BY <1>2, <1>3
  <2>2. QED BY <1>1, <1>2, <2>1 DEF TypeOK
<1>5. /\ Len(sent'[c]) = Len(sent[c]) + 1 /\ Len(inbox'[c]) = Len(inbox[c]) + 1
      /\ \A i \in 1 .. Len(sent[c]) : sent'[c][i] = sent[c][i]
      /\ \A i \in 1 .. Len(inbox[c]) : inbox'[c][i] = inbox[c][i]
      /\ sent'[c][Len(sent[c]) + 1] = frame /\ inbox'[c][Len(inbox[c]) + 1] = frame
      /\ Len(sent[c]) \in Nat /\ Len(inbox[c]) \in Nat
  BY <1>3
<1>6. ConnOK(c) /\ server'[c] = server[c] /\ peer'[c] = peer[c] /\ outbox'[c] = outbox[c]
      /\ server[c] = "serving"
  BY <1>1 DEF SocketInv, ConnOK, Quiet
<1>7. Read(c)' = Read(c) /\ Read(c) \in 0 .. Len(sent[c]) /\ Read(c) = Len(sent[c]) - Len(inbox[c])
  <2>1. Read(c) >= 0
    BY <1>6 DEF ConnOK, Unread
  <2> DEFINE now == Len(sent[c])
             rest == Len(inbox[c])
  <2>2. now \in Nat /\ rest \in Nat /\ Len(sent'[c]) = now + 1 /\ Len(inbox'[c]) = rest + 1
    BY <1>5
  <2>3. Read(c) = now - rest /\ Read(c)' = Len(sent'[c]) - Len(inbox'[c])
    BY DEF Read
  <2> HIDE DEF now, rest
  <2>4. Read(c)' = Read(c) /\ Read(c) \in 0 .. now /\ Read(c) = now - rest
    BY <2>1, <2>2, <2>3
  <2>5. QED BY <2>4 DEF now, rest
<1>8. ASSUME NEW k \in 0 .. Len(sent[c])
      PROVE  Answers(sent'[c], k) = Answers(sent[c], k)
  <2>1. \A i \in 1 .. k : sent'[c][i] = sent[c][i]
    BY <1>5
  <2>2. [i \in 1 .. k |-> Replies(sent'[c][i])] = [i \in 1 .. k |-> Replies(sent[c][i])]
    BY <2>1
  <2>3. QED BY <2>2 DEF Answers
<1>9. Unread(c)'
  <2>1. ASSUME NEW i \in 1 .. Len(inbox[c]) + 1
        PROVE  inbox'[c][i] = sent'[c][Read(c) + i]
    <3> DEFINE now == Len(sent[c])
               rest == Len(inbox[c])
    <3> HIDE DEF now, rest
    <3>0. now \in Nat /\ rest \in Nat /\ Read(c) \in Nat /\ Read(c) = now - rest /\ i \in 1 .. rest + 1
      BY <1>5, <1>7, <2>1 DEF now, rest
    <3>1. CASE i = rest + 1
      <4>1. Read(c) + i = now + 1
        BY <3>0, <3>1
      <4>2. QED BY <1>5, <3>1, <4>1 DEF now, rest
    <3>2. CASE i # rest + 1
      <4>1. i \in 1 .. rest /\ Read(c) + i \in 1 .. now
        BY <3>0, <3>2
      <4>2. inbox[c][i] = sent[c][Read(c) + i]
        BY <1>6, <4>1 DEF ConnOK, Unread, rest
      <4>3. QED BY <1>5, <4>1, <4>2 DEF now, rest
    <3>3. QED BY <3>1, <3>2
  <2>2. \A i \in 1 .. Len(inbox'[c]) : inbox'[c][i] = sent'[c][Read(c)' + i]
    <3>1. Len(inbox'[c]) = Len(inbox[c]) + 1 /\ Read(c)' = Read(c)
      BY <1>5, <1>7
    <3>2. QED BY <2>1, <3>1
  <2>3. Read(c)' >= 0
    BY <1>7
  <2>4. QED BY <2>2, <2>3 DEF Unread
<1>10. Quiet(c)' /\ Fresh(c)'
  BY <1>6 DEF ConnOK, Quiet, Fresh
<1>11. Caught(c)'
  <2>1. Answers(sent[c], Read(c))' = Answers(sent'[c], Read(c))
    BY <1>7
  <2>2. Answers(sent[c], Read(c))' = Answers(sent[c], Read(c))
    BY <1>7, <1>8, <2>1
  <2>3. QED BY <1>6, <2>2 DEF ConnOK, Caught
<1>12. Ordered(c)'
  <2>1. PICK k \in 0 .. Len(sent[c]) : outbox[c] = Answers(sent[c], k)
    BY <1>6 DEF ConnOK, Ordered
  <2>2. k \in 0 .. Len(sent'[c]) /\ outbox'[c] = Answers(sent'[c], k)
    BY <1>5, <1>6, <1>8, <2>1
  <2>3. (\E j \in 0 .. Len(sent[c]) : outbox[c] = Answers(sent[c], j))'
    BY <2>2
  <2>4. QED BY <1>6, <2>3 DEF ConnOK, Ordered
<1>13. ConnOK(c)'
  BY <1>9, <1>10, <1>11, <1>12 DEF ConnOK
<1>14. \A d \in Conn : ConnOK(d)'
  BY <1>1, <1>2, <1>13, OthersSame DEF TypeOK
<1>15. QED BY <1>4, <1>14 DEF SocketInv

\* The peer goes, or the goroutine leaves.
LEMMA GoingKeeps ==
    ASSUME SocketInv, NEW c \in Conn, Hangup(c) \/ UpgradeFails(c) \/ ReadFails(c) \/ Leave(c)
    PROVE  SocketInv'
<1>1. TypeOK /\ ConnOK(c)
  BY DEF SocketInv
<1>2. /\ UNCHANGED <<inbox, outbox, sent>>
      /\ \A d \in Conn \ {c} : server'[d] = server[d] /\ peer'[d] = peer[d]
      /\ peer'[c] \in BOOLEAN /\ (peer'[c] => peer[c])
      /\ \/ server'[c] = server[c]
         \/ server'[c] \in {"leaving", "gone"} /\ ~peer[c]
  <2>1. CASE Hangup(c)
    BY <1>1, <2>1 DEF Hangup, TypeOK
  <2>2. CASE UpgradeFails(c)
    BY <1>1, <2>2 DEF UpgradeFails, TypeOK, ConnOK, Quiet
  <2>3. CASE ReadFails(c)
    BY <1>1, <2>3 DEF ReadFails, TypeOK
  <2>4. CASE Leave(c)
    BY <1>1, <2>4 DEF Leave, TypeOK, ConnOK, Quiet
  <2>5. QED BY <2>1, <2>2, <2>3, <2>4
<1>3. TypeOK'
  <2>1. PlayerOf[c] \in PlayerID \cup {Anonymous}
    BY ConnectionAssumption
  <2>2. connected' \in [PlayerID -> BOOLEAN]
    <3>1. \A now \in BOOLEAN : Mark(PlayerOf[c], now) \in [PlayerID -> BOOLEAN]
      BY <1>1, <2>1, MarkType
    <3>2. \/ connected' = connected
          \/ \E now \in BOOLEAN : connected' = Mark(PlayerOf[c], now)
      BY DEF Hangup, UpgradeFails, ReadFails, Leave
    <3>3. QED BY <1>1, <3>1, <3>2 DEF TypeOK
  <2>3. QED BY <1>1, <2>2 DEF Hangup, UpgradeFails, ReadFails, Leave, TypeOK
<1>4. ConnOK(c)'
  BY <1>1, <1>2, LeavesOrdered
<1>5. \A d \in Conn : ConnOK(d)'
  BY <1>2, <1>4, OthersSame
<1>6. QED BY <1>3, <1>5 DEF SocketInv

\* A connection is upgraded: nothing is read, and nothing is to be answered.
LEMMA UpgradeKeeps ==
    ASSUME SocketInv, NEW c \in Conn, Upgrade(c)
    PROVE  SocketInv'
<1>1. TypeOK /\ ConnOK(c) /\ sent[c] = << >> /\ inbox[c] = << >> /\ outbox[c] = << >>
  BY DEF SocketInv, ConnOK, Fresh, Upgrade
<1>2. /\ UNCHANGED <<inbox, outbox, sent>> /\ server'[c] = "serving"
      /\ \A d \in Conn \ {c} : server'[d] = server[d] /\ peer'[d] = peer[d]
  BY <1>1 DEF Upgrade, TypeOK
<1>3. TypeOK'
  <2>1. connected' \in [PlayerID -> BOOLEAN]
    BY <1>1, MarkType, ConnectionAssumption DEF Upgrade
  <2>2. QED BY <1>1, <2>1 DEF Upgrade, TypeOK
<1>4. Read(c)' = 0 /\ Answers(sent'[c], 0) = << >>
  BY <1>1, <1>2, AnswersStep DEF Read
<1>5. Unread(c)' /\ Quiet(c)' /\ Fresh(c)' /\ Caught(c)'
  BY <1>1, <1>2, <1>4 DEF Unread, Quiet, Fresh, Caught
<1>6. Ordered(c)'
  BY <1>1, <1>2 DEF ConnOK, Ordered, Answers
<1>7. ConnOK(c)'
  BY <1>5, <1>6 DEF ConnOK
<1>8. \A d \in Conn : ConnOK(d)'
  BY <1>2, <1>7, OthersSame
<1>9. QED BY <1>3, <1>8 DEF SocketInv

\* A frame is answered by one frame at most, and by a close frame only when
\* the goroutine leaves.
LEMMA RepliesType ==
    ASSUME NEW frame \in SentFrame
    PROVE  /\ Replies(frame) \in Seq(WrittenFrame)
           /\ Len(Replies(frame)) <= 1
           /\ ~Ends(frame) => \A i \in 1 .. Len(Replies(frame)) : Replies(frame)[i].kind # "close"
<1>1. frame.kind \in Kind \cup {"join"} /\ frame.n \in Nat
  BY DEF SentFrame
<1>2. ASSUME NEW kind \in {"reply", "pong", "close"}
      PROVE  /\ <<Frame(kind, frame.n)>> \in Seq(WrittenFrame)
             /\ Len(<<Frame(kind, frame.n)>>) = 1
             /\ <<Frame(kind, frame.n)>>[1].kind = kind
  <2>1. Frame(kind, frame.n) \in WrittenFrame /\ Frame(kind, frame.n).kind = kind
    BY <1>1 DEF Frame, WrittenFrame
  <2>2. QED BY <2>1
<1>3. CASE frame.kind \in {"message", "join"}
  <2>1. Replies(frame) = <<Frame("reply", frame.n)>>
    BY <1>3 DEF Replies
  <2>2. QED BY <1>2, <2>1
<1>4. CASE frame.kind = "ping"
  <2>1. Replies(frame) = <<Frame("pong", frame.n)>>
    BY <1>4 DEF Replies
  <2>2. QED BY <1>2, <2>1
<1>5. CASE frame.kind \in {"close", "bad"}
  <2>1. Replies(frame) = <<Frame("close", frame.n)>> /\ Ends(frame)
    BY <1>5 DEF Replies, Ends
  <2>2. QED BY <1>2, <2>1
<1>6. CASE frame.kind \in {"pong", "huge"}
  <2>1. Replies(frame) = << >>
    BY <1>6 DEF Replies
  <2>2. QED BY <2>1
<1>7. QED BY <1>1, <1>3, <1>4, <1>5, <1>6 DEF Kind

\* Reading a frame leaves the rest of what was sent to read.
LEMMA ReadOn ==
    ASSUME TypeOK, NEW c \in Conn, Unread(c), inbox[c] # << >>,
           inbox' = [inbox EXCEPT ![c] = Tail(@)], sent' = sent
    PROVE  /\ Read(c) \in 0 .. Len(sent[c]) - 1
           /\ Read(c)' = Read(c) + 1
           /\ Head(inbox[c]) = sent[c][Read(c) + 1]
           /\ Head(inbox[c]) \in SentFrame
           /\ inbox' \in [Conn -> Seq(SentFrame)]
           /\ Unread(c)'
<1> DEFINE all == Len(sent[c])
           rest == Len(inbox[c])
<1>1. /\ inbox[c] \in Seq(SentFrame) /\ sent[c] \in Seq(SentFrame)
      /\ inbox'[c] = Tail(inbox[c]) /\ sent'[c] = sent[c]
  BY DEF TypeOK
<1>2. /\ Tail(inbox[c]) \in Seq(SentFrame) /\ rest \in Nat \ {0} /\ all \in Nat
      /\ Len(Tail(inbox[c])) = rest - 1
      /\ \A i \in 1 .. rest - 1 : Tail(inbox[c])[i] = inbox[c][i + 1]
      /\ Head(inbox[c]) = inbox[c][1] /\ inbox[c][1] \in SentFrame
  BY <1>1
<1>3. /\ Read(c) = all - rest /\ Read(c) >= 0 /\ Read(c)' = all - (rest - 1)
      /\ \A i \in 1 .. rest : inbox[c][i] = sent[c][Read(c) + i]
  BY <1>1, <1>2 DEF Read, Unread
<1> HIDE DEF all, rest
<1>4. /\ Read(c) \in 0 .. all - 1 /\ Read(c)' = Read(c) + 1 /\ 1 \in 1 .. rest
  BY <1>2, <1>3
<1>5. Head(inbox[c]) = sent[c][Read(c) + 1] /\ Head(inbox[c]) \in SentFrame
  BY <1>2, <1>3, <1>4
<1>6. inbox' \in [Conn -> Seq(SentFrame)]
  BY <1>2 DEF TypeOK
<1>7. Unread(c)'
  <2>1. ASSUME NEW i \in 1 .. rest - 1 PROVE Tail(inbox[c])[i] = sent[c][(Read(c) + 1) + i]
    <3>1. i + 1 \in 1 .. rest /\ Read(c) + (i + 1) = (Read(c) + 1) + i
      BY <1>2, <1>4, <2>1
    <3>2. Tail(inbox[c])[i] = inbox[c][i + 1]
      BY <1>2
    <3>3. QED BY <1>3, <3>1, <3>2
  <2>2. \A i \in 1 .. Len(inbox'[c]) : inbox'[c][i] = sent'[c][Read(c)' + i]
    <3>1. Len(inbox'[c]) = rest - 1 /\ inbox'[c] = Tail(inbox[c]) /\ sent'[c] = sent[c]
      BY <1>1, <1>2
    <3>2. QED BY <1>4, <2>1, <3>1
  <2>3. Read(c)' >= 0
    BY <1>4
  <2>4. QED BY <2>2, <2>3 DEF Unread
<1>8. QED BY <1>4, <1>5, <1>6, <1>7 DEF all

\* A frame is read and answered.
LEMMA ServeKeeps ==
    ASSUME SocketInv, NEW c \in Conn, Serve(c)
    PROVE  SocketInv'
<1> DEFINE frame == Head(inbox[c])
<1>1. /\ server[c] = "serving" /\ inbox[c] # << >>
      /\ inbox' = [inbox EXCEPT ![c] = Tail(@)]
      /\ outbox' = [outbox EXCEPT ![c] = @ \o Replies(frame)]
      /\ server' = [server EXCEPT ![c] = IF Ends(frame) THEN "leaving" ELSE @]
      /\ peer' = [peer EXCEPT ![c] = @ /\ ~Ends(frame)]
      /\ connected' = Handled(frame)
      /\ UNCHANGED sent /\ TypeOK /\ ConnOK(c)
  BY DEF Serve, SocketInv
<1>2. /\ Read(c) \in 0 .. Len(sent[c]) - 1
      /\ Read(c)' = Read(c) + 1
      /\ frame = sent[c][Read(c) + 1]
      /\ frame \in SentFrame
      /\ inbox' \in [Conn -> Seq(SentFrame)]
      /\ Unread(c)'
  BY <1>1, ReadOn DEF ConnOK
<1> DEFINE last == Replies(frame)
           n == Read(c)
<1> HIDE DEF frame
<1>3. /\ last \in Seq(WrittenFrame) /\ Len(last) \in {0, 1}
      /\ ~Ends(frame) => \A i \in 1 .. Len(last) : last[i].kind # "close"
  <2>1. Len(last) \in Nat
    BY <1>2, RepliesType
  <2>2. Len(last) <= 1
    BY <1>2, RepliesType
  <2>3. /\ last \in Seq(WrittenFrame)
        /\ ~Ends(frame) => \A i \in 1 .. Len(last) : last[i].kind # "close"
    BY <1>2, RepliesType
  <2> HIDE DEF last
  <2>4. QED BY <2>1, <2>2, <2>3
<1>4. /\ outbox[c] = Answers(sent[c], n) /\ outbox[c] \in Seq(WrittenFrame)
      /\ \A i \in 1 .. Len(outbox[c]) : outbox[c][i].kind # "close"
      /\ outbox'[c] = outbox[c] \o last /\ sent'[c] = sent[c]
      /\ Len(sent[c]) \in Nat
  BY <1>1 DEF ConnOK, Caught, TypeOK
<1>5. /\ server'[c] = IF Ends(frame) THEN "leaving" ELSE "serving"
      /\ (peer'[c] <=> peer[c] /\ ~Ends(frame))
      /\ \A d \in Conn \ {c} : /\ server'[d] = server[d] /\ peer'[d] = peer[d]
                               /\ inbox'[d] = inbox[d] /\ outbox'[d] = outbox[d]
                               /\ sent'[d] = sent[d]
  BY <1>1 DEF TypeOK
<1> HIDE DEF last
<1>6. TypeOK'
  <2>1. outbox' \in [Conn -> Seq(WrittenFrame)]
    <3>1. outbox[c] \o last \in Seq(WrittenFrame)
      BY <1>3, <1>4
    <3>2. outbox' = [outbox EXCEPT ![c] = outbox[c] \o last]
      BY <1>1 DEF last
    <3>3. QED BY <1>1, <3>1, <3>2 DEF TypeOK
  <2>2. server' \in [Conn -> {"new", "serving", "leaving", "gone"}]
    BY <1>1 DEF TypeOK
  <2>3. peer' \in [Conn -> BOOLEAN]
    <3>1. peer \in [Conn -> BOOLEAN]
      BY <1>1 DEF TypeOK
    <3>2. (peer[c] /\ ~Ends(frame)) \in BOOLEAN
      OBVIOUS
    <3> DEFINE open == peer[c] /\ ~Ends(frame)
    <3>3. peer' = [peer EXCEPT ![c] = open] /\ open \in BOOLEAN
      BY <1>1, <3>2
    <3> HIDE DEF open
    <3>4. QED BY <3>1, <3>3
  <2>4. connected' \in [PlayerID -> BOOLEAN]
    BY <1>1, <1>2, HandledType
  <2>5. QED BY <1>1, <1>2, <2>1, <2>2, <2>3, <2>4 DEF TypeOK
<1>7. outbox'[c] = Answers(sent[c], n + 1)
  <2>1. Answers(sent[c], n + 1) =
          IF n = 0 THEN Replies(sent[c][1]) ELSE Answers(sent[c], n) \o Replies(sent[c][n + 1])
    BY <1>2, AnswersStep
  <2>2. CASE n = 0
    <3>1. outbox[c] = << >>
      BY <1>4, <2>2, AnswersStep
    <3>2. outbox'[c] = last
      BY <1>3, <1>4, <3>1
    <3>3. QED BY <1>2, <2>1, <2>2, <3>2 DEF last
  <2>3. CASE n # 0
    BY <1>2, <1>4, <2>1, <2>3 DEF last
  <2>4. QED BY <2>2, <2>3
<1>8. /\ Len(outbox'[c]) = Len(outbox[c]) + Len(last) /\ Len(outbox[c]) \in Nat
      /\ \A i \in 1 .. Len(outbox[c]) : outbox'[c][i] = outbox[c][i]
      /\ \A i \in 1 .. Len(outbox'[c]) :
           i \notin 1 .. Len(outbox[c]) => /\ outbox'[c][i] = last[i - Len(outbox[c])]
                                           /\ i - Len(outbox[c]) \in 1 .. Len(last)
  BY <1>3, <1>4
<1>9. Ordered(c)'
  <2>1. ASSUME NEW i \in 1 .. Len(outbox'[c]), outbox'[c][i].kind = "close"
        PROVE  i = Len(outbox'[c])
    <3>1. i \notin 1 .. Len(outbox[c])
      BY <1>4, <1>8, <2>1
    <3> DEFINE before == Len(outbox[c])
               more == Len(last)
               now == Len(outbox'[c])
    <3>2. /\ i - before \in 1 .. more /\ i \in 1 .. now
          /\ now = before + more /\ before \in Nat /\ more \in {0, 1}
      BY <1>3, <1>8, <2>1, <3>1
    <3> HIDE DEF before, more, now
    <3>3. i = now
      BY <3>2
    <3>4. QED BY <3>3 DEF now
  <2>2. n + 1 \in 0 .. Len(sent[c]) /\ outbox'[c] = Answers(sent'[c], n + 1) /\ sent'[c] = sent[c]
    BY <1>2, <1>4, <1>7
  <2>3. \E k \in 0 .. Len(sent'[c]) : outbox'[c] = Answers(sent'[c], k)
    BY <2>2
  <2>4. (\E k \in 0 .. Len(sent[c]) : outbox[c] = Answers(sent[c], k))'
    BY <2>3 DEF Answers
  <2>5. QED BY <2>1, <2>4 DEF Ordered
<1>10. Caught(c)'
  <2>1. SUFFICES ASSUME ~Ends(frame)
                 PROVE  /\ outbox'[c] = Answers(sent'[c], Read(c)')
                        /\ \A i \in 1 .. Len(outbox'[c]) : outbox'[c][i].kind # "close"
    BY <1>5 DEF Caught, Answers
  <2>2. outbox'[c] = Answers(sent'[c], Read(c)')
    BY <1>2, <1>4, <1>7
  <2>3. QED BY <1>3, <1>4, <1>8, <2>1, <2>2
<1>11. Quiet(c)' /\ Fresh(c)'
  BY <1>5 DEF Quiet, Fresh
<1>12. ConnOK(c)'
  BY <1>2, <1>9, <1>10, <1>11 DEF ConnOK
<1>13. \A d \in Conn : ConnOK(d)'
  BY <1>5, <1>12, OthersSame
<1>14. QED BY <1>6, <1>13 DEF SocketInv

\* A frame is read, and its reply cannot be written: the goroutine leaves.
LEMMA WriteFailsKeeps ==
    ASSUME SocketInv, NEW c \in Conn, WriteFails(c)
    PROVE  SocketInv'
<1>1. /\ server[c] = "serving" /\ inbox[c] # << >>
      /\ inbox' = [inbox EXCEPT ![c] = Tail(@)] /\ server' = [server EXCEPT ![c] = "leaving"]
      /\ peer' = [peer EXCEPT ![c] = FALSE] /\ connected' = Handled(Head(inbox[c]))
      /\ UNCHANGED <<outbox, sent>> /\ TypeOK /\ ConnOK(c)
  BY DEF WriteFails, SocketInv
<1>2. inbox' \in [Conn -> Seq(SentFrame)] /\ Unread(c)' /\ Head(inbox[c]) \in SentFrame
  BY <1>1, ReadOn DEF ConnOK
<1>3. /\ server'[c] = "leaving" /\ ~peer'[c]
      /\ \A d \in Conn \ {c} : server'[d] = server[d] /\ inbox'[d] = inbox[d] /\ peer'[d] = peer[d]
  BY <1>1 DEF TypeOK
<1>4. TypeOK'
  <2>1. connected' \in [PlayerID -> BOOLEAN]
    BY <1>1, <1>2, HandledType
  <2>2. QED BY <1>1, <1>2, <2>1 DEF TypeOK
<1>5. Ordered(c)' /\ Quiet(c)' /\ Fresh(c)' /\ Caught(c)'
  BY <1>1, <1>3 DEF ConnOK, Ordered, Answers, Quiet, Fresh, Caught
<1>6. ConnOK(c)'
  BY <1>2, <1>5 DEF ConnOK
<1>7. \A d \in Conn : ConnOK(d)'
  BY <1>1, <1>3, <1>6, OthersSame
<1>8. QED BY <1>4, <1>7 DEF SocketInv

\* Every step keeps the frames of every connection in order.
LEMMA SocketStepHolds == SocketInv /\ [SocketNext]_socketVars => SocketInv'
<1> SUFFICES ASSUME SocketInv, [SocketNext]_socketVars PROVE SocketInv'
  OBVIOUS
<1>1. CASE UNCHANGED socketVars
  <2>1. ASSUME NEW c \in Conn PROVE ConnOK(c)'
    BY <1>1, ConnSame DEF SocketInv, socketVars
  <2>2. TypeOK'
    BY <1>1 DEF SocketInv, TypeOK, socketVars
  <2>3. QED BY <2>1, <2>2 DEF SocketInv
<1>2. CASE SocketNext
  BY <1>2, SendKeeps, GoingKeeps, UpgradeKeeps, ServeKeeps, WriteFailsKeeps DEF SocketNext, ServerStep
<1>3. QED BY <1>1, <1>2

\* ServeHTTP's loop: on every connection, whatever the peer sends and whenever
\* it goes, what was written is what a beginning of the frames sent calls for,
\* and a close frame is the last.
THEOREM RepliesStayInOrder == SocketSpec => []RepliesInOrder
<1>1. SocketInv => RepliesInOrder
  <2>1. SUFFICES ASSUME SocketInv, NEW c \in Conn
                 PROVE  /\ \A i \in 1 .. Len(outbox[c]) :
                             outbox[c][i].kind = "close" => i = Len(outbox[c])
                        /\ \E k \in 0 .. Len(sent[c]) :
                             outbox[c] = FlattenSeq([i \in 1 .. k |-> Replies(sent[c][i])])
    BY DEF RepliesInOrder, NothingAfterClose
  <2>2. QED BY <2>1 DEF SocketInv, ConnOK, Ordered, Answers
<1>2. QED
  BY <1>1, SocketInitHolds, SocketStepHolds, PTL DEF SocketSpec

=============================================================================
