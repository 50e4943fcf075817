--------------------------- MODULE MatchOpsProofs ---------------------------
(***************************************************************************)
(* Lemmas about the operations of MatchOps: what each of them returns,     *)
(* changes and preserves, for every match record.  Match, MatchServer and  *)
(* DurableMatch are proved from them.                                      *)
(***************************************************************************)
EXTENDS MatchOps, TLAPS, SequenceTheorems, WellFoundedInduction

\* Each side has one other side.
LEMMA OtherColor == \A c \in Color : Other(c) \in Color /\ Other(c) # c
BY DEF Color, Other

\* A win is a decided outcome and no draw.
LEMMA WinIsResult == \A c \in Color : WinFor(c) \in Result \ {"*", Drawn}
BY DEF WinFor, Result, Drawn, Color

\* The board decides one of the outcomes, or none.
LEMMA PositionResultType == \A p \in Position : PositionResult(p) \in Result
BY GameAssumption, OtherColor, WinIsResult DEF PositionResult, Drawn, Result

\* A new match is a match record.
LEMMA NewMatchType == NewMatch \in MatchRecord
BY GameAssumption, ClockAssumption, PositionResultType
DEF NewMatch, MatchRecord, Seat

\* Settling the clock leaves a match record.
LEMMA SyncType ==
    ASSUME NEW m \in MatchRecord, NEW t \in Int
    PROVE  SyncClock(m, t) \in MatchRecord
<1> DEFINE turn == Turn[m.position]
           left == m.remaining[turn] - (t - m.startedAt)
<1>1. turn \in Color /\ left \in Int
  BY GameAssumption DEF MatchRecord
<1>2. left > 0 => [m.remaining EXCEPT ![turn] = left] \in [Color -> Nat]
  BY <1>1 DEF MatchRecord
<1>3. [m.remaining EXCEPT ![turn] = 0] \in [Color -> Nat]
  BY <1>1 DEF MatchRecord
<1>4. WinFor(Other(turn)) \in Result
  BY <1>1, OtherColor, WinIsResult
<1> HIDE DEF turn, left
<1>5. CASE ~Thinking(m, t)
  BY <1>5 DEF SyncClock
<1>6. CASE Thinking(m, t) /\ left > 0
  BY <1>6, <1>2 DEF SyncClock, MatchRecord, turn, left
<1>7. CASE Thinking(m, t) /\ ~(left > 0)
  BY <1>7, <1>3, <1>4 DEF SyncClock, MatchRecord, turn, left
<1>8. QED BY <1>5, <1>6, <1>7

\* Starting the clock leaves a match record.
LEMMA StartType ==
    ASSUME NEW m \in MatchRecord, NEW t \in Int
    PROVE  StartClock(m, t) \in MatchRecord
BY DEF StartClock, MatchRecord

\* Ending a move on the clock leaves a match record.
LEMMA FinishType ==
    ASSUME NEW m \in MatchRecord, NEW c \in Color, NEW t \in Int
    PROVE  FinishMoveClock(m, c, t) \in MatchRecord
<1> DEFINE credited == [m.remaining EXCEPT ![c] = m.remaining[c] + Increment]
<1>1. credited \in [Color -> Nat]
  BY ClockAssumption DEF MatchRecord
<1> HIDE DEF credited
<1>2. QED
  BY <1>1 DEF FinishMoveClock, MatchRecord, credited

\* Taking a seat leaves a match record.
LEMMA JoinType ==
    ASSUME NEW m \in MatchRecord, NEW p \in Player, NEW c \in Color, NEW t \in Int
    PROVE  JoinMatch(m, p, c, t).match \in MatchRecord
<1> DEFINE seats == [m.players EXCEPT ![c] = p]
           j == [m EXCEPT !.players = seats, !.spectators = m.spectators \ {p}]
<1>1. seats \in [Color -> Seat]
  BY DEF MatchRecord, Seat
<1> HIDE DEF seats
<1>2. j \in MatchRecord
  BY <1>1 DEF MatchRecord
<1> HIDE DEF j
<1>3. QED
  BY <1>2, StartType DEF JoinMatch, Done, Fail, j, seats

\* Watching leaves a match record.
LEMMA SpectateType ==
    ASSUME NEW m \in MatchRecord, NEW p \in Player
    PROVE  JoinSpectator(m, p).match \in MatchRecord
BY DEF JoinSpectator, Done, Fail, MatchRecord

\* A legal move leaves a match record, one move longer.
LEMMA CommitType ==
    ASSUME NEW m \in MatchRecord, NEW mv \in Move, NEW t \in Int
    PROVE  CommitMove(m, mv, t) \in MatchRecord
<1> DEFINE next == After[m.position][mv]
           actual == PositionResult(next)
           line == Append(m.moves, mv)
           outcome == IF actual # "*" THEN actual ELSE m.result
           mid == [m EXCEPT !.position = next, !.sequence = m.sequence + 1,
                            !.moves = line, !.drawOfferedBy = NoPlayer,
                            !.result = outcome]
<1>1. next \in Position /\ Turn[m.position] \in Color
  BY GameAssumption DEF MatchRecord
<1>2. outcome \in Result
  BY <1>1, PositionResultType DEF MatchRecord
<1>3. line \in Seq(Move)
  BY DEF MatchRecord
<1>4. mid \in MatchRecord
  <2> HIDE DEF next, line, outcome
  <2>1. NoPlayer \in Seat
    BY DEF Seat
  <2>2. m.sequence + 1 \in Nat
    BY DEF MatchRecord
  <2> QED BY <1>1, <1>2, <1>3, <2>1, <2>2 DEF MatchRecord
<1>5. CommitMove(m, mv, t) = FinishMoveClock(mid, Turn[m.position], t)
  BY DEF CommitMove
<1>6. QED
  <2> HIDE DEF mid
  <2> QED BY <1>1, <1>4, <1>5, FinishType
-----------------------------------------------------------------------------
(* What SyncClock does, case by case.                                      *)

Left(m, t) == m.remaining[Turn[m.position]] - (t - m.startedAt)

KeepsGame(m, s) ==
    /\ s.position = m.position /\ s.sequence = m.sequence
    /\ s.moves = m.moves /\ s.players = m.players
    /\ s.spectators = m.spectators /\ s.drawOfferedBy = m.drawOfferedBy

SyncCase(m, t, s) ==
    \/ s = m /\ ~Thinking(m, t)
    \/ /\ Thinking(m, t) /\ Left(m, t) > 0
       /\ s.remaining = [m.remaining EXCEPT ![Turn[m.position]] = Left(m, t)]
       /\ s.startedAt = t /\ s.running = m.running
       /\ s.result = m.result /\ s.expired = m.expired
    \/ /\ Thinking(m, t) /\ Left(m, t) <= 0
       /\ s.remaining = [m.remaining EXCEPT ![Turn[m.position]] = 0]
       /\ s.startedAt = t /\ s.running = FALSE /\ s.expired = TRUE
       /\ s.result = WinFor(Other(Turn[m.position]))

\* Settling the clock does nothing, charges the side to move, or fells its flag.
LEMMA SyncCases ==
    ASSUME NEW m \in MatchRecord, NEW t \in Int
    PROVE  KeepsGame(m, SyncClock(m, t)) /\ SyncCase(m, t, SyncClock(m, t))
<1> DEFINE turn == Turn[m.position]
           left == Left(m, t)
           s == SyncClock(m, t)
<1> USE DEF KeepsGame, SyncCase
<1>1. turn \in Color /\ left \in Int
  BY GameAssumption DEF MatchRecord, Left
<1>2. CASE ~Thinking(m, t)
  BY <1>2 DEF SyncClock
<1>3. CASE Thinking(m, t) /\ left > 0
  <2> DEFINE rem == [m.remaining EXCEPT ![turn] = left]
  <2>1. s = [m EXCEPT !.remaining = rem, !.startedAt = t]
    BY <1>3 DEF SyncClock, Left
  <2> HIDE DEF rem, s
  <2>2. /\ s.remaining = rem /\ s.startedAt = t
        /\ s.running = m.running /\ s.result = m.result /\ s.expired = m.expired
    BY <2>1 DEF MatchRecord
  <2>3. KeepsGame(m, s)
    BY <2>1 DEF MatchRecord
  <2>4. QED BY <1>3, <2>2, <2>3 DEF rem, s
<1>4. CASE Thinking(m, t) /\ ~(left > 0)
  <2> DEFINE rem == [m.remaining EXCEPT ![turn] = 0]
             win == WinFor(Other(turn))
  <2>1. s = [m EXCEPT !.remaining = rem, !.startedAt = t, !.running = FALSE,
                      !.expired = TRUE, !.result = win]
    BY <1>4 DEF SyncClock, Left
  <2> HIDE DEF rem, win, s
  <2>2. /\ s.remaining = rem /\ s.startedAt = t
        /\ s.running = FALSE /\ s.result = win /\ s.expired = TRUE
    BY <2>1 DEF MatchRecord
  <2>3. KeepsGame(m, s)
    BY <2>1 DEF MatchRecord
  <2>4. left <= 0
    BY <1>1, <1>4
  <2>5. QED BY <1>4, <2>2, <2>3, <2>4 DEF rem, win, s
<1>5. QED BY <1>2, <1>3, <1>4
-----------------------------------------------------------------------------
(* Type correctness.                                                       *)

\* A move request, accepted or not, leaves a match record.
LEMMA ApplyType ==
    ASSUME NEW m \in MatchRecord, NEW t \in Int, NEW r, r.move \in Move
    PROVE  ApplyMove(m, r, t).match \in MatchRecord
BY SyncType, CommitType DEF ApplyMove, Done, Fail

\* A seated player has a side.
LEMMA SeatOfType ==
    ASSUME NEW m, NEW p, Seated(m, p)
    PROVE  SeatOf(m, p) \in Color /\ m.players[SeatOf(m, p)] = p
BY DEF Seated, SeatOf

\* Deciding a game leaves a match record.
LEMMA DecideType ==
    ASSUME NEW m \in MatchRecord, NEW w \in Result
    PROVE  [m EXCEPT !.result = w] \in MatchRecord
BY DEF MatchRecord

\* A resignation leaves a match record.
LEMMA ResignType ==
    ASSUME NEW m \in MatchRecord, NEW t \in Int, NEW p \in Player
    PROVE  Resign(m, p, t).match \in MatchRecord
<1> DEFINE s == SyncClock(m, t)
           w == WinFor(Other(SeatOf(s, p)))
<1>1. s \in MatchRecord
  BY SyncType
<1>2. CASE SeatedError(s, p) # OK
  BY <1>1, <1>2 DEF Resign, Fail
<1>3. CASE SeatedError(s, p) = OK
  <2>1. Seated(s, p)
    BY <1>3 DEF SeatedError, OK
  <2>2. w \in Result
    BY <2>1, SeatOfType, OtherColor, WinIsResult
  <2>3. Resign(m, p, t).match = [s EXCEPT !.result = w]
    BY <1>3 DEF Resign, Done
  <2>4. QED
    <3> HIDE DEF s, w
    <3> QED BY <1>1, <2>2, <2>3, DecideType
<1>4. QED BY <1>2, <1>3

\* A draw offer leaves a match record.
LEMMA OfferType ==
    ASSUME NEW m \in MatchRecord, NEW t \in Int, NEW p \in Player
    PROVE  OfferDraw(m, p, t).match \in MatchRecord
<1> DEFINE s == SyncClock(m, t)
<1>1. s \in MatchRecord
  BY SyncType
<1>2. [s EXCEPT !.result = Drawn] \in MatchRecord
  BY <1>1, DecideType DEF Result, Drawn
<1>3. [s EXCEPT !.drawOfferedBy = p] \in MatchRecord
  <2> HIDE DEF s
  <2> QED BY <1>1 DEF MatchRecord, Seat
<1>4. QED
  BY <1>1, <1>2, <1>3 DEF OfferDraw, Done, Fail

-----------------------------------------------------------------------------
(* Seats.                                                                  *)

\* Taking a seat keeps the seats apart.
LEMMA SeatsOfJoin ==
    ASSUME NEW m \in MatchRecord, NEW p \in Player, NEW c \in Color, NEW t \in Int,
           SeatsOK(m)
    PROVE  SeatsOK(JoinMatch(m, p, c, t).match)
<1> DEFINE seats == [m.players EXCEPT ![c] = p]
           watch == m.spectators \ {p}
           j == [m EXCEPT !.players = seats, !.spectators = watch]
<1>1. CASE JoinMatch(m, p, c, t).match = m
  BY <1>1
<1>2. CASE /\ m.players[c] \in {NoPlayer, p} /\ m.players[Other(c)] # p
           /\ JoinMatch(m, p, c, t).match = StartClock(j, t)
  <2>1. j.players = seats /\ j.spectators = watch
    <3> HIDE DEF seats, watch
    <3> QED BY DEF MatchRecord
  <2>2. StartClock(j, t).players = seats /\ StartClock(j, t).spectators = watch
    <3>1. j \in MatchRecord
      BY DEF MatchRecord, Seat
    <3> HIDE DEF j
    <3>2. QED BY <2>1, <3>1 DEF StartClock, MatchRecord
  <2>3. m.players \in [Color -> Seat]
    BY DEF MatchRecord
  <2>4. \A d \in Color : seats[d] \notin watch
    BY <2>3, <1>2 DEF SeatsOK
  <2>5. seats["white"] # NoPlayer => seats["white"] # seats["black"]
    BY <2>3, <1>2 DEF SeatsOK, Color, Other
  <2>6. QED
    <3> HIDE DEF seats, watch
    <3> QED BY <1>2, <2>2, <2>4, <2>5 DEF SeatsOK
<1>3. QED BY <1>1, <1>2 DEF JoinMatch, Done, Fail

\* Watching keeps the seats apart.
LEMMA SeatsOfSpectate ==
    ASSUME NEW m \in MatchRecord, NEW p \in Player, SeatsOK(m)
    PROVE  SeatsOK(JoinSpectator(m, p).match)
BY DEF JoinSpectator, Done, Fail, MatchRecord, SeatsOK, Seated

\* Nothing but the two joins touches the seats and the spectators.
SameSeats(m, s) == s.players = m.players /\ s.spectators = m.spectators

\* What leaves seats and spectators alone keeps them apart.
LEMMA SameSeatsOK ==
    ASSUME NEW m, NEW s, SeatsOK(m), SameSeats(m, s) PROVE SeatsOK(s)
BY DEF SeatsOK, SameSeats

\* Settling the clock leaves the seats alone.
LEMMA SyncSeats ==
    ASSUME NEW m \in MatchRecord, NEW t \in Int
    PROVE  SameSeats(m, SyncClock(m, t))
BY SyncCases DEF SameSeats, KeepsGame

\* Ending a move on the clock leaves the seats alone.
LEMMA FinishSeats ==
    ASSUME NEW m \in MatchRecord, NEW c, NEW t
    PROVE  SameSeats(m, FinishMoveClock(m, c, t))
BY DEF FinishMoveClock, SameSeats, MatchRecord
-----------------------------------------------------------------------------
(* Moves.                                                                  *)

\* What committing a move leaves behind.
CommitCase(m, mv, t, f) ==
    LET next == After[m.position][mv]
    IN  /\ f.position = next
        /\ f.moves = Append(m.moves, mv)
        /\ f.sequence = m.sequence + 1
        /\ f.players = m.players /\ f.spectators = m.spectators
        /\ f.drawOfferedBy = NoPlayer
        /\ f.expired = m.expired
        /\ f.result = IF PositionResult(next) # "*" THEN PositionResult(next) ELSE m.result
        /\ IF Initial = 0
           THEN f.remaining = m.remaining /\ f.running = m.running
                /\ f.startedAt = m.startedAt
           ELSE /\ f.remaining = [m.remaining EXCEPT ![Turn[m.position]] =
                                    m.remaining[Turn[m.position]] + Increment]
                /\ \/ f.result = "*" /\ f.running = TRUE /\ f.startedAt = t
                   \/ f.result # "*" /\ f.running = FALSE /\ f.startedAt = m.startedAt

\* A move changes the board, the line, the offer, and the clock of the mover.
LEMMA CommitCases ==
    ASSUME NEW m \in MatchRecord, NEW mv \in Move, NEW t \in Int
    PROVE  CommitCase(m, mv, t, CommitMove(m, mv, t))
<1> DEFINE next == After[m.position][mv]
           actual == PositionResult(next)
           line == Append(m.moves, mv)
           outcome == IF actual # "*" THEN actual ELSE m.result
           mid == [m EXCEPT !.position = next, !.sequence = m.sequence + 1,
                            !.moves = line, !.drawOfferedBy = NoPlayer,
                            !.result = outcome]
           turn == Turn[m.position]
           credit == [m.remaining EXCEPT ![turn] = m.remaining[turn] + Increment]
           f == FinishMoveClock(mid, turn, t)
<1>1. CommitMove(m, mv, t) = f
  BY DEF CommitMove
<1>2. /\ mid.position = next /\ mid.sequence = m.sequence + 1 /\ mid.moves = line
      /\ mid.drawOfferedBy = NoPlayer /\ mid.result = outcome
      /\ mid.players = m.players /\ mid.spectators = m.spectators
      /\ mid.remaining = m.remaining /\ mid.startedAt = m.startedAt
      /\ mid.running = m.running /\ mid.expired = m.expired
  <2> HIDE DEF next, line, outcome
  <2> QED BY DEF MatchRecord
<1>3. \/ Initial = 0 /\ f = mid
      \/ /\ Initial # 0 /\ mid.result = "*"
         /\ f = [mid EXCEPT !.remaining = credit, !.running = TRUE, !.startedAt = t]
      \/ /\ Initial # 0 /\ mid.result # "*"
         /\ f = [mid EXCEPT !.remaining = credit, !.running = FALSE]
  <2> HIDE DEF mid
  <2> QED BY <1>2 DEF FinishMoveClock
<1>4. DOMAIN mid = {"position", "sequence", "moves", "players", "spectators",
                    "result", "drawOfferedBy", "remaining", "startedAt",
                    "running", "expired"}
  <2> HIDE DEF next, line, outcome
  <2> QED BY DEF MatchRecord
<1>5. /\ f.position = next /\ f.sequence = m.sequence + 1 /\ f.moves = line
      /\ f.drawOfferedBy = NoPlayer /\ f.result = outcome
      /\ f.players = m.players /\ f.spectators = m.spectators
      /\ f.expired = m.expired
  <2> HIDE DEF mid, f, credit, next, line, outcome
  <2> QED BY <1>2, <1>3, <1>4
<1>6. IF Initial = 0
      THEN f.remaining = m.remaining /\ f.running = m.running /\ f.startedAt = m.startedAt
      ELSE /\ f.remaining = credit
           /\ \/ f.result = "*" /\ f.running = TRUE /\ f.startedAt = t
              \/ f.result # "*" /\ f.running = FALSE /\ f.startedAt = m.startedAt
  <2> HIDE DEF mid, f, credit, next, line, outcome
  <2> QED BY <1>2, <1>3, <1>4, <1>5
<1>7. QED
  <2> HIDE DEF f
  <2> QED BY <1>1, <1>5, <1>6 DEF CommitCase

-----------------------------------------------------------------------------
(* Deciding a game, and what Resign and OfferDraw may do.                  *)

\* Deciding a game changes the result and nothing else.
LEMMA DecideFields ==
    ASSUME NEW m \in MatchRecord, NEW w, NEW s, s = [m EXCEPT !.result = w]
    PROVE  /\ KeepsGame(m, s) /\ s.result = w
           /\ s.remaining = m.remaining /\ s.startedAt = m.startedAt
           /\ s.running = m.running /\ s.expired = m.expired
BY DEF KeepsGame, MatchRecord

\* A side may act: the game is on and its player has a seat.
MayAct(s, p) == s.expired = FALSE /\ s.result = "*" /\ Seated(s, p)

\* Only a seated player of an undecided game may resign it or offer a draw.
LEMMA SeatedErrorOK ==
    ASSUME NEW s \in MatchRecord, NEW p, SeatedError(s, p) = OK
    PROVE  MayAct(s, p)
BY DEF SeatedError, OK, MayAct, MatchRecord

\* A resignation is refused, or decides the game.
LEMMA ResignCases ==
    ASSUME NEW m \in MatchRecord, NEW t \in Int, NEW p \in Player
    PROVE  \/ Resign(m, p, t).match = SyncClock(m, t)
           \/ /\ MayAct(SyncClock(m, t), p)
              /\ \E w \in Result \ {"*", Drawn} :
                    Resign(m, p, t).match = [SyncClock(m, t) EXCEPT !.result = w]
<1> DEFINE s == SyncClock(m, t)
           w == WinFor(Other(SeatOf(s, p)))
<1>1. s \in MatchRecord
  BY SyncType
<1>2. CASE SeatedError(s, p) # OK
  BY <1>2 DEF Resign, Fail
<1>3. CASE SeatedError(s, p) = OK
  <2>1. MayAct(s, p)
    BY <1>1, <1>3, SeatedErrorOK
  <2>2. w \in Result \ {"*", Drawn}
    BY <2>1, SeatOfType, OtherColor, WinIsResult DEF MayAct
  <2>3. Resign(m, p, t).match = [s EXCEPT !.result = w]
    BY <1>3 DEF Resign, Done
  <2>4. QED
    <3> HIDE DEF w
    <3> QED BY <2>1, <2>2, <2>3
<1>4. QED BY <1>2, <1>3

\* A draw offer is refused, ends the game, or is put on the table.
LEMMA OfferCases ==
    ASSUME NEW m \in MatchRecord, NEW t \in Int, NEW p \in Player
    PROVE  LET s == SyncClock(m, t)
               o == OfferDraw(m, p, t)
           IN  \/ o.match = s /\ o.err # OK
               \/ /\ o.err = OK /\ MayAct(s, p)
                  /\ s.drawOfferedBy # NoPlayer /\ s.drawOfferedBy # p
                  /\ o.match = [s EXCEPT !.result = Drawn]
               \/ /\ o.err = OK /\ MayAct(s, p)
                  /\ o.match = [s EXCEPT !.drawOfferedBy = p]
<1> DEFINE s == SyncClock(m, t)
<1>1. s \in MatchRecord
  BY SyncType
<1>2. CASE SeatedError(s, p) # OK
  BY <1>2 DEF OfferDraw, Fail
<1>3. CASE SeatedError(s, p) = OK
  <2>1. MayAct(s, p)
    BY <1>1, <1>3, SeatedErrorOK
  <2>2. QED BY <1>3, <2>1 DEF OfferDraw, Done
<1>4. QED BY <1>2, <1>3

\* Taking a seat changes seats, spectators and the start of the clock.
LEMMA JoinFields ==
    ASSUME NEW m \in MatchRecord, NEW p \in Player, NEW c \in Color, NEW t \in Int
    PROVE  LET j == JoinMatch(m, p, c, t).match
           IN  /\ j.position = m.position /\ j.result = m.result
               /\ j.moves = m.moves /\ j.sequence = m.sequence
               /\ j.remaining = m.remaining /\ j.expired = m.expired
               /\ j.drawOfferedBy = m.drawOfferedBy
               /\ \A d \in Color : m.players[d] # NoPlayer => j.players[d] = m.players[d]
<1> DEFINE seats == [m.players EXCEPT ![c] = p]
           watch == m.spectators \ {p}
           j == [m EXCEPT !.players = seats, !.spectators = watch]
           f == JoinMatch(m, p, c, t).match
<1>1. CASE f = m
  BY <1>1
<1>2. CASE m.players[c] \in {NoPlayer, p} /\ f = StartClock(j, t)
  <2>1. \A d \in Color : m.players[d] # NoPlayer => seats[d] = m.players[d]
    BY <1>2 DEF MatchRecord
  <2>2. j \in MatchRecord
    BY DEF MatchRecord, Seat
  <2>3. /\ j.position = m.position /\ j.result = m.result
        /\ j.moves = m.moves /\ j.sequence = m.sequence
        /\ j.remaining = m.remaining /\ j.expired = m.expired
        /\ j.drawOfferedBy = m.drawOfferedBy /\ j.players = seats
    <3> HIDE DEF seats, watch
    <3> QED BY DEF MatchRecord
  <2> HIDE DEF j, seats, f
  <2>4. /\ f.position = j.position /\ f.result = j.result
        /\ f.moves = j.moves /\ f.sequence = j.sequence
        /\ f.remaining = j.remaining /\ f.expired = j.expired
        /\ f.drawOfferedBy = j.drawOfferedBy /\ f.players = j.players
    BY <1>2, <2>2 DEF StartClock, MatchRecord
  <2>5. QED BY <2>1, <2>3, <2>4 DEF f
<1>3. QED BY <1>1, <1>2 DEF JoinMatch, Done, Fail
-----------------------------------------------------------------------------
(* Induction.  A set of natural numbers has a least element, so the        *)
(* numbers outside an inductive set have none.  The lemmas on Replay need  *)
(* no more: FoldLeft is a function defined by recursion over sets.         *)

\* Every set of natural numbers but the empty one has a least element.
LEMMA LeastNat == \A T \in SUBSET Nat : T # {} => \E x \in T : \A y \in T : x <= y
<1> DEFINE R == {ss \in Nat \X Nat : ss[1] < ss[2]}
<1>1. IsWellFoundedOn(R, Nat)
  BY NatLessThanWellFounded DEF OpToRel
<1>2. SUFFICES ASSUME NEW T \in SUBSET Nat, T # {}
               PROVE  \E x \in T : \A y \in T : x <= y
  OBVIOUS
<1>3. PICK x \in T : \A y \in T : ~ (<<y, x>> \in R)
  <2> HIDE DEF R
  <2> QED BY <1>1, <1>2, WFMin
<1>4. \A y \in T : ~(y < x)
  BY <1>3
<1>5. QED BY <1>4

\* A set that holds 0 and the successor of each of its members is Nat.
LEMMA InductiveSet ==
    ASSUME NEW T \in SUBSET Nat, 0 \in T, \A n \in T : n + 1 \in T
    PROVE  T = Nat
<1>1. SUFFICES ASSUME Nat \ T # {} PROVE FALSE
  OBVIOUS
<1>2. PICK x \in Nat \ T : \A y \in Nat \ T : x <= y
  BY <1>1, LeastNat
<1>3. x - 1 \in T
  BY <1>2
<1>4. QED BY <1>2, <1>3

\* The function FoldLeft defines for Replay, on the subsets of 1 .. k.
Table(g, p, line, k) ==
    g = [s \in SUBSET (1 .. k) |->
           IF s = {} THEN p ELSE After[g[s \ {Max(s)}]][line[Max(s)]]]

\* A set that holds its upper bound has it as its maximum.
LEMMA MaxIsBound ==
    ASSUME NEW k \in Int, NEW s \in SUBSET (1 .. k), k \in s
    PROVE  Max(s) = k
<1>1. \A x \in s : (\A y \in s : x >= y) <=> x = k
  OBVIOUS
<1>2. QED BY <1>1 DEF Max

\* There is such a function for every k.
LEMMA TableExists ==
    ASSUME NEW p, NEW line, NEW k \in Nat PROVE \E g : Table(g, p, line, k)
<1> DEFINE T == {n \in Nat : \E g : Table(g, p, line, n)}
<1>1. 0 \in T
  <2> DEFINE g == [s \in SUBSET (1 .. 0) |-> p]
  <2>1. \A s \in SUBSET (1 .. 0) : s = {}
    OBVIOUS
  <2>2. Table(g, p, line, 0)
    BY <2>1 DEF Table
  <2>3. QED BY <2>2
<1>2. ASSUME NEW n \in T PROVE n + 1 \in T
  <2>1. PICK g : n \in Nat /\ Table(g, p, line, n)
    OBVIOUS
  <2> DEFINE h == [s \in SUBSET (1 .. n + 1) |->
                     IF n + 1 \notin s THEN g[s]
                     ELSE After[g[s \ {n + 1}]][line[n + 1]]]
             step(s) == IF s = {} THEN p ELSE After[h[s \ {Max(s)}]][line[Max(s)]]
  <2>2. ASSUME NEW s \in SUBSET (1 .. n + 1), n + 1 \notin s PROVE h[s] = step(s)
    <3>0. \A i \in 1 .. n + 1 : i # n + 1 => i \in 1 .. n
      BY <2>1
    <3>1. s \in SUBSET (1 .. n) /\ s \ {Max(s)} \in SUBSET (1 .. n)
      <4>1. \A i \in s : i \in 1 .. n
        BY <2>2, <3>0
      <4>2. QED BY <4>1
    <3>2. g[s] = IF s = {} THEN p ELSE After[g[s \ {Max(s)}]][line[Max(s)]]
      BY <2>1, <3>1 DEF Table
    <3>3. s \ {Max(s)} \in SUBSET (1 .. n + 1) /\ n + 1 \notin s \ {Max(s)}
      BY <2>2
    <3>4. h[s \ {Max(s)}] = g[s \ {Max(s)}] /\ h[s] = g[s]
      BY <3>3, <2>2
    <3>5. QED BY <3>2, <3>4
  <2>3. ASSUME NEW s \in SUBSET (1 .. n + 1), n + 1 \in s PROVE h[s] = step(s)
    <3>0. n + 1 \in Int
      BY <2>1
    <3>1. Max(s) = n + 1
      BY <2>3, <3>0, MaxIsBound
    <3>2. s \ {n + 1} \in SUBSET (1 .. n + 1) /\ n + 1 \notin s \ {n + 1}
      OBVIOUS
    <3>3. h[s \ {n + 1}] = g[s \ {n + 1}]
      BY <3>2
    <3>4. QED BY <3>1, <3>3, <2>3
  <2>4. h = [s \in SUBSET (1 .. n + 1) |-> step(s)]
    BY <2>2, <2>3
  <2>5. Table(h, p, line, n + 1)
    BY <2>4 DEF Table
  <2>6. QED BY <2>5
<1>3. T \in SUBSET Nat
  OBVIOUS
<1>4. T = Nat
  <2> HIDE DEF T
  <2> QED BY <1>1, <1>2, <1>3, InductiveSet
<1>5. QED BY <1>4

\* Replay reads the table of its line.
LEMMA ReplayTable ==
    ASSUME NEW p, NEW line \in Seq(Move)
    PROVE  \E g : Table(g, p, line, Len(line)) /\ Replay(p, line) = g[1 .. Len(line)]
<1> DEFINE g == CHOOSE h : h = [s \in SUBSET DOMAIN line |->
                    IF s = {} THEN p ELSE After[h[s \ {Max(s)}]][line[Max(s)]]]
<1>1. DOMAIN line = 1 .. Len(line)
  OBVIOUS
<1>2. Replay(p, line) = g[DOMAIN line]
  BY DEF Replay, FoldLeft, MapThenFoldSet
<1>3. \E h : Table(h, p, line, Len(line))
  <2>1. Len(line) \in Nat
    OBVIOUS
  <2>2. QED BY <2>1, TableExists
<1>4. g = [s \in SUBSET DOMAIN line |->
             IF s = {} THEN p ELSE After[g[s \ {Max(s)}]][line[Max(s)]]]
  BY <1>1, <1>3 DEF Table
<1>5. Table(g, p, line, Len(line))
  <2> HIDE DEF g
  <2> QED BY <1>1, <1>4 DEF Table
<1>6. QED
  <2> HIDE DEF g
  <2> QED BY <1>1, <1>2, <1>5

\* The entry of a table for 1 .. k, from the one before it.
StepByStep(g, p, line, n) ==
    /\ g[1 .. 0] = p
    /\ \A k \in 0 .. n - 1 : g[1 .. k + 1] = After[g[1 .. k]][line[k + 1]]

\* A table holds the positions of its line, one after the other.
LEMMA TableStep ==
    ASSUME NEW p, NEW line, NEW n \in Nat, NEW g, Table(g, p, line, n)
    PROVE  StepByStep(g, p, line, n)
<1>1. g[1 .. 0] = p
  BY DEF Table
<1>2. ASSUME NEW k \in 0 .. n - 1
      PROVE  g[1 .. k + 1] = After[g[1 .. k]][line[k + 1]]
  <2> DEFINE s == 1 .. k + 1
  <2>1. s \in SUBSET (1 .. n) /\ s # {}
    BY <1>2
  <2>2. Max(s) = k + 1
    <3>1. k + 1 \in Int /\ k + 1 \in s /\ s \in SUBSET (1 .. k + 1)
      BY <1>2
    <3>2. QED BY <3>1, MaxIsBound
  <2>3. s \ {k + 1} = 1 .. k
    OBVIOUS
  <2>4. g[s] = After[g[s \ {Max(s)}]][line[Max(s)]]
    <3> HIDE DEF s
    <3> QED BY <2>1 DEF Table
  <2>5. QED BY <2>2, <2>3, <2>4
<1>3. QED BY <1>1, <1>2 DEF StepByStep

\* A line that is empty leads nowhere.
LEMMA ReplayEmpty == \A p : Replay(p, << >>) = p
<1>1. SUFFICES ASSUME NEW p PROVE Replay(p, << >>) = p
  OBVIOUS
<1>2. << >> \in Seq(Move) /\ Len(<< >>) = 0
  OBVIOUS
<1>3. PICK g : Table(g, p, << >>, 0) /\ Replay(p, << >>) = g[1 .. 0]
  <2>1. \E g : /\ Table(g, p, << >>, Len(<< >>))
               /\ Replay(p, << >>) = g[1 .. Len(<< >>)]
    BY <1>2, ReplayTable
  <2>2. QED BY <1>2, <2>1
<1>4. StepByStep(g, p, << >>, 0)
  <2>1. 0 \in Nat
    OBVIOUS
  <2>2. QED BY <1>3, <2>1, TableStep
<1>5. QED BY <1>3, <1>4 DEF StepByStep

\* One move more leads to the position after it.
LEMMA ReplayAppend ==
    ASSUME NEW p, NEW line \in Seq(Move), NEW mv \in Move
    PROVE  Replay(p, Append(line, mv)) = After[Replay(p, line)][mv]
<1> DEFINE n == Len(line)
           longer == Append(line, mv)
<1>1. /\ n \in Nat /\ longer \in Seq(Move) /\ Len(longer) = n + 1
      /\ longer[n + 1] = mv /\ \A i \in 1 .. n : longer[i] = line[i]
  OBVIOUS
<1>2. PICK g : Table(g, p, line, n) /\ Replay(p, line) = g[1 .. n]
  BY ReplayTable
<1>3. PICK h : Table(h, p, longer, n + 1) /\ Replay(p, longer) = h[1 .. n + 1]
  <2> HIDE DEF longer
  <2> QED BY <1>1, ReplayTable
<1> HIDE DEF n, longer
<1>4. StepByStep(g, p, line, n)
  BY <1>1, <1>2, TableStep
<1>5. StepByStep(h, p, longer, n + 1)
  <2>1. n + 1 \in Nat
    BY <1>1
  <2>2. QED BY <1>3, <2>1, TableStep
<1> DEFINE T == {k \in Nat : k <= n => h[1 .. k] = g[1 .. k]}
<1>6. T \in SUBSET Nat /\ 0 \in T
  <2>1. g[1 .. 0] = p /\ h[1 .. 0] = p
    BY <1>4, <1>5 DEF StepByStep
  <2>2. QED BY <2>1
<1>7. ASSUME NEW k \in T PROVE k + 1 \in T
  <2>1. SUFFICES ASSUME k + 1 <= n PROVE h[1 .. k + 1] = g[1 .. k + 1]
    OBVIOUS
  <2>2. k \in 0 .. n - 1 /\ k \in 0 .. (n + 1) - 1 /\ k + 1 \in 1 .. n
    BY <1>1, <2>1
  <2>3. g[1 .. k + 1] = After[g[1 .. k]][line[k + 1]]
    BY <1>4, <2>2 DEF StepByStep
  <2>4. h[1 .. k + 1] = After[h[1 .. k]][longer[k + 1]]
    BY <1>5, <2>2 DEF StepByStep
  <2>5. h[1 .. k] = g[1 .. k]
    BY <1>1, <2>1
  <2>6. QED BY <1>1, <2>2, <2>3, <2>4, <2>5
<1>8. T = Nat
  <2> HIDE DEF T
  <2> QED BY <1>6, <1>7, InductiveSet
<1>9. h[1 .. n] = g[1 .. n]
  BY <1>1, <1>8
<1>10. h[1 .. n + 1] = After[h[1 .. n]][longer[n + 1]]
  <2>1. n \in 0 .. (n + 1) - 1
    BY <1>1
  <2>2. QED BY <1>5, <2>1 DEF StepByStep
<1>11. QED BY <1>1, <1>2, <1>3, <1>9, <1>10 DEF longer
-----------------------------------------------------------------------------
(* The line of a match stays a legal game.                                 *)

\* What a line begins with does not change when it grows.
LEMMA BeginningKept ==
    ASSUME NEW line \in Seq(Move), NEW mv \in Move, NEW k \in 0 .. Len(line)
    PROVE  SubSeq(Append(line, mv), 1, k) = SubSeq(line, 1, k)
<1> DEFINE n == Len(line)
           longer == Append(line, mv)
           a == SubSeq(longer, 1, k)
           b == SubSeq(line, 1, k)
<1>1. /\ n \in Nat /\ longer \in Seq(Move)
      /\ \A j \in 1 .. n : line[j] \in Move /\ longer[j] = line[j]
  OBVIOUS
<1>2. 1 \in Int /\ k \in Int /\ k \in 0 .. n /\ \A j \in 1 .. k : j \in 1 .. n
  OBVIOUS
<1> HIDE DEF n, longer
<1>3. \A j \in 1 .. k : longer[j] \in Move /\ line[j] \in Move /\ longer[j] = line[j]
  BY <1>1, <1>2
<1>4. /\ a \in Seq(Move) /\ Len(a) = IF 1 <= k THEN k - 1 + 1 ELSE 0
      /\ \A j \in 1 .. k - 1 + 1 : a[j] = longer[1 + j - 1]
  BY <1>2, <1>3, SubSeqProperties
<1>5. /\ b \in Seq(Move) /\ Len(b) = IF 1 <= k THEN k - 1 + 1 ELSE 0
      /\ \A j \in 1 .. k - 1 + 1 : b[j] = line[1 + j - 1]
  BY <1>2, <1>3, SubSeqProperties
<1> HIDE DEF a, b
<1>6. Len(a) = k /\ Len(b) = k
  BY <1>2, <1>4, <1>5
<1>7. \A j \in 1 .. k : a[j] = longer[j] /\ b[j] = line[j]
  BY <1>2, <1>4, <1>5
<1>8. a = b
  BY <1>3, <1>4, <1>5, <1>6, <1>7, SeqEqual
<1>9. QED BY <1>8 DEF a, b, longer

\* A legal line stays legal with one legal move more.
LEMMA LegalAppend ==
    ASSUME NEW p, NEW line \in Seq(Move), NEW mv \in Move,
           LegalLine(p, line), mv \in Legal[Replay(p, line)]
    PROVE  LegalLine(p, Append(line, mv))
<1> DEFINE n == Len(line)
           longer == Append(line, mv)
<1>1. /\ n \in Nat /\ longer \in Seq(Move) /\ Len(longer) = n + 1
      /\ longer[n + 1] = mv /\ \A i \in 1 .. n : longer[i] = line[i]
  OBVIOUS
<1>2. ASSUME NEW i \in 1 .. n + 1
      PROVE  SubSeq(longer, 1, i - 1) = SubSeq(line, 1, i - 1)
  <2>1. i - 1 \in 0 .. n
    BY <1>1
  <2>2. QED BY <2>1, BeginningKept
<1>3. SubSeq(line, 1, n) = line
  BY SubSeqFull
<1>4. ASSUME NEW i \in 1 .. n + 1
      PROVE  longer[i] \in Legal[Replay(p, SubSeq(longer, 1, i - 1))]
  <2>1. CASE i = n + 1
    <3>1. i - 1 = n
      BY <1>1, <2>1
    <3>2. SubSeq(longer, 1, i - 1) = line
      BY <1>2, <1>3, <3>1
    <3>3. QED
      <4> HIDE DEF longer
      <4> QED BY <1>1, <2>1, <3>2
  <2>2. CASE i # n + 1
    <3>1. i \in 1 .. n
      BY <1>1, <2>2
    <3>2. line[i] \in Legal[Replay(p, SubSeq(line, 1, i - 1))]
      BY <3>1 DEF LegalLine
    <3>3. longer[i] = line[i]
      BY <1>1, <3>1
    <3>4. QED
      <4> HIDE DEF longer
      <4> QED BY <1>2, <3>2, <3>3
  <2>3. QED BY <2>1, <2>2
<1>5. QED
  <2> HIDE DEF longer
  <2>1. LegalLine(p, longer)
    BY <1>1, <1>4 DEF LegalLine
  <2>2. QED BY <2>1 DEF longer

\* A new match has played nothing.
LEMMA LineOfNew == LineOK(NewMatch)
<1>1. NewMatch.moves = << >> /\ NewMatch.sequence = 0 /\ NewMatch.position = Start
  BY DEF NewMatch
<1>2. Len(<< >>) = 0 /\ LegalLine(Start, << >>)
  BY DEF LegalLine
<1>3. QED BY <1>1, <1>2, ReplayEmpty DEF LineOK

\* What leaves the board and the line alone keeps the line a legal game.
LEMMA SameLineOK ==
    ASSUME NEW m, NEW s, LineOK(m),
           s.position = m.position, s.sequence = m.sequence, s.moves = m.moves
    PROVE  LineOK(s)
BY DEF LineOK

\* A legal move makes a legal line longer.
LEMMA LineOfCommit ==
    ASSUME NEW m \in MatchRecord, NEW mv \in Legal[m.position], NEW t \in Int,
           LineOK(m)
    PROVE  LineOK(CommitMove(m, mv, t))
<1> DEFINE f == CommitMove(m, mv, t)
<1>1. mv \in Move /\ m.moves \in Seq(Move) /\ m.position \in Position
  BY GameAssumption DEF MatchRecord
<1>2. CommitCase(m, mv, t, f)
  BY <1>1, CommitCases
<1> HIDE DEF f
<1>3. f.moves = Append(m.moves, mv) /\ f.sequence = m.sequence + 1
      /\ f.position = After[m.position][mv]
  BY <1>2 DEF CommitCase
<1>4. Len(f.moves) = Len(m.moves) + 1
  BY <1>1, <1>3
<1>5. LegalLine(Start, f.moves)
  BY <1>1, <1>3, LegalAppend DEF LineOK
<1>6. Replay(Start, f.moves) = f.position
  BY <1>1, <1>3, ReplayAppend DEF LineOK
<1>7. QED BY <1>3, <1>4, <1>5, <1>6 DEF LineOK, f

\* A move request is refused, or it is for a legal move of an undecided game.
LEMMA ApplyCases ==
    ASSUME NEW m \in MatchRecord, NEW t \in Int, NEW r, r.move \in Move
    PROVE  LET s == SyncClock(m, t)
               a == ApplyMove(m, r, t)
           IN  \/ a.match = s /\ a.err # OK
               \/ /\ a.err = OK /\ s.result = "*" /\ s.expired = FALSE
                  /\ r.move \in Legal[s.position]
                  /\ a.match = CommitMove(s, r.move, t)
<1> DEFINE s == SyncClock(m, t)
<1>1. s \in MatchRecord
  BY SyncType
<1>2. CASE MoveError(s, r) # OK
  BY <1>2 DEF ApplyMove, Fail
<1>3. CASE MoveError(s, r) = OK
  <2>1. s.expired = FALSE /\ s.result = "*" /\ r.move \in Legal[s.position]
    <3> HIDE DEF s
    <3> QED BY <1>1, <1>3 DEF MoveError, OK, MatchRecord
  <2>2. ApplyMove(m, r, t) = Done(CommitMove(s, r.move, t))
    BY <1>3 DEF ApplyMove
  <2>3. /\ ApplyMove(m, r, t).err = OK
        /\ ApplyMove(m, r, t).match = CommitMove(s, r.move, t)
    BY <2>2 DEF Done
  <2>4. QED BY <2>1, <2>3
<1>4. QED BY <1>2, <1>3

\* Who takes a seat sits there; a spectator stays one or sits there.
LEMMA JoinPlaces ==
    ASSUME NEW m \in MatchRecord, NEW p \in Player, NEW c \in Color, NEW t \in Int
    PROVE  LET j == JoinMatch(m, p, c, t)
           IN  /\ j.err = OK => j.match.players[c] = p
               /\ \A q \in Player : q \in m.spectators =>
                     q \in j.match.spectators \/ j.match.players[c] = q
               /\ \A d \in Color : j.match.players[d] \in {m.players[d], p}
<1> DEFINE seats == [m.players EXCEPT ![c] = p]
           watch == m.spectators \ {p}
           u == [m EXCEPT !.players = seats, !.spectators = watch]
           j == JoinMatch(m, p, c, t)
<1>1. CASE j = Fail(m, "seat_taken")
  BY <1>1 DEF Fail, OK
<1>2. CASE j = Done(StartClock(u, t))
  <2>1. /\ seats[c] = p /\ \A q \in Player : q \in m.spectators => q \in watch \/ q = p
        /\ \A d \in Color : seats[d] \in {m.players[d], p}
    BY DEF MatchRecord
  <2>2. u.players = seats /\ u.spectators = watch /\ u \in MatchRecord
    <3>1. seats \in [Color -> Seat] /\ watch \in SUBSET Player
      BY DEF MatchRecord, Seat
    <3> HIDE DEF seats, watch
    <3>2. QED BY <3>1 DEF MatchRecord
  <2> HIDE DEF u, seats, watch, j
  <2>3. /\ StartClock(u, t).players = u.players
        /\ StartClock(u, t).spectators = u.spectators
    BY <2>2 DEF StartClock, MatchRecord
  <2>4. j.match.players = seats /\ j.match.spectators = watch
    BY <1>2, <2>2, <2>3 DEF Done
  <2>5. QED BY <2>1, <2>4 DEF j
<1>3. QED BY <1>1, <1>2 DEF JoinMatch
=============================================================================
