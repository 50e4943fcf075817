---------------------------- MODULE MatchProofs ----------------------------
(***************************************************************************)
(* Proofs about Match and DurableMatch, for every set of players, every    *)
(* game whose sides alternate, every time control, resolution of the store *)
(* and number of restarts.                                                 *)
(***************************************************************************)
EXTENDS DurableMatch, MatchOpsProofs

-----------------------------------------------------------------------------
(* A match that is served. GameInv (types, seats, the line and the draws)  *)
(* is inductive by itself; the inductive invariant IInv adds exact clocks. *)
(* The action properties and the contract follow from them.                *)

\* Every step keeps the types.
LEMMA NextTypeOK == TypeOK /\ [Next]_vars => TypeOK'
<1> SUFFICES ASSUME TypeOK, [Next]_vars PROVE TypeOK'
  OBVIOUS
<1> USE DEF TypeOK
<1>0. now \in Int /\ Turn[match.position] \in Color
  BY GameAssumption DEF MatchRecord
<1>1. ASSUME NEW p \in Player, NEW c \in Color, Join(p, c) PROVE TypeOK'
  BY <1>0, <1>1, JoinType DEF Join, ghosts
<1>2. ASSUME NEW p \in Player, Spectate(p) PROVE TypeOK'
  BY <1>2, SpectateType DEF Spectate, ghosts
<1>3. ASSUME NEW r \in Request, MoveAccepted(r) PROVE TypeOK'
  <2>1. match' \in MatchRecord
    BY <1>0, <1>3, ApplyType DEF MoveAccepted, Request
  <2>2. granted' \in [Color -> Nat]
    BY <1>0, <1>3, ClockAssumption DEF MoveAccepted
  <2>3. QED BY <1>3, <2>1, <2>2 DEF MoveAccepted
<1>4. ASSUME NEW r \in Request, MoveRejected(r) PROVE TypeOK'
  BY <1>0, <1>4, SyncType DEF MoveRejected, ghosts
<1>5. ASSUME NEW p \in Player, PlayerResigns(p) PROVE TypeOK'
  BY <1>0, <1>5, ResignType DEF PlayerResigns, ghosts
<1>6. ASSUME NEW p \in Player, PlayerOffersDraw(p) PROVE TypeOK'
  BY <1>0, <1>6, OfferType DEF PlayerOffersDraw
<1>7. CASE Snapshot
  BY <1>0, <1>7, SyncType DEF Snapshot, ghosts
<1>8. CASE Tick
  <2>1. [spent EXCEPT ![Turn[match.position]] = @ + 1] \in [Color -> Nat]
    BY <1>0
  <2>2. spent' \in [Color -> Nat]
    BY <1>8, <2>1 DEF Tick
  <2>3. now' = now + 1 /\ match' = match /\ granted' = granted /\ agreed' = agreed
    BY <1>8 DEF Tick
  <2>4. now' \in Nat
    BY <2>3
  <2>5. QED BY <2>2, <2>3, <2>4
<1>9. CASE UNCHANGED vars
  BY <1>9 DEF vars
<1>10. QED
  BY <1>1, <1>2, <1>3, <1>4, <1>5, <1>6, <1>7, <1>8, <1>9 DEF Next

\* A new match has them.
LEMMA InitTypeOK == Init => TypeOK
BY NewMatchType DEF Init, TypeOK, Color

\* Every reachable match is a well-formed match record, whatever is asked of it.
THEOREM TypeCorrect == Spec => []TypeOK
BY InitTypeOK, NextTypeOK, PTL DEF Spec
-----------------------------------------------------------------------------
(* The clock.  ExactClock is inductive together with the facts that no     *)
(* side is settled ahead of time, that a flag is down only on a stopped    *)
(* clock of the side to move, and that a live clock has time left.         *)

FlagDown(m) ==
    m.expired => /\ m.result = WinFor(Other(Turn[m.position]))
                 /\ m.remaining[Turn[m.position]] = 0
                 /\ m.running = FALSE

Solvent(m) == Initial > 0 /\ ~m.expired => \A c \in Color : m.remaining[c] > 0

ClockOK(m, t, sp, gr) ==
    /\ ExactClock(m, t, sp, gr)
    /\ m.startedAt <= t
    /\ FlagDown(m)
    /\ Solvent(m)

Tally == [Color -> Nat]

\* A settled clock owes nothing.
Settled(m, t) == Live(m) => m.startedAt = t

\* Settling an exact clock leaves it exact.
LEMMA SyncClockOK ==
    ASSUME NEW m \in MatchRecord, NEW t \in Nat, NEW sp \in Tally, NEW gr \in Tally,
           ClockOK(m, t, sp, gr)
    PROVE  ClockOK(SyncClock(m, t), t, sp, gr) /\ Settled(SyncClock(m, t), t)
<1> DEFINE turn == Turn[m.position]
           s == SyncClock(m, t)
<1>1. turn \in Color /\ Left(m, t) \in Int /\ m.remaining \in [Color -> Int]
      /\ m.startedAt \in Int /\ Initial \in Nat
  BY GameAssumption, ClockAssumption DEF MatchRecord, Left
<1>2. KeepsGame(m, s) /\ SyncCase(m, t, s)
  BY SyncCases
<1>3. s.position = m.position
  BY <1>2 DEF KeepsGame
<1> HIDE DEF s
<1>4. CASE s = m /\ ~Thinking(m, t)
  <2>1. Settled(m, t)
    <3>1. m.startedAt <= t
      BY DEF ClockOK
    <3>2. Live(m) => ~(t > m.startedAt)
      BY <1>4 DEF Thinking
    <3>3. \A a, b \in Int : ~(b > a) /\ a <= b => a = b
      OBVIOUS
    <3>4. ~(t > m.startedAt) => m.startedAt = t
      BY <1>1, <3>1, <3>3
    <3>5. QED BY <3>2, <3>4 DEF Settled
  <2>2. QED BY <1>4, <2>1 DEF s
<1>5. CASE /\ Thinking(m, t) /\ Left(m, t) > 0
           /\ s.remaining = [m.remaining EXCEPT ![turn] = Left(m, t)]
           /\ s.startedAt = t /\ s.running = m.running
           /\ s.result = m.result /\ s.expired = m.expired
  <2>1. s.running /\ s.result = "*" /\ s.expired = FALSE /\ m.expired = FALSE
    BY <1>5 DEF Thinking, Live, ClockOK, FlagDown, MatchRecord
  <2>2. ExactClock(s, t, sp, gr)
    <3> SUFFICES ASSUME NEW c \in Color
                 PROVE  s.remaining[c] - Pending(s, t, c) = Initial + gr[c] - sp[c]
      BY <2>1 DEF ExactClock
    <3>1. m.remaining[c] - Pending(m, t, c) = Initial + gr[c] - sp[c]
      BY <2>1 DEF ClockOK, ExactClock
    <3>2. Pending(s, t, c) = 0
      BY <1>5, <1>1 DEF Pending
    <3>3. CASE c = turn
      <4>1. Pending(m, t, c) = t - m.startedAt
        BY <1>5, <3>3 DEF Pending, Thinking
      <4>2. s.remaining[c] = m.remaining[c] - (t - m.startedAt)
        BY <1>1, <1>5, <3>3 DEF Left
      <4>3. QED BY <1>1, <3>1, <3>2, <4>1, <4>2 DEF Tally
    <3>4. CASE c # turn
      <4>1. Pending(m, t, c) = 0
        BY <3>4 DEF Pending
      <4>2. s.remaining[c] = m.remaining[c]
        BY <1>1, <1>5, <3>4
      <4>3. QED BY <1>1, <3>1, <3>2, <4>1, <4>2 DEF Tally
    <3>5. QED BY <3>3, <3>4
  <2>3. FlagDown(s) /\ Settled(s, t)
    BY <2>1, <1>5 DEF FlagDown, Settled
  <2>6. s.startedAt <= t
    BY <1>5
  <2>4. Solvent(s)
    BY <2>1, <1>1, <1>5 DEF Solvent, ClockOK
  <2>5. QED BY <2>2, <2>3, <2>4, <2>6 DEF ClockOK, s
<1>6. CASE /\ Thinking(m, t) /\ Left(m, t) <= 0
           /\ s.remaining = [m.remaining EXCEPT ![turn] = 0]
           /\ s.startedAt = t /\ s.running = FALSE /\ s.expired = TRUE
           /\ s.result = WinFor(Other(turn))
  <2>1. m.expired = FALSE
    BY <1>6 DEF Thinking, Live, ClockOK, FlagDown, MatchRecord
  <2>2. ExactClock(s, t, sp, gr)
    <3> SUFFICES ASSUME NEW c \in Color
                 PROVE  IF c = turn THEN s.remaining[c] = 0 /\ sp[c] >= Initial + gr[c]
                        ELSE s.remaining[c] - Pending(s, t, c) = Initial + gr[c] - sp[c]
      BY <1>3, <1>6 DEF ExactClock
    <3>1. m.remaining[c] - Pending(m, t, c) = Initial + gr[c] - sp[c]
      BY <2>1 DEF ClockOK, ExactClock
    <3>2. CASE c = turn
      <4>1. Pending(m, t, c) = t - m.startedAt
        BY <1>6, <3>2 DEF Pending, Thinking
      <4>2. m.remaining[c] - (t - m.startedAt) <= 0
        BY <1>6, <3>2 DEF Left
      <4>3. s.remaining[c] = 0
        BY <1>1, <1>6, <3>2
      <4>4. sp[c] >= Initial + gr[c]
        BY <1>1, <3>1, <4>1, <4>2 DEF Tally
      <4>5. QED BY <3>2, <4>3, <4>4
    <3>3. CASE c # turn
      <4>1. Pending(m, t, c) = 0 /\ Pending(s, t, c) = 0
        BY <1>3, <3>3 DEF Pending
      <4>2. s.remaining[c] = m.remaining[c]
        BY <1>1, <1>6, <3>3
      <4>3. QED BY <3>1, <3>3, <4>1, <4>2
    <3>4. QED BY <3>2, <3>3
  <2>3. FlagDown(s)
    BY <1>1, <1>3, <1>6 DEF FlagDown
  <2>4. s.startedAt <= t /\ Settled(s, t) /\ Solvent(s)
    BY <1>6, <1>1 DEF Settled, Solvent
  <2>5. QED BY <2>2, <2>3, <2>4 DEF ClockOK, s
<1>7. QED BY <1>2, <1>4, <1>5, <1>6 DEF SyncCase, s

\* What the clock of a match reads.
SameClock(m, s) ==
    /\ s.position = m.position /\ s.remaining = m.remaining
    /\ s.startedAt = m.startedAt /\ s.running = m.running
    /\ s.result = m.result /\ s.expired = m.expired

\* What leaves the fields of the clock alone leaves it exact.
LEMMA SameClockOK ==
    ASSUME NEW m, NEW s, NEW t, NEW sp, NEW gr,
           ClockOK(m, t, sp, gr), SameClock(m, s)
    PROVE  ClockOK(s, t, sp, gr)
BY DEF ClockOK, SameClock, ExactClock, Pending, Live, FlagDown, Solvent

\* Filling the second seat starts the clock with nothing owed.
LEMMA StartClockOK ==
    ASSUME NEW m \in MatchRecord, NEW t \in Nat, NEW sp \in Tally, NEW gr \in Tally,
           ClockOK(m, t, sp, gr)
    PROVE  ClockOK(StartClock(m, t), t, sp, gr)
<1> DEFINE s == StartClock(m, t)
<1>1. CASE s = m
  BY <1>1
<1>2. CASE s # m
  <2>1. s = [m EXCEPT !.running = TRUE, !.startedAt = t] /\ m.result = "*"
        /\ m.running = FALSE
    BY <1>2 DEF StartClock, MatchRecord
  <2> HIDE DEF s
  <2>2. /\ s.position = m.position /\ s.remaining = m.remaining
        /\ s.startedAt = t /\ s.running = TRUE
        /\ s.result = m.result /\ s.expired = m.expired
    BY <2>1 DEF MatchRecord
  <2>3. m.expired = FALSE
    BY <2>1, GameAssumption, OtherColor, WinIsResult
    DEF ClockOK, FlagDown, MatchRecord
  <2>4. \A c \in Color : Pending(s, t, c) = 0 /\ Pending(m, t, c) = 0
    <3>1. ~Live(m)
      BY <2>1 DEF Live
    <3>2. t - s.startedAt = 0
      BY <2>2
    <3>3. QED BY <3>1, <3>2 DEF Pending
  <2>5. ExactClock(s, t, sp, gr)
    BY <2>2, <2>3, <2>4 DEF ClockOK, ExactClock
  <2>6. FlagDown(s) /\ Solvent(s)
    BY <2>2, <2>3 DEF ClockOK, FlagDown, Solvent
  <2>7. QED BY <2>2, <2>5, <2>6 DEF ClockOK, s
<1>3. QED BY <1>1, <1>2

\* Deciding a settled game leaves the times as they are.
LEMMA DecideClockOK ==
    ASSUME NEW m \in MatchRecord, NEW t \in Nat, NEW sp \in Tally, NEW gr \in Tally,
           NEW w \in Result,
           ClockOK(m, t, sp, gr), Settled(m, t), m.result = "*", m.expired = FALSE
    PROVE  ClockOK([m EXCEPT !.result = w], t, sp, gr)
<1> DEFINE s == [m EXCEPT !.result = w]
<1>1. /\ s.position = m.position /\ s.remaining = m.remaining
      /\ s.startedAt = m.startedAt /\ s.running = m.running
      /\ s.result = w /\ s.expired = m.expired
  BY DEF MatchRecord
<1> HIDE DEF s
<1>2. \A c \in Color : Pending(s, t, c) = 0 /\ Pending(m, t, c) = 0
  <2>1. Live(s) => Live(m)
    BY <1>1 DEF Live
  <2>2. Live(m) => m.startedAt = t
    BY DEF Settled
  <2>3. QED BY <1>1, <2>1, <2>2 DEF Pending
<1>3. ExactClock(s, t, sp, gr)
  BY <1>1, <1>2 DEF ClockOK, ExactClock
<1>4. FlagDown(s) /\ Solvent(s) /\ s.startedAt <= t
  BY <1>1 DEF ClockOK, FlagDown, Solvent
<1>5. QED BY <1>3, <1>4 DEF ClockOK, s

\* While the side to move thinks, what it owes grows with what it spent.
LEMMA TickClockOK ==
    ASSUME NEW m \in MatchRecord, NEW t \in Nat, NEW sp \in Tally, NEW gr \in Tally,
           NEW sp2,
           sp2 = IF Live(m)
                 THEN [sp EXCEPT ![Turn[m.position]] = @ + 1] ELSE sp,
           ClockOK(m, t, sp, gr)
    PROVE  ClockOK(m, t + 1, sp2, gr)
<1> DEFINE turn == Turn[m.position]
<1>1. turn \in Color /\ m.startedAt \in Int /\ m.startedAt <= t
      /\ m.remaining \in [Color -> Int] /\ Initial \in Nat
  BY GameAssumption, ClockAssumption DEF MatchRecord, ClockOK
<1>2. CASE ~Live(m)
  <2>1. \A c \in Color : Pending(m, t + 1, c) = Pending(m, t, c)
    BY <1>2 DEF Pending
  <2>2. sp2 = sp
    BY <1>2
  <2>3. ExactClock(m, t + 1, sp2, gr)
    BY <2>1, <2>2 DEF ClockOK, ExactClock
  <2>4. m.startedAt <= t + 1
    BY <1>1
  <2>5. QED BY <2>3, <2>4 DEF ClockOK
<1>3. CASE Live(m)
  <2>1. m.expired = FALSE
    BY <1>3 DEF Live, ClockOK, FlagDown, MatchRecord
  <2>2. sp2 = [sp EXCEPT ![turn] = sp[turn] + 1]
    BY <1>3
  <2>3. ASSUME NEW c \in Color
        PROVE  m.remaining[c] - Pending(m, t + 1, c) = Initial + gr[c] - sp2[c]
    <3>1. m.remaining[c] - Pending(m, t, c) = Initial + gr[c] - sp[c]
      BY <2>1 DEF ClockOK, ExactClock
    <3>2. CASE c = turn
      <4>1. Pending(m, t, c) = t - m.startedAt
            /\ Pending(m, t + 1, c) = (t + 1) - m.startedAt
        BY <1>3, <3>2 DEF Pending
      <4>2. sp2[c] = sp[c] + 1
        BY <2>2, <3>2 DEF Tally
      <4>3. QED BY <1>1, <3>1, <4>1, <4>2 DEF Tally
    <3>3. CASE c # turn
      <4>1. Pending(m, t, c) = 0 /\ Pending(m, t + 1, c) = 0
        BY <3>3 DEF Pending
      <4>2. sp2[c] = sp[c]
        BY <2>2, <3>3 DEF Tally
      <4>3. QED BY <3>1, <4>1, <4>2
    <3>4. QED BY <3>2, <3>3
  <2>4. ExactClock(m, t + 1, sp2, gr)
    BY <2>1, <2>3 DEF ExactClock
  <2>5. m.startedAt <= t + 1
    BY <1>1
  <2>6. QED BY <2>4, <2>5 DEF ClockOK
<1>4. QED BY <1>2, <1>3

\* A move on a settled, exact clock leaves it exact, with one increment more.
LEMMA CommitClockOK ==
    ASSUME NEW m \in MatchRecord, NEW t \in Nat, NEW sp \in Tally, NEW gr \in Tally,
           NEW mv \in Move, NEW gr2,
           gr2 = [gr EXCEPT ![Turn[m.position]] = @ + Increment],
           ClockOK(m, t, sp, gr), Settled(m, t), m.result = "*", m.expired = FALSE
    PROVE  ClockOK(CommitMove(m, mv, t), t, sp, gr2)
<1> DEFINE turn == Turn[m.position]
           f == CommitMove(m, mv, t)
<1>1. turn \in Color /\ m.remaining \in [Color -> Int] /\ Initial \in Nat
      /\ Increment \in Nat /\ (Initial = 0 => Increment = 0) /\ m.startedAt \in Int
      /\ m.startedAt <= t
  BY GameAssumption, ClockAssumption DEF MatchRecord, ClockOK
<1>2. CommitCase(m, mv, t, f)
  BY CommitCases
<1> HIDE DEF f
<1>3. f.expired = FALSE
  BY <1>2 DEF CommitCase
<1>4. \A c \in Color : Pending(m, t, c) = 0
  BY DEF Pending, Settled
<1>5. Live(f) => f.startedAt = t
  <2>1. CASE Initial = 0
    <3>1. Live(f) => Live(m)
      BY <1>2, <2>1 DEF Live, CommitCase
    <3>2. QED BY <1>2, <2>1, <3>1 DEF Settled, CommitCase
  <2>2. CASE Initial # 0
    BY <1>2, <2>2 DEF Live, CommitCase
  <2>3. QED BY <2>1, <2>2
<1>6. \A c \in Color : Pending(f, t, c) = 0
  BY <1>5 DEF Pending
<1>7. f.startedAt <= t
  BY <1>1, <1>2 DEF CommitCase
<1>8. ASSUME NEW c \in Color
      PROVE  f.remaining[c] - m.remaining[c] = gr2[c] - gr[c]
             /\ f.remaining[c] >= m.remaining[c] /\ f.remaining[c] \in Int
  <2>1. CASE c = turn
    <3>1. gr2[c] = gr[c] + Increment
      BY <2>1 DEF Tally
    <3>2. CASE Initial = 0
      BY <1>1, <1>2, <3>1, <3>2 DEF CommitCase, Tally
    <3>3. CASE Initial # 0
      <4>1. f.remaining[c] = m.remaining[c] + Increment
        BY <1>1, <1>2, <2>1, <3>3 DEF CommitCase
      <4>2. QED BY <1>1, <3>1, <4>1 DEF Tally
    <3>4. QED BY <3>2, <3>3
  <2>2. CASE c # turn
    <3>1. gr2[c] = gr[c]
      BY <2>2 DEF Tally
    <3>2. f.remaining[c] = m.remaining[c]
      BY <1>1, <1>2, <2>2 DEF CommitCase
    <3>3. QED BY <1>1, <3>1, <3>2 DEF Tally
  <2>3. QED BY <2>1, <2>2
<1>9. ExactClock(f, t, sp, gr2)
  <2> SUFFICES ASSUME NEW c \in Color
               PROVE  f.remaining[c] - Pending(f, t, c) = Initial + gr2[c] - sp[c]
    BY <1>3 DEF ExactClock
  <2>1. m.remaining[c] - Pending(m, t, c) = Initial + gr[c] - sp[c]
    BY DEF ClockOK, ExactClock
  <2>2. gr2[c] \in Int
    BY <1>1 DEF Tally
  <2>3. QED BY <1>1, <1>4, <1>6, <1>8, <2>1, <2>2 DEF Tally
<1>10. FlagDown(f)
  BY <1>3 DEF FlagDown
<1>11. Solvent(f)
  <2>1. Initial > 0 => \A c \in Color : m.remaining[c] > 0
    BY DEF ClockOK, Solvent
  <2>2. QED BY <1>1, <1>8, <2>1 DEF Solvent
<1>12. QED BY <1>7, <1>9, <1>10, <1>11 DEF ClockOK, f
-----------------------------------------------------------------------------
(* Draws: an offer on the table was made in the current position by a      *)
(* seated player.                                                          *)

DrawOK(m, ag) ==
    /\ AgreedDraw(m, ag)
    /\ m.drawOfferedBy # NoPlayer => m.drawOfferedBy \in ag
    /\ \A p \in ag : p # NoPlayer /\ Seated(m, p)

\* A flag makes no draw and leaves the offer on the table.
LEMMA SyncDrawOK ==
    ASSUME NEW m \in MatchRecord, NEW t \in Int, NEW ag, DrawOK(m, ag)
    PROVE  DrawOK(SyncClock(m, t), ag)
<1> DEFINE s == SyncClock(m, t)
<1>1. KeepsGame(m, s) /\ SyncCase(m, t, s)
  BY SyncCases
<1>2. Turn[m.position] \in Color
  BY GameAssumption DEF MatchRecord
<1>3. s.result = m.result \/ s.result # Drawn
  BY <1>1, <1>2, OtherColor, WinIsResult DEF SyncCase
<1> HIDE DEF s
<1>4. DrawOK(s, ag)
  BY <1>1, <1>3 DEF DrawOK, AgreedDraw, KeepsGame, Seated
<1>5. QED BY <1>4 DEF s

\* Taking a seat keeps an agreed draw agreed.
LEMMA JoinDrawOK ==
    ASSUME NEW m \in MatchRecord, NEW p \in Player, NEW c \in Color, NEW t \in Int,
           NEW ag, DrawOK(m, ag)
    PROVE  DrawOK(JoinMatch(m, p, c, t).match, ag)
<1> DEFINE f == JoinMatch(m, p, c, t).match
<1>1. /\ f.position = m.position /\ f.result = m.result
      /\ f.drawOfferedBy = m.drawOfferedBy
      /\ \A d \in Color : m.players[d] # NoPlayer => f.players[d] = m.players[d]
  BY JoinFields
<1> HIDE DEF f
<1>2. \A q \in ag : Seated(f, q)
  BY <1>1 DEF DrawOK, Seated
<1>3. AgreedDraw(f, ag)
  BY <1>1 DEF DrawOK, AgreedDraw
<1>4. QED BY <1>1, <1>2, <1>3 DEF DrawOK, f

\* A draw by offer and acceptance is agreed by both seated players.
LEMMA OfferDrawOK ==
    ASSUME NEW m \in MatchRecord, NEW p \in Player, NEW t \in Int, NEW ag,
           DrawOK(m, ag), SeatsOK(m)
    PROVE  LET o == OfferDraw(m, p, t)
           IN  DrawOK(o.match, IF o.err = OK THEN ag \cup {p} ELSE ag)
<1> DEFINE s == SyncClock(m, t)
           o == OfferDraw(m, p, t)
<1>1. DrawOK(s, ag) /\ s \in MatchRecord /\ SeatsOK(s)
  BY SyncDrawOK, SyncType, SyncSeats, SameSeatsOK
<1>2. p # NoPlayer
  BY PlayerAssumption
<1>3. \/ o.match = s /\ o.err # OK
      \/ /\ o.err = OK /\ MayAct(s, p)
         /\ s.drawOfferedBy # NoPlayer /\ s.drawOfferedBy # p
         /\ o.match = [s EXCEPT !.result = Drawn]
      \/ /\ o.err = OK /\ MayAct(s, p)
         /\ o.match = [s EXCEPT !.drawOfferedBy = p]
  BY OfferCases
<1> HIDE DEF s, o
<1>4. CASE o.match = s /\ o.err # OK
  BY <1>1, <1>4 DEF o
<1>5. CASE /\ o.err = OK /\ MayAct(s, p)
           /\ s.drawOfferedBy # NoPlayer /\ s.drawOfferedBy # p
           /\ o.match = [s EXCEPT !.result = Drawn]
  <2> DEFINE d == o.match
             q == s.drawOfferedBy
  <2>1. KeepsGame(s, d)
    BY <1>1, <1>5, DecideFields
  <2>2. q \in ag /\ Seated(s, q) /\ Seated(s, p)
    BY <1>1, <1>5 DEF DrawOK, MayAct
  <2>3. \A c \in Color : s.players[c] \in {p, q}
    BY <1>1, <1>2, <1>5, <2>2 DEF Seated, Color, SeatsOK
  <2>4. \A c \in Color : d.players[c] \in ag \cup {p}
    BY <2>1, <2>2, <2>3 DEF KeepsGame
  <2>5. \A r \in ag \cup {p} : r # NoPlayer /\ Seated(d, r)
    BY <1>1, <1>2, <2>1, <2>2 DEF DrawOK, KeepsGame, Seated
  <2>6. d.drawOfferedBy \in ag \cup {p}
    BY <2>1, <2>2 DEF KeepsGame
  <2>7. QED BY <1>5, <2>4, <2>5, <2>6 DEF DrawOK, AgreedDraw, o
<1>6. CASE /\ o.err = OK /\ MayAct(s, p)
           /\ o.match = [s EXCEPT !.drawOfferedBy = p]
  <2> DEFINE d == o.match
  <2>1. /\ d.players = s.players /\ d.result = s.result
        /\ d.position = s.position /\ d.drawOfferedBy = p
    BY <1>1, <1>6 DEF MatchRecord
  <2>2. d.result # Drawn
    BY <1>6, <2>1 DEF MayAct, Drawn
  <2>3. \A r \in ag \cup {p} : r # NoPlayer /\ Seated(d, r)
    BY <1>1, <1>2, <1>6, <2>1 DEF DrawOK, MayAct, Seated
  <2>4. QED BY <1>6, <2>1, <2>2, <2>3 DEF DrawOK, AgreedDraw, o
<1>7. QED BY <1>3, <1>4, <1>5, <1>6
-----------------------------------------------------------------------------
(* The game: types, seats, the line and the draws are kept by every step   *)
(* whatever the clocks show.                                               *)

GameInv ==
    /\ TypeOK
    /\ SeatsOK(match)
    /\ LineOK(match)
    /\ DrawOK(match, agreed)

\* An accepted move came, in time, to an undecided game.
LEMMA AcceptedFacts ==
    ASSUME TypeOK, NEW r \in Request, MoveAccepted(r),
           NEW s, s = SyncClock(match, now)
    PROVE  /\ s \in MatchRecord /\ s.result = "*" /\ s.expired = FALSE
           /\ r.move \in Legal[s.position] /\ r.move \in Move
           /\ match.result = "*" /\ s.position = match.position
           /\ s.moves = match.moves /\ s.sequence = match.sequence
           /\ match' = CommitMove(s, r.move, now)
<1> USE DEF TypeOK
<1>0. now \in Int
  OBVIOUS
<1>1. s \in MatchRecord
  BY <1>0, SyncType
<1>2. MoveError(s, r) = OK
  BY DEF MoveAccepted, RequestError, OK
<1>3. s.expired = FALSE /\ s.result = "*" /\ r.move \in Legal[s.position]
  BY <1>1, <1>2 DEF MoveError, OK, MatchRecord
<1>4. match' = CommitMove(s, r.move, now)
  BY <1>2 DEF MoveAccepted, ApplyMove, Done
<1>5. KeepsGame(match, s) /\ SyncCase(match, now, s)
  BY <1>0, SyncCases
<1>6. match.result = "*"
  BY <1>3, <1>5 DEF SyncCase, Thinking, Live
<1>7. r.move \in Move
  BY DEF Request
<1>8. QED BY <1>1, <1>3, <1>4, <1>5, <1>6, <1>7 DEF KeepsGame

\* A new match is in order.
LEMMA InitGame == Init => GameInv
<1> SUFFICES ASSUME Init PROVE GameInv
  OBVIOUS
<1>1. TypeOK
  BY InitTypeOK
<1>2. SeatsOK(match)
  BY PlayerAssumption DEF Init, NewMatch, SeatsOK, Color
<1>3. LineOK(match)
  BY LineOfNew DEF Init
<1>4. DrawOK(match, agreed)
  <2>1. match.result = PositionResult(match.position)
        /\ match.position \in Position /\ agreed = {}
        /\ match.drawOfferedBy = NoPlayer
    BY GameAssumption DEF Init, NewMatch
  <2>2. PositionResult(match.position) = Drawn => Legal[match.position] = {}
    BY DEF PositionResult, Drawn
  <2>3. QED BY <2>1, <2>2 DEF DrawOK, AgreedDraw
<1>5. QED BY <1>1, <1>2, <1>3, <1>4 DEF GameInv

\* Every step keeps the game in order.
LEMMA NextGame == GameInv /\ [Next]_vars => GameInv'
<1> SUFFICES ASSUME GameInv, [Next]_vars PROVE GameInv'
  OBVIOUS
<1>0. /\ TypeOK /\ match \in MatchRecord /\ now \in Int
      /\ SeatsOK(match) /\ LineOK(match) /\ DrawOK(match, agreed)
  BY DEF GameInv, TypeOK
<1>t. TypeOK'
  BY <1>0, NextTypeOK
<1> DEFINE s == SyncClock(match, now)
<1>s. /\ s \in MatchRecord /\ SeatsOK(s) /\ LineOK(s) /\ DrawOK(s, agreed)
      /\ KeepsGame(match, s)
  BY <1>0, SyncType, SyncSeats, SameSeatsOK, SyncDrawOK, SyncCases, SameLineOK
  DEF KeepsGame
<1>1. ASSUME NEW p \in Player, NEW c \in Color, Join(p, c) PROVE GameInv'
  <2> DEFINE j == JoinMatch(match, p, c, now).match
  <2>1. match' = j /\ agreed' = agreed
    BY <1>1 DEF Join, ghosts
  <2>2. SeatsOK(j) /\ DrawOK(j, agreed)
    BY <1>0, SeatsOfJoin, JoinDrawOK
  <2>3. LineOK(j)
    BY <1>0, JoinFields, SameLineOK
  <2>4. QED BY <1>t, <2>1, <2>2, <2>3 DEF GameInv
<1>2. ASSUME NEW p \in Player, Spectate(p) PROVE GameInv'
  <2> DEFINE j == JoinSpectator(match, p).match
  <2>1. match' = j /\ agreed' = agreed
    BY <1>2 DEF Spectate, ghosts
  <2>2. SeatsOK(j)
    BY <1>0, SeatsOfSpectate
  <2>3. /\ j.position = match.position /\ j.sequence = match.sequence
        /\ j.moves = match.moves /\ j.result = match.result
        /\ j.players = match.players /\ j.drawOfferedBy = match.drawOfferedBy
    BY <1>0 DEF JoinSpectator, Done, Fail, MatchRecord
  <2>4. LineOK(j) /\ DrawOK(j, agreed)
    BY <1>0, <2>3, SameLineOK DEF DrawOK, AgreedDraw, Seated
  <2>5. QED BY <1>t, <2>1, <2>2, <2>4 DEF GameInv
<1>3. ASSUME NEW r \in Request, MoveAccepted(r) PROVE GameInv'
  <2> DEFINE f == CommitMove(s, r.move, now)
  <2>1. /\ s.result = "*" /\ r.move \in Move /\ r.move \in Legal[s.position]
        /\ match' = f /\ agreed' = {}
    BY <1>0, <1>3, AcceptedFacts DEF MoveAccepted
  <2>2. CommitCase(s, r.move, now, f)
    BY <1>0, <1>s, <2>1, CommitCases
  <2>3. LineOK(f)
    BY <1>0, <1>s, <2>1, LineOfCommit
  <2> HIDE DEF s, f
  <2>4. SeatsOK(f)
    BY <1>s, <2>2 DEF CommitCase, SeatsOK
  <2>5. DrawOK(f, {})
    <3>1. f.result = Drawn => Legal[f.position] = {}
      BY <2>1, <2>2 DEF CommitCase, PositionResult, Drawn
    <3>2. f.drawOfferedBy = NoPlayer
      BY <2>2 DEF CommitCase
    <3>3. QED BY <3>1, <3>2 DEF DrawOK, AgreedDraw
  <2>6. QED BY <1>t, <2>1, <2>3, <2>4, <2>5 DEF GameInv
<1>4. ASSUME NEW r \in Request, MoveRejected(r) PROVE GameInv'
  BY <1>4, <1>s, <1>t DEF MoveRejected, ghosts, GameInv
<1>5. ASSUME NEW p \in Player, PlayerResigns(p) PROVE GameInv'
  <2> DEFINE f == Resign(match, p, now).match
  <2>1. match' = f /\ agreed' = agreed
    BY <1>5 DEF PlayerResigns, ghosts
  <2>2. \/ f = s
        \/ \E w \in Result \ {"*", Drawn} : f = [s EXCEPT !.result = w]
    BY <1>0, ResignCases
  <2> HIDE DEF s, f
  <2>3. CASE f = s
    BY <1>s, <1>t, <2>1, <2>3 DEF GameInv
  <2>4. ASSUME NEW w \in Result \ {"*", Drawn}, f = [s EXCEPT !.result = w]
        PROVE  GameInv'
    <3>1. KeepsGame(s, f) /\ f.result = w
      BY <1>s, <2>4, DecideFields
    <3>2. SeatsOK(f) /\ LineOK(f)
      BY <1>s, <3>1, SameLineOK DEF KeepsGame, SeatsOK
    <3>3. DrawOK(f, agreed)
      BY <1>s, <2>4, <3>1 DEF DrawOK, AgreedDraw, KeepsGame, Seated
    <3>4. QED BY <1>t, <2>1, <3>2, <3>3 DEF GameInv
  <2>5. QED BY <2>2, <2>3, <2>4
<1>6. ASSUME NEW p \in Player, PlayerOffersDraw(p) PROVE GameInv'
  <2> DEFINE o == OfferDraw(match, p, now)
             f == o.match
  <2>1. match' = f /\ agreed' = (IF o.err = OK THEN agreed \cup {p} ELSE agreed)
    BY <1>6 DEF PlayerOffersDraw
  <2>2. DrawOK(f, agreed')
    BY <1>0, <2>1, OfferDrawOK
  <2>3. \/ f = s
        \/ f = [s EXCEPT !.result = Drawn]
        \/ f = [s EXCEPT !.drawOfferedBy = p]
    BY <1>0, OfferCases
  <2> HIDE DEF s, o, f
  <2>4. /\ SameSeats(s, f) /\ f.position = s.position
        /\ f.sequence = s.sequence /\ f.moves = s.moves
    BY <1>s, <2>3 DEF SameSeats, MatchRecord
  <2>5. SeatsOK(f) /\ LineOK(f)
    BY <1>s, <2>4, SameSeatsOK, SameLineOK
  <2>6. QED BY <1>t, <2>1, <2>2, <2>5 DEF GameInv
<1>7. CASE Snapshot
  BY <1>7, <1>s, <1>t DEF Snapshot, ghosts, GameInv
<1>8. CASE Tick
  BY <1>0, <1>8, <1>t DEF Tick, GameInv
<1>9. CASE UNCHANGED vars
  BY <1>0, <1>9, <1>t DEF vars, GameInv
<1>10. QED
  BY <1>1, <1>2, <1>3, <1>4, <1>5, <1>6, <1>7, <1>8, <1>9 DEF Next
-----------------------------------------------------------------------------
(* The inductive invariant.                                                *)

IInv == GameInv /\ ClockOK(match, now, spent, granted)

\* The inductive invariant holds of a new match.
LEMMA InitIInv == Init => IInv
<1> SUFFICES ASSUME Init PROVE IInv
  OBVIOUS
<1>1. \A c \in Color : Pending(match, now, c) = 0
  BY DEF Init, NewMatch, Pending, Live
<1>2. match.expired = FALSE /\ match.startedAt = 0
      /\ match.remaining = [c \in Color |-> Initial]
  BY DEF Init, NewMatch
<1>3. ClockOK(match, now, spent, granted)
  BY <1>1, <1>2, ClockAssumption
  DEF Init, ClockOK, ExactClock, FlagDown, Solvent
<1>4. QED BY <1>3, InitGame DEF IInv

\* Every step keeps the clocks exact.
LEMMA NextClock ==
    IInv /\ [Next]_vars => ClockOK(match, now, spent, granted)'
<1> SUFFICES ASSUME IInv, [Next]_vars
             PROVE  ClockOK(match', now', spent', granted')
  OBVIOUS
<1>0. /\ TypeOK /\ match \in MatchRecord /\ now \in Nat /\ now \in Int
      /\ spent \in Tally /\ granted \in Tally
      /\ ClockOK(match, now, spent, granted)
  BY DEF IInv, GameInv, TypeOK, Tally
<1> DEFINE s == SyncClock(match, now)
           Goal == ClockOK(match', now', spent', granted')
<1>s. /\ s \in MatchRecord /\ ClockOK(s, now, spent, granted) /\ Settled(s, now)
      /\ s.position = match.position
  BY <1>0, SyncType, SyncClockOK, SyncCases DEF KeepsGame
<1>1. ASSUME NEW p \in Player, NEW c \in Color, Join(p, c) PROVE Goal
  <2> DEFINE j == JoinMatch(match, p, c, now).match
             u == [match EXCEPT !.players = [@ EXCEPT ![c] = p],
                                !.spectators = @ \ {p}]
  <2>1. match' = j /\ now' = now /\ spent' = spent /\ granted' = granted
    BY <1>1 DEF Join, ghosts
  <2>2. u \in MatchRecord /\ SameClock(match, u)
    BY <1>0 DEF MatchRecord, Seat, SameClock
  <2>3. ClockOK(u, now, spent, granted)
    BY <1>0, <2>2, SameClockOK
  <2>4. j = match \/ j = StartClock(u, now)
    BY DEF JoinMatch, Done, Fail
  <2>5. ClockOK(j, now, spent, granted)
    <3> HIDE DEF u, j
    <3> QED BY <1>0, <2>2, <2>3, <2>4, StartClockOK
  <2>6. QED BY <2>1, <2>5
<1>2. ASSUME NEW p \in Player, Spectate(p) PROVE Goal
  <2> DEFINE j == JoinSpectator(match, p).match
  <2>1. match' = j /\ now' = now /\ spent' = spent /\ granted' = granted
    BY <1>2 DEF Spectate, ghosts
  <2>2. SameClock(match, j)
    BY <1>0 DEF JoinSpectator, Done, Fail, MatchRecord, SameClock
  <2>3. QED BY <1>0, <2>1, <2>2, SameClockOK
<1>3. ASSUME NEW r \in Request, MoveAccepted(r) PROVE Goal
  <2> DEFINE f == CommitMove(s, r.move, now)
  <2>1. /\ s.result = "*" /\ s.expired = FALSE /\ r.move \in Move /\ match' = f
    BY <1>0, <1>3, AcceptedFacts
  <2>2. /\ granted' = [granted EXCEPT ![Turn[s.position]] = @ + Increment]
        /\ now' = now /\ spent' = spent
    BY <1>3, <1>s DEF MoveAccepted
  <2> HIDE DEF s, f
  <2>3. ClockOK(f, now, spent, granted')
    BY <1>0, <1>s, <2>1, <2>2, CommitClockOK DEF f
  <2>4. QED BY <2>1, <2>2, <2>3
<1>4. ASSUME NEW r \in Request, MoveRejected(r) PROVE Goal
  BY <1>4, <1>s DEF MoveRejected, ghosts
<1>5. ASSUME NEW p \in Player, PlayerResigns(p) PROVE Goal
  <2> DEFINE f == Resign(match, p, now).match
  <2>1. match' = f /\ now' = now /\ spent' = spent /\ granted' = granted
    BY <1>5 DEF PlayerResigns, ghosts
  <2>2. \/ f = s
        \/ /\ MayAct(s, p)
           /\ \E w \in Result \ {"*", Drawn} : f = [s EXCEPT !.result = w]
    BY <1>0, ResignCases
  <2> HIDE DEF s, f
  <2>3. ClockOK(f, now, spent, granted)
    <3>1. CASE f = s
      BY <1>s, <3>1
    <3>2. ASSUME MayAct(s, p), NEW w \in Result \ {"*", Drawn},
                 f = [s EXCEPT !.result = w]
          PROVE  ClockOK(f, now, spent, granted)
      BY <1>0, <1>s, <3>2, DecideClockOK DEF MayAct
    <3>3. QED BY <2>2, <3>1, <3>2
  <2>4. QED BY <2>1, <2>3
<1>6. ASSUME NEW p \in Player, PlayerOffersDraw(p) PROVE Goal
  <2> DEFINE f == OfferDraw(match, p, now).match
  <2>1. match' = f /\ now' = now /\ spent' = spent /\ granted' = granted
    BY <1>6 DEF PlayerOffersDraw
  <2>2. \/ f = s
        \/ /\ MayAct(s, p) /\ f = [s EXCEPT !.result = Drawn]
        \/ f = [s EXCEPT !.drawOfferedBy = p]
    BY <1>0, OfferCases
  <2> HIDE DEF s, f
  <2>3. ClockOK(f, now, spent, granted)
    <3>1. CASE f = s
      BY <1>s, <3>1
    <3>2. CASE MayAct(s, p) /\ f = [s EXCEPT !.result = Drawn]
      BY <1>0, <1>s, <3>2, DecideClockOK DEF MayAct, Result, Drawn
    <3>3. CASE f = [s EXCEPT !.drawOfferedBy = p]
      <4>1. SameClock(s, f)
        BY <1>s, <3>3 DEF SameClock, MatchRecord
      <4>2. QED BY <1>s, <4>1, SameClockOK
    <3>4. QED BY <2>2, <3>1, <3>2, <3>3
  <2>4. QED BY <2>1, <2>3
<1>7. CASE Snapshot
  BY <1>7, <1>s DEF Snapshot, ghosts
<1>8. CASE Tick
  <2>1. match' = match /\ now' = now + 1 /\ granted' = granted
        /\ spent' = IF Live(match)
                    THEN [spent EXCEPT ![Turn[match.position]] = @ + 1] ELSE spent
    BY <1>8 DEF Tick
  <2>2. ClockOK(match, now + 1, spent', granted)
    BY <1>0, <2>1, TickClockOK
  <2>3. QED BY <2>1, <2>2
<1>9. CASE UNCHANGED vars
  BY <1>0, <1>9 DEF vars
<1>10. QED
  BY <1>1, <1>2, <1>3, <1>4, <1>5, <1>6, <1>7, <1>8, <1>9 DEF Next

\* Every reachable match satisfies the inductive invariant.
THEOREM Invariance == Spec => []IInv
<1>1. Init => IInv
  BY InitIInv
<1>2. IInv /\ [Next]_vars => IInv'
  BY NextGame, NextClock DEF IInv
<1>3. QED BY <1>1, <1>2, PTL DEF Spec

\* No interleaving of joins seats a player twice or leaves him watching himself.
THEOREM SeatsStayExclusive == Spec => []SeatsExclusive
<1>1. IInv => SeatsExclusive
  BY DEF IInv, GameInv, SeatsExclusive
<1>2. QED BY <1>1, Invariance, PTL

\* The clocks are exact for every initial time, increment and game.
THEOREM ClocksStayExact == Spec => []ClockIsExact
<1>1. IInv => ClockIsExact
  BY DEF IInv, ClockOK, ClockIsExact
<1>2. QED BY <1>1, Invariance, PTL

\* A draw off the board was called for by both players in the final position.
THEOREM DrawsAreAgreed == Spec => []DrawIsAgreed
<1>1. IInv => DrawIsAgreed
  BY DEF IInv, GameInv, DrawOK, DrawIsAgreed
<1>2. QED BY <1>1, Invariance, PTL

\* The history is the legal game that led to the board, after any number of
\* moves: what NewMatchFromState relies on when it plays it again.
THEOREM HistoryStaysLegal == Spec => []HistoryReplays
<1>1. IInv => HistoryReplays
  BY DEF IInv, GameInv, HistoryReplays
<1>2. QED BY <1>1, Invariance, PTL
-----------------------------------------------------------------------------
(* Steps.                                                                  *)

\* A decided match is left alone by the clock, so nothing that starts by
\* settling it can touch it.
LEMMA SyncDecided ==
    ASSUME NEW m, NEW t, m.result # "*"
    PROVE  SyncClock(m, t) = m
BY DEF SyncClock, Thinking, Live

SameVerdict(m, s) ==
    /\ s.result = m.result /\ s.position = m.position /\ s.moves = m.moves
    /\ s.remaining = m.remaining /\ s.drawOfferedBy = m.drawOfferedBy

\* Nothing reopens, replays or re-times a decided match.
THEOREM DecidedStaysFrozen == Spec => DecidedIsFrozen
<1>1. ASSUME IInv, Next, match.result # "*"
      PROVE  SameVerdict(match, match')
  <2>0. match \in MatchRecord /\ now \in Int
    BY <1>1 DEF IInv, GameInv, TypeOK
  <2>s. SyncClock(match, now) = match
    BY <1>1, SyncDecided
  <2>1. ASSUME NEW p \in Player, NEW c \in Color, Join(p, c)
        PROVE  SameVerdict(match, match')
    BY <2>0, <2>1, JoinFields DEF Join, SameVerdict
  <2>2. ASSUME NEW p \in Player, Spectate(p) PROVE SameVerdict(match, match')
    BY <2>0, <2>2 DEF Spectate, JoinSpectator, Done, Fail, MatchRecord, SameVerdict
  <2>3. ASSUME NEW r \in Request, MoveAccepted(r) PROVE SameVerdict(match, match')
    BY <1>1, <2>3, AcceptedFacts DEF IInv, GameInv
  <2>4. ASSUME NEW r \in Request, MoveRejected(r) PROVE SameVerdict(match, match')
    BY <2>4, <2>s DEF MoveRejected, SameVerdict
  <2>5. ASSUME NEW p \in Player, PlayerResigns(p) PROVE SameVerdict(match, match')
    BY <1>1, <2>0, <2>5, <2>s, ResignCases DEF PlayerResigns, MayAct, SameVerdict
  <2>6. ASSUME NEW p \in Player, PlayerOffersDraw(p) PROVE SameVerdict(match, match')
    <3>1. SeatedError(match, p) # OK
      BY <1>1, <2>0, SeatedErrorOK DEF MayAct
    <3>2. match' = match
      BY <2>6, <2>s, <3>1 DEF PlayerOffersDraw, OfferDraw, Fail
    <3>3. QED BY <3>2 DEF SameVerdict
  <2>7. CASE Snapshot
    BY <2>7, <2>s DEF Snapshot, SameVerdict
  <2>8. CASE Tick
    BY <2>8 DEF Tick, SameVerdict
  <2>9. QED
    BY <1>1, <2>1, <2>2, <2>3, <2>4, <2>5, <2>6, <2>7, <2>8 DEF Next
<1>2. IInv /\ [Next]_vars =>
        [match.result # "*" =>
           /\ match'.result = match.result
           /\ match'.position = match.position
           /\ match'.moves = match.moves
           /\ match'.remaining = match.remaining
           /\ match'.drawOfferedBy = match.drawOfferedBy]_vars
  BY <1>1 DEF SameVerdict
<1>3. QED BY <1>2, Invariance, PTL DEF Spec, DecidedIsFrozen

\* A move is counted only while its side has real time left.
THEOREM NoMoveCountsAfterFlag == Spec => NoMoveAfterFlag
<1>1. ASSUME IInv, Next, match'.sequence # match.sequence, Initial > 0
      PROVE  spent[Turn[match.position]] <
                Initial + granted[Turn[match.position]]
  <2> DEFINE s == SyncClock(match, now)
             mover == Turn[match.position]
  <2>0. /\ match \in MatchRecord /\ now \in Nat /\ now \in Int
        /\ spent \in Tally /\ granted \in Tally
        /\ ClockOK(match, now, spent, granted)
    BY <1>1 DEF IInv, GameInv, TypeOK, Tally
  <2>s. /\ s.sequence = match.sequence /\ s.position = match.position
        /\ s \in MatchRecord
        /\ ClockOK(s, now, spent, granted) /\ Settled(s, now)
    BY <2>0, SyncCases, SyncType, SyncClockOK DEF KeepsGame
  <2>1. \E r \in Request : MoveAccepted(r)
    <3>1. ASSUME NEW p \in Player, NEW c \in Color, Join(p, c) PROVE FALSE
      BY <1>1, <2>0, <3>1, JoinFields DEF Join
    <3>2. ASSUME NEW p \in Player, Spectate(p) PROVE FALSE
      BY <1>1, <2>0, <3>2 DEF Spectate, JoinSpectator, Done, Fail, MatchRecord
    <3>3. ASSUME NEW r \in Request, MoveRejected(r) PROVE FALSE
      BY <1>1, <2>s, <3>3 DEF MoveRejected
    <3>4. ASSUME NEW p \in Player, PlayerResigns(p) PROVE FALSE
      <4>1. \/ match' = s
            \/ \E w \in Result : match' = [s EXCEPT !.result = w]
        BY <2>0, <3>4, ResignCases DEF PlayerResigns
      <4> HIDE DEF s
      <4>2. match'.sequence = s.sequence
        BY <2>s, <4>1, DecideFields DEF KeepsGame
      <4>3. QED BY <1>1, <2>s, <4>2
    <3>5. ASSUME NEW p \in Player, PlayerOffersDraw(p) PROVE FALSE
      <4> DEFINE f == OfferDraw(match, p, now).match
      <4>1. \/ f = s \/ f = [s EXCEPT !.result = Drawn]
            \/ f = [s EXCEPT !.drawOfferedBy = p]
        BY <2>0, OfferCases
      <4>2. match' = f
        BY <3>5 DEF PlayerOffersDraw
      <4> HIDE DEF f, s
      <4>3. f.sequence = s.sequence
        BY <2>s, <4>1 DEF MatchRecord
      <4>4. QED BY <1>1, <2>s, <4>2, <4>3
    <3>6. CASE Snapshot
      BY <1>1, <2>s, <3>6 DEF Snapshot
    <3>7. CASE Tick
      BY <1>1, <3>7 DEF Tick
    <3>8. QED
      BY <1>1, <3>1, <3>2, <3>3, <3>4, <3>5, <3>6, <3>7 DEF Next
  <2>2. s.expired = FALSE
    BY <1>1, <2>1, AcceptedFacts DEF IInv, GameInv
  <2>3. mover \in Color /\ s.remaining[mover] > 0
    BY <1>1, <2>0, <2>2, <2>s, GameAssumption DEF ClockOK, Solvent, MatchRecord
  <2>4. Pending(s, now, mover) = 0
    BY <2>0, <2>s DEF Pending, Settled
  <2>5. s.remaining[mover] - Pending(s, now, mover) =
          Initial + granted[mover] - spent[mover]
    BY <2>2, <2>3, <2>s DEF ClockOK, ExactClock
  <2>6. Initial \in Int /\ granted[mover] \in Int /\ spent[mover] \in Int
        /\ s.remaining[mover] \in Int
    BY <2>0, <2>3, <2>s, ClockAssumption DEF Tally, MatchRecord
  <2> HIDE DEF s, mover
  <2>7. spent[mover] < Initial + granted[mover]
    BY <2>3, <2>4, <2>5, <2>6
  <2>8. QED BY <2>7 DEF mover
<1>2. IInv /\ [Next]_vars =>
        [match'.sequence # match.sequence /\ Initial > 0 =>
           LET mover == Turn[match.position]
           IN  spent[mover] < Initial + granted[mover]]_vars
  BY <1>1
<1>3. QED BY <1>2, Invariance, PTL DEF Spec, NoMoveAfterFlag

-----------------------------------------------------------------------------
(* Refinement: every step of the match is a step of its contract.          *)

\* Settling the clock can only decide an undecided game.
LEMMA SyncContract ==
    ASSUME NEW m \in MatchRecord, NEW t \in Int
    PROVE  LET s == SyncClock(m, t)
           IN  /\ s.moves = m.moves
               /\ s.result = m.result \/ m.result = "*"
               /\ s.result \in Result
<1> DEFINE s == SyncClock(m, t)
<1>1. KeepsGame(m, s) /\ SyncCase(m, t, s) /\ s \in MatchRecord
  BY SyncCases, SyncType
<1> HIDE DEF s
<1>2. s.moves = m.moves /\ s.result \in Result
  BY <1>1 DEF KeepsGame, MatchRecord
<1>3. s.result = m.result \/ m.result = "*"
  BY <1>1 DEF SyncCase, Thinking, Live
<1>4. QED BY <1>2, <1>3 DEF s

\* A match implements the contract its snapshots rely on.
THEOREM MatchKeepsContract == Spec => KeepsContract
<1> USE DEF Contract!ContractNext, Contract!ContractVars, Contract!Extend,
            Contract!Decide
<1>1. Init => Contract!ContractInit
  BY GameAssumption, PositionResultType DEF Init, NewMatch, Contract!ContractInit
<1>2. IInv /\ IInv' /\ [Next]_vars => [Contract!ContractNext]_(Contract!ContractVars)
  <2> SUFFICES ASSUME IInv, IInv', [Next]_vars
               PROVE  [Contract!ContractNext]_(Contract!ContractVars)
    OBVIOUS
  <2> DEFINE s == SyncClock(match, now)
  <2>0. match \in MatchRecord /\ now \in Int /\ match' \in MatchRecord
    BY DEF IInv, GameInv, TypeOK
  <2>s. s.moves = match.moves /\ (s.result = match.result \/ match.result = "*")
        /\ s.result \in Result /\ s \in MatchRecord /\ match'.result \in Result
    BY <2>0, SyncContract, SyncType DEF MatchRecord
  <2>d. ASSUME match'.moves = match.moves,
               match'.result = match.result \/ match.result = "*"
        PROVE  [Contract!ContractNext]_(Contract!ContractVars)
    BY <2>d, <2>s
  <2>1. ASSUME NEW p \in Player, NEW c \in Color, Join(p, c)
        PROVE  [Contract!ContractNext]_(Contract!ContractVars)
    BY <2>0, <2>1, <2>d, JoinFields DEF Join
  <2>2. ASSUME NEW p \in Player, Spectate(p)
        PROVE  [Contract!ContractNext]_(Contract!ContractVars)
    BY <2>0, <2>2, <2>d DEF Spectate, JoinSpectator, Done, Fail, MatchRecord
  <2>3. ASSUME NEW r \in Request, MoveAccepted(r)
        PROVE  [Contract!ContractNext]_(Contract!ContractVars)
    <3>1. /\ match.result = "*" /\ r.move \in Move
          /\ match' = CommitMove(s, r.move, now)
      BY <2>3, AcceptedFacts DEF IInv, GameInv
    <3>2. match'.moves = Append(match.moves, r.move)
      <4>1. CommitCase(s, r.move, now, match')
        BY <2>0, <2>s, <3>1, CommitCases
      <4> HIDE DEF s
      <4>2. QED BY <2>s, <4>1 DEF CommitCase
    <3>3. QED BY <2>s, <3>1, <3>2
  <2>4. ASSUME NEW r \in Request, MoveRejected(r)
        PROVE  [Contract!ContractNext]_(Contract!ContractVars)
    BY <2>4, <2>s, <2>d DEF MoveRejected
  <2>5. ASSUME NEW p \in Player, PlayerResigns(p)
        PROVE  [Contract!ContractNext]_(Contract!ContractVars)
    <3>1. match' = Resign(match, p, now).match
      BY <2>5 DEF PlayerResigns
    <3>2. CASE match' = s
      BY <2>s, <2>d, <3>2
    <3>3. ASSUME MayAct(s, p), NEW w \in Result, match' = [s EXCEPT !.result = w]
          PROVE  [Contract!ContractNext]_(Contract!ContractVars)
      <4>1. match'.moves = s.moves
        <5> HIDE DEF s
        <5> QED BY <2>s, <3>3, DecideFields DEF KeepsGame
      <4>2. match.result = "*"
        BY <2>s, <3>3 DEF MayAct
      <4>3. QED BY <2>s, <2>d, <4>1, <4>2
    <3>4. \/ match' = s
          \/ MayAct(s, p) /\ \E w \in Result : match' = [s EXCEPT !.result = w]
      BY <2>0, <3>1, ResignCases
    <3>5. QED
      <4> HIDE DEF s
      <4> QED BY <3>2, <3>3, <3>4
  <2>6. ASSUME NEW p \in Player, PlayerOffersDraw(p)
        PROVE  [Contract!ContractNext]_(Contract!ContractVars)
    <3>1. match' = OfferDraw(match, p, now).match
      BY <2>6 DEF PlayerOffersDraw
    <3>2. CASE match' = s
      BY <2>s, <2>d, <3>2
    <3>3. CASE /\ MayAct(s, p)
               /\ \/ match' = [s EXCEPT !.result = Drawn]
                  \/ match' = [s EXCEPT !.drawOfferedBy = p]
      <4>1. match'.moves = s.moves
        <5> HIDE DEF s
        <5> QED BY <2>s, <3>3 DEF MatchRecord
      <4>2. match.result = "*"
        BY <2>s, <3>3 DEF MayAct
      <4>3. QED BY <2>s, <2>d, <4>1, <4>2
    <3>4. QED BY <2>0, <3>1, <3>2, <3>3, OfferCases
  <2>7. CASE Snapshot
    BY <2>7, <2>s, <2>d DEF Snapshot
  <2>8. CASE Tick
    BY <2>8, <2>d DEF Tick
  <2>9. CASE UNCHANGED vars
    BY <2>9 DEF vars
  <2>10. QED
    BY <2>1, <2>2, <2>3, <2>4, <2>5, <2>6, <2>7, <2>8, <2>9 DEF Next
<1>3. QED
  BY <1>1, <1>2, Invariance, PTL DEF Spec, KeepsContract, Contract!ContractSpec

-----------------------------------------------------------------------------
(* A match that outlives crashes. TimeOK bounds how far the clock that is  *)
(* shown has fallen behind the exact one, and says that nobody is still    *)
(* playing on time he had used up when the clock was last settled: a match *)
(* keeps it while it is served, and a saved match and the one rebuilt from *)
(* it satisfy it with one rounding more.                                   *)

\* Whole milliseconds are less than a millisecond behind.
LEMMA WholeMillis ==
    ASSUME NEW d \in Nat
    PROVE  LET whole == DurationMillis(d)
           IN  /\ whole \in Nat
               /\ whole * Ms \in Nat
               /\ whole * Ms <= d
               /\ d - whole * Ms <= Ms - 1
<1> DEFINE q == d \div Ms
           r == d % Ms
<1>1. Ms \in Nat /\ Ms > 0
  BY MsAssumption
<1>2. q \in Nat /\ r \in 0 .. Ms - 1 /\ d = Ms * q + r
  BY <1>1
<1>3. CASE d = 0
  BY <1>1, <1>3 DEF DurationMillis
<1>4. CASE d # 0
  <2>1. DurationMillis(d) = q
    BY <1>4 DEF DurationMillis
  <2> HIDE DEF q, r
  <2>2. q * Ms = Ms * q /\ q * Ms \in Nat
    BY <1>1, <1>2
  <2> DEFINE w == q * Ms
  <2>3. d = w + r
    BY <1>2, <2>2
  <2> HIDE DEF w
  <2>4. w \in Nat /\ w <= d /\ d - w <= Ms - 1
    BY <1>1, <1>2, <2>2, <2>3 DEF w
  <2>5. QED BY <1>2, <2>1, <2>4 DEF w
<1>5. QED BY <1>3, <1>4

\* One restart more rounds once more.
LEMMA OneMore ==
    ASSUME NEW n \in Nat
    PROVE  /\ n * (Ms - 1) \in Nat
           /\ (n + 1) * (Ms - 1) = n * (Ms - 1) + (Ms - 1)
<1> DEFINE k == Ms - 1
<1>1. k \in Nat
  BY MsAssumption
<1> HIDE DEF k
<1>2. n * k \in Nat /\ (n + 1) * k = n * k + k
  BY <1>1
<1>3. QED BY <1>2 DEF k
-----------------------------------------------------------------------------
(* Time.                                                                   *)

\* How far the clock that side c is shown is behind the exact one.
Debt(m, t, sp, gr, c) ==
    Initial + gr[c] - sp[c] - (m.remaining[c] - Pending(m, t, c))

\* Side c had time left when its clock was last settled.
Funded(m, t, sp, gr, c) ==
    Initial > 0 => sp[c] - Pending(m, t, c) < Initial + gr[c]

OnTime(m, t, sp, gr, k) ==
    \A c \in Color : Debt(m, t, sp, gr, c) \in 0 .. k /\ Funded(m, t, sp, gr, c)

Untimed(m) == Initial = 0 => ~m.running /\ \A c \in Color : m.remaining[c] = 0

\* Side c of a settled match shows more than the initial time only out of
\* increments it has not spent.
Paid(m, sp, gr, c) == m.remaining[c] <= Initial \/ gr[c] > sp[c]

TimeOK(m, t, sp, gr, k) ==
    /\ m.startedAt <= t
    /\ Untimed(m)
    /\ m.result = "*" => /\ m.expired = FALSE
                         /\ PositionResult(Start) = "*"
                         /\ OnTime(m, t, sp, gr, k)
    /\ m.result # "*" => \A c \in Color : Paid(m, sp, gr, c)

\* A side with nothing pending shows no more than it is due.
LEMMA DueIsPaid ==
    ASSUME NEW m \in MatchRecord, NEW t, NEW sp \in Tally, NEW gr \in Tally,
           NEW k \in Nat, NEW c \in Color,
           Debt(m, t, sp, gr, c) \in 0 .. k, Pending(m, t, c) = 0
    PROVE  Paid(m, sp, gr, c)
<1>1. /\ m.remaining[c] \in Int /\ gr[c] \in Int /\ sp[c] \in Int /\ Initial \in Int
  BY ClockAssumption DEF MatchRecord, Tally
<1>2. Initial + gr[c] - sp[c] - (m.remaining[c] - 0) >= 0
  BY <1>1 DEF Debt
<1>3. QED BY <1>1, <1>2 DEF Paid

\* What leaves the fields of the clock alone leaves the time in order.
LEMMA SameClockTime ==
    ASSUME NEW m, NEW s, NEW t, NEW sp, NEW gr, NEW k,
           TimeOK(m, t, sp, gr, k), SameClock(m, s)
    PROVE  TimeOK(s, t, sp, gr, k)
<1>1. \A c \in Color : Pending(s, t, c) = Pending(m, t, c)
  BY DEF SameClock, Pending, Live
<1>2. \A c \in Color : Debt(s, t, sp, gr, c) = Debt(m, t, sp, gr, c)
  BY <1>1 DEF SameClock, Debt
<1>3. QED BY <1>1, <1>2 DEF TimeOK, SameClock, OnTime, Funded, Untimed, Paid

\* Settling the clock leaves the time in order, and nothing pending.
LEMMA SyncTime ==
    ASSUME NEW m \in MatchRecord, NEW t \in Nat, NEW sp \in Tally, NEW gr \in Tally,
           NEW k \in Nat, TimeOK(m, t, sp, gr, k)
    PROVE  TimeOK(SyncClock(m, t), t, sp, gr, k) /\ Settled(SyncClock(m, t), t)
<1> DEFINE turn == Turn[m.position]
           s == SyncClock(m, t)
<1>1. turn \in Color /\ Left(m, t) \in Int /\ m.remaining \in [Color -> Int]
      /\ m.startedAt \in Int /\ m.startedAt <= t /\ Initial \in Nat
      /\ sp \in [Color -> Int] /\ gr \in [Color -> Int]
  BY GameAssumption, ClockAssumption DEF MatchRecord, Left, TimeOK, Tally
<1>2. KeepsGame(m, s) /\ SyncCase(m, t, s)
  BY SyncCases
<1>3. s.position = m.position
  BY <1>2 DEF KeepsGame
<1> HIDE DEF s
<1>4. CASE s = m /\ ~Thinking(m, t)
  <2>1. Live(m) => m.startedAt = t
    BY <1>1, <1>4 DEF Thinking
  <2>2. QED BY <1>4, <2>1 DEF Settled, s
<1>5. Thinking(m, t) => Live(m) /\ m.result = "*" /\ Untimed(m) /\ m.running
                        /\ Initial > 0 /\ OnTime(m, t, sp, gr, k)
  BY <1>1 DEF Thinking, Live, TimeOK, Untimed
<1>6. CASE /\ Thinking(m, t) /\ Left(m, t) > 0
           /\ s.remaining = [m.remaining EXCEPT ![turn] = Left(m, t)]
           /\ s.startedAt = t /\ s.running = m.running
           /\ s.result = m.result /\ s.expired = m.expired
  <2>1. ASSUME NEW c \in Color
        PROVE  Debt(s, t, sp, gr, c) \in 0 .. k /\ Funded(s, t, sp, gr, c)
    <3>1. Pending(s, t, c) = 0
      BY <1>6, <1>1 DEF Pending
    <3>2. Debt(m, t, sp, gr, c) \in 0 .. k /\ Funded(m, t, sp, gr, c)
      BY <1>5, <1>6 DEF OnTime
    <3>3. CASE c = turn
      <4>1. Pending(m, t, c) = t - m.startedAt
        BY <1>5, <1>6, <3>3 DEF Pending
      <4>2. s.remaining[c] = m.remaining[c] - (t - m.startedAt) /\ s.remaining[c] > 0
        BY <1>1, <1>6, <3>3 DEF Left
      <4>3. Debt(s, t, sp, gr, c) = Debt(m, t, sp, gr, c)
        BY <1>1, <3>1, <4>1, <4>2 DEF Debt
      <4>4. Initial + gr[c] - sp[c] - s.remaining[c] >= 0
        BY <1>1, <3>1, <3>2, <4>2, <4>3 DEF Debt
      <4>5. sp[c] < Initial + gr[c]
        BY <1>1, <4>2, <4>4
      <4>6. QED BY <1>1, <3>1, <3>2, <4>3, <4>5 DEF Funded
    <3>4. CASE c # turn
      <4>1. Pending(m, t, c) = 0
        BY <3>4 DEF Pending
      <4>2. s.remaining[c] = m.remaining[c]
        BY <1>1, <1>6, <3>4
      <4>3. QED BY <3>1, <3>2, <4>1, <4>2 DEF Debt, Funded
    <3>5. QED BY <3>3, <3>4
  <2>2. OnTime(s, t, sp, gr, k)
    BY <2>1 DEF OnTime
  <2>3. Settled(s, t) /\ s.startedAt <= t /\ Untimed(s)
    BY <1>1, <1>5, <1>6 DEF Settled, Untimed
  <2>4. QED BY <1>5, <1>6, <2>2, <2>3 DEF TimeOK, s
<1>7. CASE /\ Thinking(m, t) /\ Left(m, t) <= 0
           /\ s.remaining = [m.remaining EXCEPT ![turn] = 0]
           /\ s.startedAt = t /\ s.running = FALSE /\ s.expired = TRUE
           /\ s.result = WinFor(Other(turn))
  <2>1. s.result # "*"
    BY <1>1, <1>7, OtherColor, WinIsResult
  <2>2. s.startedAt <= t /\ Untimed(s) /\ Settled(s, t)
    BY <1>5, <1>7 DEF Untimed, Settled
  <2>3. ASSUME NEW c \in Color PROVE Paid(s, sp, gr, c)
    <3>1. CASE c = turn
      <4>1. s.remaining[c] = 0
        BY <1>1, <1>7, <3>1
      <4>2. QED BY <1>1, <4>1 DEF Paid
    <3>2. CASE c # turn
      <4>1. Pending(m, t, c) = 0 /\ Debt(m, t, sp, gr, c) \in 0 .. k
        BY <1>5, <1>7, <3>2 DEF Pending, OnTime
      <4>2. Paid(m, sp, gr, c) /\ s.remaining[c] = m.remaining[c]
        BY <1>1, <1>7, <3>2, <4>1, DueIsPaid
      <4>3. QED BY <4>2 DEF Paid
    <3>3. QED BY <3>1, <3>2
  <2>4. QED BY <2>1, <2>2, <2>3 DEF TimeOK, s
<1>8. QED BY <1>2, <1>4, <1>6, <1>7 DEF SyncCase, s

\* Filling the second seat starts the clock with nothing pending.
LEMMA StartTime ==
    ASSUME NEW m \in MatchRecord, NEW t \in Nat, NEW sp, NEW gr, NEW k,
           TimeOK(m, t, sp, gr, k)
    PROVE  TimeOK(StartClock(m, t), t, sp, gr, k)
<1> DEFINE s == StartClock(m, t)
<1>1. CASE s = m
  BY <1>1
<1>2. CASE s # m
  <2>1. s = [m EXCEPT !.running = TRUE, !.startedAt = t] /\ m.result = "*"
        /\ m.running = FALSE /\ Initial > 0
    BY <1>2 DEF StartClock, MatchRecord
  <2> HIDE DEF s
  <2>2. /\ s.position = m.position /\ s.remaining = m.remaining
        /\ s.startedAt = t /\ s.running = TRUE
        /\ s.result = m.result /\ s.expired = m.expired
    BY <2>1 DEF MatchRecord
  <2>3. \A c \in Color : Pending(s, t, c) = 0 /\ Pending(m, t, c) = 0
    <3>1. ~Live(m)
      BY <2>1 DEF Live
    <3>2. t - s.startedAt = 0
      BY <2>2
    <3>3. QED BY <3>1, <3>2 DEF Pending
  <2>4. OnTime(m, t, sp, gr, k) => OnTime(s, t, sp, gr, k)
    BY <2>2, <2>3 DEF OnTime, Debt, Funded
  <2>5. Untimed(s) /\ s.startedAt <= t
    BY <2>1, <2>2 DEF Untimed
  <2>6. QED BY <2>1, <2>2, <2>4, <2>5 DEF TimeOK, s
<1>3. QED BY <1>1, <1>2

\* Deciding a game stops its accounts.
LEMMA DecideTime ==
    ASSUME NEW m \in MatchRecord, NEW t \in Int, NEW sp \in Tally, NEW gr \in Tally,
           NEW k \in Nat, NEW w \in Result \ {"*"},
           TimeOK(m, t, sp, gr, k), Settled(m, t)
    PROVE  TimeOK([m EXCEPT !.result = w], t, sp, gr, k)
<1> DEFINE s == [m EXCEPT !.result = w]
<1>1. /\ s.remaining = m.remaining /\ s.startedAt = m.startedAt
      /\ s.running = m.running /\ s.result = w
  BY DEF MatchRecord
<1> HIDE DEF s
<1>2. ASSUME NEW c \in Color PROVE Paid(m, sp, gr, c)
  <2>1. CASE m.result = "*"
    <3>1. Pending(m, t, c) = 0
      BY DEF Pending, Settled
    <3>2. QED BY <2>1, <3>1, DueIsPaid DEF TimeOK, OnTime
  <2>2. QED BY <2>1 DEF TimeOK
<1>3. \A c \in Color : Paid(s, sp, gr, c)
  BY <1>1, <1>2 DEF Paid
<1>4. QED BY <1>1, <1>3 DEF TimeOK, Untimed, s

\* While the side to move thinks, what is pending grows with what it spent.
LEMMA TickTime ==
    ASSUME NEW m \in MatchRecord, NEW t \in Nat, NEW sp \in Tally, NEW gr \in Tally,
           NEW k \in Nat, NEW sp2,
           sp2 = IF Live(m)
                 THEN [sp EXCEPT ![Turn[m.position]] = @ + 1] ELSE sp,
           TimeOK(m, t, sp, gr, k)
    PROVE  TimeOK(m, t + 1, sp2, gr, k)
<1> DEFINE turn == Turn[m.position]
<1>1. turn \in Color /\ m.startedAt \in Int /\ m.startedAt <= t
      /\ m.remaining \in [Color -> Int] /\ Initial \in Nat
      /\ sp \in [Color -> Int] /\ gr \in [Color -> Int]
  BY GameAssumption, ClockAssumption DEF MatchRecord, TimeOK, Tally
<1>2. m.startedAt <= t + 1
  BY <1>1
<1>3. ASSUME NEW c \in Color, OnTime(m, t, sp, gr, k)
      PROVE  Debt(m, t + 1, sp2, gr, c) \in 0 .. k /\ Funded(m, t + 1, sp2, gr, c)
  <2>1. Debt(m, t, sp, gr, c) \in 0 .. k /\ Funded(m, t, sp, gr, c)
    BY <1>3 DEF OnTime
  <2>2. CASE Live(m) /\ c = turn
    <3>1. Pending(m, t, c) = t - m.startedAt /\ Pending(m, t + 1, c) = (t + 1) - m.startedAt
      BY <2>2 DEF Pending
    <3>2. sp2[c] = sp[c] + 1
      BY <1>1, <2>2
    <3>3. Debt(m, t + 1, sp2, gr, c) = Debt(m, t, sp, gr, c)
      BY <1>1, <3>1, <3>2 DEF Debt
    <3>4. sp2[c] - Pending(m, t + 1, c) = sp[c] - Pending(m, t, c)
      BY <1>1, <3>1, <3>2
    <3>5. QED BY <2>1, <3>3, <3>4 DEF Funded
  <2>3. CASE ~(Live(m) /\ c = turn)
    <3>1. Pending(m, t, c) = 0 /\ Pending(m, t + 1, c) = 0
      BY <2>3 DEF Pending
    <3>2. sp2[c] = sp[c]
      BY <1>1, <2>3
    <3>3. QED BY <2>1, <3>1, <3>2 DEF Debt, Funded
  <2>4. QED BY <2>2, <2>3
<1>4. m.result # "*" => sp2 = sp
  BY DEF Live
<1>5. QED BY <1>2, <1>3, <1>4 DEF TimeOK, OnTime

\* A move on a settled clock leaves the time in order, with one increment more.
LEMMA CommitTime ==
    ASSUME NEW m \in MatchRecord, NEW t \in Nat, NEW sp \in Tally, NEW gr \in Tally,
           NEW k \in Nat, NEW mv \in Move, NEW gr2,
           gr2 = [gr EXCEPT ![Turn[m.position]] = @ + Increment],
           TimeOK(m, t, sp, gr, k), Settled(m, t), m.result = "*"
    PROVE  TimeOK(CommitMove(m, mv, t), t, sp, gr2, k)
<1> DEFINE turn == Turn[m.position]
           f == CommitMove(m, mv, t)
<1>1. turn \in Color /\ m.remaining \in [Color -> Int] /\ Initial \in Nat
      /\ Increment \in Nat /\ (Initial = 0 => Increment = 0) /\ m.startedAt \in Int
      /\ m.startedAt <= t /\ sp \in [Color -> Int] /\ gr \in [Color -> Int]
  <2>1. turn \in Color /\ m.remaining \in [Color -> Int] /\ m.startedAt \in Int
    BY GameAssumption DEF MatchRecord
  <2>2. m.startedAt <= t /\ sp \in [Color -> Int] /\ gr \in [Color -> Int]
    BY DEF TimeOK, Tally
  <2>3. QED BY <2>1, <2>2, ClockAssumption
<1>2. CommitCase(m, mv, t, f) /\ Untimed(m) /\ OnTime(m, t, sp, gr, k)
      /\ PositionResult(Start) = "*" /\ m.expired = FALSE
  BY CommitCases DEF TimeOK
<1> HIDE DEF f
<1>3. f.expired = FALSE
  BY <1>2 DEF CommitCase
<1>4. \A c \in Color : Pending(m, t, c) = 0
  BY DEF Pending, Settled
<1>5. f.startedAt <= t /\ Untimed(f)
  <2>1. CASE Initial = 0
    BY <1>1, <1>2, <2>1 DEF CommitCase, Untimed
  <2>2. CASE Initial # 0
    BY <1>1, <1>2, <2>2 DEF CommitCase, Untimed
  <2>3. QED BY <2>1, <2>2
<1>6. Live(f) => f.startedAt = t
  <2>1. CASE Initial = 0
    BY <1>5, <2>1 DEF Live, Untimed
  <2>2. CASE Initial # 0
    BY <1>2, <2>2 DEF Live, CommitCase
  <2>3. QED BY <2>1, <2>2
<1>7. \A c \in Color : Pending(f, t, c) = 0
  BY <1>6 DEF Pending
<1>8. ASSUME NEW c \in Color
      PROVE  Debt(f, t, sp, gr2, c) \in 0 .. k /\ Funded(f, t, sp, gr2, c)
  <2>0. Debt(m, t, sp, gr, c) \in 0 .. k /\ Funded(m, t, sp, gr, c)
    BY <1>2 DEF OnTime
  <2>1. CASE c = turn
    <3>1. gr2[c] = gr[c] + Increment
      BY <1>1, <2>1
    <3>2. f.remaining[c] = m.remaining[c] + Increment
      BY <1>1, <1>2, <2>1 DEF CommitCase
    <3>3. Debt(f, t, sp, gr2, c) = Debt(m, t, sp, gr, c)
      BY <1>1, <1>4, <1>7, <3>1, <3>2 DEF Debt
    <3>4. Funded(f, t, sp, gr2, c)
      BY <1>1, <1>4, <1>7, <2>0, <3>1 DEF Funded
    <3>5. QED BY <2>0, <3>3, <3>4
  <2>2. CASE c # turn
    <3>1. gr2[c] = gr[c]
      BY <1>1, <2>2
    <3>2. f.remaining[c] = m.remaining[c]
      BY <1>1, <1>2, <2>2 DEF CommitCase
    <3>3. QED BY <1>4, <1>7, <2>0, <3>1, <3>2 DEF Debt, Funded
  <2>3. QED BY <2>1, <2>2
<1>9. \A c \in Color : Paid(f, sp, gr2, c)
  <2>1. f \in MatchRecord
    BY CommitType DEF f
  <2>2. gr2 \in Tally
    BY <1>1, ClockAssumption DEF Tally
  <2>3. QED BY <1>7, <1>8, <2>1, <2>2, DueIsPaid
<1>10. QED BY <1>2, <1>3, <1>5, <1>8, <1>9 DEF TimeOK, OnTime, f

\* Every step of a served match keeps its time in order.
LEMMA NextTime ==
    ASSUME TypeOK, [Next]_vars, NEW k \in Nat, TimeOK(match, now, spent, granted, k)
    PROVE  TimeOK(match', now', spent', granted', k)
<1>0. /\ match \in MatchRecord /\ now \in Nat /\ now \in Int
      /\ spent \in Tally /\ granted \in Tally
  BY DEF TypeOK, Tally
<1> DEFINE s == SyncClock(match, now)
           Goal == TimeOK(match', now', spent', granted', k)
<1>s. /\ s \in MatchRecord /\ TimeOK(s, now, spent, granted, k) /\ Settled(s, now)
      /\ s.position = match.position
  BY <1>0, SyncType, SyncTime, SyncCases DEF KeepsGame
<1>1. ASSUME NEW p \in Player, NEW c \in Color, Join(p, c) PROVE Goal
  <2> DEFINE j == JoinMatch(match, p, c, now).match
             u == [match EXCEPT !.players = [@ EXCEPT ![c] = p],
                                !.spectators = @ \ {p}]
  <2>1. match' = j /\ now' = now /\ spent' = spent /\ granted' = granted
    BY <1>1 DEF Join, ghosts
  <2>2. u \in MatchRecord /\ SameClock(match, u)
    BY <1>0 DEF MatchRecord, Seat, SameClock
  <2>3. TimeOK(u, now, spent, granted, k)
    BY <1>0, <2>2, SameClockTime
  <2>4. j = match \/ j = StartClock(u, now)
    BY DEF JoinMatch, Done, Fail
  <2>5. TimeOK(j, now, spent, granted, k)
    <3> HIDE DEF u, j
    <3> QED BY <1>0, <2>2, <2>3, <2>4, StartTime
  <2>6. QED BY <2>1, <2>5
<1>2. ASSUME NEW p \in Player, Spectate(p) PROVE Goal
  <2> DEFINE j == JoinSpectator(match, p).match
  <2>1. match' = j /\ now' = now /\ spent' = spent /\ granted' = granted
    BY <1>2 DEF Spectate, ghosts
  <2>2. SameClock(match, j)
    BY <1>0 DEF JoinSpectator, Done, Fail, MatchRecord, SameClock
  <2>3. QED BY <1>0, <2>1, <2>2, SameClockTime
<1>3. ASSUME NEW r \in Request, MoveAccepted(r) PROVE Goal
  <2> DEFINE f == CommitMove(s, r.move, now)
  <2>1. s.result = "*" /\ r.move \in Move /\ match' = f
    BY <1>0, <1>3, AcceptedFacts
  <2>2. /\ granted' = [granted EXCEPT ![Turn[s.position]] = @ + Increment]
        /\ now' = now /\ spent' = spent
    BY <1>3, <1>s DEF MoveAccepted
  <2> HIDE DEF s, f
  <2>3. TimeOK(f, now, spent, granted', k)
    BY <1>0, <1>s, <2>1, <2>2, CommitTime DEF f
  <2>4. QED BY <2>1, <2>2, <2>3
<1>4. ASSUME NEW r \in Request, MoveRejected(r) PROVE Goal
  BY <1>4, <1>s DEF MoveRejected, ghosts
<1>5. ASSUME NEW p \in Player, PlayerResigns(p) PROVE Goal
  <2> DEFINE f == Resign(match, p, now).match
  <2>1. match' = f /\ now' = now /\ spent' = spent /\ granted' = granted
    BY <1>5 DEF PlayerResigns, ghosts
  <2>2. \/ f = s
        \/ \E w \in Result \ {"*", Drawn} : f = [s EXCEPT !.result = w]
    BY <1>0, ResignCases
  <2> HIDE DEF s, f
  <2>3. TimeOK(f, now, spent, granted, k)
    <3>1. CASE f = s
      BY <1>s, <3>1
    <3>2. ASSUME NEW w \in Result \ {"*", Drawn}, f = [s EXCEPT !.result = w]
          PROVE  TimeOK(f, now, spent, granted, k)
      BY <1>0, <1>s, <3>2, DecideTime
    <3>3. QED BY <2>2, <3>1, <3>2
  <2>4. QED BY <2>1, <2>3
<1>6. ASSUME NEW p \in Player, PlayerOffersDraw(p) PROVE Goal
  <2> DEFINE f == OfferDraw(match, p, now).match
  <2>1. match' = f /\ now' = now /\ spent' = spent /\ granted' = granted
    BY <1>6 DEF PlayerOffersDraw
  <2>2. \/ f = s
        \/ f = [s EXCEPT !.result = Drawn]
        \/ f = [s EXCEPT !.drawOfferedBy = p]
    BY <1>0, OfferCases
  <2> HIDE DEF s, f
  <2>3. TimeOK(f, now, spent, granted, k)
    <3>1. CASE f = s
      BY <1>s, <3>1
    <3>2. CASE f = [s EXCEPT !.result = Drawn]
      <4>1. Drawn \in Result \ {"*"}
        BY DEF Result, Drawn
      <4>2. QED BY <1>0, <1>s, <3>2, <4>1, DecideTime
    <3>3. CASE f = [s EXCEPT !.drawOfferedBy = p]
      <4>1. SameClock(s, f)
        BY <1>s, <3>3 DEF SameClock, MatchRecord
      <4>2. QED BY <1>s, <4>1, SameClockTime
    <3>4. QED BY <2>2, <3>1, <3>2, <3>3
  <2>4. QED BY <2>1, <2>3
<1>7. CASE Snapshot
  BY <1>7, <1>s DEF Snapshot, ghosts
<1>8. CASE Tick
  <2>1. match' = match /\ now' = now + 1 /\ granted' = granted
        /\ spent' = IF Live(match)
                    THEN [spent EXCEPT ![Turn[match.position]] = @ + 1] ELSE spent
    BY <1>8 DEF Tick
  <2>2. TimeOK(match, now + 1, spent', granted, k)
    BY <1>0, <2>1, TickTime
  <2>3. QED BY <2>1, <2>2
<1>9. CASE UNCHANGED vars
  BY <1>0, <1>9 DEF vars
<1>10. QED
  BY <1>1, <1>2, <1>3, <1>4, <1>5, <1>6, <1>7, <1>8, <1>9 DEF Next
-----------------------------------------------------------------------------
(* What is saved, and what is rebuilt from it.                             *)

LedgerOK(l, t) ==
    /\ l.spent \in Tally /\ l.granted \in Tally /\ l.agreed \in SUBSET Player
    /\ l.now \in Nat /\ l.now <= t

\* A match in order, settled, with its state in the store and its ledger.
SavedFrom(d, st, l, k) ==
    /\ d \in MatchRecord /\ SeatsOK(d) /\ LineOK(d) /\ DrawOK(d, l.agreed)
    /\ TimeOK(d, l.now, l.spent, l.granted, k)
    /\ Settled(d, l.now)
    /\ st = MatchState(d)
    /\ l.live <=> Live(d)

\* The durable state copies the game, and whether and since when its clock runs.
LEMMA StateFields ==
    ASSUME NEW d \in MatchRecord, NEW st, st = MatchState(d)
    PROVE  /\ st.initialFEN = Start /\ st.fen = d.position
           /\ st.sequence = d.sequence /\ st.moves = d.moves
           /\ st.players = d.players /\ st.spectators = d.spectators
           /\ st.result = d.result /\ st.drawOfferedBy = d.drawOfferedBy
           /\ st.clockInitial = DurationMillis(Initial)
           /\ \A c \in Color : st.times[c] = IF Initial > 0
                                             THEN DurationMillis(d.remaining[c]) ELSE 0
           /\ st.clockRunning <=> Initial > 0 /\ Live(d)
           /\ st.clockStartedAt = IF Initial > 0 /\ d.running
                                  THEN d.startedAt ELSE NoInstant
<1>1. st.clockRunning <=> Initial > 0 /\ Live(d)
  BY Zenon DEF MatchState
<1>2. st.times = [c \in Color |-> IF Initial > 0 THEN DurationMillis(d.remaining[c]) ELSE 0]
  BY DEF MatchState
<1>3. QED BY <1>1, <1>2 DEF MatchState

\* A clock is on in the store exactly if it is on in the match.
LEMMA ClockStaysOn ==
    DurationMillis(Initial) \in Nat /\ (DurationMillis(Initial) > 0 <=> Initial > 0)
<1>1. Initial \in Nat /\ Ms \in Nat /\ Ms > 0 /\ Initial % Ms = 0
  BY ClockAssumption, MsAssumption
<1>2. CASE Initial = 0
  BY <1>2 DEF DurationMillis
<1>3. CASE Initial # 0
  <2> DEFINE q == Initial \div Ms
  <2>1. q \in Nat /\ Initial = Ms * q + (Initial % Ms)
    BY <1>1
  <2>2. DurationMillis(Initial) = q
    BY <1>1, <1>3 DEF DurationMillis
  <2> HIDE DEF q
  <2>3. q # 0
    BY <1>1, <1>3, <2>1
  <2>4. QED BY <1>1, <1>3, <2>1, <2>2, <2>3
<1>4. QED BY <1>2, <1>3

\* A match rebuilt from its state, at a later time, is in order, and behind by
\* one rounding more than the match that was saved.
LEMMA RebuiltIsInOrder ==
    ASSUME NEW d, NEW st, NEW l, NEW t \in Nat, NEW k \in Nat,
           SavedFrom(d, st, l, k), LedgerOK(l, t), NEW sp2,
           sp2 = IF l.live THEN [l.spent EXCEPT ![Turn[st.fen]] = @ + (t - l.now)]
                 ELSE l.spent
    PROVE  LET f == MatchFromState(st, t)
           IN  /\ f \in MatchRecord /\ SeatsOK(f) /\ LineOK(f) /\ DrawOK(f, l.agreed)
               /\ sp2 \in Tally
               /\ TimeOK(f, t, sp2, l.granted, k + (Ms - 1))
<1> DEFINE f == MatchFromState(st, t)
           turn == Turn[d.position]
           start == RestoredStart(st, t)
           times == [c \in Color |-> st.times[c] * Ms]
<1>1. /\ d \in MatchRecord /\ SeatsOK(d) /\ LineOK(d) /\ DrawOK(d, l.agreed)
      /\ TimeOK(d, l.now, l.spent, l.granted, k) /\ Settled(d, l.now)
      /\ st = MatchState(d) /\ (l.live <=> Live(d))
  BY DEF SavedFrom
<1>2. /\ turn \in Color /\ d.remaining \in [Color -> Nat] /\ d.startedAt \in Int
      /\ d.running \in BOOLEAN /\ Start \in Position
      /\ l.now \in Nat /\ l.now <= t /\ l.spent \in Tally /\ l.granted \in Tally
      /\ Initial \in Nat /\ Ms \in Nat /\ Ms > 0
  BY <1>1, GameAssumption, ClockAssumption, MsAssumption DEF MatchRecord, LedgerOK
<1>3. /\ st.initialFEN = Start /\ st.fen = d.position
      /\ st.sequence = d.sequence /\ st.moves = d.moves
      /\ st.players = d.players /\ st.spectators = d.spectators
      /\ st.result = d.result /\ st.drawOfferedBy = d.drawOfferedBy
      /\ st.clockInitial = DurationMillis(Initial)
      /\ \A c \in Color : st.times[c] = IF Initial > 0
                                        THEN DurationMillis(d.remaining[c]) ELSE 0
      /\ st.clockRunning <=> Initial > 0 /\ Live(d)
      /\ st.clockStartedAt = IF Initial > 0 /\ d.running THEN d.startedAt ELSE NoInstant
  BY <1>1, StateFields
<1>4. RestoredResult(st) = d.result
  BY <1>1, <1>3 DEF RestoredResult, TimeOK
<1>5. Replay(st.initialFEN, st.moves) = d.position
  BY <1>1, <1>3 DEF LineOK
<1>6. RestoredRunning(st) <=> Live(d)
  <2>1. Live(d) => d.result = "*" /\ Initial > 0
    BY <1>1, <1>2 DEF Live, TimeOK, Untimed
  <2>2. QED BY <1>3, <1>4, <2>1, ClockStaysOn DEF RestoredRunning
<1>7. start \in Int /\ start <= t /\ (Live(d) => start = l.now)
  <2>1. CASE Live(d)
    <3>1. d.running /\ d.startedAt = l.now /\ Initial > 0
      BY <1>1, <1>2, <2>1 DEF Live, Settled, TimeOK, Untimed
    <3>2. st.clockStartedAt = l.now /\ st.clockStartedAt # NoInstant /\ st.clockInitial # 0
      BY <1>2, <1>3, <3>1, ClockStaysOn DEF NoInstant
    <3>3. start = l.now
      BY <3>2 DEF RestoredStart
    <3>4. QED BY <1>2, <3>3
  <2>2. CASE ~Live(d)
    <3>1. start = 0 \/ start = st.clockStartedAt
      BY <1>6, <2>2 DEF RestoredStart
    <3>2. st.clockStartedAt \in {d.startedAt, NoInstant}
      BY <1>3
    <3>3. d.startedAt <= l.now
      BY <1>1 DEF TimeOK
    <3>4. QED BY <1>2, <2>2, <3>1, <3>2, <3>3 DEF NoInstant
  <2>3. QED BY <2>1, <2>2
<1>8. ASSUME NEW c \in Color
      PROVE  /\ times[c] \in Nat
             /\ times[c] <= d.remaining[c] /\ d.remaining[c] - times[c] <= Ms - 1
             /\ Initial = 0 => times[c] = 0
  <2>1. CASE Initial > 0
    <3>1. times[c] = DurationMillis(d.remaining[c]) * Ms
      BY <1>3, <2>1
    <3>2. d.remaining[c] \in Nat
      BY <1>2
    <3>3. QED BY <2>1, <3>1, <3>2, WholeMillis
  <2>2. CASE Initial = 0
    <3>1. times[c] = 0
      BY <1>2, <1>3, <2>2
    <3>2. d.remaining[c] = 0
      BY <1>1, <2>2 DEF TimeOK, Untimed
    <3>3. QED BY <1>2, <2>2, <3>1, <3>2
  <2>3. QED BY <1>2, <2>1, <2>2
<1>9. times \in [Color -> Nat]
  BY <1>8
<1>10. f = [position |-> d.position, sequence |-> d.sequence, moves |-> d.moves,
            players |-> d.players, spectators |-> d.spectators, result |-> d.result,
            drawOfferedBy |-> d.drawOfferedBy, remaining |-> times,
            startedAt |-> start, running |-> RestoredRunning(st), expired |-> FALSE]
  BY <1>3, <1>4, <1>5 DEF MatchFromState
<1> HIDE DEF start, times, f
<1>11. /\ f.position = d.position /\ f.sequence = d.sequence /\ f.moves = d.moves
       /\ f.players = d.players /\ f.spectators = d.spectators /\ f.result = d.result
       /\ f.drawOfferedBy = d.drawOfferedBy /\ f.remaining = times
       /\ f.startedAt = start /\ f.running = RestoredRunning(st) /\ f.expired = FALSE
  BY <1>10
<1>12. f \in MatchRecord
  <2>1. RestoredRunning(st) \in BOOLEAN
    BY DEF RestoredRunning
  <2>2. QED BY <1>1, <1>7, <1>9, <1>10, <2>1 DEF MatchRecord
<1>13. SeatsOK(f) /\ LineOK(f)
  BY <1>1, <1>11, SameSeatsOK, SameLineOK DEF SameSeats
<1>14. DrawOK(f, l.agreed)
  BY <1>1, <1>11 DEF DrawOK, AgreedDraw, Seated
<1>15. Live(f) <=> Live(d)
  BY <1>6, <1>11 DEF Live
<1>16. sp2 \in Tally /\ \A c \in Color :
         sp2[c] = l.spent[c] + (IF Live(d) /\ c = turn THEN t - l.now ELSE 0)
  <2>1. CASE Live(d)
    <3>1. sp2 = [l.spent EXCEPT ![turn] = l.spent[turn] + (t - l.now)]
      BY <1>1, <1>3, <2>1
    <3>2. l.spent[turn] + (t - l.now) \in Nat
      BY <1>2 DEF Tally
    <3> HIDE DEF turn
    <3>3. sp2 \in Tally
      BY <1>2, <3>1, <3>2 DEF Tally
    <3>4. sp2[turn] = l.spent[turn] + (t - l.now)
          /\ \A c \in Color : c # turn => sp2[c] = l.spent[c] /\ l.spent[c] \in Nat
      BY <1>2, <3>1 DEF Tally
    <3>5. QED BY <2>1, <3>3, <3>4
  <2>2. CASE ~Live(d)
    BY <1>1, <1>2, <2>2 DEF Tally
  <2>3. QED BY <2>1, <2>2
<1>17. ASSUME NEW c \in Color
       PROVE  /\ Pending(d, l.now, c) = 0
              /\ Pending(f, t, c) = IF Live(d) /\ c = turn THEN t - l.now ELSE 0
  <2>1. Pending(d, l.now, c) = 0
    BY <1>1, <1>2 DEF Pending, Settled
  <2>2. Live(d) => start = l.now
    BY <1>7
  <2>3. QED BY <1>11, <1>15, <2>1, <2>2 DEF Pending
<1>18. ASSUME NEW c \in Color, OnTime(d, l.now, l.spent, l.granted, k)
       PROVE  /\ Debt(f, t, sp2, l.granted, c) \in 0 .. k + (Ms - 1)
              /\ Funded(f, t, sp2, l.granted, c)
  <2> DEFINE late == IF Live(d) /\ c = turn THEN t - l.now ELSE 0
  <2>1. /\ late \in Int /\ l.spent[c] \in Int /\ l.granted[c] \in Int
        /\ d.remaining[c] \in Int /\ times[c] \in Int
    BY <1>2, <1>8 DEF Tally
  <2>2. sp2[c] = l.spent[c] + late /\ Pending(f, t, c) = late
    BY <1>16, <1>17
  <2> HIDE DEF late
  <2>3. /\ Debt(d, l.now, l.spent, l.granted, c) \in 0 .. k
        /\ Funded(d, l.now, l.spent, l.granted, c) /\ Pending(d, l.now, c) = 0
    BY <1>17, <1>18 DEF OnTime
  <2>4. Initial + l.granted[c] - l.spent[c] - d.remaining[c] \in 0 .. k
    BY <1>2, <2>1, <2>3 DEF Debt
  <2>5. Debt(f, t, sp2, l.granted, c) = Initial + l.granted[c] - l.spent[c] - times[c]
    BY <1>2, <1>11, <2>1, <2>2 DEF Debt
  <2>6. Debt(f, t, sp2, l.granted, c) \in 0 .. k + (Ms - 1)
    BY <1>2, <1>8, <2>1, <2>4, <2>5
  <2>7. Funded(f, t, sp2, l.granted, c)
    BY <1>2, <2>1, <2>2, <2>3 DEF Funded
  <2>8. QED BY <2>6, <2>7
<1>19. Untimed(f)
  <2>1. Initial = 0 => ~Live(d)
    BY <1>1 DEF TimeOK, Untimed, Live
  <2>2. QED BY <1>6, <1>8, <1>11, <2>1 DEF Untimed
<1>20. ASSUME f.result # "*", NEW c \in Color PROVE Paid(f, sp2, l.granted, c)
  <2>1. sp2 = l.spent /\ Paid(d, l.spent, l.granted, c)
    BY <1>1, <1>11, <1>20 DEF TimeOK, Live
  <2>2. times[c] <= d.remaining[c] /\ times[c] \in Int /\ d.remaining[c] \in Int
    BY <1>2, <1>8
  <2>3. QED BY <1>2, <1>11, <2>1, <2>2 DEF Paid
<1>21. TimeOK(f, t, sp2, l.granted, k + (Ms - 1))
  BY <1>1, <1>7, <1>11, <1>18, <1>19, <1>20 DEF TimeOK, OnTime
<1>22. QED BY <1>12, <1>13, <1>14, <1>16, <1>21 DEF f

\* More lost leaves it in order.
LEMMA SavedLonger ==
    ASSUME NEW d, NEW st, NEW l, NEW k \in Nat, NEW j \in Nat, SavedFrom(d, st, l, k)
    PROVE  SavedFrom(d, st, l, k + j)
<1>1. \A i \in 0 .. k : i \in 0 .. k + j
  OBVIOUS
<1>2. OnTime(d, l.now, l.spent, l.granted, k) => OnTime(d, l.now, l.spent, l.granted, k + j)
  BY <1>1 DEF OnTime
<1>3. QED BY <1>2 DEF SavedFrom, TimeOK

-----------------------------------------------------------------------------
(* The inductive invariant.                                                *)

\* What the restarts so far may have rounded off.
Lost == restarts * (Ms - 1)

RunningOK == up => GameInv /\ TimeOK(match, now, spent, granted, Lost)
DownOK ==
    ~up => spent = saved.spent /\ granted = saved.granted /\ agreed = saved.agreed
DiskOK == \E d : SavedFrom(d, disk, saved, Lost)

DurableInv ==
    /\ TypeOK
    /\ restarts \in Nat
    /\ LedgerOK(saved, now)
    /\ RunningOK
    /\ DownOK
    /\ DiskOK

\* The ledger of a served match.
LEMMA LedgerType ==
    ASSUME TypeOK, NEW m PROVE LedgerOK(Ledger(m), now)
BY DEF LedgerOK, Ledger, TypeOK, Tally

\* A settled match in order is saved in order.
LEMMA SettledIsSaved ==
    ASSUME TypeOK, NEW m \in MatchRecord, NEW k, SeatsOK(m), LineOK(m), DrawOK(m, agreed),
           TimeOK(m, now, spent, granted, k), Settled(m, now)
    PROVE  SavedFrom(m, MatchState(m), Ledger(m), k)
<1> DEFINE l == Ledger(m)
<1>1. l.spent = spent /\ l.granted = granted /\ l.agreed = agreed /\ l.now = now
      /\ l.live = Live(m)
  BY DEF Ledger
<1>2. l.live <=> Live(m)
  BY <1>1
<1> HIDE DEF l
<1>3. QED BY <1>1, <1>2 DEF SavedFrom, l

\* A new match is saved as it is created.
LEMMA InitDurable == DurableInit => DurableInv
<1> SUFFICES ASSUME DurableInit PROVE DurableInv
  OBVIOUS
<1>1. Init /\ up = TRUE /\ restarts = 0 /\ match = NewMatch
      /\ disk = MatchState(match) /\ saved = Ledger(match)
  BY DEF DurableInit, Init
<1>2. GameInv /\ TypeOK
  BY <1>1, InitGame DEF GameInv
<1>3. Lost = 0
  BY <1>1, OneMore, MsAssumption DEF Lost
<1>4. TimeOK(match, now, spent, granted, 0) /\ Settled(match, now)
  <2>1. /\ match.expired = FALSE /\ match.startedAt = 0 /\ match.running = FALSE
        /\ match.remaining = [c \in Color |-> Initial]
        /\ match.result = PositionResult(Start) /\ now = 0
        /\ spent = [c \in Color |-> 0] /\ granted = [c \in Color |-> 0]
    BY <1>1 DEF Init, NewMatch
  <2>2. \A c \in Color : Pending(match, now, c) = 0
    BY <2>1 DEF Pending, Live
  <2>3. OnTime(match, now, spent, granted, 0)
    BY <2>1, <2>2, ClockAssumption DEF OnTime, Debt, Funded
  <2>4. Untimed(match) /\ Settled(match, now)
    BY <2>1 DEF Untimed, Settled, Live
  <2>5. \A c \in Color : Paid(match, spent, granted, c)
    BY <2>1, ClockAssumption DEF Paid
  <2>6. QED BY <2>1, <2>3, <2>4, <2>5 DEF TimeOK
<1>5. LedgerOK(saved, now)
  BY <1>1, <1>2, LedgerType
<1>6. SavedFrom(match, disk, saved, 0)
  BY <1>1, <1>2, <1>4, SettledIsSaved DEF GameInv, TypeOK
<1>7. QED
  BY <1>1, <1>2, <1>3, <1>4, <1>5, <1>6 DEF DurableInv, RunningOK, DownOK, DiskOK

\* Serving the match leaves the store alone.
LEMMA ServeKeeps == ASSUME DurableInv, Serve PROVE DurableInv'
<1>1. /\ up /\ Next /\ up' = up /\ disk' = disk /\ restarts' = restarts /\ saved' = saved
  BY DEF Serve, durable
<1>2. GameInv /\ TimeOK(match, now, spent, granted, Lost) /\ Lost \in Nat /\ Lost' = Lost
  BY <1>1, OneMore DEF DurableInv, RunningOK, Lost
<1>3. GameInv' /\ TypeOK'
  BY <1>1, <1>2, NextGame DEF GameInv
<1>4. TimeOK(match', now', spent', granted', Lost)
  BY <1>1, <1>2, NextTime DEF GameInv
<1>5. now <= now'
  <2>1. now \in Nat
    BY DEF DurableInv, TypeOK
  <2>2. now' = now \/ now' = now + 1
    BY <1>1
    DEF Next, Join, Spectate, MoveAccepted, MoveRejected, PlayerResigns,
        PlayerOffersDraw, Snapshot, Tick
  <2>3. QED BY <2>1, <2>2
<1>6. LedgerOK(saved', now')
  <2>1. now \in Nat /\ now' \in Nat /\ LedgerOK(saved, now)
    BY <1>3 DEF DurableInv, TypeOK
  <2>2. saved.now \in Nat /\ saved.now <= now'
    BY <1>5, <2>1 DEF LedgerOK
  <2>3. QED BY <1>1, <2>1, <2>2 DEF LedgerOK
<1>7. RunningOK'
  BY <1>2, <1>3, <1>4 DEF RunningOK
<1>8. DiskOK' /\ DownOK' /\ restarts' \in Nat
  BY <1>1, <1>2 DEF DurableInv, DiskOK, DownOK
<1>9. QED BY <1>3, <1>6, <1>7, <1>8 DEF DurableInv

\* Saving settles the clock, and files the match with its ledger.
LEMMA SaveKeeps == ASSUME DurableInv, Save PROVE DurableInv'
<1> DEFINE s == SyncClock(match, now)
<1>1. /\ up /\ match' = s /\ disk' = MatchState(s) /\ saved' = Ledger(s)
      /\ now' = now /\ spent' = spent /\ granted' = granted /\ agreed' = agreed
      /\ up' = up /\ restarts' = restarts
  BY DEF Save, ghosts
<1>2. GameInv /\ TimeOK(match, now, spent, granted, Lost) /\ Lost \in Nat /\ Lost' = Lost
  BY <1>1, OneMore DEF DurableInv, RunningOK, Lost
<1>3. /\ TypeOK /\ match \in MatchRecord /\ now \in Nat /\ now \in Int
      /\ spent \in Tally /\ granted \in Tally
      /\ SeatsOK(match) /\ LineOK(match) /\ DrawOK(match, agreed)
  BY <1>2 DEF GameInv, TypeOK, Tally
<1>4. /\ s \in MatchRecord /\ SeatsOK(s) /\ LineOK(s) /\ DrawOK(s, agreed)
      /\ TimeOK(s, now, spent, granted, Lost) /\ Settled(s, now)
  BY <1>2, <1>3, SyncType, SyncSeats, SameSeatsOK, SyncDrawOK, SyncCases, SameLineOK,
     SyncTime
  DEF KeepsGame
<1> HIDE DEF s
<1>5. TypeOK' /\ GameInv'
  BY <1>1, <1>3, <1>4 DEF GameInv, TypeOK
<1>6. SavedFrom(s, disk', saved', Lost)
  BY <1>1, <1>3, <1>4, SettledIsSaved
<1>7. LedgerOK(saved', now')
  BY <1>1, <1>3, LedgerType
<1>8. RunningOK' /\ DownOK' /\ DiskOK'
  BY <1>1, <1>2, <1>4, <1>5, <1>6 DEF RunningOK, DownOK, DiskOK
<1>9. QED BY <1>1, <1>5, <1>7, <1>8 DEF DurableInv

\* A crash leaves the store, and puts the ledger back to it.
LEMMA CrashKeeps == ASSUME DurableInv, Crash PROVE DurableInv'
<1>1. /\ up' = FALSE /\ match' = NewMatch /\ now' = now /\ disk' = disk
      /\ spent' = saved.spent /\ granted' = saved.granted /\ agreed' = saved.agreed
      /\ restarts' = restarts /\ saved' = saved
  BY DEF Crash
<1>2. TypeOK'
  BY <1>1, NewMatchType DEF DurableInv, LedgerOK, TypeOK, Tally
<1>3. Lost' = Lost
  BY <1>1 DEF Lost
<1>4. QED
  BY <1>1, <1>2, <1>3 DEF DurableInv, RunningOK, DownOK, DiskOK

\* Time goes on while nobody serves.
LEMMA TickKeeps == ASSUME DurableInv, TickWhileDown PROVE DurableInv'
<1>1. /\ ~up /\ now' = now + 1 /\ match' = match /\ up' = up /\ disk' = disk
      /\ spent' = spent /\ granted' = granted /\ agreed' = agreed
      /\ restarts' = restarts /\ saved' = saved
  BY DEF TickWhileDown, ghosts, durable
<1>2. TypeOK'
  BY <1>1 DEF DurableInv, TypeOK
<1>3. LedgerOK(saved', now')
  <2>1. saved.now \in Nat /\ saved.now <= now /\ now \in Nat
    BY DEF DurableInv, LedgerOK, TypeOK
  <2>2. saved.now <= now + 1
    BY <2>1
  <2>3. QED BY <1>1, <2>2 DEF DurableInv, LedgerOK
<1>4. Lost' = Lost
  BY <1>1 DEF Lost
<1>5. QED
  BY <1>1, <1>2, <1>3, <1>4 DEF DurableInv, RunningOK, DownOK, DiskOK

\* A restart rebuilds the match, one rounding further behind.
LEMMA RestartKeeps == ASSUME DurableInv, Restart PROVE DurableInv'
<1> DEFINE f == MatchFromState(disk, now)
           sp2 == IF saved.live
                  THEN [saved.spent EXCEPT ![Turn[disk.fen]] = @ + (now - saved.now)]
                  ELSE saved.spent
<1>1. /\ ~up /\ up' = TRUE /\ restarts' = restarts + 1 /\ match' = f
      /\ now' = now /\ granted' = granted /\ agreed' = agreed
      /\ disk' = disk /\ saved' = saved
      /\ spent' = IF saved.live
                  THEN [spent EXCEPT ![Turn[disk.fen]] = @ + (now - saved.now)]
                  ELSE spent
  BY DEF Restart
<1>2. spent = saved.spent /\ granted = saved.granted /\ agreed = saved.agreed
  BY <1>1 DEF DurableInv, DownOK
<1>3. spent' = sp2
  BY <1>1, <1>2
<1>4. /\ restarts \in Nat /\ LedgerOK(saved, now) /\ now \in Nat
      /\ granted \in Tally /\ agreed \in SUBSET Player
  BY DEF DurableInv, TypeOK, Tally
<1>5. Lost \in Nat /\ Lost' = Lost + (Ms - 1) /\ Ms - 1 \in Nat
  BY <1>1, <1>4, OneMore, MsAssumption DEF Lost
<1>6. PICK d : SavedFrom(d, disk, saved, Lost)
  BY DEF DurableInv, DiskOK
<1>7. /\ f \in MatchRecord /\ SeatsOK(f) /\ LineOK(f) /\ DrawOK(f, saved.agreed)
      /\ sp2 \in Tally
      /\ TimeOK(f, now, sp2, saved.granted, Lost + (Ms - 1))
  BY <1>4, <1>5, <1>6, RebuiltIsInOrder
<1> HIDE DEF f, sp2
<1>8. TypeOK' /\ GameInv'
  BY <1>1, <1>2, <1>3, <1>4, <1>7 DEF GameInv, TypeOK, Tally
<1>9. RunningOK'
  BY <1>1, <1>2, <1>3, <1>5, <1>7, <1>8 DEF RunningOK
<1>10. DiskOK'
  BY <1>1, <1>5, <1>6, SavedLonger DEF DiskOK
<1>11. restarts' \in Nat /\ LedgerOK(saved', now') /\ DownOK'
  BY <1>1, <1>4 DEF DownOK
<1>12. QED BY <1>8, <1>9, <1>10, <1>11 DEF DurableInv

\* Every reachable state of a host and its store satisfies the invariant.
THEOREM DurableInvariance == DurableSpec => []DurableInv
<1>1. DurableInv /\ [DurableNext]_dvars => DurableInv'
  <2> SUFFICES ASSUME DurableInv, [DurableNext]_dvars PROVE DurableInv'
    OBVIOUS
  <2>1. CASE UNCHANGED dvars
    <3>1. /\ match' = match /\ now' = now /\ spent' = spent /\ granted' = granted
          /\ agreed' = agreed /\ up' = up /\ disk' = disk /\ restarts' = restarts
          /\ saved' = saved
      BY <2>1 DEF dvars, vars, durable
    <3>2. QED
      BY <3>1 DEF DurableInv, RunningOK, DownOK, DiskOK, Lost, GameInv, TypeOK
  <2>2. QED
    BY <2>1, ServeKeeps, SaveKeeps, CrashKeeps, TickKeeps, RestartKeeps DEF DurableNext
<1>2. QED BY <1>1, InitDurable, PTL DEF DurableSpec

\* The clock that is shown never shows more than is left, and less only by
\* what the saves that were loaded have rounded off: for any time control, any
\* resolution and any number of crashes and restarts.
THEOREM ClockOutlivesRestarts == DurableSpec => []ClockSurvivesRestart
<1>1. DurableInv => ClockSurvivesRestart
  <2> SUFFICES ASSUME DurableInv, up, match.result = "*", NEW c \in Color
               PROVE  LET exact == Initial + granted[c] - spent[c]
                          shown == match.remaining[c] - Pending(match, now, c)
                      IN  /\ shown <= exact
                          /\ exact - shown <= restarts * (Ms - 1)
    BY DEF ClockSurvivesRestart
  <2> DEFINE exact == Initial + granted[c] - spent[c]
             shown == match.remaining[c] - Pending(match, now, c)
  <2>1. match.remaining[c] \in Int /\ granted[c] \in Int /\ spent[c] \in Int
        /\ now \in Int /\ match.startedAt \in Int /\ Initial \in Int
    BY ClockAssumption DEF DurableInv, TypeOK, MatchRecord
  <2>2. Pending(match, now, c) \in Int
    BY <2>1 DEF Pending
  <2>3. exact \in Int /\ shown \in Int /\ Debt(match, now, spent, granted, c) = exact - shown
    BY <2>1, <2>2 DEF Debt
  <2> HIDE DEF exact, shown
  <2>4. Debt(match, now, spent, granted, c) \in 0 .. Lost /\ Lost \in Nat
    BY OneMore DEF DurableInv, RunningOK, TimeOK, OnTime, Lost
  <2>5. shown <= exact /\ exact - shown <= Lost
    BY <2>3, <2>4
  <2>6. QED BY <2>5 DEF Lost, exact, shown
<1>2. QED BY <1>1, DurableInvariance, PTL

\* A mover who has no time left loses as soon as anybody looks, whether his
\* flag fell before the crash, while the host was down, or after the restart.
THEOREM FlagOutlivesRestarts == DurableSpec => []FlagSurvivesRestart
<1>1. DurableInv => FlagSurvivesRestart
  <2> DEFINE mover == Turn[match.position]
  <2> SUFFICES ASSUME DurableInv, up, Live(match), spent[mover] >= Initial + granted[mover]
               PROVE  SyncClock(match, now).result = WinFor(Other(mover))
    BY DEF FlagSurvivesRestart
  <2>1. /\ match \in MatchRecord /\ now \in Int /\ mover \in Color
        /\ match.remaining[mover] \in Int /\ granted[mover] \in Int
        /\ spent[mover] \in Int /\ match.startedAt \in Int /\ Initial \in Nat
    BY GameAssumption, ClockAssumption DEF DurableInv, TypeOK, MatchRecord
  <2>2. match.startedAt <= now /\ Untimed(match)
        /\ OnTime(match, now, spent, granted, Lost) /\ Initial > 0
    BY <2>1 DEF DurableInv, RunningOK, TimeOK, Live, Untimed
  <2>3. Pending(match, now, mover) = now - match.startedAt
    BY DEF Pending
  <2>4. Debt(match, now, spent, granted, mover) >= 0
    BY <2>2, <2>1 DEF OnTime
  <2>5. spent[mover] - (now - match.startedAt) < Initial + granted[mover]
    BY <2>1, <2>2, <2>3 DEF OnTime, Funded
  <2>6. now > match.startedAt
    BY <2>1, <2>2, <2>5
  <2>7. Left(match, now) <= 0
    BY <2>1, <2>3, <2>4 DEF Debt, Left
  <2>8. SyncCase(match, now, SyncClock(match, now)) /\ Thinking(match, now)
    BY <2>1, <2>6, SyncCases DEF Thinking
  <2>9. Left(match, now) \in Int
    BY <2>1 DEF Left
  <2>10. ~(Left(match, now) > 0)
    BY <2>7, <2>9
  <2>11. QED BY <2>8, <2>10 DEF SyncCase
<1>2. QED BY <1>1, DurableInvariance, PTL

\* A match that is served again is one the rules of a match allow.
THEOREM RestoredStaysSound == DurableSpec => []RestoredIsSound
<1>1. DurableInv => RestoredIsSound
  BY DEF DurableInv, RunningOK, GameInv, DrawOK, RestoredIsSound, SeatsExclusive,
         HistoryReplays, DrawIsAgreed
<1>2. QED BY <1>1, DurableInvariance, PTL

\* Durations in whole milliseconds are in order.
LEMMA MillisOrder ==
    ASSUME NEW a \in Nat, NEW b \in Nat, a <= b
    PROVE  DurationMillis(a) \in Nat /\ DurationMillis(a) <= DurationMillis(b)
<1>1. Ms \in Nat \ {0}
  BY MsAssumption
<1>2. PICK x \in Nat : x = DurationMillis(a) /\ x * Ms <= a /\ a - x * Ms <= Ms - 1
  BY WholeMillis
<1>3. PICK y \in Nat : y = DurationMillis(b) /\ y * Ms <= b /\ b - y * Ms <= Ms - 1
  BY WholeMillis
<1>4. x <= y
  BY <1>1, <1>2, <1>3
<1>5. QED BY <1>2, <1>3, <1>4

\* A match in order whose clock shows no side more than the initial time, with
\* no increment above it, is written as a state that can be loaded.
LEMMA SavedRestorable ==
    ASSUME NEW d, NEW st, NEW l, NEW k, SavedFrom(d, st, l, k), Increment <= Initial,
           \A c \in Color : d.remaining[c] <= Initial
    PROVE  Restorable(st)
<1>1. /\ d \in MatchRecord /\ SeatsOK(d) /\ LineOK(d) /\ TimeOK(d, l.now, l.spent, l.granted, k)
      /\ st = MatchState(d) /\ Initial \in Nat /\ Increment \in Nat
      /\ d.remaining \in [Color -> Nat]
  BY ClockAssumption DEF SavedFrom, MatchRecord
<1>2. /\ st.initialFEN = Start /\ st.fen = d.position
      /\ st.sequence = d.sequence /\ st.moves = d.moves
      /\ st.players = d.players /\ st.spectators = d.spectators
      /\ st.clockInitial = DurationMillis(Initial)
      /\ \A c \in Color : st.times[c] = IF Initial > 0
                                        THEN DurationMillis(d.remaining[c]) ELSE 0
      /\ st.clockRunning <=> Initial > 0 /\ Live(d)
  BY <1>1, StateFields
<1>3. st.clockIncrement = DurationMillis(Increment)
  BY <1>1 DEF MatchState
<1>4. DurationMillis(Increment) <= DurationMillis(Initial) /\ DurationMillis(0) = 0
  BY <1>1, MillisOrder DEF DurationMillis
<1>5. \A c \in Color : DurationMillis(d.remaining[c]) <= DurationMillis(Initial)
  BY <1>1, MillisOrder
<1>6. ClockRestorable(st)
  <2>1. CASE Initial = 0
    <3>1. Increment = 0
      BY <2>1, ClockAssumption
    <3>2. QED BY <1>2, <1>3, <1>4, <2>1, <3>1 DEF ClockRestorable
  <2>2. CASE Initial > 0
    BY <1>2, <1>3, <1>4, <1>5, <2>2, ClockStaysOn DEF ClockRestorable
  <2>3. QED BY <1>1, <2>1, <2>2
<1>7. st.sequence = Len(st.moves) /\ LegalLine(st.initialFEN, st.moves)
      /\ Replay(st.initialFEN, st.moves) = st.fen
  BY <1>1, <1>2 DEF LineOK
<1>8. SeatsOK(st)
  BY <1>1, <1>2 DEF SeatsOK
<1>9. QED BY <1>6, <1>7, <1>8 DEF Restorable, SeatsOK

\* What a server writes keeps no host from starting, unless a clock shows more
\* than the initial time out of increments that have not been spent, or the
\* increment is above the initial time.
THEOREM OnlyBonusIsRefused == DurableSpec => []StoreRefusesOnlyBonus
<1>1. DurableInv => StoreRefusesOnlyBonus
  <2> SUFFICES ASSUME DurableInv, Increment <= Initial,
                      \A c \in Color : ~(saved.granted[c] > saved.spent[c])
               PROVE  Restorable(disk)
    BY ClockAssumption DEF StoreRefusesOnlyBonus
  <2>1. PICK d : SavedFrom(d, disk, saved, Lost)
    BY DEF DurableInv, DiskOK
  <2>2. /\ d \in MatchRecord /\ TimeOK(d, saved.now, saved.spent, saved.granted, Lost)
        /\ Settled(d, saved.now) /\ Lost \in Nat
        /\ saved.spent \in Tally /\ saved.granted \in Tally
    BY <2>1, OneMore DEF SavedFrom, DurableInv, LedgerOK, Lost
  <2>3. ASSUME NEW c \in Color PROVE d.remaining[c] <= Initial
    <3>1. CASE d.result = "*"
      <4>1. Pending(d, saved.now, c) = 0
        <5>1. saved.now \in Int
          BY DEF DurableInv, LedgerOK
        <5>2. QED BY <2>2, <5>1 DEF Pending, Settled
      <4>2. Paid(d, saved.spent, saved.granted, c)
        BY <2>2, <3>1, <4>1, DueIsPaid DEF TimeOK, OnTime
      <4>3. QED BY <4>2 DEF Paid
    <3>2. CASE d.result # "*"
      BY <2>2, <3>2 DEF TimeOK, Paid
    <3>3. QED BY <3>1, <3>2
  <2>4. QED BY <2>1, <2>3, SavedRestorable
<1>2. QED BY <1>1, DurableInvariance, PTL

=============================================================================
