------------------------- MODULE MatchServerProofs -------------------------
(***************************************************************************)
(* Proofs about MatchServer, for any number of handlers, players, matches  *)
(* and restarts.  A step of a running server lets its matches Evolve: they *)
(* stay registered, and every one of them grows.  So what a handler has    *)
(* exported and what the store holds stay pasts of the matches; and while  *)
(* requests come one at a time, a handler at work sees its own commit.     *)
(***************************************************************************)
EXTENDS MatchServer, MatchOpsProofs

\* A sequence is a prefix of another that agrees with it as far as it goes.
LEMMA PrefixElements ==
    ASSUME NEW S, NEW s \in Seq(S), NEW t \in Seq(S)
    PROVE  IsPrefix(s, t) <=> Len(s) <= Len(t) /\ \A i \in 1 .. Len(s) : s[i] = t[i]
<1> DEFINE n == Len(s)
           u == SubSeq(t, 1, n)
<1>1. SubSeq(s, 1, n) = s
  BY SubSeqFull
<1>2. IsPrefix(s, t) <=> n <= Len(t) /\ s = u
  BY <1>1 DEF IsPrefix
<1>3. ASSUME n <= Len(t)
      PROVE  /\ u \in Seq(S) /\ Len(u) = n /\ \A i \in 1 .. n : u[i] = t[i]
  <2>1. n \in Nat /\ n \in Int /\ 1 \in Int
    OBVIOUS
  <2>2. \A i \in 1 .. n : t[i] \in S
    <3>1. \A i \in 1 .. n : i \in 1 .. Len(t)
      BY <1>3, <2>1
    <3>2. QED BY <3>1
  <2> HIDE DEF n
  <2>3. /\ u \in Seq(S) /\ Len(u) = IF 1 <= n THEN n - 1 + 1 ELSE 0
        /\ \A i \in 1 .. n - 1 + 1 : u[i] = t[1 + i - 1]
    BY <2>1, <2>2, SubSeqProperties
  <2> HIDE DEF u
  <2>4. Len(u) = n
    BY <2>1, <2>3
  <2>5. \A i \in 1 .. n : u[i] = t[i]
    BY <2>1, <2>3
  <2>6. QED BY <2>3, <2>4, <2>5
<1>4. ASSUME n <= Len(t), \A i \in 1 .. n : s[i] = t[i] PROVE s = u
  <2>1. u \in Seq(S) /\ Len(u) = n /\ \A i \in 1 .. n : s[i] = u[i]
    BY <1>3, <1>4
  <2> HIDE DEF u
  <2>2. QED BY <2>1, SeqEqual DEF n
<1>5. ASSUME n <= Len(t), s = u PROVE \A i \in 1 .. n : s[i] = t[i]
  BY <1>3, <1>5
<1>6. QED BY <1>2, <1>4, <1>5

-----------------------------------------------------------------------------
(* Pasts.                                                                  *)

\* What Past looks at.
Telling(a) == a.moves \in Seq(Move)

\* A match is a past of itself, and of what tells the same.
LEMMA PastSame ==
    ASSUME NEW a, NEW b, Telling(a),
           b.moves = a.moves, b.result = a.result, b.players = a.players
    PROVE  Past(a, b)
BY PrefixElements DEF Past, Telling

\* The past of a past is a past.
LEMMA PastTransitive ==
    ASSUME NEW a, NEW b, NEW c, Telling(a), Telling(b), Telling(c),
           Past(a, b), Past(b, c)
    PROVE  Past(a, c)
<1>1. Len(a.moves) <= Len(b.moves) /\ \A i \in 1 .. Len(a.moves) : a.moves[i] = b.moves[i]
  BY PrefixElements DEF Past, Telling
<1>2. Len(b.moves) <= Len(c.moves) /\ \A i \in 1 .. Len(b.moves) : b.moves[i] = c.moves[i]
  BY PrefixElements DEF Past, Telling
<1>3. Len(a.moves) \in Nat /\ Len(b.moves) \in Nat /\ Len(c.moves) \in Nat
  BY DEF Telling
<1>4. /\ Len(a.moves) <= Len(c.moves)
      /\ \A i \in 1 .. Len(a.moves) : i \in 1 .. Len(b.moves)
  BY <1>1, <1>2, <1>3
<1>5. IsPrefix(a.moves, c.moves)
  <2>1. \A i \in 1 .. Len(a.moves) : a.moves[i] = c.moves[i]
    BY <1>1, <1>2, <1>4
  <2>2. QED BY <1>4, <2>1, PrefixElements DEF Telling
<1>6. QED BY <1>5 DEF Past

\* One more move makes the line longer.
LEMMA PastAppend ==
    ASSUME NEW line \in Seq(Move), NEW mv \in Move
    PROVE  IsPrefix(line, Append(line, mv))
<1>1. /\ Append(line, mv) \in Seq(Move) /\ Len(line) <= Len(Append(line, mv))
      /\ \A i \in 1 .. Len(line) : line[i] = Append(line, mv)[i]
  OBVIOUS
<1>2. QED BY <1>1, PrefixElements

-----------------------------------------------------------------------------
(* What the operations do to a match.                                      *)

\* A match in order.
Sound(m) == m \in MatchRecord /\ SeatsOK(m) /\ LineOK(m)

\* A player has a part in a match.
Part(m, p) == Seated(m, p) \/ p \in m.spectators

\* A match goes on: it stays in order, keeps its past, and loses nobody.
Grows(m, f) ==
    /\ Sound(f)
    /\ Past(m, f)
    /\ \A p \in Player : Part(m, p) => Part(f, p)

\* A match record tells its line.
LEMMA SoundTells == \A m : Sound(m) => Telling(m)
BY DEF Sound, Telling, MatchRecord

\* A match that stands still goes on.
LEMMA GrowsSame == ASSUME NEW m, Sound(m) PROVE Grows(m, m)
BY SoundTells, PastSame DEF Grows

\* Growing twice is growing.
LEMMA GrowsTwice ==
    ASSUME NEW m, NEW s, NEW f, Sound(m), Grows(m, s), Grows(s, f)
    PROVE  Grows(m, f)
BY SoundTells, PastTransitive DEF Grows

\* Settling the clock lets a match grow.
LEMMA SyncGrows ==
    ASSUME NEW m, Sound(m) PROVE Grows(m, SyncClock(m, 0))
<1> DEFINE s == SyncClock(m, 0)
<1>1. m \in MatchRecord /\ 0 \in Int
  BY DEF Sound
<1>2. KeepsGame(m, s) /\ SyncCase(m, 0, s) /\ s \in MatchRecord
  BY <1>1, SyncCases, SyncType
<1> HIDE DEF s
<1>3. Sound(s)
  BY <1>2, SameLineOK, SameSeatsOK DEF Sound, KeepsGame, SameSeats
<1>4. m.result # "*" => s.result = m.result
  BY <1>2 DEF SyncCase, Thinking, Live
<1>5. IsPrefix(m.moves, s.moves)
  BY <1>1, <1>2, PrefixElements DEF KeepsGame, MatchRecord
<1>6. Past(m, s)
  BY <1>2, <1>4, <1>5 DEF Past, KeepsGame
<1>7. QED BY <1>2, <1>3, <1>6 DEF Grows, Part, Seated, KeepsGame, s

\* A new match is in order.
LEMMA NewIsSound == Sound(NewMatch)
<1>1. SeatsOK(NewMatch)
  BY PlayerAssumption DEF NewMatch, SeatsOK, Color
<1>2. QED BY <1>1, NewMatchType, LineOfNew DEF Sound

\* Taking a seat or watching lets a match grow, and gives the player a part.
LEMMA JoinGrows ==
    ASSUME NEW m, Sound(m), NEW p \in Player, NEW role \in Role
    PROVE  /\ Grows(m, Join(m, p, role).match)
           /\ Join(m, p, role).err = OK => Part(Join(m, p, role).match, p)
<1>1. m \in MatchRecord /\ 0 \in Int
  BY DEF Sound
<1>2. CASE role = "spectator"
  <2> DEFINE j == JoinSpectator(m, p)
             f == j.match
  <2>1. Join(m, p, role) = j
    BY <1>2 DEF Join
  <2>2. f \in MatchRecord /\ SeatsOK(f)
    BY <1>1, SpectateType, SeatsOfSpectate DEF Sound
  <2>3. /\ f.position = m.position /\ f.sequence = m.sequence /\ f.moves = m.moves
        /\ f.result = m.result /\ f.players = m.players
        /\ m.spectators \subseteq f.spectators
        /\ j.err = OK => p \in f.spectators
    BY <1>1 DEF JoinSpectator, Done, Fail, OK, MatchRecord
  <2> HIDE DEF j
  <2>4. Past(m, f)
    BY <2>3, SoundTells, PastSame
  <2>5. Sound(f)
    BY <2>2, <2>3, SameLineOK DEF Sound
  <2>6. QED BY <2>1, <2>3, <2>4, <2>5 DEF Grows, Part, Seated
<1>3. CASE role # "spectator"
  <2> DEFINE j == JoinMatch(m, p, role, 0)
             f == j.match
  <2>1. Join(m, p, role) = j /\ role \in Color
    BY <1>3 DEF Join, Role
  <2>2. f \in MatchRecord /\ SeatsOK(f)
    BY <1>1, <2>1, JoinType, SeatsOfJoin DEF Sound
  <2>3. /\ f.position = m.position /\ f.sequence = m.sequence /\ f.moves = m.moves
        /\ f.result = m.result
        /\ \A d \in Color : m.players[d] # NoPlayer => f.players[d] = m.players[d]
    BY <1>1, <2>1, JoinFields
  <2>4. /\ j.err = OK => f.players[role] = p
        /\ \A q \in Player : q \in m.spectators => q \in f.spectators \/ f.players[role] = q
    BY <1>1, <2>1, JoinPlaces
  <2> HIDE DEF j
  <2>5. IsPrefix(m.moves, f.moves)
    BY <1>1, <2>3, PrefixElements DEF MatchRecord
  <2>6. Past(m, f)
    BY <2>3, <2>5 DEF Past
  <2>7. Sound(f)
    BY <2>2, <2>3, SameLineOK DEF Sound
  <2>8. \A q \in Player : Part(m, q) => Part(f, q)
    BY <2>1, <2>3, <2>4, PlayerAssumption DEF Part, Seated
  <2>9. QED BY <2>1, <2>4, <2>6, <2>7, <2>8 DEF Grows, Part, Seated
<1>4. QED BY <1>2, <1>3

\* Deciding a settled match, or putting a draw on the table, lets it grow.
LEMMA EndGrows ==
    ASSUME NEW m, Sound(m), NEW f,
           \/ m.result = "*" /\ \E w \in Result : f = [m EXCEPT !.result = w]
           \/ \E p \in Player : f = [m EXCEPT !.drawOfferedBy = p]
    PROVE  Grows(m, f)
<1>1. m \in MatchRecord
  BY DEF Sound
<1> DEFINE Kept == /\ f \in MatchRecord
                   /\ f.position = m.position /\ f.sequence = m.sequence
                   /\ f.moves = m.moves /\ f.players = m.players
                   /\ f.spectators = m.spectators
                   /\ m.result # "*" => f.result = m.result
<1>2. Kept
  <2>1. ASSUME m.result = "*", NEW w \in Result, f = [m EXCEPT !.result = w] PROVE Kept
    BY <1>1, <2>1 DEF MatchRecord
  <2>2. ASSUME NEW p \in Player, f = [m EXCEPT !.drawOfferedBy = p] PROVE Kept
    BY <1>1, <2>2 DEF MatchRecord, Seat
  <2> HIDE DEF Kept
  <2>3. QED BY <2>1, <2>2
<1>3. Sound(f)
  BY <1>1, <1>2, SameLineOK, SameSeatsOK DEF Sound, SameSeats
<1>4. IsPrefix(m.moves, f.moves)
  BY <1>1, <1>2, PrefixElements DEF MatchRecord
<1>5. QED BY <1>2, <1>3, <1>4 DEF Grows, Past, Part, Seated

\* A legal move of an undecided game lets the match grow by it.
LEMMA CommitGrows ==
    ASSUME NEW m, Sound(m), m.result = "*", NEW mv \in Legal[m.position]
    PROVE  Grows(m, CommitMove(m, mv, 0))
<1> DEFINE f == CommitMove(m, mv, 0)
<1>1. m \in MatchRecord /\ mv \in Move /\ 0 \in Int
  BY GameAssumption DEF Sound, MatchRecord
<1>2. CommitCase(m, mv, 0, f) /\ f \in MatchRecord /\ LineOK(f)
  BY <1>1, CommitCases, CommitType, LineOfCommit DEF Sound
<1> HIDE DEF f
<1>3. f.players = m.players /\ f.spectators = m.spectators /\ f.moves = Append(m.moves, mv)
  BY <1>2 DEF CommitCase
<1>4. Sound(f)
  BY <1>2, <1>3, SameSeatsOK DEF Sound, SameSeats
<1>5. Past(m, f)
  BY <1>1, <1>3, PastAppend DEF Past, MatchRecord
<1>6. QED BY <1>3, <1>4, <1>5 DEF Grows, Part, Seated, f

\* Whatever is asked of it, a match grows.
LEMMA PerformGrows ==
    ASSUME NEW m, Sound(m), NEW p \in Player, NEW op \in Operation
    PROVE  Grows(m, Perform(m, p, op).match)
<1> DEFINE s == SyncClock(m, 0)
           f == Perform(m, p, op).match
<1>1. m \in MatchRecord /\ 0 \in Int /\ s \in MatchRecord
  BY SyncType DEF Sound
<1>2. Grows(m, s) /\ Sound(s)
  BY SyncGrows DEF Grows
<1>3. Grows(s, s)
  BY <1>2, GrowsSame
<1>4. CASE op.kind = "move"
  <2> DEFINE r == [player |-> p, sequence |-> op.sequence,
                   hash |-> Hash[m.position], move |-> op.move]
  <2>1. Perform(m, p, op) = ApplyMove(m, r, 0)
    BY <1>4 DEF Perform
  <2>2. r.move = op.move /\ r.move \in Move
    BY <1>4 DEF Operation
  <2> HIDE DEF r
  <2>3. \/ f = s
        \/ s.result = "*" /\ r.move \in Legal[s.position] /\ f = CommitMove(s, r.move, 0)
    BY <1>1, <2>1, <2>2, ApplyCases
  <2> HIDE DEF s, f
  <2>4. Grows(s, f)
    BY <1>2, <1>3, <2>3, CommitGrows
  <2>5. QED BY <1>2, <2>4, GrowsTwice DEF f
<1>5. CASE op.kind = "resign"
  <2>1. f = Resign(m, p, 0).match
    BY <1>5 DEF Perform
  <2> HIDE DEF f
  <2>2. \/ f = s
        \/ MayAct(s, p) /\ \E w \in Result : f = [s EXCEPT !.result = w]
    BY <1>1, <2>1, ResignCases
  <2> HIDE DEF s
  <2>3. Grows(s, f)
    <3>1. CASE f = s
      BY <1>3, <3>1
    <3>2. CASE s.result = "*" /\ \E w \in Result : f = [s EXCEPT !.result = w]
      BY <1>2, <3>2, EndGrows
    <3>3. QED BY <2>2, <3>1, <3>2 DEF MayAct
  <2>4. QED BY <1>2, <2>3, GrowsTwice DEF f
<1>6. CASE op.kind = "draw"
  <2>1. Perform(m, p, op) = OfferDraw(m, p, 0)
    BY <1>6 DEF Perform
  <2>2. \/ f = s
        \/ MayAct(s, p) /\ f = [s EXCEPT !.result = Drawn]
        \/ f = [s EXCEPT !.drawOfferedBy = p]
    BY <1>1, <2>1, OfferCases
  <2> HIDE DEF s, f
  <2>3. Grows(s, f)
    <3>1. CASE f = s
      BY <1>3, <3>1
    <3>2. CASE s.result = "*" /\ f = [s EXCEPT !.result = Drawn]
      <4>1. Drawn \in Result
        BY DEF Result, Drawn
      <4>2. QED BY <1>2, <3>2, <4>1, EndGrows
    <3>3. CASE f = [s EXCEPT !.drawOfferedBy = p]
      BY <1>2, <3>3, EndGrows
    <3>4. QED BY <2>2, <3>1, <3>2, <3>3 DEF MayAct
  <2>4. QED BY <1>2, <2>3, GrowsTwice DEF f
<1>7. QED BY <1>4, <1>5, <1>6 DEF Operation

\* A new match takes the player who creates it.
LEMMA CreatorJoins ==
    ASSUME NEW p \in Player, NEW role \in Role
    PROVE  Part(Join(NewMatch, p, role).match, p)
<1>1. \A c \in Color : NewMatch.players[c] = NoPlayer
  BY DEF NewMatch
<1>2. p # NoPlayer /\ ~Seated(NewMatch, p)
  BY <1>1, PlayerAssumption DEF Seated
<1>3. Join(NewMatch, p, role).err = OK
  BY <1>1, <1>2, OtherColor DEF Join, JoinMatch, JoinSpectator, Done, Role
<1>4. QED BY <1>3, NewIsSound, JoinGrows

\* Joining seats nobody but the player who joins.
LEMMA JoinSeatsNoOther ==
    ASSUME NEW m, Sound(m), NEW p \in Player, NEW role \in Role,
           NEW q \in Player \ {p}, Seated(Join(m, p, role).match, q)
    PROVE  Seated(m, q)
<1>1. m \in MatchRecord /\ 0 \in Int
  BY DEF Sound
<1>2. CASE role = "spectator"
  <2>1. Join(m, p, role) = JoinSpectator(m, p)
    BY <1>2 DEF Join
  <2>2. JoinSpectator(m, p).match.players = m.players
    BY <1>1 DEF JoinSpectator, Done, Fail, MatchRecord
  <2>3. QED BY <2>1, <2>2 DEF Seated
<1>3. CASE role # "spectator"
  <2>1. Join(m, p, role) = JoinMatch(m, p, role, 0) /\ role \in Color
    BY <1>3 DEF Join, Role
  <2>2. \A d \in Color : JoinMatch(m, p, role, 0).match.players[d] \in {m.players[d], p}
    BY <1>1, <2>1, JoinPlaces
  <2>3. QED BY <2>1, <2>2 DEF Seated
<1>4. QED BY <1>2, <1>3

\* The operations of a match leave its seats alone.
LEMMA PerformSeats ==
    ASSUME NEW m, Sound(m), NEW p \in Player, NEW op \in Operation
    PROVE  Perform(m, p, op).match.players = m.players
<1> DEFINE s == SyncClock(m, 0)
           f == Perform(m, p, op).match
<1>1. m \in MatchRecord /\ 0 \in Int /\ s \in MatchRecord /\ s.players = m.players
  BY SyncType, SyncCases DEF Sound, KeepsGame
<1>2. CASE op.kind = "move"
  <2> DEFINE r == [player |-> p, sequence |-> op.sequence,
                   hash |-> Hash[m.position], move |-> op.move]
  <2>1. f = ApplyMove(m, r, 0).match /\ r.move \in Move
    BY <1>2 DEF Perform, Operation
  <2> HIDE DEF r
  <2>2. f = s \/ f = CommitMove(s, r.move, 0)
    BY <1>1, <2>1, ApplyCases
  <2>3. CommitMove(s, r.move, 0).players = s.players
    BY <1>1, <2>1, CommitCases DEF CommitCase
  <2>4. QED BY <1>1, <2>2, <2>3
<1>3. CASE op.kind = "resign"
  <2>1. f = Resign(m, p, 0).match
    BY <1>3 DEF Perform
  <2> HIDE DEF f
  <2>2. \/ f = s
        \/ MayAct(s, p) /\ \E w \in Result : f = [s EXCEPT !.result = w]
    BY <1>1, <2>1, ResignCases
  <2> HIDE DEF s
  <2>3. f.players = s.players
    BY <1>1, <2>2 DEF MatchRecord
  <2>4. QED BY <1>1, <2>3 DEF f
<1>4. CASE op.kind = "draw"
  <2>1. f = OfferDraw(m, p, 0).match
    BY <1>4 DEF Perform
  <2> HIDE DEF f
  <2>2. \/ f = s
        \/ f = [s EXCEPT !.result = Drawn]
        \/ f = [s EXCEPT !.drawOfferedBy = p]
    BY <1>1, <2>1, OfferCases
  <2> HIDE DEF s
  <2>3. f.players = s.players
    BY <1>1, <2>2 DEF MatchRecord
  <2>4. QED BY <1>1, <2>3 DEF f
<1>5. QED BY <1>2, <1>3, <1>4 DEF Operation
-----------------------------------------------------------------------------
(* What the store holds.                                                   *)

\* The state of a match in order.
Stored(st) == \E d : Sound(d) /\ st = MatchState(d)

\* The durable state of an untimed match.
LEMMA UntimedState ==
    ASSUME NEW d \in MatchRecord, NEW st, st = MatchState(d)
    PROVE  /\ st.initialFEN = Start /\ st.fen = d.position
           /\ st.sequence = d.sequence /\ st.moves = d.moves
           /\ st.players = d.players /\ st.spectators = d.spectators
           /\ st.result = d.result /\ st.drawOfferedBy = d.drawOfferedBy
           /\ st.clockInitial = 0 /\ st.clockIncrement = 0
           /\ \A c \in Color : st.times[c] = 0
           /\ ~st.clockRunning
<1>1. Initial = 0 /\ Increment = 0
  BY ServerAssumption, ClockAssumption
<1>2. DurationMillis(0) = 0
  BY DEF DurationMillis
<1>3. /\ st.clockInitial = DurationMillis(Initial)
      /\ st.clockIncrement = DurationMillis(Increment)
      /\ st.times = [c \in Color |->
                      IF Initial > 0 THEN DurationMillis(d.remaining[c]) ELSE 0]
      /\ st.clockRunning = (Initial > 0 /\ Live(d))
  BY DEF MatchState
<1>4. \A c \in Color : st.times[c] = 0
  BY <1>1, <1>3
<1>5. ~st.clockRunning
  <2>1. ~(Initial > 0 /\ Live(d))
    BY <1>1
  <2>2. QED BY <2>1, Zenon DEF MatchState
<1>6. /\ st.initialFEN = Start /\ st.fen = d.position
      /\ st.sequence = d.sequence /\ st.moves = d.moves
      /\ st.players = d.players /\ st.spectators = d.spectators
      /\ st.result = d.result /\ st.drawOfferedBy = d.drawOfferedBy
  BY DEF MatchState
<1>7. QED BY <1>1, <1>2, <1>3, <1>4, <1>5, <1>6

\* What is restored is a match in order, that the state is a past of, and with
\* everybody the state seats.
LEMMA RestoredIsInOrder ==
    ASSUME NEW st, Stored(st)
    PROVE  LET f == MatchFromState(st, 0)
           IN  Sound(f) /\ Past(st, f) /\ f.players = st.players
<1> DEFINE f == MatchFromState(st, 0)
<1>1. PICK d : Sound(d) /\ st = MatchState(d)
  BY DEF Stored
<1>2. d \in MatchRecord /\ Start \in Position
  BY <1>1, GameAssumption DEF Sound
<1>3. /\ st.initialFEN = Start /\ st.fen = d.position
      /\ st.sequence = d.sequence /\ st.moves = d.moves
      /\ st.players = d.players /\ st.spectators = d.spectators
      /\ st.result = d.result /\ st.drawOfferedBy = d.drawOfferedBy
      /\ st.clockInitial = 0
      /\ \A c \in Color : st.times[c] = 0
  BY <1>1, <1>2, UntimedState
<1>4. Replay(st.initialFEN, st.moves) = d.position
  BY <1>1, <1>3 DEF Sound, LineOK
<1>5. RestoredResult(st) \in Result /\ (d.result # "*" => RestoredResult(st) = d.result)
  BY <1>2, <1>3, PositionResultType DEF RestoredResult, MatchRecord
<1>6. RestoredRunning(st) = FALSE /\ RestoredStart(st, 0) = 0
  BY <1>3 DEF RestoredRunning, RestoredStart
<1>7. [c \in Color |-> st.times[c] * Ms] \in [Color -> Nat]
  <2>1. \A c \in Color : st.times[c] * Ms = 0
    BY <1>3, MsAssumption
  <2>2. QED BY <2>1
<1>8. /\ f.position = d.position /\ f.sequence = d.sequence /\ f.moves = d.moves
      /\ f.players = d.players /\ f.spectators = d.spectators
      /\ f.result = RestoredResult(st)
  BY <1>3, <1>4 DEF MatchFromState
<1>9. f \in MatchRecord
  <2> DEFINE times == [c \in Color |-> st.times[c] * Ms]
  <2>1. f = [position |-> d.position, sequence |-> d.sequence, moves |-> d.moves,
             players |-> d.players, spectators |-> d.spectators,
             result |-> RestoredResult(st), drawOfferedBy |-> d.drawOfferedBy,
             remaining |-> times, startedAt |-> 0, running |-> FALSE, expired |-> FALSE]
    BY <1>3, <1>4, <1>6 DEF MatchFromState
  <2>2. times \in [Color -> Nat] /\ 0 \in Int
    BY <1>7
  <2> HIDE DEF f, times
  <2>3. QED BY <1>2, <1>5, <2>1, <2>2 DEF MatchRecord
<1> HIDE DEF f
<1>10. Sound(f)
  BY <1>1, <1>8, <1>9, SameLineOK, SameSeatsOK DEF Sound, SameSeats
<1>11. IsPrefix(st.moves, f.moves)
  BY <1>2, <1>3, <1>8, PrefixElements DEF MatchRecord
<1>12. Past(st, f)
  BY <1>3, <1>5, <1>8, <1>11 DEF Past
<1>13. QED BY <1>3, <1>8, <1>10, <1>12 DEF f

\* The state of a match tells the same as the match.
LEMMA StateTells ==
    ASSUME NEW m, Sound(m)
    PROVE  LET st == MatchState(m)
           IN  /\ Stored(st) /\ Telling(st) /\ Past(st, m)
               /\ st.moves = m.moves /\ st.result = m.result /\ st.players = m.players
<1> DEFINE st == MatchState(m)
<1>1. m \in MatchRecord /\ Stored(st)
  BY DEF Sound, Stored
<1>2. st.moves = m.moves /\ st.result = m.result /\ st.players = m.players
  BY DEF MatchState
<1> HIDE DEF st
<1>3. Telling(st)
  BY <1>1, <1>2 DEF Telling, MatchRecord
<1>4. Past(st, m)
  BY <1>2, <1>3, PastSame
<1>5. QED BY <1>1, <1>2, <1>3, <1>4 DEF st

\* A stored state tells its line.
LEMMA StoredTells == \A st : Stored(st) => Telling(st)
BY StateTells DEF Stored

\* A set of identifiers that has an upper bound.
Ids(S) == S \in SUBSET Nat /\ \E n \in Nat : \A x \in S : x <= n

\* Such a set, unless it is empty, has a maximum.
LEMMA LastOfIds ==
    ASSUME NEW S, Ids(S), S # {} PROVE Max(S) \in S /\ \A y \in S : y <= Max(S)
<1> DEFINE Above == {n \in Nat : \A x \in S : x <= n}
<1>1. Above \in SUBSET Nat /\ Above # {} /\ S \in SUBSET Nat
  BY DEF Ids
<1>2. PICK n \in Above : \A k \in Above : n <= k
  <2> HIDE DEF Above
  <2> QED BY <1>1, LeastNat
<1>3. n \in Nat /\ \A x \in S : x <= n
  BY <1>2
<1>4. n \in S
  <2>1. SUFFICES ASSUME n \notin S PROVE FALSE
    OBVIOUS
  <2>2. PICK x \in S : x \in Nat
    BY <1>1
  <2>3. \A y \in S : y <= n - 1
    BY <1>1, <1>3, <2>1
  <2>4. n - 1 \in Nat
    BY <1>3, <2>2, <2>3
  <2>5. n - 1 \in Above
    BY <2>3, <2>4
  <2>6. QED BY <1>2, <1>3, <2>5
<1>5. \E x \in S : \A y \in S : x >= y
  BY <1>1, <1>3, <1>4
<1>6. Max(S) \in S /\ \A y \in S : Max(S) >= y
  BY <1>5 DEF Max
<1>7. QED BY <1>1, <1>6

\* One more identifier, or fewer, leaves a bound.
LEMMA IdsWith ==
    /\ \A S, x : Ids(S) /\ x \in Nat => Ids(S \cup {x})
    /\ \A S, T : Ids(S) /\ T \in SUBSET S => Ids(T)
<1>1. ASSUME NEW S, Ids(S), NEW x \in Nat PROVE Ids(S \cup {x})
  <2>1. PICK n \in Nat : \A y \in S : y <= n
    BY <1>1 DEF Ids
  <2>2. n + x \in Nat /\ \A y \in S \cup {x} : y <= n + x
    BY <1>1, <2>1 DEF Ids
  <2>3. QED BY <1>1, <2>2 DEF Ids
<1>2. QED BY <1>1 DEF Ids
-----------------------------------------------------------------------------
(* The inductive invariant.                                                *)

\* Registered matches are in order.
Registered(ms) == Ids(DOMAIN ms) /\ \A id \in DOMAIN ms : Sound(ms[id])

\* The store holds states of matches in order.
Filed(store) == Ids(DOMAIN store) /\ \A id \in DOMAIN store : Stored(store[id])

\* What has been exported is a past of the registered matches.
Behind(states, ms) ==
    \A id \in DOMAIN states : id \in DOMAIN ms /\ Past(states[id], ms[id])

\* What a goroutine is doing, and knows.
WorkOK(w, ms) ==
    \/ w \in {Idle, Exiting}
    \/ \E id \in DOMAIN ms, p \in Player, op \in Operation : w = Handling(id, p, op)
    \/ \E commit : w = Listing(commit) /\ Telling(commit)
    \/ \E commit, todo, states :
         /\ w = Exporting(commit, todo, states) /\ Telling(commit)
         /\ todo \in SUBSET DOMAIN ms
         /\ Filed(states) /\ Behind(states, ms)

\* A player sits in a registered match.
Sits(ms, x, p) == x \in DOMAIN ms /\ Seated(ms[x], p)

\* A session leads to the match its player joined last, or else to one he sits
\* in, of a higher ID than the last if he sits in that, too.
Leads(s, p, ms, last) ==
    s.match # NoMatch =>
      \/ s.match = last /\ s.match \in DOMAIN ms /\ Part(ms[s.match], p)
      \/ Sits(ms, s.match, p) /\ (Sits(ms, last, p) => last < s.match)

\* A goroutine at work alone: its commit and its exports are up to date.
Fresh(h, w, ms) ==
    /\ h # Main /\ w.at \in {"list", "export"} =>
         /\ w.commit.id \in DOMAIN ms
         /\ w.commit = Commit(w.commit.id, ms[w.commit.id])
    /\ w.at = "export" =>
         /\ DOMAIN ms = w.todo \cup DOMAIN w.states
         /\ \A id \in DOMAIN w.states : w.states[id] = MatchState(ms[id])

MatchesOK == up \in BOOLEAN /\ Registered(matches)
StoreOK == Filed(disk) /\ (up => Behind(disk, matches))
SessionsOK ==
    /\ DOMAIN joined = Player
    /\ \A p \in DOMAIN sessions : p \in Player /\ Leads(sessions[p], p, matches, joined[p])
HandlersOK ==
    /\ DOMAIN handler = Goroutine
    /\ \A h \in Goroutine : WorkOK(handler[h], matches)
    /\ ~up => \A h \in Goroutine : handler[h] = Idle
SerialOK ==
    ~overlap => /\ \A h, g \in Goroutine : Busy(h) /\ Busy(g) => h = g
                /\ \A h \in Goroutine : Fresh(h, handler[h], matches)
ToldOK ==
    /\ \A a \in acked : Telling(a)
    /\ ~overlap => \A a \in acked : a.id \in DOMAIN disk /\ Past(a, disk[a.id])

IInv == MatchesOK /\ StoreOK /\ SessionsOK /\ HandlersOK /\ SerialOK /\ ToldOK

\* The matches of a running server: none is lost, each one grows.
Evolves(ms, ms2) ==
    /\ Registered(ms2)
    /\ \A id \in DOMAIN ms : id \in DOMAIN ms2 /\ Grows(ms[id], ms2[id])

\* Matches that stand still evolve.
LEMMA EvolvesSame == ASSUME NEW ms, Registered(ms) PROVE Evolves(ms, ms)
BY GrowsSame DEF Evolves, Registered

\* What was behind stays behind.
LEMMA StaysBehind ==
    ASSUME NEW states, NEW ms, NEW ms2, Registered(ms), Evolves(ms, ms2),
           Filed(states), Behind(states, ms)
    PROVE  Behind(states, ms2)
<1> SUFFICES ASSUME NEW id \in DOMAIN states
             PROVE  id \in DOMAIN ms2 /\ Past(states[id], ms2[id])
  BY DEF Behind
<1>1. id \in DOMAIN ms /\ Past(states[id], ms[id])
  BY DEF Behind
<1>2. id \in DOMAIN ms2 /\ Grows(ms[id], ms2[id])
  BY <1>1 DEF Evolves
<1>3. Telling(states[id]) /\ Telling(ms[id]) /\ Telling(ms2[id])
  BY <1>1, <1>2, StoredTells, SoundTells DEF Filed, Registered, Grows
<1>4. QED BY <1>1, <1>2, <1>3, PastTransitive DEF Grows

\* The work of a handler stays in order.
LEMMA WorkGoesOn ==
    ASSUME NEW w, NEW ms, NEW ms2, Registered(ms), Evolves(ms, ms2), WorkOK(w, ms)
    PROVE  WorkOK(w, ms2)
<1>1. DOMAIN ms \subseteq DOMAIN ms2
  BY DEF Evolves
<1>2. CASE w \in {Idle, Exiting}
  BY <1>2 DEF WorkOK
<1>3. CASE \E id \in DOMAIN ms, p \in Player, op \in Operation : w = Handling(id, p, op)
  BY <1>1, <1>3 DEF WorkOK
<1>4. CASE \E commit : w = Listing(commit) /\ Telling(commit)
  BY <1>4 DEF WorkOK
<1>5. ASSUME NEW commit, NEW todo, NEW states,
             w = Exporting(commit, todo, states), Telling(commit),
             todo \in SUBSET DOMAIN ms, Filed(states), Behind(states, ms)
      PROVE  WorkOK(w, ms2)
  BY <1>1, <1>5, StaysBehind DEF WorkOK
<1>6. QED BY <1>2, <1>3, <1>4, <1>5 DEF WorkOK

\* Nobody gives the player a seat.
NoSeatFor(p, ms, ms2) == \A x : Sits(ms2, x, p) => Sits(ms, x, p)

\* A session keeps leading where it did, unless its player takes a seat.
LEMMA LeadsOn ==
    ASSUME NEW s, NEW p \in Player, NEW ms, NEW ms2, NEW last, Evolves(ms, ms2),
           NoSeatFor(p, ms, ms2), Leads(s, p, ms, last)
    PROVE  Leads(s, p, ms2, last)
<1>1. ASSUME NEW x, Sits(ms, x, p) PROVE Sits(ms2, x, p)
  <2>1. x \in DOMAIN ms2 /\ Past(ms[x], ms2[x]) /\ Seated(ms[x], p)
    BY <1>1 DEF Sits, Evolves, Grows
  <2>2. QED BY <2>1, PlayerAssumption DEF Past, Seated, Sits
<1>2. \A x \in DOMAIN ms : x \in DOMAIN ms2 /\ (Part(ms[x], p) => Part(ms2[x], p))
  BY DEF Evolves, Grows
<1>3. QED BY <1>1, <1>2 DEF Leads, NoSeatFor

\* A match registered or replaced lets the matches evolve.
LEMMA WithEvolves ==
    ASSUME NEW ms, Registered(ms), NEW id \in Nat, NEW f, Sound(f),
           id \in DOMAIN ms => Grows(ms[id], f)
    PROVE  Evolves(ms, With(ms, id, f)) /\ With(ms, id, f)[id] = f
<1> DEFINE ms2 == With(ms, id, f)
<1>1. DOMAIN ms2 = DOMAIN ms \cup {id} /\ ms2[id] = f
  BY DEF With
<1>2. \A x \in DOMAIN ms : x # id => ms2[x] = ms[x]
  BY DEF With
<1>3. Ids(DOMAIN ms2)
  BY <1>1, IdsWith DEF Registered
<1> HIDE DEF ms2
<1>4. Registered(ms2)
  BY <1>1, <1>2, <1>3 DEF Registered
<1>5. \A x \in DOMAIN ms : x \in DOMAIN ms2 /\ Grows(ms[x], ms2[x])
  BY <1>1, <1>2, GrowsSame DEF Registered
<1>6. QED BY <1>1, <1>4, <1>5 DEF Evolves, ms2

\* Replacing a registered match is a case of it.
LEMMA ReplaceEvolves ==
    ASSUME NEW ms, Registered(ms), NEW id \in DOMAIN ms, NEW f, Grows(ms[id], f)
    PROVE  LET ms2 == [ms EXCEPT ![id] = f] IN Evolves(ms, ms2) /\ ms2[id] = f
<1> DEFINE ms2 == [ms EXCEPT ![id] = f]
<1>1. DOMAIN ms2 = DOMAIN ms /\ ms2[id] = f /\ \A x \in DOMAIN ms : x # id => ms2[x] = ms[x]
  OBVIOUS
<1> HIDE DEF ms2
<1>2. Registered(ms2)
  BY <1>1 DEF Registered, Grows
<1>3. \A x \in DOMAIN ms : x \in DOMAIN ms2 /\ Grows(ms[x], ms2[x])
  BY <1>1, GrowsSame DEF Registered
<1>4. QED BY <1>1, <1>2, <1>3 DEF Evolves, ms2

-----------------------------------------------------------------------------
(* One goroutine takes a step while the matches evolve.                    *)

\* The goroutines stay in order, and one at work alone up to date.
LEMMA HandlerSteps ==
    ASSUME IInv, up, up' = up, Evolves(matches, matches'),
           NEW h \in Goroutine, NEW w, handler' = [handler EXCEPT ![h] = w],
           WorkOK(w, matches'),
           ~overlap' => /\ ~overlap /\ \A g \in Goroutine \ {h} : ~Busy(g)
                        /\ Fresh(h, w, matches')
    PROVE  MatchesOK' /\ HandlersOK' /\ SerialOK'
<1>1. Registered(matches) /\ DOMAIN handler = Goroutine
  BY DEF IInv, MatchesOK, HandlersOK
<1>2. MatchesOK'
  BY DEF IInv, MatchesOK, Evolves
<1>3. DOMAIN handler' = Goroutine /\ handler'[h] = w
      /\ \A g \in Goroutine \ {h} : handler'[g] = handler[g]
  BY <1>1
<1>4. \A g \in Goroutine : WorkOK(handler'[g], matches')
  <2>1. \A g \in Goroutine : WorkOK(handler[g], matches)
    BY DEF IInv, HandlersOK
  <2>2. QED BY <1>1, <1>3, <2>1, WorkGoesOn
<1>5. HandlersOK'
  BY <1>3, <1>4 DEF HandlersOK
<1>6. ASSUME ~overlap' PROVE SerialOK'
  <2>1. \A g \in Goroutine \ {h} : handler'[g] \in {Idle, Exiting} /\ ~(Busy(g)')
    BY <1>3, <1>6 DEF Busy
  <2>2. \A g \in Goroutine : Fresh(g, Idle, matches') /\ Fresh(g, Exiting, matches')
    BY DEF Fresh, Idle, Exiting
  <2>3. \A g \in Goroutine : Fresh(g, handler'[g], matches')
    BY <1>3, <1>6, <2>1, <2>2
  <2>4. QED BY <2>1, <2>3 DEF SerialOK
<1>7. SerialOK'
  BY <1>6 DEF SerialOK
<1>8. QED BY <1>2, <1>5, <1>7

\* A store left alone stays behind the matches.
LEMMA StoreStays ==
    ASSUME IInv, up, Evolves(matches, matches'), disk' = disk
    PROVE  StoreOK'
<1>1. Behind(disk, matches')
  BY StaysBehind DEF IInv, MatchesOK, StoreOK
<1>2. QED BY <1>1 DEF IInv, StoreOK

\* Sessions lead to their matches while nobody takes a seat, or a player joins.
LEMMA SessionsStay ==
    ASSUME IInv, Evolves(matches, matches'),
           \/ /\ sessions' = sessions /\ joined' = joined
              /\ \A q \in Player : NoSeatFor(q, matches, matches')
           \/ \E p \in Player : \E s, last :
                /\ sessions' = With(sessions, p, s)
                /\ DOMAIN joined' = Player /\ joined'[p] = last
                /\ Leads(s, p, matches', last)
                /\ \A q \in Player \ {p} :
                      joined'[q] = joined[q] /\ NoSeatFor(q, matches, matches')
    PROVE  SessionsOK'
<1>1. DOMAIN joined = Player /\ \A q \in DOMAIN sessions : q \in Player
  BY DEF IInv, SessionsOK
<1>2. ASSUME NEW q \in DOMAIN sessions, NoSeatFor(q, matches, matches')
      PROVE  Leads(sessions[q], q, matches', joined[q])
  <2>1. Leads(sessions[q], q, matches, joined[q]) /\ q \in Player
    BY DEF IInv, SessionsOK
  <2>2. QED BY <1>2, <2>1, LeadsOn
<1>3. CASE /\ sessions' = sessions /\ joined' = joined
           /\ \A q \in Player : NoSeatFor(q, matches, matches')
  BY <1>1, <1>2, <1>3 DEF SessionsOK
<1>4. ASSUME NEW p \in Player, NEW s, NEW last,
             sessions' = With(sessions, p, s), DOMAIN joined' = Player,
             joined'[p] = last, Leads(s, p, matches', last),
             \A q \in Player \ {p} :
               joined'[q] = joined[q] /\ NoSeatFor(q, matches, matches')
      PROVE  SessionsOK'
  <2>1. /\ DOMAIN sessions' = DOMAIN sessions \cup {p} /\ sessions'[p] = s
        /\ \A q \in DOMAIN sessions : q # p => sessions'[q] = sessions[q]
    BY <1>4 DEF With
  <2>2. \A q \in Player : q # p => joined'[q] = joined[q]
    BY <1>4
  <2>3. ASSUME NEW q \in DOMAIN sessions'
        PROVE  q \in Player /\ Leads(sessions'[q], q, matches', joined'[q])
    <3>1. CASE q = p
      BY <1>4, <2>1, <2>2, <3>1
    <3>2. CASE q # p
      BY <1>1, <1>2, <1>4, <2>1, <2>2, <3>2
    <3>3. QED BY <3>1, <3>2
  <2>4. QED BY <1>4, <2>3 DEF SessionsOK
<1>5. QED BY <1>3, <1>4

\* Matches that stand still seat nobody, and neither does one that keeps its
\* players.
LEMMA NobodySeated ==
    ASSUME NEW ms, NEW ms2, NEW q,
           \/ ms2 = ms
           \/ \E id \in DOMAIN ms : \E f :
                ms2 = [ms EXCEPT ![id] = f] /\ (Seated(f, q) => Seated(ms[id], q))
           \/ \E id : \E f : ms2 = With(ms, id, f) /\ ~Seated(f, q)
    PROVE  NoSeatFor(q, ms, ms2)
<1>1. CASE ms2 = ms
  BY <1>1 DEF NoSeatFor
<1>2. ASSUME NEW id \in DOMAIN ms, NEW f, ms2 = [ms EXCEPT ![id] = f],
             Seated(f, q) => Seated(ms[id], q)
      PROVE  NoSeatFor(q, ms, ms2)
  BY <1>2 DEF NoSeatFor, Sits
<1>3. ASSUME NEW id, NEW f, ms2 = With(ms, id, f), ~Seated(f, q)
      PROVE  NoSeatFor(q, ms, ms2)
  <2>1. /\ DOMAIN ms2 = DOMAIN ms \cup {id} /\ ms2[id] = f
        /\ \A x \in DOMAIN ms : x # id => ms2[x] = ms[x]
    BY <1>3 DEF With
  <2>2. QED BY <1>3, <2>1 DEF NoSeatFor, Sits
<1>4. QED BY <1>1, <1>2, <1>3

\* What was told stays told.
LEMMA ToldStays ==
    ASSUME IInv, acked' = acked, disk' = disk, overlap => overlap'
    PROVE  ToldOK'
BY DEF IInv, ToldOK

\* A goroutine that sets out is alone, or two overlap from now on.
LEMMA SetsOutAlone ==
    ASSUME NEW h \in Goroutine, SetsOut(h)
    PROVE  /\ up /\ handler[h] = Idle
           /\ overlap => overlap'
           /\ ~overlap' => ~overlap /\ \A g \in Goroutine \ {h} : ~Busy(g)
BY DEF SetsOut

\* A goroutine at work serves a running server, alone if nobody overlapped.
LEMMA AtWork ==
    ASSUME IInv, NEW h \in Goroutine, Busy(h)
    PROVE  /\ up
           /\ WorkOK(handler[h], matches)
           /\ ~overlap => /\ \A g \in Goroutine \ {h} : ~Busy(g)
                          /\ Fresh(h, handler[h], matches)
BY DEF IInv, HandlersOK, SerialOK, Busy

\* What a goroutine does tells what it knows.
LEMMA WorkTells ==
    ASSUME NEW w, NEW ms, WorkOK(w, ms)
    PROVE  /\ w.at = "apply" =>
                \E id \in DOMAIN ms, p \in Player, op \in Operation : w = Handling(id, p, op)
           /\ w.at = "list" => \E commit : w = Listing(commit) /\ Telling(commit)
           /\ w.at = "export" =>
                \E commit, todo, states :
                  /\ w = Exporting(commit, todo, states) /\ Telling(commit)
                  /\ todo \in SUBSET DOMAIN ms
                  /\ Filed(states) /\ Behind(states, ms)
<1>1. CASE w \in {Idle, Exiting}
  BY <1>1 DEF Idle, Exiting
<1>2. CASE \E id \in DOMAIN ms, p \in Player, op \in Operation : w = Handling(id, p, op)
  <2>1. w.at = "apply"
    BY <1>2 DEF Handling
  <2>2. QED BY <1>2, <2>1
<1>3. CASE \E commit : w = Listing(commit) /\ Telling(commit)
  <2>1. w.at = "list"
    BY <1>3 DEF Listing
  <2>2. QED BY <1>3, <2>1
<1>4. CASE \E commit, todo, states :
             /\ w = Exporting(commit, todo, states) /\ Telling(commit)
             /\ todo \in SUBSET DOMAIN ms
             /\ Filed(states) /\ Behind(states, ms)
  <2>1. w.at = "export"
    BY <1>4 DEF Exporting
  <2>2. QED BY <1>4, <2>1
<1>5. QED BY <1>1, <1>2, <1>3, <1>4 DEF WorkOK

-----------------------------------------------------------------------------
(* Every step keeps the invariant.                                         *)

\* Connecting and disconnecting touch one session, and not where it leads.
LEMMA ConnectKeeps ==
    ASSUME IInv, NEW p \in Player, Connect(p) \/ Disconnect(p) PROVE IInv'
<1>1. /\ matches' = matches /\ handler' = handler /\ disk' = disk /\ acked' = acked
      /\ up' = up /\ overlap' = overlap /\ joined' = joined
  BY DEF Connect, Disconnect
<1>2. Evolves(matches, matches')
  BY <1>1, EvolvesSame DEF IInv, MatchesOK
<1>3. \E s : sessions' = With(sessions, p, s) /\ Leads(s, p, matches, joined[p])
  <2>1. CASE p \in DOMAIN sessions
    <3> DEFINE there == sessions[p].match
    <3>1. \A s : s.match = there => Leads(s, p, matches, joined[p])
      BY <2>1 DEF IInv, SessionsOK, Leads
    <3>2. \E b : sessions' = With(sessions, p, [connected |-> b, match |-> there])
      BY <2>1 DEF Connect, Disconnect
    <3>3. QED BY <3>1, <3>2
  <2>2. CASE p \notin DOMAIN sessions
    <3>1. sessions' = With(sessions, p, [connected |-> TRUE, match |-> NoMatch])
      BY <2>2 DEF Connect, Disconnect
    <3>2. Leads([connected |-> TRUE, match |-> NoMatch], p, matches, joined[p])
      BY DEF Leads
    <3>3. QED BY <3>1, <3>2
  <2>3. QED BY <2>1, <2>2
<1>4. SessionsOK'
  <2>1. DOMAIN joined' = Player /\ joined' = joined
    BY <1>1 DEF IInv, SessionsOK
  <2>2. \A q \in Player \ {p} : NoSeatFor(q, matches, matches')
    BY <1>1, NobodySeated
  <2>3. QED BY <1>1, <1>2, <1>3, <2>1, <2>2, SessionsStay
<1>5. QED
  BY <1>1, <1>4
  DEF IInv, MatchesOK, StoreOK, HandlersOK, SerialOK, ToldOK, Busy

\* The commit of a sound match.
LEMMA CommitIsFresh ==
    ASSUME NEW ms, NEW id \in DOMAIN ms, Sound(ms[id])
    PROVE  LET w == Listing(Commit(id, ms[id])) IN WorkOK(w, ms) /\ \A h : Fresh(h, w, ms)
<1> DEFINE commit == Commit(id, ms[id])
<1>1. commit.id = id /\ commit.moves = ms[id].moves
  BY DEF Commit
<1>2. Telling(commit)
  BY <1>1, SoundTells DEF Telling
<1>3. commit = Commit(commit.id, ms[commit.id])
  BY <1>1
<1> HIDE DEF commit
<1>4. QED BY <1>1, <1>2, <1>3 DEF WorkOK, Fresh, Listing, commit

\* A match is created, with its creator in it.
LEMMA CreateKeeps ==
    ASSUME IInv, NEW h \in Handler, NEW id \in MatchID, NEW p \in Seat, NEW role \in Role,
           Create(h, id, p, role)
    PROVE  IInv'
<1> DEFINE created == IF p = NoPlayer THEN NewMatch ELSE Join(NewMatch, p, role).match
           w == Listing(Commit(id, created))
<1>1. /\ Begins(h) /\ id \notin DOMAIN matches
      /\ matches' = With(matches, id, created)
      /\ IF p = NoPlayer THEN sessions' = sessions /\ joined' = joined
         ELSE sessions' = Attached(p, id) /\ joined' = [joined EXCEPT ![p] = id]
      /\ handler' = [handler EXCEPT ![h] = w]
      /\ up' = up /\ disk' = disk /\ acked' = acked
  BY DEF Create
<1>2. Sound(created) /\ (p # NoPlayer => p \in Player /\ Part(created, p))
  BY NewIsSound, JoinGrows, CreatorJoins DEF Grows, Seat
<1>a. \A q \in Player \ {p} : ~Seated(created, q)
  <2>1. \A q \in Player : ~Seated(NewMatch, q)
    BY PlayerAssumption DEF NewMatch, Seated, Color
  <2>2. QED BY <2>1, NewIsSound, JoinSeatsNoOther DEF Seat
<1>3. id \in Nat /\ Registered(matches)
  BY ServerAssumption DEF IInv, MatchesOK
<1> HIDE DEF created
<1>4. Evolves(matches, matches') /\ matches'[id] = created
  BY <1>1, <1>2, <1>3, WithEvolves
<1>5. id \in DOMAIN matches'
  BY <1>1 DEF With
<1>6. WorkOK(w, matches') /\ Fresh(h, w, matches') /\ h \in Goroutine
  BY <1>2, <1>4, <1>5, CommitIsFresh DEF Goroutine
<1> HIDE DEF w
<1>7. /\ up /\ (overlap => overlap')
      /\ ~overlap' => ~overlap /\ \A g \in Goroutine \ {h} : ~Busy(g)
  BY <1>1, SetsOutAlone DEF Begins, Goroutine
<1>8. MatchesOK' /\ HandlersOK' /\ SerialOK'
  BY <1>1, <1>4, <1>6, <1>7, HandlerSteps
<1>9. StoreOK' /\ ToldOK'
  BY <1>1, <1>4, <1>7, StoreStays, ToldStays
<1>10. SessionsOK'
  <2>0. \A q \in Player \ {p} : NoSeatFor(q, matches, matches')
    BY <1>1, <1>a, NobodySeated
  <2>1. CASE p = NoPlayer
    <3>1. \A q \in Player : NoSeatFor(q, matches, matches')
      BY <2>0, <2>1, PlayerAssumption
    <3>2. QED BY <1>1, <1>4, <2>1, <3>1, SessionsStay
  <2>2. CASE p # NoPlayer
    <3> DEFINE s == [connected |-> TRUE, match |-> id]
    <3>1. /\ sessions' = With(sessions, p, s) /\ p \in Player
          /\ joined' = [joined EXCEPT ![p] = id]
      BY <1>1, <1>2, <2>2 DEF Attached
    <3>2. Leads(s, p, matches', id)
      BY <1>2, <1>4, <1>5, <2>2 DEF Leads
    <3> HIDE DEF s
    <3>3. /\ DOMAIN joined' = Player /\ joined'[p] = id
          /\ \A q \in Player \ {p} : joined'[q] = joined[q]
      BY <3>1 DEF IInv, SessionsOK
    <3>4. QED BY <1>4, <2>0, <3>1, <3>2, <3>3, SessionsStay
  <2>3. QED BY <2>1, <2>2
<1>11. QED BY <1>8, <1>9, <1>10 DEF IInv

\* A player takes a seat or watches.
LEMMA JoinKeeps ==
    ASSUME IInv, NEW h \in Handler, NEW id \in MatchID, NEW p \in Player, NEW role \in Role,
           JoinMatchRequest(h, id, p, role)
    PROVE  IInv'
<1> DEFINE f == Join(matches[id], p, role).match
           w == Listing(Commit(id, f))
           s == [connected |-> TRUE, match |-> id]
<1>1. /\ Begins(h) /\ id \in DOMAIN matches
      /\ Join(matches[id], p, role).err = OK
      /\ matches' = [matches EXCEPT ![id] = f]
      /\ sessions' = With(sessions, p, s) /\ joined' = [joined EXCEPT ![p] = id]
      /\ handler' = [handler EXCEPT ![h] = w]
      /\ up' = up /\ disk' = disk /\ acked' = acked
  BY DEF JoinMatchRequest, Attached
<1>2. Registered(matches)
  BY DEF IInv, MatchesOK
<1>3. Grows(matches[id], f) /\ Part(f, p)
  BY <1>1, <1>2, JoinGrows DEF Registered
<1>a. \A q \in Player \ {p} : NoSeatFor(q, matches, matches')
  <2>1. \A q \in Player \ {p} : Seated(f, q) => Seated(matches[id], q)
    BY <1>1, <1>2, JoinSeatsNoOther DEF Registered
  <2> HIDE DEF f
  <2>2. QED BY <1>1, <2>1, NobodySeated
<1> HIDE DEF f
<1>4. Evolves(matches, matches') /\ matches'[id] = f /\ id \in DOMAIN matches'
  BY <1>1, <1>2, <1>3, ReplaceEvolves
<1>5. WorkOK(w, matches') /\ Fresh(h, w, matches') /\ h \in Goroutine
  BY <1>3, <1>4, CommitIsFresh DEF Grows, Goroutine
<1>6. Leads(s, p, matches', id)
  BY <1>3, <1>4 DEF Leads
<1> HIDE DEF w, s
<1>b. /\ DOMAIN joined' = Player /\ joined'[p] = id
      /\ \A q \in Player \ {p} : joined'[q] = joined[q]
  BY <1>1 DEF IInv, SessionsOK
<1>7. /\ up /\ (overlap => overlap')
      /\ ~overlap' => ~overlap /\ \A g \in Goroutine \ {h} : ~Busy(g)
  BY <1>1, SetsOutAlone DEF Begins, Goroutine
<1>8. MatchesOK' /\ HandlersOK' /\ SerialOK'
  BY <1>1, <1>4, <1>5, <1>7, HandlerSteps
<1>9. StoreOK' /\ ToldOK' /\ SessionsOK'
  BY <1>1, <1>4, <1>6, <1>7, <1>a, <1>b, StoreStays, ToldStays, SessionsStay
<1>10. QED BY <1>8, <1>9 DEF IInv

\* An authorized request only takes its handler on.
LEMMA AuthorizeKeeps ==
    ASSUME IInv, NEW h \in Handler, NEW id \in MatchID, NEW p \in Player,
           NEW op \in Operation, Authorize(h, id, p, op)
    PROVE  IInv'
<1> DEFINE w == Handling(id, p, op)
<1>1. /\ Begins(h) /\ id \in DOMAIN matches
      /\ matches' = matches /\ sessions' = sessions /\ joined' = joined
      /\ handler' = [handler EXCEPT ![h] = w]
      /\ up' = up /\ disk' = disk /\ acked' = acked
  BY DEF Authorize
<1>2. Evolves(matches, matches')
  BY <1>1, EvolvesSame DEF IInv, MatchesOK
<1>3. WorkOK(w, matches') /\ Fresh(h, w, matches') /\ h \in Goroutine
  <2>1. WorkOK(w, matches')
    BY <1>1 DEF WorkOK
  <2>2. w.at = "apply"
    BY DEF Handling
  <2>3. QED BY <2>1, <2>2 DEF Fresh, Goroutine
<1>4. \A q \in Player : NoSeatFor(q, matches, matches')
  BY <1>1, NobodySeated
<1> HIDE DEF w
<1>7. /\ up /\ (overlap => overlap')
      /\ ~overlap' => ~overlap /\ \A g \in Goroutine \ {h} : ~Busy(g)
  BY <1>1, SetsOutAlone DEF Begins, Goroutine
<1>8. MatchesOK' /\ HandlersOK' /\ SerialOK'
  BY <1>1, <1>2, <1>3, <1>7, HandlerSteps
<1>9. StoreOK' /\ ToldOK' /\ SessionsOK'
  BY <1>1, <1>2, <1>4, <1>7, StoreStays, ToldStays, SessionsStay
<1>10. QED BY <1>8, <1>9 DEF IInv

\* The operation a handler was authorized for.
LEMMA ApplyKeeps ==
    ASSUME IInv, NEW h \in Handler, Apply(h) PROVE IInv'
<1> DEFINE id == handler[h].id
           outcome == Perform(matches[id], handler[h].player, handler[h].op)
           f == outcome.match
           w == IF outcome.err = OK THEN Listing(Commit(id, f)) ELSE Idle
<1>1. /\ handler[h].at = "apply"
      /\ matches' = [matches EXCEPT ![id] = f]
      /\ handler' = [handler EXCEPT ![h] = w]
      /\ up' = up /\ disk' = disk /\ acked' = acked
      /\ sessions' = sessions /\ overlap' = overlap /\ joined' = joined
  BY DEF Apply
<1>2. Registered(matches) /\ Busy(h) /\ h \in Goroutine
  BY <1>1 DEF IInv, MatchesOK, Idle, Exiting, Busy, Goroutine
<1>3. /\ up /\ WorkOK(handler[h], matches)
      /\ ~overlap => \A g \in Goroutine \ {h} : ~Busy(g)
  BY <1>2, AtWork
<1>4. id \in DOMAIN matches /\ handler[h].player \in Player /\ handler[h].op \in Operation
  <2>1. PICK x \in DOMAIN matches, p \in Player, op \in Operation :
          handler[h] = Handling(x, p, op)
    BY <1>1, <1>3, WorkTells
  <2>2. handler[h].id = x /\ handler[h].player = p /\ handler[h].op = op
    BY <2>1 DEF Handling
  <2>3. QED BY <2>2
<1>5. Grows(matches[id], f) /\ f.players = matches[id].players
  BY <1>2, <1>4, PerformGrows, PerformSeats DEF Registered
<1> HIDE DEF f, id
<1>6. Evolves(matches, matches') /\ matches'[id] = f /\ id \in DOMAIN matches'
  BY <1>1, <1>2, <1>4, <1>5, ReplaceEvolves
<1>a. ASSUME NEW q \in Player PROVE NoSeatFor(q, matches, matches')
  <2>1. Seated(f, q) => Seated(matches[id], q)
    BY <1>5 DEF Seated
  <2>2. QED BY <1>1, <1>4, <2>1, NobodySeated
<1>7. WorkOK(w, matches') /\ Fresh(h, w, matches')
  <2>1. CASE outcome.err = OK
    BY <1>5, <1>6, <2>1, CommitIsFresh DEF Grows
  <2>2. CASE outcome.err # OK
    BY <2>2 DEF WorkOK, Fresh, Idle
  <2>3. QED BY <2>1, <2>2
<1> HIDE DEF w
<1>8. MatchesOK' /\ HandlersOK' /\ SerialOK'
  BY <1>1, <1>2, <1>3, <1>6, <1>7, HandlerSteps
<1>9. StoreOK' /\ ToldOK' /\ SessionsOK'
  BY <1>1, <1>3, <1>6, <1>a, StoreStays, ToldStays, SessionsStay
<1>10. QED BY <1>8, <1>9 DEF IInv

\* persist() lists the matches there are.
LEMMA ListKeeps ==
    ASSUME IInv, NEW h \in Goroutine, ListMatches(h) PROVE IInv'
<1>1. PICK commit : handler[h] = Listing(commit) /\ Telling(commit)
  <2>1. handler[h].at = "list" /\ Busy(h)
    BY DEF ListMatches, Idle, Exiting, Busy
  <2>2. QED BY <2>1, AtWork, WorkTells
<1> DEFINE w == Exporting(commit, DOMAIN matches, EmptyMap)
<1>2. /\ matches' = matches /\ sessions' = sessions
      /\ handler' = [handler EXCEPT ![h] = w]
      /\ up' = up /\ disk' = disk /\ acked' = acked /\ overlap' = overlap
      /\ joined' = joined
  BY <1>1 DEF ListMatches, Listing
<1>3. /\ up
      /\ ~overlap => /\ \A g \in Goroutine \ {h} : ~Busy(g)
                     /\ Fresh(h, handler[h], matches)
  <2>1. Busy(h)
    BY <1>1 DEF Listing, Idle, Exiting, Busy
  <2>2. QED BY <2>1, AtWork
<1>4. Evolves(matches, matches')
  BY <1>2, EvolvesSame DEF IInv, MatchesOK
<1>5. DOMAIN EmptyMap = {}
  BY DEF EmptyMap
<1>6. WorkOK(w, matches')
  <2>1. Filed(EmptyMap) /\ Behind(EmptyMap, matches)
    BY <1>5 DEF Filed, Behind, Ids
  <2>2. QED BY <1>1, <1>2, <2>1 DEF WorkOK
<1>7. ~overlap => Fresh(h, w, matches')
  <2>1. SUFFICES ASSUME ~overlap PROVE Fresh(h, w, matches)
    BY <1>2
  <2>2. h # Main => /\ commit.id \in DOMAIN matches
                    /\ commit = Commit(commit.id, matches[commit.id])
    BY <1>1, <1>3, <2>1 DEF Fresh, Listing
  <2>3. /\ w.at = "export" /\ w.commit = commit
        /\ w.todo = DOMAIN matches /\ w.states = EmptyMap
    BY DEF Exporting
  <2> HIDE DEF w
  <2>4. QED BY <1>5, <2>2, <2>3 DEF Fresh
<1> HIDE DEF w
<1>8. MatchesOK' /\ HandlersOK' /\ SerialOK'
  BY <1>2, <1>3, <1>4, <1>6, <1>7, HandlerSteps
<1>9. StoreOK' /\ ToldOK' /\ SessionsOK'
  BY <1>2, <1>3, <1>4, StoreStays, ToldStays, SessionsStay, NobodySeated
<1>10. QED BY <1>8, <1>9 DEF IInv

\* One match is exported.
LEMMA ExportKeeps ==
    ASSUME IInv, NEW h \in Goroutine, Export(h) PROVE IInv'
<1>1. PICK commit, todo, states :
        /\ handler[h] = Exporting(commit, todo, states) /\ Telling(commit)
        /\ todo \in SUBSET DOMAIN matches
        /\ Filed(states) /\ Behind(states, matches)
  <2>1. handler[h].at = "export" /\ Busy(h)
    BY DEF Export, Idle, Exiting, Busy
  <2>2. QED BY <2>1, AtWork, WorkTells
<1>2. PICK id \in todo : handler' =
        [handler EXCEPT ![h] = Exporting(commit, todo \ {id},
                                         With(states, id, MatchState(matches[id])))]
  <2>1. /\ handler[h].commit = commit /\ handler[h].todo = todo
        /\ handler[h].states = states
    BY <1>1 DEF Exporting
  <2>2. QED BY <2>1 DEF Export
<1> DEFINE st == MatchState(matches[id])
           more == With(states, id, st)
           less == todo \ {id}
           w == Exporting(commit, less, more)
<1>3. /\ matches' = matches /\ sessions' = sessions
      /\ handler' = [handler EXCEPT ![h] = w]
      /\ up' = up /\ disk' = disk /\ acked' = acked /\ overlap' = overlap
      /\ joined' = joined
  BY <1>2 DEF Export
<1>4. /\ up
      /\ ~overlap => /\ \A g \in Goroutine \ {h} : ~Busy(g)
                     /\ Fresh(h, handler[h], matches)
  <2>1. Busy(h)
    BY <1>1 DEF Exporting, Idle, Exiting, Busy
  <2>2. QED BY <2>1, AtWork
<1>5. Evolves(matches, matches') /\ Registered(matches)
  BY <1>3, EvolvesSame DEF IInv, MatchesOK
<1>6. id \in DOMAIN matches /\ id \in Nat /\ Stored(st) /\ Past(st, matches[id])
  BY <1>1, <1>5, StateTells DEF Registered, Ids
<1>7. /\ DOMAIN more = DOMAIN states \cup {id} /\ more[id] = st
      /\ \A x \in DOMAIN states : x # id => more[x] = states[x]
  BY DEF With
<1> HIDE DEF st, more
<1>8. WorkOK(w, matches')
  <2>1. Filed(more)
    BY <1>1, <1>6, <1>7, IdsWith DEF Filed
  <2>2. Behind(more, matches)
    BY <1>1, <1>6, <1>7 DEF Behind
  <2>3. less \in SUBSET DOMAIN matches
    BY <1>1
  <2> HIDE DEF less
  <2>4. QED BY <1>1, <1>3, <2>1, <2>2, <2>3 DEF WorkOK
<1>9. ~overlap => Fresh(h, w, matches')
  <2>1. SUFFICES ASSUME ~overlap PROVE Fresh(h, w, matches)
    BY <1>3
  <2>2. /\ handler[h].at = "export" /\ handler[h].commit = commit
        /\ handler[h].todo = todo /\ handler[h].states = states
    BY <1>1 DEF Exporting
  <2>3. /\ h # Main => /\ commit.id \in DOMAIN matches
                       /\ commit = Commit(commit.id, matches[commit.id])
        /\ DOMAIN matches = todo \cup DOMAIN states
        /\ \A x \in DOMAIN states : states[x] = MatchState(matches[x])
    BY <1>4, <2>1, <2>2 DEF Fresh
  <2>4. w.at = "export" /\ w.commit = commit /\ w.todo = less /\ w.states = more
    BY DEF Exporting
  <2>5. DOMAIN matches = less \cup DOMAIN more
    BY <1>2, <1>7, <2>3
  <2>6. \A x \in DOMAIN more : more[x] = MatchState(matches[x])
    BY <1>7, <2>3 DEF st
  <2> HIDE DEF w, less
  <2>7. QED BY <2>3, <2>4, <2>5, <2>6 DEF Fresh
<1> HIDE DEF w
<1>10. MatchesOK' /\ HandlersOK' /\ SerialOK'
  BY <1>3, <1>4, <1>5, <1>8, <1>9, HandlerSteps
<1>11. StoreOK' /\ ToldOK' /\ SessionsOK'
  BY <1>3, <1>4, <1>5, StoreStays, ToldStays, SessionsStay, NobodySeated
<1>12. QED BY <1>10, <1>11 DEF IInv

\* What Told adds.
LEMMA ToldBound == \A commit : Told(commit) \subseteq acked \cup {commit}
BY DEF Told

\* The store takes the exports of one goroutine, and its client, if it has
\* one, is told.
LEMMA SaveKeeps ==
    ASSUME IInv, NEW h \in Goroutine, Save(h) PROVE IInv'
<1>1. PICK commit, todo, states :
        /\ handler[h] = Exporting(commit, todo, states) /\ Telling(commit)
        /\ todo \in SUBSET DOMAIN matches
        /\ Filed(states) /\ Behind(states, matches)
  <2>1. handler[h].at = "export" /\ Busy(h)
    BY DEF Save, Exported, Idle, Exiting, Busy
  <2>2. QED BY <2>1, AtWork, WorkTells
<1>2. /\ handler[h].at = "export" /\ handler[h].commit = commit
      /\ handler[h].todo = todo /\ handler[h].states = states
      /\ Busy(h)
  BY <1>1 DEF Exporting, Idle, Exiting, Busy
<1> DEFINE w == IF h = Main THEN Exiting ELSE Idle
<1>3. /\ matches' = matches /\ sessions' = sessions /\ joined' = joined
      /\ handler' = [handler EXCEPT ![h] = w]
      /\ up' = up /\ overlap' = overlap
      /\ disk' = states /\ todo = {}
      /\ acked' = IF h = Main THEN acked ELSE Told(commit)
  BY <1>2 DEF Save, Exported, Leaves
<1>4. /\ up
      /\ ~overlap => /\ \A g \in Goroutine \ {h} : ~Busy(g)
                     /\ Fresh(h, handler[h], matches)
  BY <1>2, AtWork
<1>5. Evolves(matches, matches') /\ Registered(matches)
  BY <1>3, EvolvesSame DEF IInv, MatchesOK
<1>6. WorkOK(w, matches') /\ Fresh(h, w, matches')
  BY DEF WorkOK, Fresh, Idle, Exiting
<1> HIDE DEF w
<1>7. MatchesOK' /\ HandlersOK' /\ SerialOK'
  BY <1>3, <1>4, <1>5, <1>6, HandlerSteps
<1>8. StoreOK'
  BY <1>1, <1>3 DEF StoreOK
<1>9. SessionsOK'
  BY <1>3, <1>5, SessionsStay, NobodySeated
<1>10. \A a \in acked' : Telling(a) /\ (a \in acked \/ (h # Main /\ a = commit))
  <2>1. \A a \in acked : Telling(a)
    BY DEF IInv, ToldOK
  <2>2. CASE h = Main
    <3>1. acked' = acked
      BY <1>3, <2>2
    <3>2. QED BY <2>1, <3>1
  <2>3. CASE h # Main
    <3>1. acked' = Told(commit)
      BY <1>3, <2>3
    <3>2. \A a \in acked' : a \in acked \/ a = commit
      BY <3>1, ToldBound
    <3>3. QED BY <1>1, <2>1, <2>3, <3>2
  <2>4. QED BY <2>2, <2>3
<1>11. ASSUME ~overlap, NEW a \in acked'
       PROVE  a.id \in DOMAIN states /\ Past(a, states[a.id])
  <2>1. /\ h # Main => /\ commit.id \in DOMAIN matches
                       /\ commit = Commit(commit.id, matches[commit.id])
        /\ DOMAIN matches = DOMAIN states
        /\ \A x \in DOMAIN states : states[x] = MatchState(matches[x])
    BY <1>2, <1>3, <1>4, <1>11 DEF Fresh
  <2>2. a.id \in DOMAIN matches /\ Past(a, matches[a.id])
    <3>1. CASE h # Main /\ a = commit
      <4> DEFINE m == matches[commit.id]
      <4>1. a.moves = m.moves /\ a.result = m.result /\ a.players = m.players
        BY <2>1, <3>1 DEF Commit
      <4>2. QED BY <1>10, <2>1, <3>1, <4>1, PastSame
    <3>2. CASE a \in acked
      <4>1. a.id \in DOMAIN disk /\ Past(a, disk[a.id]) /\ Telling(a)
        BY <1>11, <3>2 DEF IInv, ToldOK
      <4>2. /\ a.id \in DOMAIN matches /\ Past(disk[a.id], matches[a.id])
            /\ Telling(disk[a.id]) /\ Telling(matches[a.id])
        BY <1>4, <1>5, <4>1, StoredTells, SoundTells
        DEF IInv, StoreOK, Behind, Filed, Registered
      <4>3. QED BY <4>1, <4>2, PastTransitive
    <3>3. QED BY <1>10, <3>1, <3>2
  <2>3. LET st == states[a.id] IN
          /\ st.moves = matches[a.id].moves /\ st.result = matches[a.id].result
          /\ st.players = matches[a.id].players
    BY <1>5, <2>1, <2>2, StateTells DEF Registered
  <2>4. QED BY <2>1, <2>2, <2>3 DEF Past
<1>12. ToldOK'
  BY <1>3, <1>10, <1>11 DEF ToldOK
<1>13. QED BY <1>7, <1>8, <1>9, <1>12 DEF IInv

\* A refused write leaves everything but the handler as it was.
LEMMA SaveFailsKeeps ==
    ASSUME IInv, NEW h \in Goroutine, SaveFails(h) PROVE IInv'
<1> DEFINE w == IF h = Main THEN Exiting ELSE Idle
<1>1. /\ matches' = matches /\ sessions' = sessions /\ joined' = joined
      /\ handler' = [handler EXCEPT ![h] = w]
      /\ up' = up /\ overlap' = overlap /\ disk' = disk /\ acked' = acked
      /\ Busy(h)
  BY DEF SaveFails, Exported, Leaves, Idle, Exiting, Busy
<1>2. up /\ (~overlap => \A g \in Goroutine \ {h} : ~Busy(g))
  BY <1>1, AtWork
<1>3. Evolves(matches, matches')
  BY <1>1, EvolvesSame DEF IInv, MatchesOK
<1>4. WorkOK(w, matches') /\ Fresh(h, w, matches')
  BY DEF WorkOK, Fresh, Idle, Exiting
<1> HIDE DEF w
<1>5. MatchesOK' /\ HandlersOK' /\ SerialOK'
  BY <1>1, <1>2, <1>3, <1>4, HandlerSteps
<1>6. StoreOK' /\ ToldOK' /\ SessionsOK'
  BY <1>1, <1>2, <1>3, StoreStays, ToldStays, SessionsStay, NobodySeated
<1>7. QED BY <1>5, <1>6 DEF IInv

\* The main goroutine sets out on the last save.
LEMMA ShutDownKeeps ==
    ASSUME IInv, ShutDown PROVE IInv'
<1> DEFINE w == Listing(NoCommit)
<1>1. /\ SetsOut(Main) /\ Main \in Goroutine
      /\ matches' = matches /\ sessions' = sessions /\ joined' = joined
      /\ handler' = [handler EXCEPT ![Main] = w]
      /\ up' = up /\ disk' = disk /\ acked' = acked
  BY DEF ShutDown, Goroutine
<1>2. Evolves(matches, matches')
  BY <1>1, EvolvesSame DEF IInv, MatchesOK
<1>3. WorkOK(w, matches') /\ Fresh(Main, w, matches')
  <2>1. Telling(NoCommit)
    BY DEF Telling, NoCommit
  <2>2. w.at = "list"
    BY DEF Listing
  <2>3. QED BY <2>1, <2>2 DEF WorkOK, Fresh
<1> HIDE DEF w
<1>4. /\ up /\ (overlap => overlap')
      /\ ~overlap' => ~overlap /\ \A g \in Goroutine \ {Main} : ~Busy(g)
  BY <1>1, SetsOutAlone
<1>5. MatchesOK' /\ HandlersOK' /\ SerialOK'
  BY <1>1, <1>2, <1>3, <1>4, HandlerSteps
<1>6. StoreOK' /\ ToldOK' /\ SessionsOK'
  BY <1>1, <1>2, <1>4, StoreStays, ToldStays, SessionsStay, NobodySeated
<1>7. QED BY <1>5, <1>6 DEF IInv

\* A crash leaves the store, and what clients were told.
LEMMA CrashKeeps == ASSUME IInv, Crash PROVE IInv'
<1>1. /\ up' = FALSE /\ matches' = EmptyMap /\ sessions' = EmptyMap
      /\ handler' = [h \in Goroutine |-> Idle]
      /\ disk' = disk /\ acked' = acked /\ overlap' = overlap /\ joined' = joined
  BY DEF Crash
<1>2. DOMAIN EmptyMap = {}
  BY DEF EmptyMap
<1>3. MatchesOK' /\ SessionsOK'
  BY <1>1, <1>2 DEF IInv, MatchesOK, SessionsOK, Registered, Ids
<1>4. StoreOK'
  BY <1>1 DEF IInv, StoreOK
<1>5. HandlersOK' /\ SerialOK'
  <2>1. \A h : Fresh(h, Idle, matches')
    BY DEF Fresh, Idle
  <2>2. QED BY <1>1, <2>1 DEF HandlersOK, SerialOK, WorkOK, Busy
<1>6. ToldOK'
  BY <1>1, ToldStays
<1>7. QED BY <1>3, <1>4, <1>5, <1>6 DEF IInv

\* A restart brings back matches in order, and seats their players.
LEMMA RestartKeeps == ASSUME IInv, Restart PROVE IInv'
<1>1. /\ up' = TRUE /\ matches' = [id \in DOMAIN disk |-> MatchFromState(disk[id], 0)]
      /\ sessions' = [p \in {q \in Player : SeatedIn(q) # {}} |->
                        [connected |-> FALSE, match |-> Rebuilt(p)]]
      /\ handler' = handler /\ disk' = disk /\ acked' = acked /\ overlap' = overlap
      /\ joined' = joined /\ ~up
  BY DEF Restart
<1>2. Filed(disk) /\ \A h \in Goroutine : handler[h] = Idle
  BY <1>1 DEF IInv, StoreOK, HandlersOK
<1>3. /\ DOMAIN matches' = DOMAIN disk
      /\ \A id \in DOMAIN disk : /\ Sound(matches'[id]) /\ Past(disk[id], matches'[id])
                                 /\ matches'[id].players = disk[id].players
  BY <1>1, <1>2, RestoredIsInOrder DEF Filed
<1>4. MatchesOK'
  BY <1>1, <1>2, <1>3 DEF MatchesOK, Registered, Filed
<1>5. StoreOK'
  BY <1>1, <1>2, <1>3 DEF StoreOK, Behind
<1>6. HandlersOK' /\ SerialOK'
  <2>1. \A h : Fresh(h, Idle, matches')
    BY DEF Fresh, Idle
  <2>2. QED BY <1>1, <1>2, <2>1 DEF IInv, HandlersOK, SerialOK, WorkOK, Busy
<1>7. SessionsOK'
  <2>1. SUFFICES ASSUME NEW p \in Player, SeatedIn(p) # {}
                 PROVE  Leads([connected |-> FALSE, match |-> Rebuilt(p)], p, matches', joined[p])
    BY <1>1 DEF IInv, SessionsOK
  <2> DEFINE id == Rebuilt(p)
             last == joined[p]
  <2>2. SeatedIn(p) \in SUBSET DOMAIN disk
    BY DEF SeatedIn
  <2>3. id \in SeatedIn(p) /\ \A x \in SeatedIn(p) : x <= id
    BY <1>2, <2>1, <2>2, IdsWith, LastOfIds DEF Filed, Rebuilt
  <2>4. \A x : Sits(matches', x, p) <=> x \in SeatedIn(p)
    BY <1>3 DEF SeatedIn, Sits, Seated
  <2>5. \A x \in SeatedIn(p) : x \in Nat
    BY <1>2, <2>2 DEF Filed, Ids
  <2> HIDE DEF id, last
  <2>6. CASE id = last
    <3>1. id \in DOMAIN matches' /\ Part(matches'[id], p)
      BY <2>3, <2>4 DEF Sits, Part
    <3>2. QED BY <2>6, <3>1 DEF Leads, id, last
  <2>7. CASE id # last
    <3>1. Sits(matches', id, p) /\ (Sits(matches', last, p) => last < id)
      BY <2>3, <2>4, <2>5, <2>7
    <3>2. QED BY <3>1 DEF Leads, id, last
  <2>8. QED BY <2>6, <2>7
<1>8. ToldOK'
  BY <1>1, ToldStays
<1>9. QED BY <1>4, <1>5, <1>6, <1>7, <1>8 DEF IInv

\* A server starts with nothing.
LEMMA InitIInv == Init => IInv
<1> SUFFICES ASSUME Init PROVE IInv
  OBVIOUS
<1>1. DOMAIN EmptyMap = {} /\ \A h : Fresh(h, Idle, matches)
  BY DEF EmptyMap, Fresh, Idle
<1>2. Registered(EmptyMap) /\ Filed(EmptyMap) /\ Behind(EmptyMap, EmptyMap)
  BY <1>1 DEF Registered, Filed, Behind, Ids
<1>3. MatchesOK /\ StoreOK /\ SessionsOK /\ HandlersOK /\ SerialOK /\ ToldOK
  BY <1>1, <1>2
  DEF Init, MatchesOK, StoreOK, SessionsOK, HandlersOK, SerialOK, ToldOK, WorkOK, Busy
<1>4. QED BY <1>3 DEF IInv

\* Every reachable server satisfies the inductive invariant.
THEOREM Invariance == Spec => []IInv
<1>1. IInv /\ [Next]_vars => IInv'
  <2> SUFFICES ASSUME IInv, [Next]_vars PROVE IInv'
    OBVIOUS
  <2>1. CASE \E p \in Player : Connect(p)
    BY <2>1, ConnectKeeps
  <2>2. CASE \E p \in Player : Disconnect(p)
    BY <2>2, ConnectKeeps
  <2>3. CASE \E h \in Handler, id \in MatchID, p \in Seat, role \in Role :
               Create(h, id, p, role)
    BY <2>3, CreateKeeps
  <2>4. CASE \E h \in Handler, id \in MatchID, p \in Player, role \in Role :
               JoinMatchRequest(h, id, p, role)
    BY <2>4, JoinKeeps
  <2>5. CASE \E h \in Handler, id \in MatchID, p \in Player, op \in Operation :
               Authorize(h, id, p, op)
    BY <2>5, AuthorizeKeeps
  <2>6. CASE \E h \in Handler : Apply(h)
    BY <2>6, ApplyKeeps
  <2>7. CASE ShutDown
    BY <2>7, ShutDownKeeps
  <2>8. CASE \E h \in Goroutine : ListMatches(h)
    BY <2>8, ListKeeps
  <2>9. CASE \E h \in Goroutine : Export(h)
    BY <2>9, ExportKeeps
  <2>10. CASE \E h \in Goroutine : Save(h)
    BY <2>10, SaveKeeps
  <2>11. CASE \E h \in Goroutine : SaveFails(h)
    BY <2>11, SaveFailsKeeps
  <2>12. CASE Crash
    BY <2>12, CrashKeeps
  <2>13. CASE Restart
    BY <2>13, RestartKeeps
  <2>14. CASE UNCHANGED vars
    BY <2>14
    DEF vars, IInv, MatchesOK, StoreOK, SessionsOK, HandlersOK, SerialOK, ToldOK, Busy
  <2>15. QED
    BY <2>1, <2>2, <2>3, <2>4, <2>5, <2>6, <2>7, <2>8, <2>9, <2>10, <2>11, <2>12, <2>13,
       <2>14
    DEF Next
<1>2. QED BY <1>1, InitIInv, PTL DEF Spec

\* What a client was told had been done survives every crash, as long as no two
\* goroutines have been at work at the same time: for any number of players,
\* matches, moves, restarts and refused writes.
THEOREM AcknowledgedSurvives == Spec => []AckedSurvives
<1>1. IInv => AckedSurvives
  BY DEF IInv, ToldOK, AckedSurvives
<1>2. QED BY <1>1, Invariance, PTL

\* The store is a past of the server, whatever overlaps with its exports, the
\* save on the way out included, and whatever it refuses.
THEOREM StoreStaysBehind == Spec => []StoreIsPast
<1>1. IInv => StoreIsPast
  BY DEF IInv, StoreOK, Behind, StoreIsPast
<1>2. QED BY <1>1, Invariance, PTL

\* Every session leads to the match its player joined last, or, rebuilt by a
\* restart, to one he sits in whose ID is higher.
THEOREM SessionsStayLeading == Spec => []SessionsLeadToMatches
<1>1. IInv => SessionsLeadToMatches
  BY DEF IInv, SessionsOK, Leads, Sits, Part, SessionsLeadToMatches
<1>2. QED BY <1>1, Invariance, PTL
=============================================================================
