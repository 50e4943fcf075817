------------------------- MODULE MatchmakingProofs -------------------------
(***************************************************************************)
(* Proofs about Matchmaking, for any number of callers, guests and         *)
(* matches, and for any order of their names.  Seats are taken and never   *)
(* given up, so a match the scan has passed by stays closed to its caller; *)
(* and as long as calls do not overlap, nothing opens behind the scan, and *)
(* the number a call has taken is the highest one.                         *)
(***************************************************************************)
EXTENDS Matchmaking, MatchOpsProofs, FiniteSetTheorems

\* Where a call may be.
CallAt(s, w) ==
    \/ w.at = "idle" /\ w = [at |-> "idle"]
    \/ w.at = "list" /\ w = [at |-> "list"]
    \/ w.at = "scan" /\ \E ids \in SUBSET DOMAIN matches :
                           w = [at |-> "scan", todo |-> ids]
    \/ w.at = "join" /\ \E ids \in SUBSET DOMAIN matches :
                           \E id \in ids : \E c \in Acceptable(Wants[s]) :
                              w = [at |-> "join", todo |-> ids, match |-> id, seat |-> c]
    \/ w.at = "create" /\ \E id \in MatchID :
                             /\ id <= nextMatchID
                             /\ w = [at |-> "create", match |-> id]
    \/ w.at = "done" /\ \E id \in MatchID \cup {NoMatch} : \E b \in BOOLEAN :
                           w = Answered(id, b)

\* The matches in the registry, each with somebody in it.
Occupied(m) == \E c \in Color : m.players[c] # NoPlayer
RegistryOK ==
    /\ matches \in [DOMAIN matches -> MatchRecord]
    /\ DOMAIN matches \subseteq MatchID
    /\ \A id \in DOMAIN matches : Occupied(matches[id])

\* A session leads to a match, and whoever has a seat has such a session.
SessionsOK ==
    /\ sessions \in [Player -> MatchID \cup {NoMatch}]
    /\ \A p \in Player : sessions[p] # NoMatch => sessions[p] \in DOMAIN matches
    /\ \A p \in Player : \A id \in DOMAIN matches :
          Seated(matches[id], p) => sessions[p] # NoMatch

CallsOK ==
    /\ seeker = [s \in Seeker |-> seeker[s]]
    /\ \A s \in Seeker : CallAt(s, seeker[s])

\* An answered caller has the seat he was given.
HasSeat(s) ==
    /\ seeker[s].match \in DOMAIN matches
    /\ \E c \in Acceptable(Wants[s]) :
          matches[seeker[s].match].players[c] = Asking[s]
Seats(s) == seeker[s].at = "done" /\ seeker[s].taken => HasSeat(s)

\* Every number up to the counter is in use, or about to be.
NumbersOK ==
    /\ nextMatchID \in Nat
    /\ \A id \in MatchID : id <= nextMatchID /\ id \notin DOMAIN matches =>
          \E s \in Seeker : seeker[s].at = "create" /\ seeker[s].match = id

-----------------------------------------------------------------------------
(* As long as calls do not overlap.                                        *)

\* A match without a seat for the caller.
Closed(id, s) == OpenSeats(matches[id], Wants[s]) = {}

\* What a call at work knows: its caller has no session, the matches it has
\* passed by are closed, and its number is the highest.
Knows(s) ==
    /\ sessions[Asking[s]] = NoMatch
    /\ seeker[s].at \in {"scan", "join"} =>
         \A id \in DOMAIN matches \ seeker[s].todo : Closed(id, s)
    /\ seeker[s].at = "join" =>
         seeker[s].seat \in OpenSeats(matches[seeker[s].match], Wants[s])
    /\ seeker[s].at = "create" =>
         /\ seeker[s].match = nextMatchID
         /\ \A id \in DOMAIN matches : Closed(id, s)

\* A player who only calls sits where his session leads.
SeekersSit ==
    \A p \in Seeking : \A id \in DOMAIN matches :
      Seated(matches[id], p) => sessions[p] = id

\* An answered caller has an opponent, or no match of a lower number is open.
Full(m) == \A c \in Color : m.players[c] # NoPlayer
Best(s) ==
    \/ Full(matches[seeker[s].match])
    \/ /\ seeker[s].match <= nextMatchID
       /\ \A id \in DOMAIN matches : id < seeker[s].match => Closed(id, s)

Quiet ==
    /\ \A s, t \in Seeker : Underway(s) /\ Underway(t) => s = t
    /\ \A s \in Seeker : Underway(s) => Knows(s)
    /\ SeekersSit
    /\ \A s \in Seeker : seeker[s].at = "done" /\ seeker[s].taken => Best(s)

IInv ==
    /\ RegistryOK
    /\ SessionsOK
    /\ CallsOK
    /\ \A s \in Seeker : Seats(s)
    /\ NumbersOK
    /\ overlapped \in BOOLEAN
    /\ overlapped = FALSE => Quiet

-----------------------------------------------------------------------------
(* Seats.                                                                  *)

\* What a call may ask for are seats.
LEMMA WantsSeats ==
    ASSUME NEW s \in Seeker
    PROVE  Acceptable(Wants[s]) \subseteq Color /\ Asking[s] \in Player
BY MatchmakingAssumption DEF Acceptable

\* The seat a call is sent to is open to it.
LEMMA FirstSeatOpen ==
    ASSUME NEW open \in SUBSET Color, open # {} PROVE FirstSeat(open) \in open
BY DEF FirstSeat, Color

\* Without a clock, a match is joined by sitting down.
LEMMA JoinSeats ==
    ASSUME NEW m \in MatchRecord, NEW p \in Player, NEW c \in Color
    PROVE  LET j == JoinMatch(m, p, c, 0)
           IN  /\ j.err = OK <=> /\ m.players[c] \in {NoPlayer, p}
                                 /\ m.players[Other(c)] # p
               /\ j.err = OK => j.match.players = [m.players EXCEPT ![c] = p]
<1> DEFINE seats == [m.players EXCEPT ![c] = p]
           watch == m.spectators \ {p}
           j == [m EXCEPT !.players = seats, !.spectators = watch]
<1>1. j.players = seats
  BY DEF MatchRecord
<1>2. StartClock(j, 0) = j
  BY MatchmakingAssumption DEF StartClock
<1>3. JoinMatch(m, p, c, 0) = IF \/ m.players[c] \notin {NoPlayer, p}
                                 \/ m.players[Other(c)] = p
                              THEN Fail(m, "seat_taken") ELSE Done(StartClock(j, 0))
  BY DEF JoinMatch
<1> HIDE DEF j
<1>4. QED BY <1>1, <1>2, <1>3 DEF Fail, Done, OK

\* Nobody is seated in a new match.
LEMMA NewSeats == NewMatch.players = [c \in Color |-> NoPlayer]
BY DEF NewMatch

\* A resignation moves nobody.
LEMMA ResignSeats ==
    ASSUME NEW m \in MatchRecord, NEW t \in Int, NEW p \in Player
    PROVE  /\ Resign(m, p, t).match \in MatchRecord
           /\ Resign(m, p, t).match.players = m.players
<1> DEFINE s == SyncClock(m, t)
<1>1. s \in MatchRecord /\ s.players = m.players
  BY SyncType, SyncSeats DEF SameSeats
<1>2. ASSUME NEW w PROVE [s EXCEPT !.result = w].players = s.players
  BY <1>1 DEF MatchRecord
<1>3. \/ Resign(m, p, t).match = s
      \/ \E w \in Result \ {"*", Drawn} : Resign(m, p, t).match = [s EXCEPT !.result = w]
  BY ResignCases
<1>4. Resign(m, p, t).match \in MatchRecord
  BY ResignType
<1> DEFINE r == Resign(m, p, t).match
<1> HIDE DEF s, r
<1>5. r.players = s.players
  BY <1>2, <1>3 DEF r
<1>6. QED BY <1>1, <1>4, <1>5 DEF r

-----------------------------------------------------------------------------
(* What a step does to the registry.                                       *)

\* p sits down on c in match id, which may be new.
SitsDown(p, id, c) ==
    /\ matches' \in [DOMAIN matches \cup {id} -> MatchRecord]
    /\ id \in MatchID
    /\ matches'[id].players[c] = p
    /\ id \notin DOMAIN matches =>
         \A d \in Color : d # c => matches'[id].players[d] = NoPlayer
    /\ id \in DOMAIN matches =>
         /\ matches[id].players[c] \in {NoPlayer, p}
         /\ \A d \in Color : d # c => matches'[id].players[d] = matches[id].players[d]
    /\ \A other \in DOMAIN matches : other # id => matches'[other] = matches[other]
    /\ sessions' = [sessions EXCEPT ![p] = id]

\* Nobody sits down.
StaySeated ==
    /\ matches' \in [DOMAIN matches -> MatchRecord]
    /\ \A id \in DOMAIN matches : matches'[id].players = matches[id].players
    /\ sessions' = sessions

\* Seats are taken and never given up.
SeatsKept ==
    \A id \in DOMAIN matches :
      /\ id \in DOMAIN matches'
      /\ \A c \in Color : matches[id].players[c] # NoPlayer =>
           matches'[id].players[c] = matches[id].players[c]

LEMMA SitsDownKeeps ==
    ASSUME RegistryOK, NEW p, NEW id, NEW c \in Color, SitsDown(p, id, c)
    PROVE  SeatsKept
<1>1. SUFFICES ASSUME NEW i \in DOMAIN matches
               PROVE  /\ i \in DOMAIN matches'
                      /\ \A d \in Color : matches[i].players[d] # NoPlayer =>
                           matches'[i].players[d] = matches[i].players[d]
  BY DEF SeatsKept
<1>2. i \in DOMAIN matches'
  BY DEF SitsDown
<1>3. CASE i # id
  BY <1>2, <1>3 DEF SitsDown
<1>4. CASE i = id
  BY <1>2, <1>4 DEF SitsDown
<1>5. QED BY <1>3, <1>4

LEMMA StaySeatedKeeps ==
    ASSUME StaySeated PROVE SeatsKept
BY DEF StaySeated, SeatsKept

\* Joining an open seat of a registered match is sitting down.
LEMMA JoiningSits ==
    ASSUME RegistryOK, NEW p \in Player, NEW id \in DOMAIN matches, NEW c \in Color,
           JoinMatch(matches[id], p, c, 0).err = OK,
           matches' = [matches EXCEPT ![id] = JoinMatch(matches[id], p, c, 0).match],
           sessions' = [sessions EXCEPT ![p] = id]
    PROVE  SitsDown(p, id, c)
<1> DEFINE j == JoinMatch(matches[id], p, c, 0)
<1>1. matches[id] \in MatchRecord /\ id \in MatchID
  BY DEF RegistryOK
<1>2. j.match \in MatchRecord
  BY <1>1, JoinType
<1>3. /\ matches[id].players[c] \in {NoPlayer, p}
      /\ j.match.players = [matches[id].players EXCEPT ![c] = p]
  BY <1>1, JoinSeats
<1>4. matches[id].players \in [Color -> Seat]
  BY <1>1 DEF MatchRecord
<1>5. j.match.players[c] = p
  BY <1>3, <1>4
<1>6. \A d \in Color : d # c => j.match.players[d] = matches[id].players[d]
  BY <1>3, <1>4
<1> HIDE DEF j
<1>7. matches' = [matches EXCEPT ![id] = j.match]
  BY DEF j
<1>8. matches' \in [DOMAIN matches \cup {id} -> MatchRecord] /\ matches'[id] = j.match
  BY <1>2, <1>7 DEF RegistryOK
<1>9. \A other \in DOMAIN matches : other # id => matches'[other] = matches[other]
  BY <1>7 DEF RegistryOK
<1>10. QED BY <1>1, <1>3, <1>5, <1>6, <1>8, <1>9 DEF SitsDown

\* Creating a match is sitting down in it.
LEMMA CreatingSits ==
    ASSUME RegistryOK, NEW p \in Player, NEW id \in MatchID, id \notin DOMAIN matches,
           NEW c \in Color,
           matches' = With(matches, id, JoinMatch(NewMatch, p, c, 0).match),
           sessions' = [sessions EXCEPT ![p] = id]
    PROVE  SitsDown(p, id, c)
<1> DEFINE j == JoinMatch(NewMatch, p, c, 0)
<1>1. j.match \in MatchRecord
  BY NewMatchType, JoinType
<1>2. \A d \in Color : NewMatch.players[d] = NoPlayer
  BY NewSeats
<1>3. NewMatch.players[c] \in {NoPlayer, p} /\ NewMatch.players[Other(c)] # p
  BY <1>2, OtherColor, PlayerAssumption
<1>4. j.match.players = [NewMatch.players EXCEPT ![c] = p]
  BY <1>3, NewMatchType, JoinSeats
<1>5. j.match.players[c] = p /\ \A d \in Color : d # c => j.match.players[d] = NoPlayer
  BY <1>4, NewSeats
<1> HIDE DEF j
<1>6. matches' = [z \in DOMAIN matches \cup {id} |-> IF z = id THEN j.match ELSE matches[z]]
  BY DEF With, j
<1>7. matches' \in [DOMAIN matches \cup {id} -> MatchRecord] /\ matches'[id] = j.match
  BY <1>1, <1>6 DEF RegistryOK
<1>8. \A other \in DOMAIN matches : other # id => matches'[other] = matches[other]
  BY <1>6
<1>9. QED BY <1>5, <1>7, <1>8 DEF SitsDown

\* The registry stays in order.
LEMMA RegistryKept ==
    ASSUME RegistryOK, SeatsKept,
           \/ StaySeated
           \/ \E p \in Player : \E id : \E c \in Color : SitsDown(p, id, c)
    PROVE  RegistryOK'
<1>1. CASE StaySeated
  BY <1>1 DEF StaySeated, RegistryOK, Occupied
<1>2. ASSUME NEW p \in Player, NEW id, NEW c \in Color, SitsDown(p, id, c)
      PROVE  RegistryOK'
  <2>1. /\ matches' \in [DOMAIN matches' -> MatchRecord]
        /\ DOMAIN matches' = DOMAIN matches \cup {id}
        /\ DOMAIN matches' \subseteq MatchID
    BY <1>2 DEF SitsDown, RegistryOK
  <2>2. Occupied(matches'[id])
    BY <1>2, PlayerAssumption DEF SitsDown, Occupied
  <2>3. \A i \in DOMAIN matches : Occupied(matches'[i])
    BY DEF SeatsKept, RegistryOK, Occupied
  <2>4. QED BY <2>1, <2>2, <2>3 DEF RegistryOK
<1>3. QED BY <1>1, <1>2

\* The sessions stay in order.
LEMMA SessionsKept ==
    ASSUME RegistryOK, SessionsOK, SeatsKept,
           \/ StaySeated
           \/ \E p \in Player : \E id : \E c \in Color : SitsDown(p, id, c)
    PROVE  SessionsOK'
<1>1. CASE StaySeated
  BY <1>1 DEF StaySeated, SessionsOK, Seated
<1>2. ASSUME NEW p \in Player, NEW id, NEW c \in Color, SitsDown(p, id, c)
      PROVE  SessionsOK'
  <2>1. id \in MatchID /\ DOMAIN matches' = DOMAIN matches \cup {id}
    BY <1>2 DEF SitsDown
  <2>2. id # NoMatch
    BY <2>1 DEF MatchID, NoMatch
  <2>3. /\ sessions' \in [Player -> MatchID \cup {NoMatch}]
        /\ sessions'[p] = id /\ \A q \in Player : q # p => sessions'[q] = sessions[q]
    BY <1>2, <2>1 DEF SitsDown, SessionsOK
  <2>4. \A q \in Player : sessions'[q] # NoMatch => sessions'[q] \in DOMAIN matches'
    BY <2>1, <2>3 DEF SessionsOK
  <2>5. ASSUME NEW q \in Player, NEW i \in DOMAIN matches', Seated(matches'[i], q)
        PROVE  sessions'[q] # NoMatch
    <3>1. CASE q = p
      BY <2>2, <2>3, <3>1
    <3>2. CASE q # p
      <4>1. PICK d \in Color : matches'[i].players[d] = q
        BY <2>5 DEF Seated
      <4>2. i \in DOMAIN matches /\ matches[i].players[d] = q
        BY <1>2, <2>1, <3>2, <4>1, PlayerAssumption DEF SitsDown
      <4>3. QED BY <2>3, <3>2, <4>2 DEF SessionsOK, Seated
    <3>3. QED BY <3>1, <3>2
  <2>6. QED BY <2>3, <2>4, <2>5 DEF SessionsOK
<1>3. QED BY <1>1, <1>2

-----------------------------------------------------------------------------
(* What holds of the calls that do not move.                               *)

\* A counter that only counts on.
CountsOn == /\ nextMatchID \in Nat /\ nextMatchID' \in Nat
            /\ nextMatchID <= nextMatchID'

\* The call of s goes to w.
Goes(s, w) == seeker' = [seeker EXCEPT ![s] = w]

LEMMA GoesTo ==
    ASSUME CallsOK, NEW s \in Seeker, NEW w, Goes(s, w)
    PROVE  /\ seeker' = [t \in Seeker |-> seeker'[t]]
           /\ seeker'[s] = w /\ \A t \in Seeker : t # s => seeker'[t] = seeker[t]
BY DEF CallsOK, Goes

LEMMA CallAtStays ==
    ASSUME SeatsKept, CountsOn, NEW t \in Seeker, NEW w, CallAt(t, w)
    PROVE  CallAt(t, w)'
<1>1. SUBSET DOMAIN matches \subseteq SUBSET DOMAIN matches'
  BY DEF SeatsKept
<1>2. CASE w.at = "idle" \/ w.at = "list" \/ w.at = "done"
  BY <1>2 DEF CallAt
<1>3. CASE w.at = "scan"
  BY <1>1, <1>3 DEF CallAt
<1>4. CASE w.at = "join"
  BY <1>1, <1>4 DEF CallAt
<1>5. CASE w.at = "create"
  <2>1. PICK id \in MatchID : id <= nextMatchID /\ w = [at |-> "create", match |-> id]
    BY <1>5 DEF CallAt
  <2>2. id <= nextMatchID'
    BY <2>1 DEF CountsOn, MatchID
  <2>3. QED BY <1>5, <2>1, <2>2 DEF CallAt
<1>6. QED BY <1>2, <1>3, <1>4, <1>5 DEF CallAt

\* A call moves and the others stay.
LEMMA CallsStay ==
    ASSUME CallsOK, SeatsKept, CountsOn, NEW s \in Seeker, NEW w, Goes(s, w),
           CallAt(s, w)'
    PROVE  CallsOK'
<1>1. \A t \in Seeker : CallAt(t, seeker[t])
  BY DEF CallsOK
<1>2. ASSUME NEW t \in Seeker PROVE CallAt(t, seeker[t])'
  <2>1. CASE t = s
    <3>1. seeker'[t] = w
      BY <2>1, GoesTo
    <3>2. QED BY <2>1, <3>1 DEF CallAt
  <2>2. CASE t # s
    <3>1. PICK v : v = seeker[t]
      OBVIOUS
    <3>2. CallAt(t, v)
      BY <1>1, <3>1
    <3>3. CallAt(t, v)'
      BY <3>2, CallAtStays
    <3>4. seeker'[t] = v
      BY <2>2, <3>1, GoesTo
    <3>5. QED BY <3>3, <3>4 DEF CallAt
  <2>3. QED BY <2>1, <2>2
<1>3. QED BY <1>2, GoesTo DEF CallsOK

LEMMA CallsUnmoved ==
    ASSUME CallsOK, SeatsKept, CountsOn, seeker' = seeker PROVE CallsOK'
<1>1. \A t \in Seeker : CallAt(t, seeker[t])
  BY DEF CallsOK
<1>2. ASSUME NEW t \in Seeker PROVE CallAt(t, seeker[t])'
  <2>1. PICK v : v = seeker[t]
    OBVIOUS
  <2>2. CallAt(t, v)
    BY <1>1, <2>1
  <2>3. CallAt(t, v)'
    BY <2>2, CallAtStays
  <2>4. seeker'[t] = v
    BY <2>1
  <2>5. QED BY <2>3, <2>4 DEF CallAt
<1>3. QED BY <1>2 DEF CallsOK

\* Who has a seat keeps it.
LEMMA SeatStays ==
    ASSUME SeatsKept, NEW t \in Seeker, seeker'[t] = seeker[t], Seats(t)
    PROVE  Seats(t)'
<1>1. ASSUME HasSeat(t) PROVE HasSeat(t)'
  <2>1. PICK c \in Acceptable(Wants[t]) : matches[seeker[t].match].players[c] = Asking[t]
    BY <1>1 DEF HasSeat
  <2>2. c \in Color /\ Asking[t] # NoPlayer
    BY WantsSeats, PlayerAssumption
  <2>3. QED BY <1>1, <2>1, <2>2 DEF HasSeat, SeatsKept
<1>2. QED BY <1>1 DEF Seats

\* A closed match stays closed.
LEMMA ClosedStays ==
    ASSUME SeatsKept, NEW t \in Seeker, NEW id \in DOMAIN matches, Closed(id, t)
    PROVE  Closed(id, t)'
BY WantsSeats DEF SeatsKept, Closed, OpenSeats

\* Numbers stay in use, or about to be.
LEMMA NumbersStay ==
    ASSUME NumbersOK, SeatsKept, nextMatchID' = nextMatchID,
           \A t \in Seeker : seeker[t].at = "create" =>
             seeker'[t] = seeker[t] \/ seeker[t].match \in DOMAIN matches'
    PROVE  NumbersOK' /\ CountsOn
<1>1. ASSUME NEW id \in MatchID, id <= nextMatchID, id \notin DOMAIN matches'
      PROVE  \E t \in Seeker : seeker'[t].at = "create" /\ seeker'[t].match = id
  <2>1. id \notin DOMAIN matches
    BY <1>1 DEF SeatsKept
  <2>2. PICK t \in Seeker : seeker[t].at = "create" /\ seeker[t].match = id
    BY <1>1, <2>1 DEF NumbersOK
  <2>3. QED BY <1>1, <2>2
<1>2. QED BY <1>1 DEF NumbersOK, CountsOn

-----------------------------------------------------------------------------
(* Without overlapping calls.                                              *)

\* No match appears whose number is lower than one given out.
NothingBelow ==
    \A id \in DOMAIN matches' \ DOMAIN matches :
      \A t \in Seeker :
        /\ seeker[t].at = "done" /\ seeker[t].taken
        /\ seeker[t].match <= nextMatchID
        => ~(id < seeker[t].match)

LEMMA BestStays ==
    ASSUME SeatsKept, CountsOn, NothingBelow, NEW t \in Seeker, seeker'[t] = seeker[t],
           seeker[t].at = "done", seeker[t].taken, seeker[t].match \in MatchID,
           HasSeat(t), Best(t)
    PROVE  Best(t)'
<1>1. CASE Full(matches[seeker[t].match])
  BY <1>1 DEF HasSeat, SeatsKept, Full, Best
<1>2. CASE /\ seeker[t].match <= nextMatchID
           /\ \A id \in DOMAIN matches : id < seeker[t].match => Closed(id, t)
  <2>1. seeker'[t].match <= nextMatchID'
    BY <1>2 DEF CountsOn, MatchID
  <2>2. ASSUME NEW id \in DOMAIN matches', id < seeker'[t].match PROVE Closed(id, t)'
    <3>1. id \in DOMAIN matches
      BY <1>2, <2>2 DEF NothingBelow
    <3>2. Closed(id, t)
      BY <1>2, <2>2, <3>1
    <3>3. QED BY <3>1, <3>2, ClosedStays
  <2>3. QED BY <2>1, <2>2 DEF Best, Closed, OpenSeats
<1>3. QED BY <1>1, <1>2 DEF Best

LEMMA SeekersSitStill ==
    ASSUME SeekersSit, StaySeated PROVE SeekersSit'
BY DEF SeekersSit, StaySeated, Seated

LEMMA SeekersSitDown ==
    ASSUME SessionsOK, SeekersSit, NEW p \in Player, NEW id, NEW c \in Color,
           SitsDown(p, id, c), p \in Seeking => sessions[p] = NoMatch
    PROVE  SeekersSit'
<1>1. /\ DOMAIN matches' = DOMAIN matches \cup {id}
      /\ sessions'[p] = id /\ \A q \in Player : q # p => sessions'[q] = sessions[q]
  BY DEF SitsDown, SessionsOK
<1>2. SUFFICES ASSUME NEW q \in Seeking, NEW i \in DOMAIN matches', Seated(matches'[i], q)
               PROVE  sessions'[q] = i
  BY DEF SeekersSit
<1>3. q \in Player
  BY MatchmakingAssumption DEF Seeking
<1>4. CASE q = p
  <2>1. \A j \in DOMAIN matches : ~Seated(matches[j], p)
    BY <1>2, <1>4 DEF SessionsOK
  <2>2. i = id
    BY <1>1, <1>2, <1>4, <2>1 DEF SitsDown
  <2>3. QED BY <1>1, <1>4, <2>2
<1>5. CASE q # p
  <2>1. PICK d \in Color : matches'[i].players[d] = q
    BY <1>2 DEF Seated
  <2>2. i \in DOMAIN matches /\ matches[i].players[d] = q
    BY <1>1, <1>3, <1>5, <2>1, PlayerAssumption DEF SitsDown
  <2>3. QED BY <1>1, <1>3, <1>5, <2>2 DEF SeekersSit, Seated
<1>6. QED BY <1>4, <1>5

-----------------------------------------------------------------------------
(* The steps, overlapping or not.                                          *)

Core ==
    /\ RegistryOK
    /\ SessionsOK
    /\ CallsOK
    /\ \A s \in Seeker : Seats(s)
    /\ NumbersOK

\* A call that looks or counts seats nobody.
LEMMA CoreLooks ==
    ASSUME Core, NEW s \in Seeker, NEW w, Goes(s, w), CallAt(s, w)',
           matches' = matches, sessions' = sessions, CountsOn, NumbersOK',
           w.at = "done" => w.taken = FALSE
    PROVE  Core' /\ SeatsKept /\ StaySeated
<1>1. StaySeated /\ SeatsKept
  BY DEF Core, RegistryOK, StaySeated, SeatsKept
<1>2. RegistryOK' /\ SessionsOK' /\ CallsOK'
  BY <1>1, RegistryKept, SessionsKept, CallsStay DEF Core
<1>3. ASSUME NEW t \in Seeker PROVE Seats(t)'
  <2>1. CASE t = s
    <3>1. seeker'[t] = w
      BY <2>1, GoesTo DEF Core
    <3>2. QED BY <3>1 DEF Seats
  <2>2. CASE t # s
    <3>1. seeker'[t] = seeker[t]
      BY <2>2, GoesTo DEF Core
    <3>2. QED BY <1>1, <3>1, SeatStays DEF Core
  <2>3. QED BY <2>1, <2>2
<1>4. QED BY <1>1, <1>2, <1>3 DEF Core

\* A call sits down.
LEMMA CoreSits ==
    ASSUME Core, NEW s \in Seeker, NEW id \in MatchID, NEW c \in Acceptable(Wants[s]),
           SitsDown(Asking[s], id, c), Goes(s, Answered(id, TRUE)),
           nextMatchID' = nextMatchID, seeker[s].at = "create" => seeker[s].match = id
    PROVE  Core' /\ SeatsKept /\ CountsOn
<1>1. /\ Asking[s] \in Player /\ c \in Color
      /\ DOMAIN matches' = DOMAIN matches \cup {id}
      /\ matches'[id].players[c] = Asking[s]
  BY WantsSeats DEF SitsDown
<1>2. SeatsKept
  BY <1>1, SitsDownKeeps DEF Core
<1>3. RegistryOK' /\ SessionsOK'
  BY <1>1, <1>2, RegistryKept, SessionsKept DEF Core
<1>4. /\ seeker'[s] = Answered(id, TRUE)
      /\ \A t \in Seeker : t # s => seeker'[t] = seeker[t]
  BY GoesTo DEF Core
<1>5. NumbersOK' /\ CountsOn
  BY <1>1, <1>2, <1>4, NumbersStay DEF Core
<1>6. CallsOK'
  <2>1. CallAt(s, Answered(id, TRUE))'
    BY DEF CallAt, Answered
  <2>2. QED BY <1>2, <1>5, <2>1, CallsStay DEF Core
<1>7. ASSUME NEW t \in Seeker PROVE Seats(t)'
  <2>1. CASE t = s
    BY <1>1, <1>4, <2>1 DEF Seats, HasSeat, Answered
  <2>2. CASE t # s
    BY <1>2, <1>4, <2>2, SeatStays DEF Core
  <2>3. QED BY <2>1, <2>2
<1>8. QED BY <1>2, <1>3, <1>5, <1>6, <1>7 DEF Core

LEMMA AskCore ==
    ASSUME Core, NEW s \in Seeker, Ask(s)
    PROVE  Core' /\ SeatsKept /\ CountsOn /\ StaySeated
<1>1. PICK id \in MatchID \cup {NoMatch} : id = sessions[Asking[s]]
  BY WantsSeats DEF Core, SessionsOK
<1> DEFINE w == IF id # NoMatch THEN Answered(id, FALSE) ELSE [at |-> "list"]
<1>2. Goes(s, w) /\ CallAt(s, w)' /\ (w.at = "done" => w.taken = FALSE)
  BY <1>1 DEF Ask, Goes, CallAt, Answered
<1>3. matches' = matches /\ sessions' = sessions /\ nextMatchID' = nextMatchID
  BY DEF Ask
<1>4. NumbersOK' /\ CountsOn
  <2>1. \A t \in Seeker : seeker[t].at = "create" => seeker'[t] = seeker[t]
    BY <1>2, GoesTo DEF Ask, Core
  <2>2. SeatsKept
    BY <1>3 DEF SeatsKept
  <2>3. QED BY <1>3, <2>1, <2>2, NumbersStay DEF Core
<1> HIDE DEF w
<1>5. QED BY <1>2, <1>3, <1>4, CoreLooks

LEMMA ListCore ==
    ASSUME Core, NEW s \in Seeker, List(s)
    PROVE  Core' /\ SeatsKept /\ CountsOn /\ StaySeated
<1>0. PICK ids : ids = DOMAIN matches
  OBVIOUS
<1> DEFINE w == [at |-> "scan", todo |-> ids]
<1>1. matches' = matches /\ sessions' = sessions /\ nextMatchID' = nextMatchID
  BY DEF List
<1>2. Goes(s, w) /\ w.at # "done"
  BY <1>0 DEF List, Goes
<1>3. CallAt(s, w)'
  BY <1>0, <1>1 DEF CallAt
<1>4. NumbersOK' /\ CountsOn
  <2>1. \A t \in Seeker : seeker[t].at = "create" => seeker'[t] = seeker[t]
    BY <1>2, GoesTo DEF List, Core
  <2>2. SeatsKept
    BY <1>1 DEF SeatsKept
  <2>3. QED BY <1>1, <2>1, <2>2, NumbersStay DEF Core
<1> HIDE DEF w
<1>5. QED BY <1>1, <1>2, <1>3, <1>4, CoreLooks

\* The first of some matches is one of them.
LEMMA FirstIsOne ==
    ASSUME NEW ids \in SUBSET MatchID, ids # {} PROVE First(ids) \in ids
<1> DEFINE R == {Rank[id] : id \in ids}
<1>1. R \in SUBSET Nat /\ R # {}
  BY MatchmakingAssumption
<1>2. PICK r \in R : \A q \in R : r <= q
  BY <1>1, LeastNat
<1>3. \E id \in ids : \A other \in ids : Rank[id] <= Rank[other]
  BY <1>2
<1>4. QED BY <1>3 DEF First

\* What a scan does: it passes a match by, or goes to its open seat.
LEMMA ScanCases ==
    ASSUME Core, NEW s \in Seeker, Scan(s)
    PROVE  \E ids \in SUBSET DOMAIN matches : \E id \in ids :
             /\ seeker[s] = [at |-> "scan", todo |-> ids]
             /\ \/ /\ Closed(id, s)
                   /\ Goes(s, [at |-> "scan", todo |-> ids \ {id}])
                \/ \E c \in OpenSeats(matches[id], Wants[s]) :
                      Goes(s, [at |-> "join", todo |-> ids, match |-> id, seat |-> c])
<1>1. CallAt(s, seeker[s]) /\ seeker[s].at = "scan"
  BY DEF Core, CallsOK, Scan
<1>2. PICK ids \in SUBSET DOMAIN matches : seeker[s] = [at |-> "scan", todo |-> ids]
  BY <1>1 DEF CallAt
<1> DEFINE id == First(ids)
           open == OpenSeats(matches[id], Wants[s])
<1>3. ids # {} /\ id = First(seeker[s].todo)
  BY <1>2 DEF Scan
<1>4. id \in ids
  BY <1>3, FirstIsOne DEF Core, RegistryOK
<1>5. CASE open = {}
  <2>1. Goes(s, [seeker[s] EXCEPT !.todo = seeker[s].todo \ {id}])
    BY <1>3, <1>5 DEF Scan, Goes
  <2>2. [seeker[s] EXCEPT !.todo = seeker[s].todo \ {id}]
          = [at |-> "scan", todo |-> ids \ {id}]
    BY <1>2
  <2>3. Goes(s, [at |-> "scan", todo |-> ids \ {id}])
    BY <2>1, <2>2
  <2>4. QED BY <1>2, <1>4, <1>5, <2>3 DEF Closed
<1>6. CASE open # {}
  <2>1. open \subseteq Color
    BY WantsSeats DEF OpenSeats
  <2>2. FirstSeat(open) \in open
    BY <1>6, <2>1, FirstSeatOpen
  <2>3. Goes(s, [at |-> "join", todo |-> ids, match |-> id, seat |-> FirstSeat(open)])
    <3>1. Goes(s, [at |-> "join", todo |-> seeker[s].todo, match |-> id,
                   seat |-> FirstSeat(open)])
      BY <1>3, <1>6 DEF Scan, Goes
    <3>2. seeker[s].todo = ids
      BY <1>2
    <3>3. QED BY <3>1, <3>2
  <2>4. QED BY <1>2, <1>4, <2>2, <2>3
<1>7. QED BY <1>5, <1>6

LEMMA ScanCore ==
    ASSUME Core, NEW s \in Seeker, Scan(s)
    PROVE  Core' /\ SeatsKept /\ CountsOn /\ StaySeated
<1>1. matches' = matches /\ sessions' = sessions /\ nextMatchID' = nextMatchID
  BY DEF Scan
<1>2. PICK ids \in SUBSET DOMAIN matches : \E id \in ids :
             /\ seeker[s] = [at |-> "scan", todo |-> ids]
             /\ \/ /\ Closed(id, s)
                   /\ Goes(s, [at |-> "scan", todo |-> ids \ {id}])
                \/ \E c \in OpenSeats(matches[id], Wants[s]) :
                      Goes(s, [at |-> "join", todo |-> ids, match |-> id, seat |-> c])
  BY ScanCases
<1>3. PICK w : /\ Goes(s, w) /\ w.at # "done"
               /\ \/ \E id \in ids : w = [at |-> "scan", todo |-> ids \ {id}]
                  \/ \E id \in ids : \E c \in Acceptable(Wants[s]) :
                        w = [at |-> "join", todo |-> ids, match |-> id, seat |-> c]
  BY <1>2 DEF OpenSeats
<1>4. CallAt(s, w)'
  BY <1>1, <1>3 DEF CallAt
<1>5. NumbersOK' /\ CountsOn
  <2>1. \A t \in Seeker : seeker[t].at = "create" => seeker'[t] = seeker[t]
    BY <1>3, GoesTo DEF Scan, Core
  <2>2. SeatsKept
    BY <1>1 DEF SeatsKept
  <2>3. QED BY <1>1, <2>1, <2>2, NumbersStay DEF Core
<1>6. QED BY <1>1, <1>3, <1>4, <1>5, CoreLooks

\* What taking a seat does: it sits down, or goes on to the next match.
LEMMA TakeCases ==
    ASSUME Core, NEW s \in Seeker, TakeSeat(s)
    PROVE  \E ids \in SUBSET DOMAIN matches :
           \E id \in ids : \E c \in Acceptable(Wants[s]) :
             /\ seeker[s] = [at |-> "join", todo |-> ids, match |-> id, seat |-> c]
             /\ \/ /\ SitsDown(Asking[s], id, c)
                   /\ Goes(s, Answered(id, TRUE))
                \/ /\ JoinMatch(matches[id], Asking[s], c, 0).err # OK
                   /\ Goes(s, [at |-> "scan", todo |-> ids \ {id}])
                   /\ matches' = matches /\ sessions' = sessions
<1>1. CallAt(s, seeker[s]) /\ seeker[s].at = "join"
  BY DEF Core, CallsOK, TakeSeat
<1>2. PICK ids \in SUBSET DOMAIN matches : \E id \in ids : \E c \in Acceptable(Wants[s]) :
        seeker[s] = [at |-> "join", todo |-> ids, match |-> id, seat |-> c]
  BY <1>1 DEF CallAt
<1>3. PICK id \in ids, c \in Acceptable(Wants[s]) :
        seeker[s] = [at |-> "join", todo |-> ids, match |-> id, seat |-> c]
  BY <1>2
<1>4. seeker[s].todo = ids /\ seeker[s].match = id /\ seeker[s].seat = c
  BY <1>3
<1>5. Asking[s] \in Player /\ c \in Color /\ id \in DOMAIN matches
  BY WantsSeats
<1> DEFINE joined == JoinMatch(matches[id], Asking[s], c, 0)
<1>6. CASE joined.err = OK
  <2>1. /\ matches' = [matches EXCEPT ![id] = joined.match]
        /\ sessions' = [sessions EXCEPT ![Asking[s]] = id]
        /\ Goes(s, Answered(id, TRUE))
    BY <1>4, <1>6 DEF TakeSeat, Goes
  <2>2. SitsDown(Asking[s], id, c)
    BY <1>5, <1>6, <2>1, JoiningSits DEF Core
  <2>3. QED BY <1>3, <2>1, <2>2
<1>7. CASE joined.err # OK
  <2>1. /\ Goes(s, [at |-> "scan", todo |-> seeker[s].todo \ {id}])
        /\ matches' = matches /\ sessions' = sessions
    BY <1>4, <1>7 DEF TakeSeat, Goes
  <2>2. Goes(s, [at |-> "scan", todo |-> ids \ {id}])
    BY <1>4, <2>1
  <2>3. QED BY <1>3, <1>7, <2>1, <2>2
<1>8. QED BY <1>6, <1>7

LEMMA TakeCore ==
    ASSUME Core, NEW s \in Seeker, TakeSeat(s)
    PROVE  Core' /\ SeatsKept /\ CountsOn
<1>1. PICK ids \in SUBSET DOMAIN matches : \E id \in ids : \E c \in Acceptable(Wants[s]) :
             /\ seeker[s] = [at |-> "join", todo |-> ids, match |-> id, seat |-> c]
             /\ \/ /\ SitsDown(Asking[s], id, c)
                   /\ Goes(s, Answered(id, TRUE))
                \/ /\ JoinMatch(matches[id], Asking[s], c, 0).err # OK
                   /\ Goes(s, [at |-> "scan", todo |-> ids \ {id}])
                   /\ matches' = matches /\ sessions' = sessions
  BY TakeCases
<1>2. nextMatchID' = nextMatchID /\ seeker[s].at = "join"
  BY DEF TakeSeat
<1>3. ASSUME NEW id \in ids, NEW c \in Acceptable(Wants[s]),
             SitsDown(Asking[s], id, c), Goes(s, Answered(id, TRUE))
      PROVE  Core' /\ SeatsKept /\ CountsOn
  BY <1>2, <1>3, CoreSits DEF Core, RegistryOK
<1>4. ASSUME NEW id \in ids, Goes(s, [at |-> "scan", todo |-> ids \ {id}]),
             matches' = matches, sessions' = sessions
      PROVE  Core' /\ SeatsKept /\ CountsOn
  <2> DEFINE w == [at |-> "scan", todo |-> ids \ {id}]
  <2>1. w.at # "done" /\ CallAt(s, w)'
    BY <1>4 DEF CallAt
  <2>2. NumbersOK' /\ CountsOn
    <3>1. \A t \in Seeker : seeker[t].at = "create" => seeker'[t] = seeker[t]
      BY <1>2, <1>4, GoesTo DEF Core
    <3>2. SeatsKept
      BY <1>4 DEF SeatsKept
    <3>3. QED BY <1>2, <1>4, <3>1, <3>2, NumbersStay DEF Core
  <2> HIDE DEF w
  <2>3. Goes(s, w)
    BY <1>4 DEF w
  <2>4. QED BY <1>4, <2>1, <2>2, <2>3, CoreLooks
<1>5. QED BY <1>1, <1>3, <1>4

\* The number taken is the next one that is not in use.
LEMMA NumberCases ==
    ASSUME Core, NEW s \in Seeker, NumberMatch(s)
    PROVE  \E id \in Unused : /\ id = nextMatchID'
                              /\ \A other \in Unused : id <= other
                              /\ Goes(s, [at |-> "create", match |-> id])
<1>1. Unused \in SUBSET Nat /\ Unused # {}
  BY DEF Unused, MatchID, NumberMatch
<1>2. PICK id \in Unused : \A other \in Unused : id <= other
  BY <1>1, LeastNat
<1>3. FreshNumber \in Unused /\ \A other \in Unused : FreshNumber <= other
  BY <1>2 DEF FreshNumber, Min
<1>4. nextMatchID' = FreshNumber /\ Goes(s, [at |-> "create", match |-> FreshNumber])
  BY DEF NumberMatch, Goes
<1>5. QED BY <1>3, <1>4

LEMMA NumberCore ==
    ASSUME Core, NEW s \in Seeker, NumberMatch(s)
    PROVE  Core' /\ SeatsKept /\ CountsOn /\ StaySeated
<1>1. PICK id \in Unused : /\ id = nextMatchID'
                           /\ \A other \in Unused : id <= other
                           /\ Goes(s, [at |-> "create", match |-> id])
  BY NumberCases
<1>2. matches' = matches /\ sessions' = sessions /\ seeker[s].at = "scan"
  BY DEF NumberMatch
<1>3. /\ id \in MatchID /\ id \in Nat /\ nextMatchID \in Nat /\ id > nextMatchID
      /\ MatchID \subseteq Nat
  BY DEF Unused, MatchID, Core, NumbersOK
<1>4. CountsOn
  BY <1>1, <1>3 DEF CountsOn
<1> DEFINE w == [at |-> "create", match |-> id]
<1>5. w.at # "done" /\ CallAt(s, w)'
  BY <1>1, <1>3 DEF CallAt
<1>6. seeker'[s] = w /\ \A t \in Seeker : t # s => seeker'[t] = seeker[t]
  BY <1>1, GoesTo DEF Core
<1>7. NumbersOK'
  <2>1. ASSUME NEW i \in MatchID, i <= nextMatchID', i \notin DOMAIN matches'
        PROVE  \E t \in Seeker : seeker'[t].at = "create" /\ seeker'[t].match = i
    <3>1. CASE i <= nextMatchID
      <4>1. PICK t \in Seeker : seeker[t].at = "create" /\ seeker[t].match = i
        BY <1>2, <2>1, <3>1 DEF Core, NumbersOK
      <4>2. t # s
        BY <1>2, <4>1
      <4>3. QED BY <1>6, <4>1, <4>2
    <3>2. CASE ~(i <= nextMatchID)
      <4>1. i \in Unused
        BY <1>2, <1>3, <2>1, <3>2 DEF Unused
      <4>2. i = id
        BY <1>1, <1>3, <2>1, <4>1
      <4>3. QED BY <1>6, <4>2
    <3>3. QED BY <3>1, <3>2
  <2>2. QED BY <1>1, <1>3, <2>1 DEF NumbersOK
<1> HIDE DEF w
<1>8. Goes(s, w)
  BY <1>1 DEF w
<1>9. QED BY <1>2, <1>4, <1>5, <1>7, <1>8, CoreLooks

\* What creating the match does, and what it says when the name is taken.
LEMMA CreateCases ==
    ASSUME Core, NEW s \in Seeker, CreateWaiting(s)
    PROVE  \E id \in MatchID :
             /\ seeker[s] = [at |-> "create", match |-> id] /\ id <= nextMatchID
             /\ \/ /\ id \notin DOMAIN matches
                   /\ \E c \in Acceptable(Wants[s]) : SitsDown(Asking[s], id, c)
                   /\ Goes(s, Answered(id, TRUE))
                \/ /\ id \in DOMAIN matches
                   /\ Goes(s, Answered(NoMatch, FALSE))
                   /\ matches' = matches /\ sessions' = sessions
<1>1. CallAt(s, seeker[s]) /\ seeker[s].at = "create"
  BY DEF Core, CallsOK, CreateWaiting
<1>2. PICK id \in MatchID : id <= nextMatchID /\ seeker[s] = [at |-> "create", match |-> id]
  BY <1>1 DEF CallAt
<1>3. seeker[s].match = id
  BY <1>2
<1> DEFINE c == WaitingSeat(Wants[s])
<1>4. c \in Acceptable(Wants[s]) /\ c \in Color /\ Asking[s] \in Player
  BY MatchmakingAssumption, WantsSeats DEF WaitingSeat, Acceptable, Color
<1>5. CASE id \notin DOMAIN matches
  <2>1. /\ matches' = With(matches, id, JoinMatch(NewMatch, Asking[s], c, 0).match)
        /\ sessions' = [sessions EXCEPT ![Asking[s]] = id]
        /\ Goes(s, Answered(id, TRUE))
    BY <1>3, <1>5 DEF CreateWaiting, Goes
  <2> HIDE DEF c
  <2>2. SitsDown(Asking[s], id, c)
    BY <1>4, <1>5, <2>1, CreatingSits DEF Core
  <2>3. QED BY <1>2, <1>4, <1>5, <2>1, <2>2
<1>6. CASE id \in DOMAIN matches
  <2>1. /\ Goes(s, Answered(NoMatch, FALSE))
        /\ matches' = matches /\ sessions' = sessions
    BY <1>3, <1>6 DEF CreateWaiting, Goes
  <2>2. QED BY <1>2, <1>6, <2>1
<1>7. QED BY <1>5, <1>6

LEMMA CreateCore ==
    ASSUME Core, NEW s \in Seeker, CreateWaiting(s)
    PROVE  Core' /\ SeatsKept /\ CountsOn
<1>1. PICK id \in MatchID :
             /\ seeker[s] = [at |-> "create", match |-> id] /\ id <= nextMatchID
             /\ \/ /\ id \notin DOMAIN matches
                   /\ \E c \in Acceptable(Wants[s]) : SitsDown(Asking[s], id, c)
                   /\ Goes(s, Answered(id, TRUE))
                \/ /\ id \in DOMAIN matches
                   /\ Goes(s, Answered(NoMatch, FALSE))
                   /\ matches' = matches /\ sessions' = sessions
  BY CreateCases
<1>2. nextMatchID' = nextMatchID /\ seeker[s].match = id
  BY <1>1 DEF CreateWaiting
<1>3. CASE /\ \E c \in Acceptable(Wants[s]) : SitsDown(Asking[s], id, c)
           /\ Goes(s, Answered(id, TRUE))
  <2>1. PICK c \in Acceptable(Wants[s]) : SitsDown(Asking[s], id, c)
    BY <1>3
  <2>2. QED BY <1>2, <1>3, <2>1, CoreSits
<1>4. CASE /\ id \in DOMAIN matches
           /\ Goes(s, Answered(NoMatch, FALSE))
           /\ matches' = matches /\ sessions' = sessions
  <2> DEFINE w == Answered(NoMatch, FALSE)
  <2>1. w.taken = FALSE /\ CallAt(s, w)'
    BY DEF CallAt, Answered
  <2>2. NumbersOK' /\ CountsOn
    <3>1. \A t \in Seeker : seeker[t].at = "create" =>
            seeker'[t] = seeker[t] \/ seeker[t].match \in DOMAIN matches'
      BY <1>2, <1>4, GoesTo DEF Core
    <3>2. SeatsKept
      BY <1>4 DEF SeatsKept
    <3>3. QED BY <1>2, <3>1, <3>2, NumbersStay DEF Core
  <2> HIDE DEF w
  <2>3. Goes(s, w)
    BY <1>4 DEF w
  <2>4. QED BY <1>4, <2>1, <2>2, <2>3, CoreLooks
<1>5. QED BY <1>1, <1>3, <1>4

\* What a guest does: he sits down somewhere, or nobody does.
GuestStep ==
    \/ \E p \in Guest, id \in Named, c \in Color : CreateNamed(p, id, c)
    \/ \E p \in Guest, id \in MatchID, c \in Color : JoinNamed(p, id, c)
    \/ \E p \in Guest : PlayerResigns(p)

LEMMA GuestCases ==
    ASSUME Core, GuestStep
    PROVE  /\ seeker' = seeker /\ nextMatchID' = nextMatchID
           /\ \/ StaySeated
              \/ \E p \in Guest : \E id \in MatchID : \E c \in Color : SitsDown(p, id, c)
<1>0. Guest \subseteq Player /\ Named \subseteq MatchID
  BY MatchmakingAssumption
<1>1. ASSUME NEW p \in Guest, NEW id \in Named, NEW c \in Color, CreateNamed(p, id, c)
      PROVE  SitsDown(p, id, c)
  BY <1>0, <1>1, CreatingSits DEF CreateNamed, Core
<1>2. ASSUME NEW p \in Guest, NEW id \in MatchID, NEW c \in Color, JoinNamed(p, id, c)
      PROVE  SitsDown(p, id, c)
  BY <1>0, <1>2, JoiningSits DEF JoinNamed, Core
<1>3. ASSUME NEW p \in Guest, PlayerResigns(p) PROVE StaySeated
  <2> DEFINE id == sessions[p]
             m == Resign(matches[id], p, 0).match
  <2>1. id \in DOMAIN matches /\ p \in Player
    BY <1>0, <1>3 DEF PlayerResigns, Core, SessionsOK
  <2>2. matches[id] \in MatchRecord
    BY <2>1 DEF Core, RegistryOK
  <2>3. m \in MatchRecord /\ m.players = matches[id].players
    BY <2>1, <2>2, ResignSeats
  <2>4. matches' = [matches EXCEPT ![id] = m] /\ sessions' = sessions
    BY <1>3 DEF PlayerResigns
  <2> HIDE DEF id, m
  <2>5. QED BY <2>1, <2>3, <2>4 DEF StaySeated, Core, RegistryOK
<1>4. seeker' = seeker /\ nextMatchID' = nextMatchID
  BY DEF GuestStep, CreateNamed, JoinNamed, PlayerResigns
<1>5. CASE \E p \in Guest, id \in Named, c \in Color : CreateNamed(p, id, c)
  <2>1. PICK p \in Guest, id \in Named, c \in Color : CreateNamed(p, id, c)
    BY <1>5
  <2>2. SitsDown(p, id, c) /\ id \in MatchID
    BY <1>0, <1>1, <2>1
  <2>3. QED BY <1>4, <2>2
<1>6. CASE \E p \in Guest, id \in MatchID, c \in Color : JoinNamed(p, id, c)
  <2>1. PICK p \in Guest, id \in MatchID, c \in Color : JoinNamed(p, id, c)
    BY <1>6
  <2>2. SitsDown(p, id, c)
    BY <1>2, <2>1
  <2>3. QED BY <1>4, <2>2
<1>7. CASE \E p \in Guest : PlayerResigns(p)
  BY <1>3, <1>4, <1>7
<1>8. QED BY <1>5, <1>6, <1>7 DEF GuestStep

LEMMA GuestCore ==
    ASSUME Core, GuestStep PROVE Core' /\ SeatsKept /\ CountsOn
<1>1. /\ seeker' = seeker /\ nextMatchID' = nextMatchID
      /\ \/ StaySeated
         \/ \E p \in Guest : \E id \in MatchID : \E c \in Color : SitsDown(p, id, c)
  BY GuestCases
<1>2. SeatsKept
  BY <1>1, SitsDownKeeps, StaySeatedKeeps DEF Core
<1>3. \/ StaySeated
      \/ \E p \in Player : \E id : \E c \in Color : SitsDown(p, id, c)
  BY <1>1, MatchmakingAssumption
<1>4. RegistryOK' /\ SessionsOK'
  BY <1>2, <1>3, RegistryKept, SessionsKept DEF Core
<1>5. NumbersOK' /\ CountsOn
  BY <1>1, <1>2, NumbersStay DEF Core
<1>6. CallsOK'
  BY <1>1, <1>2, <1>5, CallsUnmoved DEF Core
<1>7. \A t \in Seeker : Seats(t)'
  BY <1>1, <1>2, SeatStays DEF Core
<1>8. QED BY <1>2, <1>4, <1>5, <1>6, <1>7 DEF Core

LEMMA SeekerCore ==
    ASSUME Core, NEW s \in Seeker, SeekerStep(s) PROVE Core' /\ SeatsKept /\ CountsOn
BY AskCore, ListCore, ScanCore, TakeCore, NumberCore, CreateCore DEF SeekerStep

-----------------------------------------------------------------------------
(* The steps, as long as calls do not overlap.                             *)

\* A call moves while no other is underway.
LEMMA QuietMove ==
    ASSUME Core, Core', Quiet, SeatsKept, CountsOn, NothingBelow, SeekersSit',
           NEW s \in Seeker, NEW w, Goes(s, w),
           \A t \in Seeker : t # s => ~Underway(t),
           w.at \notin {"idle", "done"} => Knows(s)',
           w.at = "done" /\ w.taken => Best(s)'
    PROVE  Quiet'
<1>1. seeker'[s] = w /\ \A t \in Seeker : t # s => seeker'[t] = seeker[t]
  BY GoesTo DEF Core
<1>2. \A t \in Seeker : t # s => ~Underway(t)'
  BY <1>1 DEF Underway
<1>3. Underway(s)' => Knows(s)'
  BY <1>1 DEF Underway
<1>4. ASSUME NEW t \in Seeker, seeker'[t].at = "done", seeker'[t].taken PROVE Best(t)'
  <2>1. CASE t = s
    <3>1. w.at = "done" /\ w.taken
      BY <1>1, <1>4, <2>1
    <3>2. Best(s)'
      BY <3>1
    <3>3. QED BY <2>1, <3>2
  <2>2. CASE t # s
    <3>1. seeker'[t] = seeker[t] /\ seeker[t].at = "done" /\ seeker[t].taken
      BY <1>1, <1>4, <2>2
    <3>2. HasSeat(t) /\ Best(t)
      BY <3>1 DEF Core, Seats, Quiet
    <3>3. seeker[t].match \in MatchID
      BY <3>2 DEF HasSeat, Core, RegistryOK
    <3>4. QED BY <3>1, <3>2, <3>3, BestStays
  <2>3. QED BY <2>1, <2>2
<1>5. \A t, u \in Seeker : Underway(t)' /\ Underway(u)' => t = u
  BY <1>2
<1>6. \A t \in Seeker : Underway(t)' => Knows(t)'
  BY <1>2, <1>3
<1>7. QED BY <1>4, <1>5, <1>6 DEF Quiet, Underway

LEMMA GuestQuiet ==
    ASSUME Core, Quiet, GuestStep, \A t \in Seeker : ~Underway(t)
    PROVE  Quiet'
<1>1. /\ seeker' = seeker /\ nextMatchID' = nextMatchID
      /\ \/ StaySeated
         \/ \E p \in Guest : \E id \in MatchID : \E c \in Color : SitsDown(p, id, c)
  BY GuestCases
<1>2. Core' /\ SeatsKept /\ CountsOn
  BY GuestCore
<1>3. SeekersSit'
  <2>1. CASE StaySeated
    BY <2>1, SeekersSitStill DEF Quiet
  <2>2. ASSUME NEW p \in Guest, NEW id \in MatchID, NEW c \in Color, SitsDown(p, id, c)
        PROVE  SeekersSit'
    <3>1. p \in Player /\ p \notin Seeking
      BY MatchmakingAssumption DEF Seeking
    <3>2. QED BY <2>2, <3>1, SeekersSitDown DEF Core, Quiet
  <2>3. QED BY <1>1, <2>1, <2>2
<1>4. DOMAIN matches' \subseteq MatchID
  BY <1>2 DEF Core, RegistryOK
<1>5. NothingBelow
  <2>1. SUFFICES ASSUME NEW id \in DOMAIN matches' \ DOMAIN matches, NEW t \in Seeker,
                        seeker[t].at = "done", seeker[t].taken,
                        seeker[t].match <= nextMatchID, id < seeker[t].match
                 PROVE  FALSE
    BY DEF NothingBelow
  <2>2. seeker[t].match \in MatchID
    BY <2>1 DEF Core, Seats, HasSeat, RegistryOK
  <2>3. id \in MatchID /\ id <= nextMatchID
    BY <1>4, <2>1, <2>2 DEF MatchID, Core, NumbersOK
  <2>4. PICK u \in Seeker : seeker[u].at = "create"
    BY <2>1, <2>3 DEF Core, NumbersOK
  <2>5. QED BY <2>4 DEF Underway
<1>6. \A t \in Seeker : ~Underway(t)'
  BY <1>1 DEF Underway
<1>7. ASSUME NEW t \in Seeker, seeker'[t].at = "done", seeker'[t].taken PROVE Best(t)'
  <2>1. seeker'[t] = seeker[t] /\ seeker[t].at = "done" /\ seeker[t].taken
    BY <1>1, <1>7
  <2>2. HasSeat(t) /\ Best(t)
    BY <2>1 DEF Core, Seats, Quiet
  <2>3. seeker[t].match \in MatchID
    BY <2>2 DEF HasSeat, Core, RegistryOK
  <2>4. QED BY <1>2, <1>5, <2>1, <2>2, <2>3, BestStays
<1>8. QED BY <1>3, <1>6, <1>7 DEF Quiet, Underway

\* Whoever is underway knows what it knows.
LEMMA AskQuiet ==
    ASSUME Core, Quiet, NEW s \in Seeker, Ask(s),
           \A t \in Seeker : t # s => ~Underway(t)
    PROVE  Quiet'
<1>1. Core' /\ SeatsKept /\ CountsOn /\ StaySeated
  BY AskCore
<1>2. matches' = matches /\ sessions' = sessions
  BY DEF Ask
<1>3. NothingBelow /\ SeekersSit'
  BY <1>1, <1>2, SeekersSitStill DEF NothingBelow, Quiet
<1>4. PICK w : /\ Goes(s, w)
               /\ \/ w.at = "done" /\ w.taken = FALSE
                  \/ w.at = "list" /\ sessions[Asking[s]] = NoMatch
  <2>1. CASE sessions[Asking[s]] # NoMatch
    <3>1. Goes(s, Answered(sessions[Asking[s]], FALSE))
      BY <2>1 DEF Ask, Goes
    <3>2. PICK w : w = Answered(sessions[Asking[s]], FALSE)
      OBVIOUS
    <3>3. w.at = "done" /\ w.taken = FALSE
      BY <3>2 DEF Answered
    <3>4. QED BY <3>1, <3>2, <3>3
  <2>2. CASE sessions[Asking[s]] = NoMatch
    <3>1. Goes(s, [at |-> "list"])
      BY <2>2 DEF Ask, Goes
    <3>2. PICK w : w = [at |-> "list"]
      OBVIOUS
    <3>3. w.at = "list"
      BY <3>2
    <3>4. QED BY <2>2, <3>1, <3>2, <3>3
  <2>3. QED BY <2>1, <2>2
<1>5. w.at \notin {"idle", "done"} => Knows(s)'
  BY <1>2, <1>4, GoesTo DEF Knows, Core
<1>6. QED BY <1>1, <1>3, <1>4, <1>5, QuietMove

LEMMA ListQuiet ==
    ASSUME Core, Quiet, NEW s \in Seeker, List(s),
           \A t \in Seeker : t # s => ~Underway(t)
    PROVE  Quiet'
<1>1. Core' /\ SeatsKept /\ CountsOn /\ StaySeated
  BY ListCore
<1>2. matches' = matches /\ sessions' = sessions
  BY DEF List
<1>3. NothingBelow /\ SeekersSit'
  BY <1>1, <1>2, SeekersSitStill DEF NothingBelow, Quiet
<1>4. PICK w : Goes(s, w) /\ w = [at |-> "scan", todo |-> DOMAIN matches]
  BY DEF List, Goes
<1>5. seeker'[s] = w
  BY <1>4, GoesTo DEF Core
<1>6. sessions[Asking[s]] = NoMatch
  BY DEF List, Quiet, Underway, Knows
<1>7. Knows(s)'
  BY <1>2, <1>4, <1>5, <1>6 DEF Knows
<1>8. w.at # "done"
  BY <1>4
<1>9. QED BY <1>1, <1>3, <1>4, <1>7, <1>8, QuietMove

LEMMA ScanQuiet ==
    ASSUME Core, Quiet, NEW s \in Seeker, Scan(s),
           \A t \in Seeker : t # s => ~Underway(t)
    PROVE  Quiet'
<1>1. Core' /\ SeatsKept /\ CountsOn /\ StaySeated
  BY ScanCore
<1>2. matches' = matches /\ sessions' = sessions /\ seeker[s].at = "scan"
  BY DEF Scan
<1>3. NothingBelow /\ SeekersSit'
  BY <1>1, <1>2, SeekersSitStill DEF NothingBelow, Quiet
<1>4. Knows(s)
  BY <1>2 DEF Quiet, Underway
<1>5. PICK ids \in SUBSET DOMAIN matches : \E id \in ids :
             /\ seeker[s] = [at |-> "scan", todo |-> ids]
             /\ \/ /\ Closed(id, s)
                   /\ Goes(s, [at |-> "scan", todo |-> ids \ {id}])
                \/ \E c \in OpenSeats(matches[id], Wants[s]) :
                      Goes(s, [at |-> "join", todo |-> ids, match |-> id, seat |-> c])
  BY ScanCases
<1>6. seeker[s].todo = ids
  BY <1>5
<1>7. \A i \in DOMAIN matches \ ids : Closed(i, s)
  BY <1>2, <1>4, <1>6 DEF Knows
<1>8. ASSUME NEW id \in ids, Closed(id, s), Goes(s, [at |-> "scan", todo |-> ids \ {id}])
      PROVE  Quiet'
  <2>1. PICK w : w = [at |-> "scan", todo |-> ids \ {id}]
    OBVIOUS
  <2>2. Goes(s, w) /\ w.at = "scan" /\ w.todo = ids \ {id}
    BY <1>8, <2>1
  <2>3. seeker'[s] = w
    BY <2>2, GoesTo DEF Core
  <2>4. \A i \in DOMAIN matches \ w.todo : Closed(i, s)
    BY <1>7, <1>8, <2>2
  <2>5. Knows(s)'
    BY <1>2, <1>4, <2>2, <2>3, <2>4 DEF Knows, Closed, OpenSeats
  <2>6. QED BY <1>1, <1>3, <2>2, <2>5, QuietMove
<1>9. ASSUME NEW id \in ids, NEW c \in OpenSeats(matches[id], Wants[s]),
             Goes(s, [at |-> "join", todo |-> ids, match |-> id, seat |-> c])
      PROVE  Quiet'
  <2>1. PICK w : w = [at |-> "join", todo |-> ids, match |-> id, seat |-> c]
    OBVIOUS
  <2>2. Goes(s, w) /\ w.at = "join" /\ w.todo = ids /\ w.match = id /\ w.seat = c
    BY <1>9, <2>1
  <2>3. seeker'[s] = w
    BY <2>2, GoesTo DEF Core
  <2>4. Knows(s)'
    BY <1>2, <1>4, <1>7, <2>2, <2>3 DEF Knows, Closed, OpenSeats
  <2>5. QED BY <1>1, <1>3, <2>2, <2>4, QuietMove
<1>10. QED BY <1>5, <1>8, <1>9

\* A call alone gets the seat it has found, and an opponent with it.
LEMMA TakeQuiet ==
    ASSUME Core, Quiet, NEW s \in Seeker, TakeSeat(s),
           \A t \in Seeker : t # s => ~Underway(t)
    PROVE  Quiet'
<1>1. Core' /\ SeatsKept /\ CountsOn
  BY TakeCore
<1>2. Knows(s) /\ seeker[s].at = "join"
  BY DEF TakeSeat, Quiet, Underway
<1>3. PICK ids \in SUBSET DOMAIN matches : \E id \in ids : \E c \in Acceptable(Wants[s]) :
             /\ seeker[s] = [at |-> "join", todo |-> ids, match |-> id, seat |-> c]
             /\ \/ /\ SitsDown(Asking[s], id, c)
                   /\ Goes(s, Answered(id, TRUE))
                \/ /\ JoinMatch(matches[id], Asking[s], c, 0).err # OK
                   /\ Goes(s, [at |-> "scan", todo |-> ids \ {id}])
                   /\ matches' = matches /\ sessions' = sessions
  BY TakeCases
<1>4. PICK id \in ids, c \in Acceptable(Wants[s]) :
             /\ seeker[s] = [at |-> "join", todo |-> ids, match |-> id, seat |-> c]
             /\ \/ /\ SitsDown(Asking[s], id, c)
                   /\ Goes(s, Answered(id, TRUE))
                \/ JoinMatch(matches[id], Asking[s], c, 0).err # OK
  BY <1>3
<1>5. /\ c \in Color /\ Asking[s] \in Player /\ Asking[s] # NoPlayer
      /\ id \in DOMAIN matches /\ matches[id] \in MatchRecord /\ Occupied(matches[id])
  BY WantsSeats, PlayerAssumption DEF Core, RegistryOK
<1>6. matches[id].players[c] = NoPlayer /\ sessions[Asking[s]] = NoMatch
  BY <1>2, <1>4 DEF Knows, OpenSeats
<1>7. ~Seated(matches[id], Asking[s])
  BY <1>5, <1>6 DEF Core, SessionsOK
<1>8. JoinMatch(matches[id], Asking[s], c, 0).err = OK
  <2>1. /\ matches[id].players[c] \in {NoPlayer, Asking[s]}
        /\ matches[id].players[Other(c)] # Asking[s]
    BY <1>5, <1>6, <1>7, OtherColor DEF Seated
  <2>2. PICK m \in MatchRecord : m = matches[id]
    BY <1>5
  <2>3. PICK p \in Player : p = Asking[s]
    BY <1>5
  <2>4. m.players[c] \in {NoPlayer, p} /\ m.players[Other(c)] # p
    BY <2>1, <2>2, <2>3
  <2>5. JoinMatch(m, p, c, 0).err = OK
    BY <1>5, <2>4, JoinSeats
  <2>6. QED BY <2>2, <2>3, <2>5
<1>9. SitsDown(Asking[s], id, c) /\ Goes(s, Answered(id, TRUE))
  BY <1>4, <1>8
<1>10. SeekersSit'
  BY <1>5, <1>6, <1>9, SeekersSitDown DEF Core, Quiet
<1>11. NothingBelow
  BY <1>5, <1>9 DEF NothingBelow, SitsDown
<1>12. Full(matches'[id])
  <2>1. ASSUME NEW d \in Color, d # c PROVE matches'[id].players[d] # NoPlayer
    <3>1. matches[id].players[d] # NoPlayer
      BY <1>5, <1>6, <2>1 DEF Occupied, Color
    <3>2. QED BY <1>1, <1>5, <3>1 DEF SeatsKept
  <2>2. matches'[id].players[c] # NoPlayer
    BY <1>5, <1>9 DEF SitsDown
  <2>3. QED BY <2>1, <2>2 DEF Full
<1>13. PICK w : w = Answered(id, TRUE)
  OBVIOUS
<1>14. Goes(s, w) /\ w.at = "done" /\ w.match = id
  BY <1>9, <1>13 DEF Answered
<1>15. seeker'[s].match = id
  BY <1>14, GoesTo DEF Core
<1>16. Best(s)'
  BY <1>12, <1>15 DEF Best
<1>17. QED BY <1>1, <1>10, <1>11, <1>14, <1>16, QuietMove

LEMMA NumberQuiet ==
    ASSUME Core, Quiet, NEW s \in Seeker, NumberMatch(s),
           \A t \in Seeker : t # s => ~Underway(t)
    PROVE  Quiet'
<1>1. Core' /\ SeatsKept /\ CountsOn /\ StaySeated
  BY NumberCore
<1>2. /\ matches' = matches /\ sessions' = sessions
      /\ seeker[s].at = "scan" /\ seeker[s].todo = {}
  BY DEF NumberMatch
<1>3. NothingBelow /\ SeekersSit'
  BY <1>1, <1>2, SeekersSitStill DEF NothingBelow, Quiet
<1>4. Knows(s)
  BY <1>2 DEF Quiet, Underway
<1>5. PICK id \in Unused : id = nextMatchID' /\ Goes(s, [at |-> "create", match |-> id])
  BY NumberCases
<1>6. PICK w : w = [at |-> "create", match |-> id]
  OBVIOUS
<1>7. Goes(s, w) /\ w.at = "create" /\ w.match = id
  BY <1>5, <1>6
<1>8. seeker'[s] = w
  BY <1>7, GoesTo DEF Core
<1>9. \A i \in DOMAIN matches : Closed(i, s)
  BY <1>2, <1>4 DEF Knows
<1>10. Knows(s)'
  BY <1>2, <1>4, <1>5, <1>7, <1>8, <1>9 DEF Knows, Closed, OpenSeats
<1>11. QED BY <1>1, <1>3, <1>7, <1>10, QuietMove

LEMMA CreateQuiet ==
    ASSUME Core, Quiet, NEW s \in Seeker, CreateWaiting(s),
           \A t \in Seeker : t # s => ~Underway(t)
    PROVE  Quiet'
<1>1. Core' /\ SeatsKept /\ CountsOn
  BY CreateCore
<1>2. Knows(s) /\ seeker[s].at = "create" /\ nextMatchID' = nextMatchID
  BY DEF CreateWaiting, Quiet, Underway
<1>3. PICK id \in MatchID :
             /\ seeker[s] = [at |-> "create", match |-> id] /\ id <= nextMatchID
             /\ \/ /\ id \notin DOMAIN matches
                   /\ \E c \in Acceptable(Wants[s]) : SitsDown(Asking[s], id, c)
                   /\ Goes(s, Answered(id, TRUE))
                \/ /\ id \in DOMAIN matches
                   /\ Goes(s, Answered(NoMatch, FALSE))
                   /\ matches' = matches /\ sessions' = sessions
  BY CreateCases
<1>4. /\ id = nextMatchID /\ \A i \in DOMAIN matches : Closed(i, s)
      /\ sessions[Asking[s]] = NoMatch
  BY <1>2, <1>3 DEF Knows
<1>5. CASE /\ id \in DOMAIN matches
           /\ Goes(s, Answered(NoMatch, FALSE))
           /\ matches' = matches /\ sessions' = sessions
  <2>1. StaySeated
    BY <1>5 DEF StaySeated, Core, RegistryOK
  <2>2. NothingBelow /\ SeekersSit'
    BY <1>5, <2>1, SeekersSitStill DEF NothingBelow, Quiet
  <2>3. PICK w : Goes(s, w) /\ w.at = "done" /\ w.taken = FALSE
    BY <1>5 DEF Answered
  <2>4. QED BY <1>1, <2>2, <2>3, QuietMove
<1>6. ASSUME id \notin DOMAIN matches, NEW c \in Acceptable(Wants[s]),
             SitsDown(Asking[s], id, c), Goes(s, Answered(id, TRUE))
      PROVE  Quiet'
  <2>1. DOMAIN matches' = DOMAIN matches \cup {id}
    BY <1>6 DEF SitsDown
  <2>2. SeekersSit'
    BY <1>4, <1>6, WantsSeats, SeekersSitDown DEF Core, Quiet
  <2>3. NothingBelow
    <3>1. SUFFICES ASSUME NEW t \in Seeker, seeker[t].at = "done", seeker[t].taken,
                          seeker[t].match <= nextMatchID, id < seeker[t].match
                   PROVE  FALSE
      BY <2>1 DEF NothingBelow
    <3>2. seeker[t].match \in MatchID
      BY <3>1 DEF Core, Seats, HasSeat, RegistryOK
    <3>3. QED BY <1>4, <3>1, <3>2 DEF MatchID
  <2>4. PICK w : w = Answered(id, TRUE)
    OBVIOUS
  <2>5. Goes(s, w) /\ w.at = "done" /\ w.match = id
    BY <1>6, <2>4 DEF Answered
  <2>6. seeker'[s].match = id
    BY <2>5, GoesTo DEF Core
  <2>7. ASSUME NEW i \in DOMAIN matches', i < id PROVE Closed(i, s)'
    <3>1. i \in DOMAIN matches
      BY <2>1, <2>7 DEF MatchID
    <3>2. QED BY <1>1, <1>4, <3>1, ClosedStays
  <2>8. Best(s)'
    BY <1>2, <1>3, <2>6, <2>7 DEF Best, Closed, OpenSeats
  <2>9. QED BY <1>1, <2>2, <2>3, <2>5, <2>8, QuietMove
<1>7. QED BY <1>3, <1>5, <1>6

LEMMA SeekerQuiet ==
    ASSUME Core, Quiet, NEW s \in Seeker, SeekerStep(s),
           \A t \in Seeker : t # s => ~Underway(t)
    PROVE  Quiet'
BY AskQuiet, ListQuiet, ScanQuiet, TakeQuiet, NumberQuiet, CreateQuiet DEF SeekerStep

-----------------------------------------------------------------------------
(* The theorems.                                                           *)

LEMMA InitHolds == Init => IInv
<1> SUFFICES ASSUME Init PROVE IInv
  OBVIOUS
<1> USE DEF Init
<1>1. DOMAIN matches = {}
  OBVIOUS
<1>2. RegistryOK /\ SessionsOK
  BY <1>1 DEF RegistryOK, SessionsOK
<1>3. \A s \in Seeker : seeker[s] = [at |-> "idle"] /\ seeker[s].at = "idle"
  OBVIOUS
<1>4. CallsOK
  BY <1>3 DEF CallsOK, CallAt
<1>5. \A s \in Seeker : Seats(s) /\ ~Underway(s) /\ seeker[s].at # "done"
  BY <1>3 DEF Seats, Underway
<1>6. NumbersOK
  BY DEF NumbersOK, MatchID
<1>7. SeekersSit
  BY <1>1 DEF SeekersSit
<1>8. Quiet
  BY <1>5, <1>7 DEF Quiet
<1>9. QED BY <1>2, <1>4, <1>5, <1>6, <1>8 DEF IInv

LEMMA StepHolds == IInv /\ [Next]_vars => IInv'
<1> SUFFICES ASSUME IInv, [Next]_vars PROVE IInv'
  OBVIOUS
<1>1. Core /\ overlapped \in BOOLEAN /\ (overlapped = FALSE => Quiet)
  BY DEF IInv, Core
<1>2. ASSUME NEW s \in Seeker, SeekerMoves(s) PROVE IInv'
  <2>1. SeekerStep(s) /\ Between(Seeker \ {s})
    BY <1>2 DEF SeekerMoves
  <2>2. Core'
    BY <1>1, <2>1, SeekerCore
  <2>3. overlapped' \in BOOLEAN
    BY <1>1, <2>1 DEF Between
  <2>4. ASSUME overlapped' = FALSE PROVE Quiet'
    <3>1. overlapped = FALSE /\ \A t \in Seeker : t # s => ~Underway(t)
      BY <1>1, <2>1, <2>4 DEF Between
    <3>2. QED BY <1>1, <2>1, <3>1, SeekerQuiet
  <2>5. QED BY <2>2, <2>3, <2>4 DEF IInv, Core
<1>3. ASSUME GuestStep, Between(Seeker) PROVE IInv'
  <2>1. Core'
    BY <1>1, <1>3, GuestCore
  <2>2. overlapped' \in BOOLEAN
    BY <1>1, <1>3 DEF Between
  <2>3. ASSUME overlapped' = FALSE PROVE Quiet'
    <3>1. overlapped = FALSE /\ \A t \in Seeker : ~Underway(t)
      BY <1>1, <1>3, <2>3 DEF Between
    <3>2. QED BY <1>1, <1>3, <3>1, GuestQuiet
  <2>4. QED BY <2>1, <2>2, <2>3 DEF IInv, Core
<1>4. CASE UNCHANGED vars
  <2>1. /\ matches' = matches /\ sessions' = sessions /\ nextMatchID' = nextMatchID
        /\ seeker' = seeker /\ overlapped' = overlapped
    BY <1>4 DEF vars
  <2>2. RegistryOK' /\ SessionsOK'
    BY <1>1, <2>1 DEF Core, RegistryOK, SessionsOK
  <2>3. CallsOK' /\ NumbersOK' /\ \A s \in Seeker : Seats(s)'
    BY <1>1, <2>1 DEF Core, CallsOK, CallAt, NumbersOK, Seats, HasSeat
  <2>4. Quiet => Quiet'
    BY <2>1 DEF Quiet, Underway, Knows, Closed, OpenSeats, SeekersSit, Best
  <2>5. QED BY <1>1, <2>1, <2>2, <2>3, <2>4 DEF IInv
<1>5. Next => (\E s \in Seeker : SeekerMoves(s)) \/ (GuestStep /\ Between(Seeker))
  BY DEF Next, GuestStep
<1>6. QED BY <1>2, <1>3, <1>4, <1>5

\* For any callers, guests and names, the invariant.
THEOREM Invariance == Spec => []IInv
BY InitHolds, StepHolds, PTL DEF Spec

\* The session of a player who only asks to be matched leads to a seat that one
\* of his calls was given.
Leads(s) == \E t \in Seeker : /\ Asking[t] = Asking[s] /\ TookSeat(t)
                             /\ seeker[t].match = sessions[Asking[s]]
SessionsLead == \A s \in Seeker : TookSeat(s) /\ Asking[s] \notin Guest => Leads(s)

\* The call of s, unanswered so far, moves on; it attaches its caller's session
\* when it takes a seat, and only then.
Attaches(s) ==
    /\ seeker[s].at # "done"
    /\ \A t \in Seeker : t # s => seeker'[t] = seeker[t]
    /\ \/ sessions' = sessions /\ ~TookSeat(s)'
       \/ /\ TookSeat(s)'
          /\ sessions' = [sessions EXCEPT ![Asking[s]] = seeker'[s].match]

LEMMA SeekerAttaches ==
    ASSUME Core, NEW s \in Seeker, SeekerStep(s) PROVE Attaches(s)
<1>1. CallsOK
  BY DEF Core
<1>2. ASSUME NEW w, Goes(s, w), seeker[s].at # "done", sessions' = sessions,
             ~(w.at = "done" /\ w.taken)
      PROVE  Attaches(s)
  BY <1>1, <1>2, GoesTo DEF Attaches, TookSeat
<1>3. ASSUME NEW id \in MatchID, Goes(s, Answered(id, TRUE)), seeker[s].at # "done",
             sessions' = [sessions EXCEPT ![Asking[s]] = id]
      PROVE  Attaches(s)
  <2>1. /\ seeker'[s] = Answered(id, TRUE)
        /\ \A t \in Seeker : t # s => seeker'[t] = seeker[t]
    BY <1>1, <1>3, GoesTo
  <2>2. seeker'[s].match = id /\ TookSeat(s)'
    BY <2>1 DEF Answered, TookSeat
  <2>3. QED BY <1>3, <2>1, <2>2 DEF Attaches
<1>4. CASE Ask(s)
  <2>1. seeker[s].at # "done" /\ sessions' = sessions
    BY <1>4 DEF Ask
  <2>2. CASE sessions[Asking[s]] # NoMatch
    <3>1. Goes(s, Answered(sessions[Asking[s]], FALSE))
      BY <1>4, <2>2 DEF Ask, Goes
    <3>2. QED BY <1>2, <2>1, <3>1 DEF Answered
  <2>3. CASE sessions[Asking[s]] = NoMatch
    <3>1. Goes(s, [at |-> "list"])
      BY <1>4, <2>3 DEF Ask, Goes
    <3>2. QED BY <1>2, <2>1, <3>1
  <2>4. QED BY <2>2, <2>3
<1>5. CASE List(s)
  <2>1. /\ seeker[s].at # "done" /\ sessions' = sessions
        /\ Goes(s, [at |-> "scan", todo |-> DOMAIN matches])
    BY <1>5 DEF List, Goes
  <2>2. QED BY <1>2, <2>1
<1>6. CASE Scan(s)
  <2>1. seeker[s].at # "done" /\ sessions' = sessions
    BY <1>6 DEF Scan
  <2>2. PICK ids \in SUBSET DOMAIN matches : \E id \in ids :
             /\ seeker[s] = [at |-> "scan", todo |-> ids]
             /\ \/ /\ Closed(id, s)
                   /\ Goes(s, [at |-> "scan", todo |-> ids \ {id}])
                \/ \E c \in OpenSeats(matches[id], Wants[s]) :
                      Goes(s, [at |-> "join", todo |-> ids, match |-> id, seat |-> c])
    BY <1>6, ScanCases
  <2>3. CASE \E id \in ids : Goes(s, [at |-> "scan", todo |-> ids \ {id}])
    BY <1>2, <2>1, <2>3
  <2>4. CASE \E id \in ids : \E c \in OpenSeats(matches[id], Wants[s]) :
               Goes(s, [at |-> "join", todo |-> ids, match |-> id, seat |-> c])
    BY <1>2, <2>1, <2>4
  <2>5. QED BY <2>2, <2>3, <2>4
<1>7. CASE TakeSeat(s)
  <2>1. seeker[s].at # "done"
    BY <1>7 DEF TakeSeat
  <2>2. PICK ids \in SUBSET DOMAIN matches : \E id \in ids : \E c \in Acceptable(Wants[s]) :
             /\ seeker[s] = [at |-> "join", todo |-> ids, match |-> id, seat |-> c]
             /\ \/ /\ SitsDown(Asking[s], id, c)
                   /\ Goes(s, Answered(id, TRUE))
                \/ /\ JoinMatch(matches[id], Asking[s], c, 0).err # OK
                   /\ Goes(s, [at |-> "scan", todo |-> ids \ {id}])
                   /\ matches' = matches /\ sessions' = sessions
    BY <1>7, TakeCases
  <2>3. CASE \E id \in ids : \E c \in Acceptable(Wants[s]) :
               SitsDown(Asking[s], id, c) /\ Goes(s, Answered(id, TRUE))
    BY <1>3, <2>1, <2>3 DEF SitsDown
  <2>4. CASE \E id \in ids : /\ Goes(s, [at |-> "scan", todo |-> ids \ {id}])
                             /\ sessions' = sessions
    BY <1>2, <2>1, <2>4
  <2>5. QED BY <2>2, <2>3, <2>4
<1>8. CASE NumberMatch(s)
  <2>1. /\ seeker[s].at # "done" /\ sessions' = sessions
        /\ Goes(s, [at |-> "create", match |-> FreshNumber])
    BY <1>8 DEF NumberMatch, Goes
  <2>2. QED BY <1>2, <2>1
<1>9. CASE CreateWaiting(s)
  <2>1. seeker[s].at # "done"
    BY <1>9 DEF CreateWaiting
  <2>2. PICK id \in MatchID :
           \/ \E c \in Acceptable(Wants[s]) : /\ SitsDown(Asking[s], id, c)
                                              /\ Goes(s, Answered(id, TRUE))
           \/ Goes(s, Answered(NoMatch, FALSE)) /\ sessions' = sessions
    BY <1>9, CreateCases
  <2>3. CASE \E c \in Acceptable(Wants[s]) : /\ SitsDown(Asking[s], id, c)
                                             /\ Goes(s, Answered(id, TRUE))
    BY <1>3, <2>1, <2>3 DEF SitsDown
  <2>4. CASE Goes(s, Answered(NoMatch, FALSE)) /\ sessions' = sessions
    BY <1>2, <2>1, <2>4 DEF Answered
  <2>5. QED BY <2>2, <2>3, <2>4
<1>10. QED BY <1>4, <1>5, <1>6, <1>7, <1>8, <1>9 DEF SeekerStep

\* Only guests attach their sessions by name.
LEMMA GuestAttaches ==
    ASSUME Core, GuestStep
    PROVE  /\ seeker' = seeker
           /\ \A p \in Player \ Guest : sessions'[p] = sessions[p]
<1>1. PICK p, id : seeker' = seeker /\ \/ sessions' = sessions
                                       \/ p \in Guest /\ sessions' = [sessions EXCEPT ![p] = id]
  BY GuestCases DEF StaySeated, SitsDown
<1>2. QED BY <1>1 DEF Core, SessionsOK

LEMMA LeadsStep ==
    ASSUME IInv, SessionsLead, [Next]_vars PROVE SessionsLead'
<1>1. Core /\ sessions = [p \in Player |-> sessions[p]]
  BY DEF IInv, Core, SessionsOK
<1>2. Asking \in [Seeker -> Player]
  BY MatchmakingAssumption
<1>3. ASSUME NEW s \in Seeker, SeekerMoves(s) PROVE SessionsLead'
  <2>1. Attaches(s)
    BY <1>1, <1>3, SeekerAttaches DEF SeekerMoves
  <2>2. \A t \in Seeker : TookSeat(t) => TookSeat(t)' /\ seeker'[t].match = seeker[t].match
    BY <2>1 DEF Attaches, TookSeat
  <2>3. CASE sessions' = sessions /\ ~TookSeat(s)'
    BY <2>1, <2>2, <2>3 DEF Attaches, SessionsLead, Leads, TookSeat
  <2>4. CASE /\ TookSeat(s)'
             /\ sessions' = [sessions EXCEPT ![Asking[s]] = seeker'[s].match]
    <3>1. \A t \in Seeker : Asking[t] = Asking[s] => Leads(t)'
      BY <1>1, <1>2, <2>4 DEF Leads
    <3>2. \A t \in Seeker : Asking[t] # Asking[s] =>
             t # s /\ (TookSeat(t)' => TookSeat(t)) /\ sessions'[Asking[t]] = sessions[Asking[t]]
      BY <1>1, <1>2, <2>1, <2>4 DEF Attaches, TookSeat
    <3>3. ASSUME NEW t \in Seeker, Asking[t] # Asking[s], TookSeat(t)', Asking[t] \notin Guest
          PROVE  Leads(t)'
      <4>1. Leads(t) /\ sessions'[Asking[t]] = sessions[Asking[t]]
        BY <3>2, <3>3 DEF SessionsLead
      <4>2. QED BY <2>2, <4>1 DEF Leads
    <3>4. QED BY <3>1, <3>3 DEF SessionsLead
  <2>5. QED BY <2>1, <2>3, <2>4 DEF Attaches
<1>4. ASSUME GuestStep PROVE SessionsLead'
  <2>1. seeker' = seeker /\ \A s \in Seeker : Asking[s] \notin Guest =>
                               sessions'[Asking[s]] = sessions[Asking[s]]
    BY <1>1, <1>2, <1>4, GuestAttaches
  <2>2. QED BY <2>1 DEF SessionsLead, Leads, TookSeat
<1>5. CASE UNCHANGED vars
  BY <1>5 DEF vars, SessionsLead, Leads, TookSeat
<1>6. Next => (\E s \in Seeker : SeekerMoves(s)) \/ GuestStep
  BY DEF Next, GuestStep
<1>7. QED BY <1>3, <1>4, <1>5, <1>6

\* A call that is answered with a seat has one of the colour it asked for
\* (Matchmake, Match.openSeat and Match.Join), whatever comes in between, and
\* leaves its caller with a session that leads to a seat he was given.
THEOREM SeatsStayAsAsked == Spec => []SeatAsAsked
<1>1. Init => SessionsLead
  <2> SUFFICES ASSUME Init, NEW s \in Seeker PROVE ~TookSeat(s)
    BY DEF SessionsLead
  <2>1. QED BY DEF Init, TookSeat
<1>2. IInv /\ SessionsLead => SeatAsAsked
  BY DEF IInv, Seats, HasSeat, SeatAsAsked, SessionsLead, Leads, TookSeat
<1>3. QED BY <1>1, <1>2, LeadsStep, Invariance, PTL DEF Spec

\* A player who only ever asks to be matched gets one match, however often he
\* asks, as long as calls do not overlap (Matchmake looks at the session first).
THEOREM SeekersStayInOneMatch == Spec => []OneMatchPerSeeker
<1>1. IInv => OneMatchPerSeeker
  <2> SUFFICES ASSUME IInv, ~overlapped, NEW p \in Seeking
               PROVE  Cardinality(SeatsOf(p)) <= 1
    BY DEF OneMatchPerSeeker
  <2>1. SeekersSit
    BY DEF IInv, Quiet
  <2>2. SeatsOf(p) \subseteq {sessions[p]}
    BY <2>1 DEF SeekersSit, SeatsOf
  <2>3. IsFiniteSet({sessions[p]}) /\ Cardinality({sessions[p]}) = 1
    BY FS_Singleton
  <2>4. Cardinality(SeatsOf(p)) <= Cardinality({sessions[p]})
    BY <2>2, <2>3, FS_Subset
  <2>5. QED BY <2>3, <2>4
<1>2. QED BY <1>1, Invariance, PTL

\* Nobody waits beside a match of a lower number that had the seat he asked
\* for, as long as calls do not overlap (Matchmake looks before it creates).
THEOREM NobodyIsLeftWaiting == Spec => []NobodyWaitsInVain
<1>1. IInv => NobodyWaitsInVain
  <2> SUFFICES ASSUME IInv, ~overlapped, NEW s \in Seeker,
                      TookSeat(s),
                      Waiting(Asking[s], seeker[s].match),
                      NEW id \in DOMAIN matches, id < seeker[s].match
               PROVE  OpenSeats(matches[id], Wants[s]) = {}
    BY DEF NobodyWaitsInVain
  <2>1. Best(s)
    BY DEF IInv, Quiet, TookSeat
  <2>2. ~Full(matches[seeker[s].match])
    BY DEF Waiting, Full
  <2>3. QED BY <2>1, <2>2 DEF Best, Closed
<1>2. QED BY <1>1, Invariance, PTL
=============================================================================
