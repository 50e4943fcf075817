# chess-go in TLA+

TLA+ modules, TLC configurations and TLAPS proofs for chess-go: a chess library in Go with an
authoritative match server, a command-line client, an engine and a tournament runner. Paths are
relative to the repository (`src/` in `PROJECT.json` is its root). `PROJECT.json` maps every
definition to the lines it models, and lists runs, mutants, hazards, findings and theorems.

1. [The system](#1-the-system) — components, state, operations, interactions
2. [The modules](#2-the-modules) — which module models what, and how
3. [The runs](#3-the-runs) — what TLC checks, bounds, fairness
4. [The proofs](#4-the-proofs) — what TLAPS checks and along which argument
5. [Findings](#5-findings) — where code and documentation disagree
6. [Limits](#6-limits) — only model-checked, not modelled, and why
7. [Plan](#7-plan) — modules and theorems to come

## 1. The system

```
 remote client  --HTTP/WebSocket-->  transport  -->  protocol.Server  -->  protocol.Match
 cmd/chess/network.go                transport/      sessions, registry    seats, moves, clock
                                                       |   matchmaking          |
                                                       +--persistence hook--> storage.FileStore
 local session (cmd/chess) --> chess.Game --> chess.Position <-- engine <-- tournament, UCI
 LAN discovery (lan/) announces a host
```

| Component | State it keeps | Operations | What is hard | What makes it correct |
|---|---|---|---|---|
| `protocol.Match` (`protocol/protocol.go`, `clock.go`) | position, sequence, moves, two seats, spectators, result, draw offer, a clock | Join, JoinSpectator, ApplyMove, Resign, OfferDraw, Snapshot/State | any client calls anything at any time; the wall clock runs and is only looked at when somebody calls | exclusive seats, a legal history, exact clocks, one final outcome, a draw both agreed to |
| `protocol.Server` (`server.go`, `state.go`) | sessions (player → connected, match), registry of matches | Connect, Disconnect, Create, Join, ApplyMove, Resign, OfferDraw, ListMatches; export to a hook, once more at shutdown | requests run in goroutines and take `Server.mu` and `Match.mu` several times; export and hook run without a lock | what a client was told survives a crash, the store is a past of the server, sessions lead to matches |
| matchmaking (`matchmaking.go`) | `nextMatchID` | Matchmake | list, seat and creation are locked separately | the seat asked for, nobody waits beside an open seat, one match a caller, every call answered |
| durable match (`state.go`, `storage/file.go`) | one JSON file, replaced atomically | State, NewMatchFromState, SaveStates, Load | crash anywhere, downtime, rounding to milliseconds | the clock survives, flags fall again, what was saved loads but for the clocks the code refuses |
| WebSocket (`transport/websocket.go`) | one goroutine a connection, the session's connected flag | upgrade, frames, close, deferred Disconnect | overlapping connections of one player, requests in another's name, peers that vanish | replies in order, nothing after a close, no ghost sessions |
| HTTP client and remote loop (`transport/client.go`, `cmd/chess/network.go`) | the last snapshot, the board shown | refresh, move, draw, resign, quit | lost requests and answers, requests that arrive late | what is shown was the match, no move on an unseen board |
| `chess.Game` (`game.go`, `pgn.go`) | history, cursor, result | Play, Undo, Redo, ClaimDraw, SetResult, PGN | long sequences of undo, redo and claims | history replays, claims only when due |
| `chess.Position` (`position.go`, `move.go`, `nullmove.go`) | board, side, castling, en passant, counters, hash | Apply, Make/Unmake, null move, legal moves, FEN, SAN | unmake must restore everything; rare combinations of castling, en passant, pins | make and unmake are inverse, the hash is the board's, texts read back, node counts |
| local session (`cmd/chess/main.go`, `clock.go`, `commands.go`, `interactive.go`) | a game, a clock, a bot, a promotion on offer | move, undo, redo, load, claim, resign, timeout | commands change the history the clock looks at; pairs of moves half undone | the clock charges whoever is on move, turns move together, choices on offer are legal |
| engine (`engine/`) | transposition table, killers, history, node counts | Search, limits, cancel, a client of UCI engines | limits strike anywhere; entries reused at other depths and windows | a completed depth is returned; stored bounds are sound; the root is minimax |
| tournament (`tournament/`) | loop counters, a game, its clock, records | RunPlayers, playGame | deadline against flag, failures in the middle | every pair plays both colours, the clock is exact, a run ends |
| LAN discovery (`lan/`) | a socket | Serve, Close, Discover | Close before Serve | a closed server stops |
| protobuf, TLS, TOTP, perft, TUI, examples | none the rest depends on | encoders, renderers, drivers | — | — |

Calls and locks. A request reaches `Server`, which locks `Server.mu` for the session and registry
and, separately, `Match.mu` for the match; each `Match` method holds its lock from first read to
last write. After every mutation the server lists its matches, exports each under its own lock, and
calls the hook (`FileStore.SaveStates`, a write to a temporary file and a rename). Nothing orders
two such exports. `PROJECT.json` "hazards" lists what this makes possible, line by line.

## 2. The modules

| Module | Models | Shape |
|---|---|---|
| `MatchOps` | operations of `Match` and its clock | pure operators: record and time to record and error |
| `MatchContract` | the promise to holders of snapshots | abstract state machine: a line that grows, an outcome decided once |
| `Match` | one match, players, wall clock | state machine over `MatchOps`; implements `MatchContract` |
| `MatchOpsProofs` | lemmas about `MatchOps`: what each operation returns, changes and keeps | TLAPS |
| `MatchProofs` | theorems about `Match` and `DurableMatch` | TLAPS |
| `MatchStore` | `State()`, `NewMatchFromState`, validation | pure operators over `MatchOps` |
| `DurableMatch` | one match with saves, crashes, restarts, downtime | extends `Match` and `MatchStore` |
| `MatchServer` | sessions, registry, concurrent requests, exports, refused writes, shutdown, crashes | one action per critical section |
| `MatchServerProofs` | theorems about `MatchServer` | TLAPS |
| `Matchmaking` | `Matchmake` with its separately locked steps | one action per critical section |
| `MatchmakingProofs` | theorems about `Matchmaking` | TLAPS |
| `WebSocket` | connections and sessions | one goroutine a connection, one peer |
| `RemoteClient` | `runRemote` over a lossy network | client loop, server step, network |
| `TransportProofs` | theorems about `RemoteClient` and `WebSocket` | TLAPS |
| `GameOps` | operations of `chess.Game`, its rule sets and PGN | pure operators on a game record |
| `Timeline` | what undo and redo promise | abstract state machine: past and future moves |
| `Game` | one game in the hands of any caller | state machine over `GameOps`; implements `Timeline` |
| `GameProofs` | theorems about `Game` and `LocalSession` | TLAPS |
| `PositionOps`, `San`, `Fen`, `Perft` | `position.go`, `move.go`, `nullmove.go`, SAN and FEN, move counting | pure operators on a real board |
| `Position` | one position made, unmade and passed on by any caller | state machine over them |
| `PositionProofs` | theorems about `Position` | TLAPS |
| `SearchOps` | `search.go`, `search_iteration.go`, the table, killers, history | recursive operators; the control is threaded through |
| `Minimax` | what the search is measured against | recursive operators |
| `Search` | `Bot.Search`: deepening, aspiration window, limits, selection | state machine, one iteration a step |
| `Schedule` | what a tournament promises | abstract state machine: meetings in their order, all or none reported |
| `Tournament` | `RunPlayers`, `playGame`, the clock, time, cancellation | state machine; implements `Schedule` |
| `TournamentProofs` | theorems about `Tournament` | TLAPS |
| `LocalSession` | one terminal: loops, commands, keys, clock, bot | extends `Game`, whose game it holds |

**Chess is a parameter.** The match modules are about synchronization, so a game is a finite graph:
`Position`, `Move`, `Turn`, `Legal`, `After`, `InCheck`, `Hash` (not assumed injective). The proofs
hold for every such graph in which the sides alternate. The MC modules pick graphs in which the
interesting things happen: positions that recur (so a stale move would be legal again), positions
that share a hash, mate, stalemate.

**`Match`.** `match` is the struct with `matchClock` flattened into it; `now` is what the clock
function returns, advanced by `Tick`. `Join`, `Spectate`, `MoveAccepted`/`MoveRejected`,
`PlayerResigns`, `PlayerOffersDraw` and `Snapshot` are the methods; each settles the clock first where
the method does (`SyncClock` is `syncClockLocked`). A rejected move still settles the clock. `spent`,
`granted` and `agreed` are observers: real time on move, increments earned, who called for a draw in
the current position; nothing in the model reads them but the properties. The result is the empty
string in the code while undecided in memory and `"*"` on the wire; the model writes `"*"` for both.

**`MatchStore`, `DurableMatch`.** A tick is `1/Ms` of a millisecond, so that rounding down to
whole milliseconds is visible. `MatchState` is what `State()` writes, `Restorable` the validation of
`NewMatchFromState`, `MatchFromState` what it rebuilds. The `expired` flag is not in the file, as in
the code. `Crash` throws the memory away and takes the observers back to the last save; `Restart`
charges the downtime to the side to move, since the restored clock keeps its start instant; it is not enabled while
`NewMatchFromState` refuses the file, and then the host stays down.

**`MatchServer`.** A handler goes `idle → apply → list → export → idle`, one critical section a step; the
match map is exported in any order as Go iterates maps. `Save` is the rename, `SaveFails` a refused
write: the request is then answered with an error although it was done. The goroutine `Main` does the last
three steps when the host is shut down (`ShutDown`, the deferred `SaveServer` of `runHost`) while requests go on; `Crash`
ends the process at any point, after that or in the middle of anything. Writes may be refused and the host may die whether or not
requests overlap; the only guards that the code does not have are the bounds of the run. `Restart` rebuilds matches and sessions from the
file: a player who sits in several matches gets the last of them in file order (`Rebuilt`). `acked` collects what was told
to clients, `joined` the match each player joined last, `overlap` says whether two goroutines that save were ever at work at
the same time. A refused request is left out where the refusal depends on the request alone.
The map `matches` is a function on registered identifiers.

**`Matchmaking`.** `Ask` (session), `List`, `Scan` (open seats of the next match), `TakeSeat`, `NumberMatch`
(`newMatchID`), `CreateWaiting`. Guests create, join and resign by name in between. `overlapped` is an
observer: whether anything came between two steps of a call. Two promises of `docs/api.md` hold only
without such overlap and say so. Names are numbers and `Rank` is the order in which `sort.Strings` puts them: any order
in the proofs (`match-10` comes before `match-2`), that of the numbers in the run, which has four.

**`WebSocket`.** Goroutine places `new, serving, leaving, gone`; `Serve` reads, handles and writes; the two
deferred calls run in order: socket closed, then `Disconnect`. Frames are reduced to what the loop
distinguishes: message, ping, pong, close, malformed, too large; and, among messages, those that create, join or look for a match
for a player (`Request`), because they connect that player's session, whoever's connection they come on (`Handled`). `WriteFails`: a peer
that is gone, or an answer above `MaxMessageBytes` to a living one.

**`RemoteClient`.** Every turn of the loop: show, prompt, send, wait. A move is followed by a request for a
snapshot. Loss of request or answer, and a request that arrives after its client gave up, are actions of the
network. What a failed request leaves in `snapshot` is taken from the assignments of the loop.

**`Game`.** `game` is the struct without its tags: `positions`, `moves`, `cursor`, `result`. A board is what
`repetitionKey` distinguishes (an en passant square counts only if it can be used), a position adds the half-move
clock; legal moves, check, dead boards and which moves reset the clock are given with the graph. `Automatic` is
`StatusWithRules` mapped to results as `ResultWithRules` does; which draw rule applied is only wording.
`Play`, `Undo`, `Redo`, `ClaimDraw` and `SetResult` are the methods, `SetResult` with any result in any position,
as the code allows. `PGN`/`ParsePGN` keep start, line and result of the text and replay the line under casual
rules; `Readable` says that the parser returns no error.

**`Position`.** No abstraction of the board: 64 squares, `castling` a set of rights, the move record with its
flags, `uint16` counters that wrap. A Zobrist key is modelled as the *set* of terms put in, and exclusive-or as the
symmetric difference of sets, so that two hashes are equal exactly when the same terms are in them. `MakeUnchecked`,
`UndoOf`, `UnmakeMove`, `NullMove` and `LegalMoves` follow the code, `LegalMoves` by making each pseudo-legal
move and looking for check. `undos` is the caller's stack. `FEN` is the text as a record of six fields with ranks as
sequences of letters and gaps; `ParseFEN` returns the set of positions read: one or, if it refuses, none.

**`Search`.** The engine works on a graph of positions drawn from a seed, with evaluations, captures, checks and
hashes that collide. `SearchNode`, `Quiescence` and `Iteration` return score, control and error as the code does, the
control holding table, killers, history (by the squares of a move, which promotions to different pieces share) and node counts.
A call first meets a context that has ended (`Refused`) or a book that knows a legal move (`BookMove`). After that one step of the state machine is one call of
`iteration` with its window, after which the window opens, the depth is done, or a limit ends the search.
A bot with a temperature may choose any candidate the dice allow (`Choices`).

**`Tournament`.** `phase` is where `RunPlayers` and `playGame` are; `at` their loop counters; a player *thinks*
until it answers, while `Tick` and `Cancel` move time and end contexts, and an answer is a move, the end of its context, or
a failure, by the kind of player: a foreign one may also fail with a `DeadlineExceeded` of its own (`gaveUp`), and its constructor may
return no player (`NoPlayer`). Chess is reduced to whether a move mates, draws or goes on. `Schedule` knows no loops: the meetings
are a set of triples (two places in the list and a game number), each is played when all before it have been, and the refinement
maps the loop counters to the set of meetings behind them (`Met`).

**`LocalSession`.** `phase` tells the top of the loop, the bot thinking, a prompt by line, and typing after `:` at
the board, where no timer runs. The game is the variable of `Game`. `due` is the timer of the flag or the bot's deadline. Every command and key that
changes the game, the clock, the promotion offered or the end of the session is an action; `game` uses `GameOps`. The
observers: `thought` is how long a side was to move, `ran` how long its clock ran, `spared` how long it was to move while its clock did not run,
`granted` its increments; `exact` ends where the loop takes something else for a move, or a finished game keeps its clock (below).

Definitions named `X_Something` next to `X` are plausible bugs of `X`, used as mutants: each property is
shown to be broken by one of them.

## 3. The runs

| Run | Question | Bounds | Properties |
|---|---|---|---|
| `match` | do players and clock in any order keep a match right? | 3 players, 5 positions, 3 moves, initial 2 ticks + 1, 4 ticks | `SeatsExclusive ClockIsExact DrawIsAgreed NoMoveAfterFlag KeepsContract` |
| `durable` | does a timed match survive crashes? | 2 players, 2 moves, 4 ticks, 2 ticks a ms, 2 restarts | `ClockSurvivesRestart FlagSurvivesRestart RestoredIsSound StoreRefusesOnlyBonus` |
| `server` | do concurrent requests, refused writes, shutdown and crashes undo or confuse anything? | 2 players, 2 matches, 1 move, 3 requests, 2 at a time, 1 restart | `AckedSurvives StoreIsPast SessionsLeadToMatches` |
| `matchmaking` | are callers paired as promised? | 3 calls by 2 players, 1 guest, 4 numbers | `SeatAsAsked NobodyWaitsInVain OneMatchPerSeeker EveryCallAnswered` |
| `websocket` | are replies and sessions right across reconnects? | 1 player, 2 connections of his own and an anonymous one, 2, 1 and 1 frames | `RepliesInOrder NoGhostSession` |
| `remote` | is the client's view honest on a lossy network? | 2 clients, 2 late requests, 4 moves, a cycle in the game | `ViewIsPast NoMoveOnStaleBoard` |
| `game` | do history, draw rules and PGN agree under any sequence of calls? | 9 boards, 9 moves, thresholds 5/7 half-moves, 3/4 occurrences | `LineFollowsRules PGNReadsBack KeepsTimeline` |
| `position` | are moves, hash and texts right on real positions? | 9 positions, 2 or 3 plies with null moves | `HashIsRight FENReadsBack UnmakeRestores SANReadsBack KeyDecidesMoves PerftIsRight` |
| `search` | does the search find what minimax finds, whenever it is stopped? | 19 graphs, depth 4 or 5, 3 bots, 6 limits | `TableSound RootIsMinimax LimitsTakeOnlyDepth` |
| `tournament` | are clocks, flags and schedule right, and does a run end? | 4 tournaments of 2 or 3 players, 2 to 4 plies, deadline 5 of 7 ticks | `ClockIsExact FlagIsEarned KeepsToSchedule RunReturns` |
| `local` | is a session right whatever is typed while time passes? | line or board, with or without bot and clock, 4 moves, 4 ticks | `ClockIsExact FlagIsEarned TurnsMoveTogether PromotionIsLegal` |
| `server_stale` | (violation) is every answered mutation stored? | 2 handlers, 1 match, no crash | `QuietMeansStored` |

What the properties say, in the order of the hazards behind them:

- *Clocks of a match.* `ClockIsExact`: initial + increments − real time on move, whatever interleaves; a side that
  lost on time has used all it had. `NoMoveAfterFlag`: a move after the flag never counts although nobody was
  watching. `ClockSurvivesRestart`: a crash gives nobody time and takes less than 1 ms a restart.
  `FlagSurvivesRestart`.
- *Outcomes.* `KeepsContract`, `DrawIsAgreed` (an offer dies with the next move; repeating one's own offer agrees
  to nothing).
- *Concurrency and crashes.* `StoreIsPast` (the store never tells another story than the server), `AckedSurvives` (until
  requests overlap, what a client was told is in the store, whatever was refused before), `SessionsLeadToMatches` (a session names the match its player
  joined last; one rebuilt by a restart a match he sits in, never one that comes before the match he joined last and still sits in),
  `RestoredIsSound` (seats, history and offer of a restored match), `StoreRefusesOnlyBonus` (a saved match is refused only for an increment
  above the initial time, or when a side was granted more than it has spent: the known failure, delimited).
- *Matchmaking.* `SeatAsAsked` (whatever overlaps, a seat of the colour asked for, and a session that leads to a seat the
  caller was given), `NobodyWaitsInVain` and `OneMatchPerSeeker` (until calls overlap), `EveryCallAnswered`.
- *Network.* `RepliesInOrder` (and nothing after a close frame), `NoGhostSession` (after a player's last connection his session is disconnected, whatever
  was asked in his name on his own connections), `ViewIsPast`, `NoMoveOnStaleBoard`.
- *Games.* `LineFollowsRules`: the history is one legal line, undone moves included, that passes no end (rule sets
  mixed, undo and redo between), and the two rule sets are one rule with two thresholds. `KeepsTimeline` (redo
  gives back what undo took, until a new move). `PGNReadsBack` (undone moves are neither written nor counted).
- *Positions.* `UnmakeRestores` over whole stacks of moves, `HashIsRight` (the incremental hash is the computed
  one), `FENReadsBack` (so every position reached is one `ParseFEN` accepts), `SANReadsBack` (no two legal moves
  share a text), `KeyDecidesMoves` (positions that count as repeated have the same moves), `PerftIsRight` (the node
  counts of the tests, which are those of the literature).
- *Search.* `TableSound` (a bound holds for its position whatever search stored it), `RootIsMinimax`,
  `LimitsTakeOnlyDepth` (a search that is stopped answers with the move of an unlimited search's last complete depth; of the error only what
  the code keeps of its promise: a limit of nodes is one only before the first depth). The first two are stated while no
  reduction, null move or delta pruning has cut anything off: those are allowed to be wrong.
- *Tournaments.* `ClockIsExact`, `FlagIsEarned` (by thinking, with the two exceptions of `tournament.go:195`: the tournament's deadline, a foreign player's own
  `DeadlineExceeded`), `KeepsToSchedule` (a refinement), `RunReturns`.
- *Local sessions.* `ClockIsExact`: a clock shows base and increments less the time it ran, through every command; that it ran just while its side was to
  move is stated up to the three cases in which the code charges the wrong side (section 5). `FlagIsEarned`: whoever loses on time has had his allowance, his clock having
  run for it or he having been to move while the other's ran.
  `TurnsMoveTogether` (against a bot whole turns go back and forth, also when half of one is missing),
  `PromotionIsLegal` (commands come between choosing a square and choosing a piece).

**Why the bounds are enough.** Three players are two seats and a stranger. Three moves cover a recurrence of
the initial position, mate and stalemate; four ticks let a flag of two ticks fall before, at and after it is
looked at, for either side. Two ticks a millisecond make rounding lose something; two restarts make losses
add up. Two handlers are the least that race; a third adds no new pair of critical sections. In the run
`server` three requests are taken up (a create, a join, a move or another join; disconnections and connections of new players count, too), at most two
goroutines are at work at a time, the shutdown's save among them, and the host ends once. That is enough for a stale export to replace a newer one and for
the host to die then, for a refused write before and after it, for sessions of two matches, and for one to be rebuilt from a file that lacks the last join. Three calls, two by one
player, cover a repeated call, a seat lost to another call and a fresh number. Two connections of one player give
the overlap; two frames give an order; the anonymous connection asks for a match in the player's name. Two late requests are one more than needed for a duplicate. Nine moves
reach the fourth occurrence of a board (6 plies of the two-board cycle) and the 75-move limit (7 half-moves
here) on different lines; the true thresholds 100/150 and 3/5 only enter as constants ordered the same way.
The nine positions are chosen for their rare moves: castling under attack, rooks taken on their corners, en passant that pins or
uncovers, promotions with capture, several queens to one square, counters at 65535; two or three plies reach
every kind of move and its undoing. The graphs of `search` have lines that meet again, at one ply or two, mates, stalemates and
slots shared by several positions; five depths exceed the aspiration window's first use and the table's first reuse. A local
game of four moves is two turns with a bot; clocks of two ticks fall within it. Symmetry is used for players (and
handlers) in runs without liveness properties.

**Deadlock.** It is checked in `server_stale` and in `game`. Elsewhere the system really may stop: a match reaches its move
and time bound, a server has served the requests of the run, callers have been answered, connections are gone, clients have quit, a search has returned, a
tournament has reported, a session has ended.

**Fairness.** Weak fairness on the steps of a goroutine that serves a call (`SeekerMoves`) or a connection
(`ServerStep`): the Go scheduler runs a goroutine that can run, and no lock is held across a wait.
In `Tournament` the runner's steps are weakly fair, the answer of a player among them: a bot and a UCI process
return when their context ends, and of a foreign player it is assumed, for `RunReturns` only: the code cannot make him. Nothing else is assumed of players, peers, networks, clocks or crashes. `ReadFails` is fair although a peer that
goes silent without closing is never noticed: the action needs the peer's end closed.

## 4. The proofs

Every theorem is about the specification the runs check, for every value of its constants. What a run shows on a
small instance, and what a theorem shows for all:

| Module | Theorem | Property |
|---|---|---|
| `MatchProofs` | `TypeCorrect` | the types, which the other proofs rest on |
| | `SeatsStayExclusive` | `SeatsExclusive` |
| | `ClocksStayExact` | `ClockIsExact` |
| | `DrawsAreAgreed` | `DrawIsAgreed` |
| | `HistoryStaysLegal` | `HistoryReplays`: the line is a legal game that leads to the board |
| | `DecidedStaysFrozen` | `DecidedIsFrozen` (action property) |
| | `NoMoveCountsAfterFlag` | `NoMoveAfterFlag` (action property) |
| | `MatchKeepsContract` | `KeepsContract`: `Match` implements `MatchContract` |
| | `ClockOutlivesRestarts` | `ClockSurvivesRestart` |
| | `FlagOutlivesRestarts` | `FlagSurvivesRestart` |
| | `RestoredStaysSound` | `RestoredIsSound` |
| | `OnlyBonusIsRefused` | `StoreRefusesOnlyBonus` |
| `MatchServerProofs` | `AcknowledgedSurvives` | `AckedSurvives` |
| | `StoreStaysBehind` | `StoreIsPast` |
| | `SessionsStayLeading` | `SessionsLeadToMatches` |
| `MatchmakingProofs` | `SeatsStayAsAsked` | `SeatAsAsked` |
| | `SeekersStayInOneMatch` | `OneMatchPerSeeker` |
| | `NobodyIsLeftWaiting` | `NobodyWaitsInVain` |
| `TransportProofs` | `ViewsStayPast` | `ViewIsPast` |
| | `MovesAreSeen` | `NoMoveOnStaleBoard` (action property) |
| | `RepliesStayInOrder` | `RepliesInOrder` |
| `GameProofs` | `TypeCorrect` | the types and the two lengths |
| | `HistoryStaysOneLine` | `HistoryIsOneLine` |
| | `NothingFollowsTheEnd` | `NothingAfterTheEnd` |
| | `RulesAgree` | `CasualEndsAtClaims` |
| | `LineStaysWithinRules` | `LineFollowsRules`, the three above together |
| | `GamesReadBack` | `PGNReadsBack` |
| | `GameKeepsTimeline` | `KeepsTimeline`: `Game` implements `Timeline` |
| | `SessionClockStaysExact` | `ClockIsExact` of `LocalSession` |
| | `SessionFlagsAreEarned` | `FlagIsEarned` of `LocalSession` |
| | `PromotionsStayLegal` | `PromotionIsLegal` |
| | `TurnsStayTogether` | `TurnsMoveTogether` (action property) |
| `PositionProofs` | `HashStaysRight` | `HashIsRight` |
| | `UnmakeGivesBack` | `UnmakeRestores` |
| | `KeyKeepsWhatCounts` | `KeyDecidesMoves` |
| | `SANTellsMovesApart` | `SANReadsBack` |
| `TournamentProofs` | `TypeCorrect` | the types, and that the loop counters name two players of the list |
| | `ClockStaysExact` | `ClockIsExact` |
| | `FlagsAreEarned` | `FlagIsEarned` |
| | `ScheduleIsKept` | `KeepsToSchedule`: `Tournament` implements `Schedule` |

All modules about matches assume `PlayerAssumption` (the empty player is nobody), `GameAssumption` (a typed graph whose
sides alternate with every legal move) and `ClockAssumption` (what `NewMatchWithClock` accepts). `ServerAssumption`,
`MatchmakingAssumption` and `ClientAssumption` add that the match has no clock, which `DurableMatch` has; the rest of
them, `BoundAssumption`, `RestartAssumption` and `MsAssumption` type the bounds and the parameters. No bound of a run
is needed by a proof.

**`MatchOpsProofs`** has one lemma an operation and question: its type, what it leaves alone, the cases in which it
ends. `SeatsOK` and `LineOK` are kept by every operation. `Replay` is a fold, and its value for lines of any
length needs an induction that the library's theorems cannot express here, since they take an operator as parameter. So induction
is stated for *sets*: `InductiveSet` (a set of naturals with 0 and every successor is `Nat`) follows from the least-element
principle `LeastNat`, and that from the well-foundedness of `<`. The fold is unrolled as a table of its intermediate
results (`Table`, `TableExists`, `ReplayTable`), from which come `ReplayAppend` and `LegalAppend`: a move more is a
step more. `GameProofs` unrolls `FoldLeft(Played, ...)` the same way.

**`MatchProofs`.** The inductive invariant has two parts. `GameInv`, inductive by itself: types, seats, the legal line, and
agreed draws with what they need (an offer on the table was made by a seated player in this position). `ClockOK`: exact clocks with
what they need (a running clock started no later than now and belongs to a live match; a running clock
of a live match has time left after each settlement; an expired match was lost by the side to move). `ClockIsExact`
alone is not inductive: it does not say that `startedAt <= now`, nor that the clock of a decided match stands still.
`SyncClock` gets lemmas of its own, since every operation begins with it; operations are then handled on a *settled*
record. The action properties and the refinement follow from the invariant and `Next`.

**`MatchProofs`, for `DurableMatch`.** `TimeOK(m, ..., k)` says that no clock shows more than the exact time, that none is more than `k`
ticks behind it, that nobody still plays on time he had used up when the clock was last settled, and that a side shows more than the
initial time only out of increments it has not spent (`Paid`). Operations
keep it for the same `k`; saving rounds down and costs up to a millisecond less a tick; restoring keeps what was saved. With `k` as
the number of restarts times that loss it is inductive, together with what the file and the observers of the last save have to do with each other
(`DiskOK`: the file is what `State()` wrote of *some* match that satisfied the invariant). `RestoredStaysSound` uses `GameInv` of that match.
`SavedRestorable` goes through what `NewMatchFromState` validates, one condition after the other, and finds only the two about clocks to fail for
a match that was saved; `Paid` then says whose clock it is (`OnlyBonusIsRefused`).

**`MatchServerProofs`.** Matches of a running server only `Evolve`: none is lost, each one's line grows, an outcome and
a seat stay. So whatever a handler has exported, whatever the store holds and whatever a client was told stays a
past of the registry (`Behind`, `WorkOK`, `ToldOK`), although the exports of two requests may be written in either order.
`AckedSurvives` needs more: while requests have not overlapped, at most one goroutine is at work, the shutdown's included, and what it has
listed and exported is still what the server has (`Fresh`); then the store it writes holds everything any client was told.
For `SessionsLeadToMatches` every session `Leads`: to the match its player joined last, or to one he sits in, of a higher ID than that
one if he sits in that, too. No request ends this, since seats are never given up and only joining gives one (`NoSeatFor`), which
moves the session along; a restart establishes it, since `Rebuilt` is the highest ID of the matches in the file he sits in.

**`MatchmakingProofs`.** Seats are taken and never given up (`SeatsKept`), so an answered call keeps its seat and a match that was
closed to a caller stays closed. A call attaches its caller's session just when it takes a seat (`Attaches`), so the session of a player
who only asks leads to a seat one of his calls was given (`SessionsLead`). That gives `SeatAsAsked` with any interleaving. The other two hold while calls do not overlap, and
the invariant then says what the one call at work knows (`Knows`): its caller has no session and hence no seat, the matches it has
passed by are closed to it, the seat it is about to take is still open, its number is the highest one given out. `NumbersOK`, which holds always,
says that every number up to the counter is in use or about to be, so no match with a lower number appears
behind an answered call (`NothingBelow`), guests included. Who joins a match has an opponent at once, because every registered
match has somebody in it (`Occupied`).

**`TransportProofs`, for `RemoteClient`.** What a client shows is the position after some number of moves of the match's line, and an outcome it shows is the
match's (`ViewOK`); the same of every answer on its way, and none of the player's late requests is ahead of an answer that is still to come (`AnswerOK`).
A request to move, waiting or late, was made for a position in which it was its player's turn and that he has seen
(`MoveOK`). Since `ApplyMove` compares sequence numbers and a line only grows, a late request either is refused or meets the
position it was made for. `NoMoveOnStaleBoard` follows; it does not need hashes to differ.

**`TransportProofs`, for `WebSocket`** (`ConnectionAssumption` types the parameters). `RepliesInOrder` says that the replies answer *some* beginning of the frames
sent; it is not inductive, because it does not say which. The invariant says, for each connection: what is still to be read is the rest of what
was sent (`Unread`), and while the goroutine serves, what it has written answers exactly what it has read, and no close frame is
among it (`Caught`); a connection nobody serves has no peer that could still send (`Quiet`), and nothing was said before the upgrade
(`Fresh`). The property itself is the fifth part (`Ordered`), which is all that is left once the goroutine leaves; whom a message connects plays
no part. `FlattenSeq` is a recursive function on the length; `Joins` names it, `JoinsAgree` says that its values do not depend on
later sequences, and from these comes `AnswersStep`: one frame read is one answer appended.

**`GameProofs`**, for every graph of boards and all thresholds with fifty <= seventy-five and 2 <= threefold <= fivefold
(`ChessAssumption`, `ThresholdAssumption`, `StartAssumption`). The type invariant with the two statements about the line is inductive. The work is in `Played`, which cuts
positions and moves at the cursor: a lemma says that the record it builds agrees with the old one up to the cursor,
so that `Repetitions` and `Automatic`, which look back from a move, have the value they had. `RulesAgree` needs no
history: it follows from the order of the thresholds. `GamesReadBack` shows that replaying the first n moves from the first
position rebuilds the first n + 1 positions (`Rebuilt`, by induction over n): the replay is at every step the
game with its tail cut off, of which `Automatic` says what it said when the move was made, so every move is accepted again.
It is stated for casual lines whose declared result does not contradict the board, as `PGNReadsBack` is. The refinement maps the two halves of `moves`
around the cursor.

**`GameProofs`, for `LocalSession`**, for every setup, time control, set of entered positions and loaded games
(`LocalAssumption` types them, `AlternationAssumption` is alternation, and `LoadAssumption` that `ParsePGN` leaves a game after its last move).
The invariant has two halves. `PlayOK` is about the game and its clock whatever the program waits for: a running clock started no
later than now and, until the code first charges the wrong side, is that of the side to move (`InStep`), so that until then it ran for exactly the time its
side thought (`TimeOK`); against a bot an even number of moves can be redone; `ClockIsExact`; `FlagIsEarned`. `LoopOK` is about the loops: a decided session goes on to its end, the bot thinks only in
its own turn, a prompt in an open game has a running clock, and a timer that is not due before the side to move has had what it was given, be it
on its own clock or on the other's (`WaitingOK`), and no
promotion is on offer in the bot's turn (`OffersOK`), or its move could overtake the choice. Each operation of `gameClock` has a
lemma that it changes nothing the clock *shows* but the increment of a completed move; the actions are cases over them.

**`TournamentProofs`**, for every set of tournaments, any players, any deadline and any bound on time
(`TournamentAssumption`: what `validation.go` and `newTournamentClock` accept). The two properties need each other: a flag is earned because the clock that fell was exact, and the clock of an open
game is exact because an open game was not lost on time. What neither says is added to make them inductive:
`ThinkingIsOpen`, a player is asked only while the game is open, and `DeadlineHasCause`, the context of a move has
passed its deadline only because the mover's time is used up or the tournament's deadline has passed. The third way to lose, an
answer `DeadlineExceeded` while the context has not ended, needs no invariant: only a foreign player gives it, and `gaveUp` keeps that he did. `DeadlineHasCause` is
kept while time passes because an ended context keeps its first cause and a used-up clock stays used up. Counting
moves by `ply` gives the one arithmetic lemma, `MovesCount`: a ply is one move more for the mover, none for the other.

*The schedule.* `ScheduleIsKept` needs two more facts: the loop counters of `RunPlayers` are a meeting or the end (`Ahead`), and
a game that is open has the players and number of the meeting they name (`Seated`). Then the meetings behind the counters grow by exactly
that one when a game is recorded (`AdvanceMeets`), all earlier ones are among them (`HereIsNext`), and at the end they are all
(`AllAreMet`). Every other step of a game, its clock or its context is a stutter of the schedule.

**`PositionProofs`**, for every set of FEN texts and any number of moves, with no assumption: what `ParseFEN` accepts is enough.

- *Making and unmaking.* Whatever kind of move is made, its squares are on the board (`PseudoMovesSound`), and the pieces it puts
  elsewhere are on squares the undo record remembers (`PiecesMovedRearranges`). So `UnmakeMove` restores every field (`UnmakeUndoes`).
  The invariant carries this along the stack: every record leads from one position of the path to the one before (`StepsBack`).
- *Hash.* Hashes are sets of Zobrist terms. `SetPiece` changes the terms of one square and no other's (`SetPieceHash`); the terms of side, rights and
  en passant square are no piece's and each is in at most once (`OtherKeys`), so that taking the old ones out and putting the
  new ones in gives the terms of the new position (`HashFollows`). That two different sets of terms never have one 64-bit
  hash is not claimed: it is the abstraction.
- *Repetition key.* Without its en passant square a position has the same pseudo-legal moves but the captures that use it
  (`PseudoMovesWithout`), and makes of each the same board (`PiecesMovedAlike`), so that the same ones are legal (`LegalMovesWithout`).
- *SAN.* The flags of a move follow from its squares and the board (`SameMove`): a pawn's by direction and distance, a king's by
  distance. With equal texts the type and the target are equal; of two rivals each is in the other's disambiguation, and whichever
  coordinates are written differ (`RivalsDiffer`); pawns that capture write their file, and two pawns that advance to one square
  would stand one behind the other, where a double step is blocked (`PawnsApart`).

## 5. Findings

`server_stale`, which TLC finds violated and `PROJECT.json` quotes: an older export can be renamed over a newer one
after both requests were answered (`protocol/state.go:260`).

Met while modelling, without a run of their own.

*Matches and the network.* `NewMatchFromState` refuses a clock above the initial time, but an increment can lift it
there: a host that saved such a match does not start again (`protocol/state.go:133`, `protocol/clock.go:115-117`; in
the run `durable` such a host stays down). It refuses an increment above the initial time, too, which `NewMatchWithClock` accepts. `StoreRefusesOnlyBonus` says
that these are the only saved matches refused. A restart leads a player who sits in several matches to the last of them in the order of the file
(`protocol/state.go:215-227`), where a session names "the match they last joined" (`protocol/server.go:26-28`). The end of a player's old connection disconnects the session of the new
one (`transport/websocket.go:69`; lines 24-26 promise a session "for the lifetime of the connection"); a request in a player's name on a connection that is not
his connects him as well, and nothing disconnects him then (`protocol/server.go:465-473`). A refresh, draw or
resignation that fails leaves the zero snapshot, which the loop of the remote client takes for the end of the game
(`cmd/chess/network.go:355,370-381`; `ViewIsPast` therefore speaks only of snapshots with a result). The clock can start by a move made for an empty
seat (`protocol/clock.go:118`; `docs/api.md:297` starts it with the second seat); a restored match no longer knows
that it was lost on time and answers `match_over` (`protocol/state.go:164`; `docs/api.md:299-300`); a request that was
authorized is carried out although its session is gone by then (`protocol/server.go:230`); a late draw offer counts in a later position
(`cmd/chess/network.go:379`); overlapping matchmaking calls may each create a waiting match, or seat one caller twice
(`protocol/matchmaking.go:22-57`; `docs/api.md:337-339`); a caller may be seated in a match that was already
resigned, since `openSeat` looks at seats and not at the result (`protocol/matchmaking.go:78`).

*Games and positions.* `SetResult` is documented "for an unfinished game" (`pgn.go:41`) but accepts a result against
the board's own, and `Redo` keeps a result declared for an earlier position, so that a finished game can carry
another result; `ParsePGN` refuses the text of a FIDE game that went on past a third repetition (`pgn.go:138`, casual
rules). The counters wrap at 65535 in `makeUnchecked`; `ParseFEN` refuses the position whose move number has become 0.

*Engine.* A bot that samples scores its later candidates against a raised alpha, so their scores are upper bounds, and
it may play a move worse than its tolerance: on one of the graphs 46 below the best with 40 allowed
(`engine/search_iteration.go:14-66`, `engine/profile.go:137`). A search that reaches its time limit after complete
depths returns `DeadlineExceeded` (`engine/search.go:147-148`), where the comment of `Search` promises the result with a nil error for any limit
(`engine/search.go:99-103`); `LimitsTakeOnlyDepth` states of the error only what the code keeps.
Quiescence answers a stalemate whose evaluation is above beta with that evaluation; the ordering of
`orderedSearchMoves` is ascending, so that killers, history moves and captures come last (slower, not wrong);
`quiescenceMoves` never looks for quiet checks, since its ply is at least 1; the table keeps mate scores with the ply
they were found at, so an entry met at another ply is off by the difference (`ScoreRange` allows for it).

*Tournament.* The deadline of the whole tournament, if it passes in a timed game, is recorded as a loss on time of
the side to move, and so are an error of a player that comes after its flag and a `DeadlineExceeded` that a foreign player returns for reasons of
its own with time left (`tournament/tournament.go:187-199`; `docs/api.md:363-364`).

*Local session.* The line command `redo` is taken for a move and grants an increment, and against a bot leaves the bot's
clock running on the human's turn; so does a load of a longer game (`cmd/chess/main.go:304-312`). At the board the key `r` grants none.
The clock of a mated side runs on, and undo charges it. The board loop ends on resignation and on time although its message offers
"n: new game". While a `:` command is typed no timer runs. Undoing two moves after mating the bot leaves the bot to move.

## 6. Limits

Only model-checked: liveness (`EveryCallAnswered`, `NoGhostSession`, `RunReturns`: outside the prover's reach);
everything recursive (`SearchOps`, `Minimax`, `Perft`, and with them `TableSound`, `RootIsMinimax`, `LimitsTakeOnlyDepth` and `PerftIsRight`: the
prover has no SMT backend in a module that reaches a recursive operator); `FENReadsBack`, which needs that every legal move keeps all that `ParseFEN`
validates (material, rights, kings, checks) and folds over the ranks of a text read back square by square: the run
goes through positions chosen for it.

Abstracted: in the match and game modules the rules of chess (a game graph), error texts and JSON, the temporary
file behind the atomic rename, `int64` durations (no reachable clock comes near), PGN tags and tokens, the frame codec
(kinds of frames); in `Position` coordinates and UCI texts; in `Search` the evaluation, statistics and the draw among
candidates; in `Tournament` ratings and scores; in `LocalSession` drawing and the selection of squares. `DurableMatch`
saves in one step: with one saver nobody reads the file in between; `MatchServer` separates the steps but has no
clock. A disk that loses a completed rename is not modelled.

Not modelled: protobuf framing and TLS settings (encodings and configuration); TOTP (a function, and a map of used
counters under one lock that no program of the repository uses); engine evaluation (heuristic scores without a
notion of right); LAN discovery (packet encodings around one goroutine that answers queries until its socket is closed; `Close` before
`Serve` has opened the socket does nothing, `lan/discovery.go:127`); the terminal interface, command lines, examples and scripts (no state the rest depends on).

## 7. Plan

1. Proofs: `FENReadsBack`, first that the validation of `ParseFEN` is kept by legal moves (the counting of material is what is hard about it),
   then the text of a rank.
2. `MatchServer` with Matchmaking's steps among its requests.
