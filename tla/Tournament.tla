----------------------------- MODULE Tournament -----------------------------
(* tournament/: RunPlayers and playGame with their clock, over players that  *)
(* answer when they like. Positions are abstracted to the outcome of a move; *)
(* ratings are derived from the records and left out.                        *)
EXTENDS Integers, Sequences

CONSTANTS
    Configs,        \* records [players, gamesPerPair, maxPlies, timed, base, increment]
    Kind,           \* player -> "bot", "uci" or "custom"
    Deadline,       \* of the whole tournament's context
    MaxNow          \* bound on the time passed

ASSUME TournamentAssumption ==
    /\ \A c \in Configs : /\ c.players \in Seq(DOMAIN Kind) /\ Len(c.players) >= 2
                          /\ c.gamesPerPair \in Nat \ {0} /\ c.maxPlies \in Nat \ {0}
                          /\ c.timed \in BOOLEAN /\ c.base \in Int /\ c.increment \in Int
                          /\ c.timed => c.base > 0 /\ c.increment >= 0
    /\ Deadline \in Nat /\ MaxNow \in Nat

VARIABLES
    config,
    phase,          \* "next", "playing", "thinking", "reported" or "failed"
    at,             \* the loop counters of RunPlayers [first, second, gameIndex]
    game,           \* the game at hand: see NewGame
    records, err,   \* the report so far, and the error returned
    now, stop       \* time; why the tournament's context ended, or "none"

vars == <<config, phase, at, game, records, err, now, stop>>

Opposite(c) == IF c = "white" THEN "black" ELSE "white"
Turn(g) == IF g.ply % 2 = 0 THEN "white" ELSE "black"
Mover(g) == IF Turn(g) = "white" THEN g.white ELSE g.black
TimeoutResult(c) == IF c = "white" THEN "0-1" ELSE "1-0"
WinFor(c) == TimeoutResult(Opposite(c))
Both(n) == [c \in {"white", "black"} |-> n]

(* remaining is the clock; context the end of the move's context. spent, the *)
(* time each side thought, flagged, who lost on time, and gaveUp, whether by *)
(* an error of his own, observe the game.                                    *)
NewGame(white, black) ==
    [white |-> white, black |-> black, ply |-> 0, result |-> "*",
     remaining |-> Both(config.base), started |-> 0, context |-> "none",
     spent |-> Both(0), flagged |-> "nobody", gaveUp |-> FALSE]

Init ==
    /\ config \in Configs
    /\ phase = "next" /\ at = [first |-> 1, second |-> 2, gameIndex |-> 0]
    /\ game = [NewGame("nobody", "nobody") EXCEPT !.result = "1/2-1/2"]
    /\ records = <<>> /\ err = "none"
    /\ now = 0 /\ stop = "none"

-----------------------------------------------------------------------------
(* The loop over the pairs and their games.                                  *)

Finished == at.first >= Len(config.players)

\* Mutant: the colours are not alternated.
StartGame_SameColours ==
    /\ phase = "next" /\ ~Finished /\ stop = "none"
    /\ game' = NewGame(config.players[at.first], config.players[at.second])
    /\ phase' = "playing"
    /\ UNCHANGED <<config, at, records, err, now, stop>>

StartGame ==
    /\ phase = "next" /\ ~Finished /\ stop = "none"
    /\ LET one == config.players[at.first]
           two == config.players[at.second]
       IN  game' = IF at.gameIndex % 2 = 1 THEN NewGame(two, one) ELSE NewGame(one, two)
    /\ phase' = "playing"
    /\ UNCHANGED <<config, at, records, err, now, stop>>

Failed(why) == phase' = "failed" /\ err' = why

(* Anybody's constructor but those of the package may return no player.      *)
NoPlayer ==
    /\ phase = "next" /\ ~Finished /\ stop = "none"
    /\ \E place \in {at.first, at.second} : Kind[config.players[place]] = "custom"
    /\ Failed("nil player")
    /\ UNCHANGED <<config, at, game, records, now, stop>>

ContextEnded ==
    /\ phase = "next" /\ ~Finished /\ stop # "none"
    /\ Failed(stop)
    /\ UNCHANGED <<config, at, game, records, now, stop>>

Report ==
    /\ phase = "next" /\ Finished
    /\ phase' = "reported"
    /\ UNCHANGED <<config, at, game, records, err, now, stop>>

Advance(cell) ==
    IF cell.gameIndex + 1 < config.gamesPerPair THEN [cell EXCEPT !.gameIndex = @ + 1]
    ELSE IF cell.second < Len(config.players) THEN [cell EXCEPT !.second = @ + 1, !.gameIndex = 0]
    ELSE [first |-> cell.first + 1, second |-> cell.first + 2, gameIndex |-> 0]

-----------------------------------------------------------------------------
(* One game.                                                                 *)

Over == game.ply >= config.maxPlies \/ game.result # "*"

Flagged(g, c) == [g EXCEPT !.result = TimeoutResult(c), !.flagged = c]

Record ==
    /\ phase = "playing" /\ Over
    /\ LET result == IF game.result = "*" THEN "1/2-1/2" ELSE game.result
       IN  /\ records' = Append(records, [number |-> Len(records) + 1, white |-> game.white,
                                          black |-> game.black, result |-> result])
           /\ game' = [game EXCEPT !.result = result]
    /\ at' = Advance(at)
    /\ phase' = "next"
    /\ UNCHANGED <<config, err, now, stop>>

(* Clock.moveContext: a side without time is not asked.                      *)
\* Mutant: the other side's clock is looked at.
NoTimeLeft_OtherClock ==
    /\ phase = "playing" /\ ~Over
    /\ config.timed /\ game.remaining[Opposite(Turn(game))] <= 0
    /\ game' = Flagged(game, Turn(game))
    /\ UNCHANGED <<config, phase, at, records, err, now, stop>>

\* Mutant: a side without time is skipped, and its game goes nowhere.
NoTimeLeft_Skipped ==
    /\ phase = "playing" /\ ~Over
    /\ config.timed /\ game.remaining[Turn(game)] <= 0
    /\ UNCHANGED vars

NoTimeLeft ==
    /\ phase = "playing" /\ ~Over
    /\ config.timed /\ game.remaining[Turn(game)] <= 0
    /\ game' = Flagged(game, Turn(game))
    /\ UNCHANGED <<config, phase, at, records, err, now, stop>>

Ask ==
    /\ phase = "playing" /\ ~Over
    /\ config.timed => game.remaining[Turn(game)] > 0
    /\ game' = [game EXCEPT !.started = now, !.context = stop]
    /\ phase' = "thinking"
    /\ UNCHANGED <<config, at, records, err, now, stop>>

(* What chooseMove may come to: a move, of which only a foreign player's may *)
(* be illegal; the end of its context; for UCIEngine and foreign players any *)
(* other error (no process, no bestmove, an unreadable or illegal one), and  *)
(* for foreign players a DeadlineExceeded of their own, at any time. A bot   *)
(* whose node budget ends before one depth still moves.                      *)
Answers(player, context) ==
    {"move"}
        \cup (IF context = "none" THEN {} ELSE {context})
        \cup (IF Kind[player] = "bot" THEN {} ELSE {"failure"})
        \cup (IF Kind[player] = "custom" THEN {"illegal", "DeadlineExceeded"} ELSE {})

\* Mutant: the increment is granted before the flag is looked at.
Complete_IncrementFirst(g, c, elapsed) ==
    [g EXCEPT !.spent[c] = @ + elapsed,
              !.remaining[c] = @ - elapsed + config.increment]

(* Clock.complete: negative remaining time is the flag.                      *)
Complete(g, c, elapsed) ==
    LET left == g.remaining[c] - elapsed
    IN  [g EXCEPT !.spent[c] = @ + elapsed,
                  !.remaining[c] = IF left < 0 THEN left ELSE left + config.increment]

Played(g, ending) ==
    [g EXCEPT !.ply = @ + 1,
              !.result = CASE ending = "mate" -> WinFor(Turn(g))
                           [] ending = "draw" -> "1/2-1/2"
                           [] OTHER -> "*"]

(* The answer, in the order in which the code looks at it: the clock, the    *)
(* error, the move. Of an error only the kind is looked at, not whether the  *)
(* context of the move has ended.                                            *)
Answer ==
    /\ phase = "thinking"
    /\ \E answer \in Answers(Mover(game), game.context), ending \in {"none", "mate", "draw"} :
        LET mover == Turn(game)
            g == IF config.timed THEN Complete(game, mover, now - game.started) ELSE game
        IN  \/ /\ config.timed /\ g.remaining[mover] < 0
               /\ game' = Flagged(g, mover) /\ phase' = "playing" /\ UNCHANGED err
            \/ /\ ~(config.timed /\ g.remaining[mover] < 0)
               /\ answer = "DeadlineExceeded" /\ config.timed
               /\ game' = [Flagged(g, mover) EXCEPT !.gaveUp = game.context # answer]
               /\ phase' = "playing" /\ UNCHANGED err
            \/ /\ ~(config.timed /\ g.remaining[mover] < 0)
               /\ answer # "move" /\ ~(answer = "DeadlineExceeded" /\ config.timed)
               /\ Failed(answer) /\ game' = g
            \/ /\ ~(config.timed /\ g.remaining[mover] < 0)
               /\ answer = "move"
               /\ game' = Played(g, ending) /\ phase' = "playing" /\ UNCHANGED err
    /\ UNCHANGED <<config, at, records, now, stop>>

-----------------------------------------------------------------------------
(* Time, and the caller's context. The first cause that ends a context is    *)
(* the one it keeps.                                                         *)

FirstOf(old, new) == IF old = "none" THEN new ELSE old

Stopped(why) == IF phase = "thinking" THEN [game EXCEPT !.context = FirstOf(@, why)] ELSE game

Tick ==
    /\ phase \in {"next", "thinking"} /\ now < MaxNow
    /\ now' = now + 1
    /\ stop' = IF now + 1 >= Deadline THEN FirstOf(stop, "DeadlineExceeded") ELSE stop
    /\ LET due == config.timed /\ now + 1 >= game.started + game.remaining[Turn(game)]
       IN  game' = Stopped(IF due THEN "DeadlineExceeded" ELSE stop')
    /\ UNCHANGED <<config, phase, at, records, err>>

Cancel ==
    /\ phase \notin {"reported", "failed"} /\ stop = "none"
    /\ stop' = "Canceled"
    /\ game' = Stopped("Canceled")
    /\ UNCHANGED <<config, phase, at, records, err, now>>

Step == StartGame \/ NoPlayer \/ ContextEnded \/ Report \/ Record \/ NoTimeLeft \/ Ask \/ Answer
Next == Step \/ Tick \/ Cancel

(* The runner goes on by itself, and every player answers in the end: of a   *)
(* foreign player that is assumed, the code cannot make him.                 *)
Spec == Init /\ [][Next]_vars /\ WF_vars(Step)

-----------------------------------------------------------------------------
Lost(g) == g.flagged # "nobody"
MovesBy(g, c) == IF c = "white" THEN (g.ply + 1) \div 2 ELSE g.ply \div 2
Allowance(g, c) == config.base + config.increment * MovesBy(g, c)

(* A side has its base time and an increment for every move it played, less  *)
(* all it thought; and no move is played that overran the clock, so that at  *)
(* least the increment of the last one is left.                              *)
ClockIsExact ==
    config.timed /\ phase # "failed" /\ ~Lost(game) => \A c \in {"white", "black"} :
        /\ game.remaining[c] = Allowance(game, c) - game.spent[c]
        /\ game.remaining[c] >= IF MovesBy(game, c) > 0 THEN config.increment ELSE 0

Loser(g) == IF g.flagged = "white" THEN g.white ELSE g.black

(* A side loses on time only when it has thought for all it was given, with  *)
(* two exceptions, where the code takes another error for the fall of the    *)
(* flag: the deadline of the whole tournament passed (tournament.go:195 does *)
(* not tell the two apart), or a foreign player returned a DeadlineExceeded  *)
(* of his own, with time left. A bot or a UCI engine never loses so, and     *)
(* whoever mates is not flagged for it.                                      *)
FlagIsEarned ==
    Lost(game) =>
        /\ game.result = TimeoutResult(game.flagged)
        /\ config.timed
        /\ \/ game.spent[game.flagged] >= Allowance(game, game.flagged)
           \/ stop = "DeadlineExceeded"
           \/ game.gaveUp /\ Kind[Loser(game)] = "custom"

(* A run ends: no game goes on for ever, and no pairing is played again.     *)
RunReturns == <>(phase \in {"reported", "failed"})

(* The meetings before the one the loop is at.                               *)
Met ==
    LET n == Len(config.players)
    IN  {m \in (1..n) \X (1..n) \X (1..config.gamesPerPair) :
           /\ m[1] < m[2]
           /\ \/ m[1] < at.first
              \/ m[1] = at.first /\ m[2] < at.second
              \/ m[1] = at.first /\ m[2] = at.second /\ m[3] < at.gameIndex + 1}

Promised == INSTANCE Schedule WITH
    Pairings <- {[players |-> c.players, gamesPerPair |-> c.gamesPerPair] : c \in Configs},
    pairing <- [players |-> config.players, gamesPerPair |-> config.gamesPerPair],
    met <- Met,
    played <- records,
    outcome <- IF phase \in {"reported", "failed"} THEN phase ELSE "running"

(* The run keeps to its schedule: see Schedule.                              *)
KeepsToSchedule == Promised!Spec
=============================================================================
