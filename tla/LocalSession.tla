---------------------------- MODULE LocalSession ----------------------------
(* A session of cmd/chess on one terminal: two people, or one and a bot, in  *)
(* line mode (main.go: play) or at the board (interactive.go), with commands *)
(* (commands.go) and a clock (clock.go). The session holds one chess.Game,   *)
(* the variable of Game. The selection of squares is left out: a player may  *)
(* pick any legal move, of a promotion one of its pieces.                    *)
EXTENDS Game

CONSTANTS
    Setups,         \* records [board, bot, timed]: see setup
    Initial, Increment,
    Starts,         \* positions that may be entered as FEN
    Loads,          \* games that may be loaded
    Promotions,        \* board -> sets of moves that differ in the promoted piece only
    MaxNow,         \* bound: time that passes
    MaxClock        \* a clock that shows as much is given no more moves: bounds the increments

ASSUME LocalAssumption ==
    /\ Setups \subseteq [board : BOOLEAN, bot : Color \cup {"nobody"}, timed : BOOLEAN]
    /\ Initial \in Nat \ {0} /\ Increment \in Nat
    /\ Starts \subseteq Position
    /\ \A b \in Board : \A group \in Promotions[b] : group \subseteq Legal[b]

\* ParsePGN leaves a game after its last move.
ASSUME LoadAssumption ==
    \A g \in Loads : /\ g \in GameRecord
                     /\ Len(g.positions) = Len(g.moves) + 1
                     /\ g.cursor = Len(g.moves)

ASSUME AlternationAssumption ==
    \A b \in Board : \A mv \in Legal[b] : Turn[After[b][mv]] = Other(Turn[b])

VARIABLES
    setup,          \* board: interactive; bot: its side or "nobody"; timed
    clock,
    timeout,        \* how the session was decided beside the board; a loser on time or "none"
    ui,             \* [promotion: the choices offered, confirmNew]
    phase,          \* "loop", "thinking", "input", "typing" or "ended"
    due,            \* when the timer or the bot's context ends
    now,
    exact,          \* observer: nothing has happened that ClockIsExact excepts
    thought,        \* observer: the time a side was to move, while exact
    ran,            \* observer: the time a side's clock has run
    spared,         \* observer: the time a side was to move and its clock did not run
    granted         \* observer: the increments a side was given

vars == <<setup, game, clock, timeout, ui, phase, due, now, exact, thought, ran, spared, granted>>
observers == <<exact, thought, ran, spared, granted>>

Both(n) == [c \in Color |-> n]
ToMove == Turn[Current(game).board]
HasBot == setup.bot # "nobody"
Ongoing == timeout = "none" /\ ResultOf(game, "casual") = "*"
Within == \A c \in Color : clock.remaining[c] < MaxClock
Room == game.cursor < MaxMoves /\ Within
NoUi == [promotion |-> {}, confirmNew |-> FALSE]

-----------------------------------------------------------------------------
(* The clock. Without one every operation does nothing; while it stands its  *)
(* active side and start mean nothing.                                       *)

Standing(remaining) == [remaining |-> remaining, active |-> "white", started |-> 0, running |-> FALSE]

Reset(c) == Standing(Both(Initial))

Started(c, color) ==
    IF c.running \/ ~setup.timed THEN c
    ELSE [c EXCEPT !.active = color, !.started = now, !.running = TRUE]

Values(c) ==
    [color \in Color |->
        IF c.running /\ c.active = color
        THEN LET left == c.remaining[color] - (now - c.started) IN IF left < 0 THEN 0 ELSE left
        ELSE c.remaining[color]]

Sync(c, color) ==
    IF ~setup.timed THEN c
    ELSE [remaining |-> Values(c), active |-> color, started |-> now, running |-> TRUE]

\* completeMove answers FALSE.
Late(c, color) == setup.timed /\ Values(Started(c, color))[color] <= 0

\* Mutant: the increment goes to the side whose turn it is next.
Completed_ToOpponent(c, color) ==
    IF ~setup.timed THEN c
    ELSE [remaining |-> [Values(Started(c, color)) EXCEPT ![Other(color)] = @ + Increment],
          active |-> Other(color), started |-> now, running |-> TRUE]

Completed(c, color) ==
    IF ~setup.timed THEN c
    ELSE [remaining |-> [Values(Started(c, color)) EXCEPT ![color] = @ + Increment],
          active |-> Other(color), started |-> now, running |-> TRUE]

Stopped(c) == IF ~setup.timed THEN c ELSE Standing(Values(c))

-----------------------------------------------------------------------------
SessionInit ==
    /\ setup \in Setups
    /\ game \in {NewGame(Start)} \cup
              (IF setup.bot = "nobody" /\ ~setup.timed THEN Loads ELSE {})
    /\ clock = Standing(Both(Initial))
    /\ timeout = "none"
    /\ ui = NoUi /\ phase = "loop"
    /\ due = 0 /\ now = 0
    /\ exact = TRUE /\ thought = Both(0)
    /\ ran = Both(0) /\ spared = Both(0) /\ granted = Both(0)

\* An increment more for a side.
Grant(given, color) == IF setup.timed THEN [given EXCEPT ![color] = @ + 1] ELSE given

(* A side loses on time.                                                     *)
Flag(color) ==
    /\ timeout' = color
    /\ clock' = Stopped(Started(clock, color))

(* What follows a move of a side: it is completed, or late and flagged.      *)
MoveDone(color) ==
    IF Late(clock, color)
    THEN Flag(color) /\ UNCHANGED observers
    ELSE /\ clock' = Completed(clock, color)
         /\ granted' = Grant(granted, color)
         /\ UNCHANGED <<timeout, exact, thought, ran, spared>>

-----------------------------------------------------------------------------
(* The head of the loop.                                                     *)

(* At the board a finished game stays, but not one decided beside it.        *)
Ends ==
    /\ phase = "loop"
    /\ timeout # "none" \/ (~setup.board /\ ~Ongoing)
    /\ phase' = "ended"
    /\ UNCHANGED <<setup, game, clock, timeout, ui, due, now, observers>>

\* Mutant: the timer is set by the other side's clock.
Begin_OtherClock ==
    LET started == IF Ongoing THEN Started(clock, ToMove) ELSE clock
    IN  /\ clock' = started
        /\ due' = IF setup.timed /\ Ongoing THEN now + Values(started)[Other(ToMove)] ELSE 0

(* The clock of the side to move starts, and the timer or context with it.   *)
Begin ==
    LET started == IF Ongoing THEN Started(clock, ToMove) ELSE clock
    IN  /\ clock' = started
        /\ due' = IF setup.timed /\ Ongoing THEN now + Values(started)[ToMove] ELSE 0

\* The timer is stopped, the context of the bot cancelled.
Stop == due' = 0

BotAsked ==
    /\ phase = "loop" /\ Ongoing /\ HasBot /\ ToMove = setup.bot
    /\ Begin
    /\ phase' = "thinking"
    /\ UNCHANGED <<setup, game, timeout, ui, now, observers>>

Prompt ==
    /\ phase = "loop" /\ timeout = "none"
    /\ IF Ongoing THEN ToMove # setup.bot ELSE setup.board
    /\ Begin
    /\ phase' = "input"
    /\ UNCHANGED <<setup, game, timeout, ui, now, observers>>

BotMoves(mv) ==
    /\ phase = "thinking" /\ Room
    /\ CanPlay(game, mv, "casual")
    /\ game' = Played(game, mv)
    /\ MoveDone(ToMove)
    /\ phase' = "loop" /\ Stop
    /\ UNCHANGED <<setup, ui, now>>

(* The context of the bot's move ends: its flag, or an error of the session  *)
(* if the clock does not show it.                                            *)
BotStopped ==
    /\ phase = "thinking" /\ setup.timed /\ now >= due
    /\ IF Values(clock)[ToMove] <= 0
       THEN Flag(ToMove) /\ phase' = "loop"
       ELSE phase' = "ended" /\ UNCHANGED <<clock, timeout>>
    /\ Stop
    /\ UNCHANGED <<setup, game, ui, now, observers>>

FlagFalls ==
    /\ phase = "input" /\ setup.timed /\ Ongoing /\ now >= due
    /\ Flag(ToMove)
    /\ phase' = "loop" /\ Stop
    /\ UNCHANGED <<setup, game, ui, now, observers>>

(* A command or a key to quit, a signal or the end of the input.             *)
Quit ==
    /\ phase \in {"thinking", "input", "typing"}
    /\ phase' = "ended" /\ Stop
    /\ UNCHANGED <<setup, game, clock, timeout, ui, now, observers>>

-----------------------------------------------------------------------------
(* Taking moves back and restoring them: a bot's and a person's together.    *)

Steps == IF HasBot THEN 2 ELSE 1

CanTravel(redo) == IF redo THEN game.cursor + Steps <= Len(game.moves) ELSE game.cursor >= Steps

Travelled(redo) ==
    IF redo THEN [game EXCEPT !.cursor = @ + Steps]
    ELSE [game EXCEPT !.cursor = @ - Steps, !.result = Undeclared]

\* Mutant: nothing is asked before the first of two steps is taken back.
RolledBack_Unasked(redo) == IF ~redo /\ CanUndo(game) THEN Undone(game) ELSE game

(* A redo that cannot be completed is taken back by Undo, which also forgets *)
(* a declared result; an undo is refused before its first step.              *)
RolledBack(redo) == IF redo /\ CanRedo(game) THEN Undone(Redone(game)) ELSE game

(* The side that is now to move has the clock.                               *)
Travel(redo) ==
    LET g == Travelled(redo)
    IN  IF CanTravel(redo)
        THEN game' = g /\ clock' = Sync(clock, Turn[g.positions[g.cursor + 1].board])
        ELSE game' = RolledBack(redo) /\ UNCHANGED clock

Fresh(g) ==
    /\ game' = g /\ clock' = Reset(clock)
    /\ timeout' = "none"
    /\ exact' = TRUE /\ thought' = Both(0)
    /\ ran' = Both(0) /\ spared' = Both(0) /\ granted' = Both(0)

Inexact == exact' = FALSE /\ thought' = Both(0)

-----------------------------------------------------------------------------
(* Commands, of a line or after a colon. Each says whether it succeeded: one *)
(* that does clears what the board had pending.                              *)

Reading == phase = IF setup.board THEN "typing" ELSE "input"

\* Mutant: a promotion stays on offer while a command changes the game.
Command_KeepsPending(ok) ==
    /\ Reading
    /\ phase' = "loop" /\ Stop
    /\ UNCHANGED <<setup, now, ui>>

Command(ok) ==
    /\ Reading
    /\ phase' = "loop" /\ Stop
    /\ UNCHANGED <<setup, now>>
    /\ ui' = IF ok THEN NoUi ELSE ui

(* help, moves, theme, flip, save, and whatever is refused.                  *)
CommandSaysOnly(ok) ==
    /\ Command(ok)
    /\ UNCHANGED <<game, clock, timeout, observers>>

CommandMove(mv) ==
    /\ Command(TRUE) /\ Room
    /\ CanPlay(game, mv, "casual")
    /\ game' = Played(game, mv)
    /\ MoveDone(ToMove)

CommandUndo ==
    /\ Command(CanTravel(FALSE))
    /\ Travel(FALSE)
    /\ UNCHANGED <<timeout, observers>>

(* The list of moves has grown: the loop takes that for a move of the side   *)
(* that was to move, on the clock Travel has already handed over.            *)
CommandRedo ==
    /\ Within
    /\ Command(CanTravel(TRUE))
    /\ game' = IF CanTravel(TRUE) THEN Travelled(TRUE) ELSE RolledBack(TRUE)
    /\ IF ~CanTravel(TRUE) THEN UNCHANGED <<clock, timeout, observers>>
       ELSE LET synced == Sync(clock, Turn[game'.positions[game'.cursor + 1].board])
            IN  /\ IF Late(synced, ToMove)
                   THEN timeout' = ToMove /\ clock' = Stopped(synced) /\ UNCHANGED granted
                   ELSE /\ clock' = Completed(synced, ToMove) /\ UNCHANGED timeout
                        /\ granted' = Grant(granted, ToMove)
                /\ Inexact /\ UNCHANGED <<ran, spared>>

CommandDecides(how) ==
    /\ Ongoing
    /\ Command(TRUE)
    /\ timeout' = how
    /\ UNCHANGED <<game, clock, observers>>

CommandClaims ==
    /\ timeout = "none" /\ CanClaimDraw(game)
    /\ Command(TRUE)
    /\ game' = [game EXCEPT !.result = "1/2-1/2"]
    /\ timeout' = "claimed"
    /\ UNCHANGED <<clock, observers>>

CommandFEN(start) ==
    /\ Command(TRUE)
    /\ Fresh(NewGame(start))

(* A loaded game that is longer than the old one is taken for a move, too.   *)
CommandLoad(g) ==
    /\ Command(TRUE)
    /\ IF g.cursor <= game.cursor THEN Fresh(g)
       ELSE /\ game' = g
            /\ clock' = Completed(Reset(clock), ToMove)
            /\ timeout' = "none"
            /\ Inexact
            /\ ran' = Both(0) /\ spared' = Both(0) /\ granted' = Grant(Both(0), ToMove)

Commands ==
    \/ \E ok \in BOOLEAN : CommandSaysOnly(ok)
    \/ \E mv \in Move : CommandMove(mv)
    \/ CommandUndo \/ CommandRedo
    \/ \E how \in {"resigned", "agreed"} : CommandDecides(how)
    \/ CommandClaims
    \/ \E start \in Starts : CommandFEN(start)
    \/ \E g \in Loads : CommandLoad(g)

-----------------------------------------------------------------------------
(* Keys at the board.                                                        *)

Pressed == phase = "input" /\ setup.board

KeyCommand ==
    /\ Pressed
    /\ phase' = "typing" /\ Stop
    /\ UNCHANGED <<setup, game, clock, timeout, ui, now, observers>>

Key == Pressed /\ phase' = "loop" /\ Stop /\ UNCHANGED <<setup, now>>
Free == ui = NoUi

PlayInteractiveMove(mv) ==
    /\ Room
    /\ CanPlay(game, mv, "casual")
    /\ game' = Played(game, mv)
    /\ MoveDone(ToMove)
    /\ ui' = [ui EXCEPT !.promotion = {}]

(* The second square of a move; a promotion asks for the piece.              *)
KeySelect(mv) ==
    /\ Key /\ Free /\ ResultOf(game, "casual") = "*"
    /\ mv \in Legal[Current(game).board]
    /\ \/ /\ \E group \in Promotions[Current(game).board] :
                mv \in group /\ ui' = [ui EXCEPT !.promotion = group]
          /\ UNCHANGED <<game, clock, timeout, observers>>
       \/ /\ \A group \in Promotions[Current(game).board] : mv \notin group
          /\ PlayInteractiveMove(mv)

KeyPromote(mv) ==
    /\ Key /\ mv \in ui.promotion
    /\ PlayInteractiveMove(mv)

(* Escape drops what is pending.                                             *)
KeyEscape ==
    /\ Key
    /\ ui' = NoUi
    /\ UNCHANGED <<game, clock, timeout, observers>>

KeyTravel(redo) ==
    /\ Key /\ Free
    /\ Travel(redo)
    /\ UNCHANGED <<timeout, ui, observers>>

KeyNew ==
    /\ Key /\ ui.promotion = {}
    /\ IF ~ui.confirmNew /\ game.cursor > 0 /\ Ongoing
       THEN ui' = [ui EXCEPT !.confirmNew = TRUE] /\ UNCHANGED <<game, clock, timeout, observers>>
       ELSE ui' = NoUi /\ Fresh(NewGame(Start))

Keys ==
    \/ KeyCommand \/ KeyEscape \/ KeyNew
    \/ \E mv \in Move : KeySelect(mv) \/ KeyPromote(mv)
    \/ \E redo \in BOOLEAN : KeyTravel(redo)

-----------------------------------------------------------------------------
(* Time passes while the program waits.                                      *)

OneMore(time, color) == [time EXCEPT ![color] = @ + 1]
Charged == clock.running /\ clock.active = ToMove

Tick ==
    /\ phase \in {"thinking", "input", "typing"} /\ now < MaxNow
    /\ now' = now + 1
    /\ ran' = IF clock.running THEN OneMore(ran, clock.active) ELSE ran
    /\ IF Ongoing
       THEN /\ thought' = IF exact THEN OneMore(thought, ToMove) ELSE thought
            /\ spared' = IF setup.timed /\ ~Charged THEN OneMore(spared, ToMove) ELSE spared
            /\ UNCHANGED exact
       ELSE /\ IF clock.running THEN Inexact ELSE UNCHANGED <<exact, thought>>
            /\ UNCHANGED spared
    /\ UNCHANGED granted
    /\ UNCHANGED <<setup, game, clock, timeout, ui, phase, due>>

SessionNext ==
    \/ Ends \/ BotAsked \/ Prompt \/ BotStopped \/ FlagFalls \/ Quit
    \/ \E mv \in Move : BotMoves(mv)
    \/ Commands \/ Keys \/ Tick

SessionSpec == SessionInit /\ [][SessionNext]_vars

-----------------------------------------------------------------------------
Allowance(c) == Initial + Increment * granted[c]

(* Whatever is taken back, restored, entered, loaded or typed past the flag, *)
(* a clock shows its side's base time and the increments it was given, less  *)
(* the time it ran: none is lost or counted twice in handing it over. And it *)
(* ran just while its side was to move, but in three cases where the code    *)
(* charges time to the wrong side (exact is over): after a redo by command   *)
(* and after loading a longer game, since the loop takes both for a move of  *)
(* the side that was asked (main.go:304-312), and on a finished game left on *)
(* the board, whose clock runs on until a move is taken back.                *)
ClockIsExact ==
    setup.timed /\ timeout = "none" => \A c \in Color :
        /\ Values(clock)[c] = IF ran[c] > Allowance(c) THEN 0 ELSE Allowance(c) - ran[c]
        /\ exact => ran[c] = thought[c]

(* The side that loses on time has had all it was given: its clock ran for   *)
(* that long or, the clock being with the other side by one of the cases     *)
(* above, it was to move meanwhile. Without such a case before, it has been  *)
(* to move for that long itself; after one the code does flag a side for     *)
(* time that was the other's.                                                *)
FlagIsEarned ==
    timeout \in Color =>
        /\ ran[timeout] + spared[timeout] >= Allowance(timeout)
        /\ exact => thought[timeout] >= Allowance(timeout)

(* What a step against a bot may do to the cursor while the positions stay. *)
WholeTurns ==
    HasBot /\ game'.positions = game.positions =>
      LET steps == game'.cursor - game.cursor
      IN  steps \in {-2, 0, 2} \/ (game' \in Loads /\ steps % 2 = 0)

(* Against a bot moves are taken back and restored by whole turns, also when *)
(* half of one is all there is: whoever was to move still is. Only a game    *)
(* that is loaded over its own beginning goes on by more than one turn.      *)
TurnsMoveTogether == [][WholeTurns]_vars

(* The choices on offer are moves of the position on the board, whatever     *)
(* commands are given before the piece is chosen.                            *)
PromotionIsLegal ==
    /\ ui.promotion \subseteq Legal[Current(game).board]
    /\ ui.promotion # {} => ResultOf(game, "casual") = "*"

=============================================================================
