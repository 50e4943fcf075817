----------------------------- MODULE MatchStore -----------------------------
(***************************************************************************)
(* The durable form of a match (src/protocol/state.go): what State()       *)
(* writes, what NewMatchFromState accepts, and the match it rebuilds.      *)
(* Durations are written in whole milliseconds, instants exactly; the      *)
(* flag (expired) is not written at all.                                   *)
(***************************************************************************)
EXTENDS MatchOps

CONSTANT Ms   \* clock ticks in a millisecond

\* CreateMatchRequest carries whole milliseconds.
ASSUME MsAssumption ==
    /\ Ms \in Nat \ {0}
    /\ Initial % Ms = 0
    /\ Increment % Ms = 0

NoInstant == -1   \* the zero time.Time

\* Mutant: rounds up.
DurationMillis_RoundsUp(d) == IF d <= 0 THEN 0 ELSE (d + Ms - 1) \div Ms

\* durationMillis rounds down, and a negative duration to zero.
DurationMillis(d) == IF d <= 0 THEN 0 ELSE d \div Ms

\* State() of a match whose clock is settled.
MatchState(m) ==
    [initialFEN     |-> Start,
     fen            |-> m.position,
     sequence       |-> m.sequence,
     moves          |-> m.moves,
     players        |-> m.players,
     spectators     |-> m.spectators,
     result         |-> m.result,
     drawOfferedBy  |-> m.drawOfferedBy,
     clockInitial   |-> DurationMillis(Initial),
     clockIncrement |-> DurationMillis(Increment),
     times          |-> [c \in Color |->
                          IF Initial > 0 THEN DurationMillis(m.remaining[c]) ELSE 0],
     clockRunning   |-> Initial > 0 /\ Live(m),
     clockStartedAt |-> IF Initial > 0 /\ m.running THEN m.startedAt ELSE NoInstant]

ClockRestorable(st) ==
    IF st.clockInitial = 0
    THEN /\ st.clockIncrement = 0
         /\ \A c \in Color : st.times[c] = 0
         /\ ~st.clockRunning
    ELSE /\ \A c \in Color : st.times[c] <= st.clockInitial
         /\ st.clockIncrement <= st.clockInitial

Restorable(st) ==
    /\ st.sequence = Len(st.moves)
    /\ st.players["white"] # NoPlayer => st.players["white"] # st.players["black"]
    /\ \A c \in Color : st.players[c] \notin st.spectators
    /\ ClockRestorable(st)
    /\ LegalLine(st.initialFEN, st.moves)
    /\ Replay(st.initialFEN, st.moves) = st.fen

RestoredResult(st) ==
    IF st.result # "*" THEN st.result ELSE PositionResult(st.initialFEN)

\* The restored clock runs, and since when.
RestoredRunning(st) ==
    st.clockInitial > 0 /\ st.clockRunning /\ RestoredResult(st) = "*"

\* Mutant: the clock of a restored match starts again at now.
RestoredStart_Afresh(st, now) == IF st.clockInitial = 0 THEN 0 ELSE now

RestoredStart(st, now) ==
    IF st.clockInitial = 0 THEN 0
    ELSE IF RestoredRunning(st) /\ st.clockStartedAt = NoInstant THEN now
    ELSE st.clockStartedAt

\* NewMatchFromState of a restorable state, at time now.
MatchFromState(st, now) ==
    [position      |-> Replay(st.initialFEN, st.moves),
     sequence      |-> st.sequence,
     moves         |-> st.moves,
     players       |-> st.players,
     spectators    |-> st.spectators,
     result        |-> RestoredResult(st),
     drawOfferedBy |-> st.drawOfferedBy,
     remaining     |-> [c \in Color |-> st.times[c] * Ms],
     startedAt     |-> RestoredStart(st, now),
     running       |-> RestoredRunning(st),
     expired       |-> FALSE]
=============================================================================
