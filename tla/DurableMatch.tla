---------------------------- MODULE DurableMatch ----------------------------
(***************************************************************************)
(* A match kept by a host with a match store: the running match is saved   *)
(* to a file, the process may die at any point, and a later process loads  *)
(* the file and carries on.                                                *)
(*                                                                         *)
(* Save is one step although the code reads the match (State), releases    *)
(* Match.mu and only then renames the file: with one saver at a time,      *)
(* whatever happens in between is as if it came after, because nobody      *)
(* reads the file before the next start.  MatchServer separates the two.   *)
(***************************************************************************)
EXTENDS Match, MatchStore

CONSTANT MaxRestarts   \* bound: restarts of the host

ASSUME RestartAssumption == MaxRestarts \in Nat

VARIABLES
    up,        \* a host process is running
    disk,      \* the match in the store file
    restarts,  \* how many times the host has been restarted
    (* Observability. *)
    saved      \* the ledger that goes with disk: what had really happened by then

durable == <<up, disk, restarts, saved>>
dvars == <<vars, durable>>

Ledger(m) ==
    [spent |-> spent, granted |-> granted, agreed |-> agreed, now |-> now,
     live |-> Live(m)]

\* A match exists for a client once Create has saved it.
DurableInit ==
    /\ Init
    /\ up = TRUE
    /\ disk = MatchState(NewMatch)
    /\ restarts = 0
    /\ saved = Ledger(match)

-----------------------------------------------------------------------------
\* Every operation of the match, and time, while the process runs.
Serve == up /\ Next /\ UNCHANGED durable

\* Any mutation of any match of the server exports this one, too.
Save ==
    LET settled == SyncClock(match, now)
    IN  /\ up
        /\ match' = settled
        /\ disk' = MatchState(settled)
        /\ saved' = Ledger(settled)
        /\ UNCHANGED <<now, ghosts, up, restarts>>

\* The memory of the process is gone: what happened since the last save is
\* forgotten (match is not read again before Restart sets it).
Crash ==
    /\ up
    /\ restarts < MaxRestarts
    /\ up' = FALSE
    /\ match' = NewMatch
    /\ spent' = saved.spent
    /\ granted' = saved.granted
    /\ agreed' = saved.agreed
    /\ UNCHANGED <<now, disk, restarts, saved>>

TickWhileDown ==
    /\ ~up
    /\ now < MaxNow
    /\ now' = now + 1
    /\ UNCHANGED <<match, ghosts, durable>>

\* A store file that does not validate keeps the host from starting.
Restart ==
    /\ ~up
    /\ Restorable(disk)
    /\ up' = TRUE
    /\ restarts' = restarts + 1
    /\ match' = MatchFromState(disk, now)
    \* The clock ran for the side to move in the saved position, down or not.
    /\ spent' = IF saved.live
                THEN [spent EXCEPT ![Turn[disk.fen]] = @ + (now - saved.now)]
                ELSE spent
    /\ UNCHANGED <<now, granted, agreed, disk, saved>>

DurableNext == Serve \/ Save \/ Crash \/ TickWhileDown \/ Restart

DurableSpec == DurableInit /\ [][DurableNext]_dvars

-----------------------------------------------------------------------------
(* Properties.                                                             *)

\* A crash gives nobody time and takes less than a millisecond from anybody:
\* after any number of restarts the clock of an undecided match shows what
\* the real thinking time leaves, downtime included, up to the rounding of
\* each save that was loaded.
ClockSurvivesRestart ==
    up /\ match.result = "*" =>
      \A c \in Color :
        LET exact == Initial + granted[c] - spent[c]
            shown == match.remaining[c] - Pending(match, now, c)
        IN  /\ shown <= exact
            /\ exact - shown <= restarts * (Ms - 1)

\* A flag that fell while the host was down, or that nobody saw before the
\* crash, falls again: a restored match whose mover has no real time left is
\* lost for the mover as soon as anybody looks at it.
FlagSurvivesRestart ==
    up /\ Live(match) =>
      LET mover == Turn[match.position]
      IN  spent[mover] >= Initial + granted[mover] =>
            SyncClock(match, now).result = WinFor(Other(mover))

\* A restored match is one the rules of a match allow: its seats, its line
\* and its draw offer are those of some match that never crashed.
RestoredIsSound ==
    up => SeatsExclusive /\ HistoryReplays /\ DrawIsAgreed

\* What the server writes the next host can load, with two exceptions, which do
\* keep it from starting: NewMatchFromState refuses a clock that shows more than
\* the initial time (state.go:133), which a side has that was granted more by
\* increments than it has spent, and an increment above the initial time,
\* although NewMatchWithClock takes one.
StoreRefusesOnlyBonus ==
    ~Restorable(disk) =>
      \/ Increment > Initial
      \/ \E c \in Color : saved.granted[c] > saved.spent[c]
=============================================================================
