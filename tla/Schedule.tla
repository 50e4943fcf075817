------------------------------ MODULE Schedule ------------------------------
(* What tournament.RunPlayers promises: every pair of players meets in every *)
(* one of its games, once and in order, with colours alternated; the run     *)
(* reports all the games or none.                                            *)
EXTENDS Integers, Sequences

CONSTANT Pairings       \* [players: a sequence without repetitions, gamesPerPair]

VARIABLES pairing, met, played, outcome

schedule == <<pairing, met, played, outcome>>

Results == {"1-0", "0-1", "1/2-1/2"}

(* The meetings of a tournament, two places in the list and a number each,   *)
(* and the order they come in.                                               *)
Meetings ==
    LET n == Len(pairing.players)
    IN  {m \in (1..n) \X (1..n) \X (1..pairing.gamesPerPair) : m[1] < m[2]}

Before(a, b) ==
    \/ a[1] < b[1]
    \/ a[1] = b[1] /\ a[2] < b[2]
    \/ a[1] = b[1] /\ a[2] = b[2] /\ a[3] < b[3]

Init == pairing \in Pairings /\ met = {} /\ played = <<>> /\ outcome = "running"

(* The next meeting in that order; the first player has white in odd games.  *)
PlayFixture(meeting, result) ==
    /\ outcome = "running" /\ meeting \notin met
    /\ \A earlier \in Meetings : Before(earlier, meeting) => earlier \in met
    /\ met' = met \cup {meeting}
    /\ LET first == pairing.players[meeting[1]]
           second == pairing.players[meeting[2]]
           odd == meeting[3] % 2 = 1
       IN  played' = Append(played, [number |-> Len(played) + 1,
                                     white |-> IF odd THEN first ELSE second,
                                     black |-> IF odd THEN second ELSE first,
                                     result |-> result])
    /\ UNCHANGED <<pairing, outcome>>

Report ==
    /\ outcome = "running" /\ met = Meetings
    /\ outcome' = "reported" /\ UNCHANGED <<pairing, met, played>>

(* A failure, or the end of the context, loses the games played before it,   *)
(* but not a tournament that has come to its end.                            *)
Fail ==
    /\ outcome = "running" /\ met # Meetings
    /\ outcome' = "failed" /\ UNCHANGED <<pairing, met, played>>

Next ==
    \/ \E meeting \in Meetings, result \in Results : PlayFixture(meeting, result)
    \/ Report
    \/ Fail

Spec == Init /\ [][Next]_schedule

=============================================================================
