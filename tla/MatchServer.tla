---------------------------- MODULE MatchServer ----------------------------
(***************************************************************************)
(* The match server (src/protocol/server.go, state.go) with a match store  *)
(* behind its persistence hook (src/storage/file.go), as a host runs it    *)
(* (src/cmd/chess/network.go): requests are served concurrently, each in   *)
(* a goroutine of its own, and take the locks Server.mu and Match.mu       *)
(* several times on their way.  One action here is one critical section:   *)
(*                                                                         *)
(*   idle --Create, JoinMatchRequest--> list        (both under Server.mu) *)
(*   idle --Authorize--> apply --Apply--> list      (Server.mu, Match.mu)  *)
(*   list --ListMatches--> export --Export*--> save (Server.mu, Match.mu)  *)
(*   save --Save, SaveFails--> idle                 (no lock)              *)
(*                                                                         *)
(* The main goroutine does the last three on its way out, when the host is *)
(* shut down, and others may still be at work.  The reply of a request is  *)
(* taken with its mutation (the code reads it after releasing the lock):   *)
(* AckedSurvives is about requests between which nothing happens.          *)
(*                                                                         *)
(* A refused request changes nothing but the handler's own step, and is    *)
(* left out where the refusal depends on nothing but the request.          *)
(***************************************************************************)
EXTENDS MatchStore, FiniteSetsExt

CONSTANTS
    MatchID,       \* match identifiers clients use, numbered in their order
    Handler,       \* goroutines serving requests at the same time
    Main,          \* the goroutine that runs the host and shuts it down
    HookMayFail,   \* whether the store may refuse a write (a full disk)
    MaxBusy,       \* bound: goroutines at work at the same time
    MaxMoves,      \* bound: moves per match
    MaxRequests,   \* bound: requests taken up, connections and their ends
    MaxRestarts    \* bound: how often the host ends

ASSUME ServerAssumption ==
    /\ Initial = 0           \* untimed matches: DurableMatch has the clock
    /\ MatchID \subseteq Nat \ {0}
    /\ Main \notin Handler
    /\ HookMayFail \in BOOLEAN
    /\ MaxBusy \in Nat
    /\ MaxMoves \in Nat
    /\ MaxRequests \in Nat
    /\ MaxRestarts \in Nat

VARIABLES
    up,        \* a host process is running
    matches,   \* Server.matches, a function on the registered identifiers
    sessions,  \* Server.sessions, a function on the known players
    handler,   \* [Goroutine -> what it is doing]
    disk,      \* the store file, a function on the saved identifiers
    requests, restarts,
    (* Observability. *)
    acked,     \* what clients were told had been done
    joined,    \* [Player -> the match the player joined last]
    overlap    \* requests have been served at the same time

vars == <<up, matches, sessions, handler, disk, requests, restarts, acked, joined, overlap>>

Goroutine == Handler \cup {Main}

None == "none"
NoMatch == 0   \* the empty Session.MatchID

\* A player asks for a seat, or to watch.
Role == Color \cup {"spectator"}

\* What a client may ask a handler to do to a match it has joined.
Operation ==
    [kind : {"move"}, sequence : 0 .. MaxMoves - 1, move : Move]
        \cup [kind : {"resign", "draw"}]

\* The function f, with x mapped to y whether or not x is in its domain.
With(f, x, y) == [z \in DOMAIN f \cup {x} |-> IF z = x THEN y ELSE f[z]]

EmptyMap == [x \in {} |-> None]

\* What a committed operation did to its match, as its reply reports it.
Commit(id, m) ==
    [id |-> id, moves |-> m.moves, result |-> m.result, players |-> m.players]

\* The shutdown answers nobody.
NoCommit == [id |-> NoMatch, moves |-> << >>, result |-> "*", players |-> << >>]

Idle == [at |-> "idle"]
Exiting == [at |-> "exit"]
Handling(id, p, op) == [at |-> "apply", id |-> id, player |-> p, op |-> op]
Listing(commit) == [at |-> "list", commit |-> commit]
Exporting(commit, todo, states) ==
    [at |-> "export", commit |-> commit, todo |-> todo, states |-> states]

Init ==
    /\ up = TRUE
    /\ matches = EmptyMap
    /\ sessions = EmptyMap
    /\ handler = [h \in Goroutine |-> Idle]
    /\ disk = EmptyMap
    /\ requests = 0 /\ restarts = 0
    /\ acked = {}
    /\ joined = [p \in Player |-> NoMatch]
    /\ overlap = FALSE

Busy(h) == handler[h] \notin {Idle, Exiting}

\* A goroutine sets out on what ends with a write of the store.
SetsOut(h) ==
    /\ up
    /\ handler[h] = Idle
    /\ Cardinality({other \in Goroutine : Busy(other)}) < MaxBusy
    /\ overlap' = (overlap \/ \E other \in Goroutine \ {h} : Busy(other))

Counted == requests < MaxRequests /\ requests' = requests + 1

\* A goroutine takes up a request.
Begins(h) == SetsOut(h) /\ Counted

-----------------------------------------------------------------------------
(* Sessions.                                                               *)

\* ensureSessionLocked
Attached(p, id) == With(sessions, p, [connected |-> TRUE, match |-> id])

Connect(p) ==
    /\ up
    /\ IF p \in DOMAIN sessions THEN UNCHANGED requests ELSE Counted
    /\ sessions' = With(sessions, p,
                        [connected |-> TRUE,
                         match |-> IF p \in DOMAIN sessions
                                   THEN sessions[p].match ELSE NoMatch])
    /\ UNCHANGED <<up, matches, handler, disk, restarts, acked, joined, overlap>>

Disconnect(p) ==
    /\ up /\ Counted
    /\ p \in DOMAIN sessions
    /\ sessions' = With(sessions, p,
                        [connected |-> FALSE, match |-> sessions[p].match])
    /\ UNCHANGED <<up, matches, handler, disk, restarts, acked, joined, overlap>>

Authorized(p, id) ==
    /\ p \in DOMAIN sessions
    /\ sessions[p].connected
    /\ sessions[p].match = id

-----------------------------------------------------------------------------
(* Requests.                                                               *)

Join(m, p, role) ==
    IF role = "spectator" THEN JoinSpectator(m, p) ELSE JoinMatch(m, p, role, 0)

\* The creator may stay outside.
Create(h, id, p, role) ==
    LET created == IF p = NoPlayer THEN NewMatch ELSE Join(NewMatch, p, role).match
    IN  /\ Begins(h)
        /\ id \notin DOMAIN matches
        /\ matches' = With(matches, id, created)
        /\ IF p = NoPlayer THEN UNCHANGED <<sessions, joined>>
           ELSE sessions' = Attached(p, id) /\ joined' = [joined EXCEPT ![p] = id]
        /\ handler' = [handler EXCEPT ![h] = Listing(Commit(id, created))]
        /\ UNCHANGED <<up, disk, restarts, acked>>

JoinMatchRequest(h, id, p, role) ==
    LET outcome == Join(matches[id], p, role)
    IN  /\ Begins(h)
        /\ id \in DOMAIN matches
        /\ outcome.err = OK
        /\ matches' = [matches EXCEPT ![id] = outcome.match]
        /\ sessions' = Attached(p, id)
        /\ joined' = [joined EXCEPT ![p] = id]
        /\ handler' = [handler EXCEPT ![h] = Listing(Commit(id, outcome.match))]
        /\ UNCHANGED <<up, disk, restarts, acked>>

\* matchFor and authorizeSession: a registered match stays registered, so the
\* two lookups are as one.
Authorize(h, id, p, op) ==
    /\ Begins(h)
    /\ id \in DOMAIN matches
    /\ Authorized(p, id)
    /\ handler' = [handler EXCEPT ![h] = Handling(id, p, op)]
    /\ UNCHANGED <<up, matches, sessions, disk, restarts, acked, joined>>

\* The match operation a handler has been authorized for.
Perform(m, p, op) ==
    CASE op.kind = "move" ->
           ApplyMove(m, [player |-> p, sequence |-> op.sequence,
                         hash |-> Hash[m.position], move |-> op.move], 0)
      [] op.kind = "resign" -> Resign(m, p, 0)
      [] op.kind = "draw" -> OfferDraw(m, p, 0)

Apply(h) ==
    LET id == handler[h].id
        outcome == Perform(matches[id], handler[h].player, handler[h].op)
    IN  /\ handler[h].at = "apply"
        /\ matches' = [matches EXCEPT ![id] = outcome.match]
        /\ handler' = [handler EXCEPT ![h] =
                         IF outcome.err = OK
                         THEN Listing(Commit(id, outcome.match)) ELSE Idle]
        /\ UNCHANGED <<up, sessions, disk, requests, restarts, acked, joined, overlap>>

-----------------------------------------------------------------------------
(* persist(): list the matches, export each, hand all to the hook.         *)

\* runHost returns, by a signal or an error: its deferred SaveServer exports and
\* writes once more.  Shutdown waits for HTTP requests, up to five seconds, and
\* not for WebSocket connections, so requests go on meanwhile.
ShutDown ==
    /\ SetsOut(Main)
    /\ restarts < MaxRestarts
    /\ handler' = [handler EXCEPT ![Main] = Listing(NoCommit)]
    /\ UNCHANGED <<up, matches, sessions, disk, requests, restarts, acked, joined>>

ListMatches(h) ==
    /\ handler[h].at = "list"
    /\ handler' = [handler EXCEPT ![h] =
                     Exporting(handler[h].commit, DOMAIN matches, EmptyMap)]
    /\ UNCHANGED <<up, matches, sessions, disk, requests, restarts, acked, joined, overlap>>

\* ExportState walks a Go map: the matches come in any order.
Export(h) ==
    /\ handler[h].at = "export"
    /\ \E id \in handler[h].todo :
         LET states == With(handler[h].states, id, MatchState(matches[id]))
         IN  handler' = [handler EXCEPT ![h] =
                           Exporting(handler[h].commit, handler[h].todo \ {id}, states)]
    /\ UNCHANGED <<up, matches, sessions, disk, requests, restarts, acked, joined, overlap>>

Exported(h) == handler[h].at = "export" /\ handler[h].todo = {}

\* One state of a match is a past of another: its line is a beginning of the
\* other's, its outcome is final and its seats stay taken.
Past(a, b) ==
    /\ IsPrefix(a.moves, b.moves)
    /\ a.result # "*" => b.result = a.result /\ b.moves = a.moves
    /\ \A c \in Color : a.players[c] # NoPlayer => b.players[c] = a.players[c]

\* What clients have been told, up to what later replies include.
Told(commit) ==
    LET Includes(a, b) == a.id = b.id /\ Past(b, a)
    IN  IF \E a \in acked : Includes(a, commit) THEN acked
        ELSE {a \in acked : ~Includes(commit, a)} \cup {commit}

\* The client is answered, or the main goroutine returns.
Leaves(h) == handler' = [handler EXCEPT ![h] = IF h = Main THEN Exiting ELSE Idle]

\* SaveStates renames a complete file over the old one.
Save(h) ==
    /\ Exported(h)
    /\ disk' = handler[h].states
    /\ acked' = IF h = Main THEN acked ELSE Told(handler[h].commit)
    /\ Leaves(h)
    /\ UNCHANGED <<up, matches, sessions, requests, restarts, joined, overlap>>

\* Mutant: the error of the hook is dropped.
SaveFails_Acks(h) ==
    /\ HookMayFail
    /\ Exported(h)
    /\ acked' = IF h = Main THEN acked ELSE Told(handler[h].commit)
    /\ Leaves(h)
    /\ UNCHANGED <<up, matches, sessions, disk, requests, restarts, joined, overlap>>

\* The request is answered with an error although it has been carried out; of
\* the last save nobody hears.
SaveFails(h) ==
    /\ HookMayFail
    /\ Exported(h)
    /\ Leaves(h)
    /\ UNCHANGED <<up, matches, sessions, disk, requests, restarts, acked, joined, overlap>>

-----------------------------------------------------------------------------
\* The process ends, between any two steps of its goroutines: it is killed, or
\* its main goroutine has returned.
Crash ==
    /\ up
    /\ restarts < MaxRestarts
    /\ up' = FALSE
    /\ matches' = EmptyMap
    /\ sessions' = EmptyMap
    /\ handler' = [h \in Goroutine |-> Idle]
    /\ UNCHANGED <<disk, requests, restarts, acked, joined, overlap>>

SeatedIn(p) == {id \in DOMAIN disk : \E c \in Color : disk[id].players[c] = p}

\* Mutant: the first match in the order of the file is kept.
Rebuilt_First(p) == Min(SeatedIn(p))

\* The session RestoreState makes: a player seated in several matches is
\* attached to the last of them in the order of the file, which is ID order.
Rebuilt(p) == Max(SeatedIn(p))

Restart ==
    /\ ~up
    /\ \A id \in DOMAIN disk : Restorable(disk[id])
    /\ up' = TRUE
    /\ restarts' = restarts + 1
    /\ matches' = [id \in DOMAIN disk |-> MatchFromState(disk[id], 0)]
    /\ sessions' = [p \in {q \in Player : SeatedIn(q) # {}} |->
                      [connected |-> FALSE, match |-> Rebuilt(p)]]
    /\ UNCHANGED <<handler, disk, requests, acked, joined, overlap>>

Next ==
    \/ \E p \in Player : Connect(p)
    \/ \E p \in Player : Disconnect(p)
    \/ \E h \in Handler, id \in MatchID, p \in Seat, role \in Role :
         Create(h, id, p, role)
    \/ \E h \in Handler, id \in MatchID, p \in Player, role \in Role :
         JoinMatchRequest(h, id, p, role)
    \/ \E h \in Handler, id \in MatchID, p \in Player, op \in Operation :
         Authorize(h, id, p, op)
    \/ \E h \in Handler : Apply(h)
    \/ ShutDown
    \/ \E h \in Goroutine : ListMatches(h)
    \/ \E h \in Goroutine : Export(h)
    \/ \E h \in Goroutine : Save(h)
    \/ \E h \in Goroutine : SaveFails(h)
    \/ Crash
    \/ Restart

Spec == Init /\ [][Next]_vars

-----------------------------------------------------------------------------
(* Properties.                                                             *)

\* server.go:26-28: a session names "the match they last joined".  It does while
\* the host runs.  One that a restart has rebuilt leads to a match its player
\* sits in, which is another one if the last join was not saved or was only to
\* watch, and also if he sits in a match of a higher ID, although he left that
\* one before: but never to one of a lower ID than that of the match he joined
\* last and still sits in.
SessionsLeadToMatches ==
    \A p \in DOMAIN sessions :
      LET id == sessions[p].match
          last == joined[p]
          Sits(x) == x \in DOMAIN matches /\ Seated(matches[x], p)
      IN  id # NoMatch =>
            \/ /\ id = last /\ id \in DOMAIN matches
               /\ Seated(matches[id], p) \/ p \in matches[id].spectators
            \/ Sits(id) /\ (Sits(last) => last < id)

\* The store never runs ahead of the server or tells another story, however
\* the exports of concurrent requests overlap with the moves of others.
StoreIsPast ==
    up => \A id \in DOMAIN disk :
            id \in DOMAIN matches /\ Past(disk[id], matches[id])

\* What a client was told had been done is in the store, so that no crash
\* undoes it: as long as requests are served one after the other, whatever
\* the store has refused before.
AckedSurvives ==
    ~overlap => \A a \in acked : a.id \in DOMAIN disk /\ Past(a, disk[a.id])

\* state.go: the persistence hook is "invoked after every server-side match
\* mutation"; so once all requests are answered the store has every mutation.
QuietMeansStored ==
    up /\ (\A h \in Goroutine : ~Busy(h)) =>
      /\ DOMAIN disk = DOMAIN matches
      /\ \A id \in DOMAIN matches : disk[id] = MatchState(matches[id])
=============================================================================
