---------------------------- MODULE Matchmaking ----------------------------
(***************************************************************************)
(* Matchmaking on a match server (src/protocol/matchmaking.go).  A call    *)
(* reads the caller's session, lists the matches, tries their open seats   *)
(* in order and, failing that, takes a fresh number and creates a waiting  *)
(* match.  Every one of these steps takes Server.mu or Match.mu anew, so   *)
(* other calls, explicit joins and creations, and the games themselves     *)
(* come in between.                                                        *)
(*                                                                         *)
(* Whether a session is connected does not matter here: the call connects  *)
(* it.  Persistence is the business of MatchServer.                        *)
(***************************************************************************)
EXTENDS MatchOps, FiniteSetsExt

CONSTANTS
    Seeker,        \* goroutines serving a matchmaking call
    Asking,        \* [Seeker -> Player]: who calls
    Wants,         \* [Seeker -> {"any", "white", "black"}]: the colour asked for
    Guest,         \* players who create, join or leave matches by name
    Named,         \* the match numbers guests use
    MaxMatches,    \* bound: match numbers; enough for every call
    Rank           \* [MatchID -> Nat]: where sort.Strings puts the name of a match

NoMatch == 0
MatchID == 1 .. MaxMatches

ASSUME MatchmakingAssumption ==
    /\ Initial = 0
    /\ Asking \in [Seeker -> Player]
    /\ Wants \in [Seeker -> {"any"} \cup Color]
    /\ Guest \subseteq Player
    /\ MaxMatches \in Nat
    /\ Named \subseteq MatchID
    /\ Cardinality(Named) + Cardinality(Seeker) <= MaxMatches
    /\ Rank \in [MatchID -> Nat]
    /\ IsInjective(Rank)

VARIABLES
    matches,      \* Server.matches, a function on the match numbers in use
    sessions,     \* [Player -> the match of the session, NoMatch without one]
    nextMatchID,  \* Server.nextMatchID
    seeker,       \* [Seeker -> where the call is]
    (* Observability. *)
    overlapped    \* whether anything has come between two steps of a call

vars == <<matches, sessions, nextMatchID, seeker, overlapped>>

With(f, x, y) == [z \in DOMAIN f \cup {x} |-> IF z = x THEN y ELSE f[z]]

Init ==
    /\ matches = [id \in {} |-> NewMatch]
    /\ sessions = [p \in Player |-> NoMatch]
    /\ nextMatchID = 0
    /\ seeker = [s \in Seeker |-> [at |-> "idle"]]
    /\ overlapped = FALSE

\* The call is answered: with a match, with an error (NoMatch), and whether
\* the answer is a seat the call has just taken.
Answered(id, taken) == [at |-> "done", match |-> id, taken |-> taken]

-----------------------------------------------------------------------------
(* One matchmaking call.                                                   *)

Underway(s) == seeker[s].at \notin {"idle", "done"}

\* Mutant: does not look for a match the caller already has.
Ask_SessionUnread(s) ==
    /\ seeker[s].at = "idle"
    /\ seeker' = [seeker EXCEPT ![s] = [at |-> "list"]]
    /\ UNCHANGED <<matches, sessions, nextMatchID>>

\* A caller whose session has a match gets that match.
Ask(s) ==
    LET id == sessions[Asking[s]]
    IN  /\ seeker[s].at = "idle"
        /\ seeker' = [seeker EXCEPT ![s] =
                        IF id # NoMatch THEN Answered(id, FALSE) ELSE [at |-> "list"]]
        /\ UNCHANGED <<matches, sessions, nextMatchID>>

\* Mutant: an off-by-one, the last match is never looked at.
List_SkipsLast(s) ==
    /\ seeker[s].at = "list"
    /\ seeker' = [seeker EXCEPT ![s] =
                    [at |-> "scan",
                     todo |-> {id \in DOMAIN matches :
                                 \E last \in DOMAIN matches : id < last}]]
    /\ UNCHANGED <<matches, sessions, nextMatchID>>

List(s) ==
    /\ seeker[s].at = "list"
    /\ seeker' = [seeker EXCEPT ![s] = [at |-> "scan", todo |-> DOMAIN matches]]
    /\ UNCHANGED <<matches, sessions, nextMatchID>>

\* openSeat: the seats of a match a caller may be sent to, the first counts.
Acceptable(want) == IF want = "any" THEN Color ELSE {want}
OpenSeats(m, want) == {c \in Acceptable(want) : m.players[c] = NoPlayer}
FirstSeat(seats) == IF "white" \in seats THEN "white" ELSE "black"

\* The match whose name comes first.
First(ids) == CHOOSE id \in ids : \A other \in ids : Rank[id] <= Rank[other]

\* Mutant: a full match is looked at again and again.
Scan_Stuck(s) ==
    LET id   == First(seeker[s].todo)
        open == OpenSeats(matches[id], Wants[s])
    IN  /\ seeker[s].at = "scan"
        /\ seeker[s].todo # {}
        /\ open # {}
        /\ seeker' = [seeker EXCEPT ![s] =
                        [at |-> "join", todo |-> @.todo, match |-> id,
                         seat |-> FirstSeat(open)]]
        /\ UNCHANGED <<matches, sessions, nextMatchID>>

Scan(s) ==
    LET id   == First(seeker[s].todo)
        open == OpenSeats(matches[id], Wants[s])
    IN  /\ seeker[s].at = "scan"
        /\ seeker[s].todo # {}
        /\ seeker' = [seeker EXCEPT ![s] =
                        IF open = {} THEN [@ EXCEPT !.todo = seeker[s].todo \ {id}]
                        ELSE [at |-> "join", todo |-> @.todo, match |-> id,
                              seat |-> FirstSeat(open)]]
        /\ UNCHANGED <<matches, sessions, nextMatchID>>

\* The seat may have been taken since; then the next match is tried.
TakeSeat(s) ==
    LET id     == seeker[s].match
        joined == JoinMatch(matches[id], Asking[s], seeker[s].seat, 0)
    IN  /\ seeker[s].at = "join"
        /\ \/ /\ joined.err = OK
              /\ matches' = [matches EXCEPT ![id] = joined.match]
              /\ sessions' = [sessions EXCEPT ![Asking[s]] = id]
              /\ seeker' = [seeker EXCEPT ![s] = Answered(id, TRUE)]
           \/ /\ joined.err # OK
              /\ seeker' = [seeker EXCEPT ![s] =
                              [at |-> "scan", todo |-> @.todo \ {id}]]
              /\ UNCHANGED <<matches, sessions>>
        /\ UNCHANGED nextMatchID

\* newMatchID counts on to the next number not in use.
Unused == {id \in MatchID : id > nextMatchID /\ id \notin DOMAIN matches}
FreshNumber == Min(Unused)

NumberMatch(s) ==
    /\ seeker[s].at = "scan"
    /\ seeker[s].todo = {}
    /\ Unused # {}
    /\ nextMatchID' = FreshNumber
    /\ seeker' = [seeker EXCEPT ![s] = [at |-> "create", match |-> FreshNumber]]
    /\ UNCHANGED <<matches, sessions>>

\* Mutant: whoever waits plays white.
WaitingSeat_White(want) == "white"

WaitingSeat(want) == IF want = "black" THEN "black" ELSE "white"

\* Somebody may have created a match of that name by now: then the call fails.
CreateWaiting(s) ==
    LET id == seeker[s].match
    IN  /\ seeker[s].at = "create"
        /\ \/ /\ id \notin DOMAIN matches
              /\ matches' = With(matches, id,
                                 JoinMatch(NewMatch, Asking[s], WaitingSeat(Wants[s]), 0).match)
              /\ sessions' = [sessions EXCEPT ![Asking[s]] = id]
              /\ seeker' = [seeker EXCEPT ![s] = Answered(id, TRUE)]
           \/ /\ id \in DOMAIN matches
              /\ seeker' = [seeker EXCEPT ![s] = Answered(NoMatch, FALSE)]
              /\ UNCHANGED <<matches, sessions>>
        /\ UNCHANGED nextMatchID

SeekerStep(s) ==
    Ask(s) \/ List(s) \/ Scan(s) \/ TakeSeat(s) \/ NumberMatch(s) \/ CreateWaiting(s)

-----------------------------------------------------------------------------
(* What else goes on: guests who name the match, and games that end.       *)

CreateNamed(p, id, c) ==
    /\ id \notin DOMAIN matches
    /\ matches' = With(matches, id, JoinMatch(NewMatch, p, c, 0).match)
    /\ sessions' = [sessions EXCEPT ![p] = id]
    /\ UNCHANGED <<nextMatchID, seeker>>

JoinNamed(p, id, c) ==
    LET joined == JoinMatch(matches[id], p, c, 0)
    IN  /\ id \in DOMAIN matches
        /\ joined.err = OK
        /\ matches' = [matches EXCEPT ![id] = joined.match]
        /\ sessions' = [sessions EXCEPT ![p] = id]
        /\ UNCHANGED <<nextMatchID, seeker>>

PlayerResigns(p) ==
    LET id == sessions[p]
    IN  /\ id # NoMatch
        /\ Resign(matches[id], p, 0).err = OK
        /\ matches' = [matches EXCEPT ![id] = Resign(matches[id], p, 0).match]
        /\ UNCHANGED <<sessions, nextMatchID, seeker>>

\* The observer: does this step come between two steps of somebody's call?
Between(callers) == overlapped' = (overlapped \/ \E t \in callers : Underway(t))

SeekerMoves(s) == SeekerStep(s) /\ Between(Seeker \ {s})

Next ==
    \/ \E s \in Seeker : SeekerMoves(s)
    \/ \E p \in Guest, id \in Named, c \in Color :
         CreateNamed(p, id, c) /\ Between(Seeker)
    \/ \E p \in Guest, id \in MatchID, c \in Color :
         JoinNamed(p, id, c) /\ Between(Seeker)
    \/ \E p \in Guest : PlayerResigns(p) /\ Between(Seeker)

\* A goroutine that serves a request keeps running.
Spec == Init /\ [][Next]_vars /\ \A s \in Seeker : WF_vars(SeekerMoves(s))

-----------------------------------------------------------------------------
(* Properties.                                                             *)

SeatsOf(p) == {id \in DOMAIN matches : Seated(matches[id], p)}
Seeking == {Asking[s] : s \in Seeker} \ Guest

\* A player who is only ever matched by the server sits in one match at most,
\* however often the request is repeated, as long as no call overlaps another.
OneMatchPerSeeker ==
    ~overlapped => \A p \in Seeking : Cardinality(SeatsOf(p)) <= 1

TookSeat(s) == seeker[s].at = "done" /\ seeker[s].taken

\* A call that takes a seat takes one of the colour asked for and keeps it,
\* whatever comes between its steps.  The session of its caller, unless he also
\* joins matches by name, leads to a seat that he was given: by this call, if
\* it is his only one, otherwise perhaps by another that overlapped with it.
SeatAsAsked ==
    \A s \in Seeker :
      TookSeat(s) =>
        /\ \E c \in Acceptable(Wants[s]) :
              matches[seeker[s].match].players[c] = Asking[s]
        /\ Asking[s] \notin Guest =>
              \E t \in Seeker : /\ Asking[t] = Asking[s] /\ TookSeat(t)
                               /\ seeker[t].match = sessions[Asking[s]]

\* Every call is answered, whatever seats are snatched away from it.
EveryCallAnswered == \A s \in Seeker : <>(seeker[s].at = "done")

Waiting(p, id) ==
    /\ id \in DOMAIN matches
    /\ Seated(matches[id], p)
    /\ \E c \in Color : matches[id].players[c] = NoPlayer

\* docs/api.md: matchmake "pairs a player with the first compatible open seat
\* in stable match ID order, or creates a `match-N` waiting room when none
\* exists".  So as long as calls do not overlap, no answered caller waits alone
\* beside a match of a lower number with an open seat it had asked for.
NobodyWaitsInVain ==
    ~overlapped /\ (\A s \in Seeker : ~Underway(s)) =>
      \A s \in Seeker :
        /\ TookSeat(s)
        /\ Waiting(Asking[s], seeker[s].match)
        => \A id \in DOMAIN matches :
             id < seeker[s].match => OpenSeats(matches[id], Wants[s]) = {}
=============================================================================
