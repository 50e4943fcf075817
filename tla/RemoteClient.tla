---------------------------- MODULE RemoteClient ----------------------------
(***************************************************************************)
(* Clients that play one match over HTTP (runRemote in                     *)
(* src/cmd/chess/network.go over src/transport/client.go and http.go).  A  *)
(* client shows its last snapshot, prompts, sends one request and waits    *)
(* for the answer; a move is followed by a request for a snapshot.  Any    *)
(* request or answer may be lost, which the client sees as an error, and a *)
(* request that its client has given up may still reach the server.        *)
(*                                                                         *)
(* The clients have joined; the match is untimed.                          *)
(***************************************************************************)
EXTENDS MatchOps

CONSTANTS
    Side,       \* [Player -> Color \cup {"spectator"}]: what each client joined as
    Lossy,      \* whether requests and answers may be lost
    MaxLate,    \* bound: requests on the way that their clients have given up
    MaxMoves    \* bound: moves accepted

ASSUME ClientAssumption ==
    /\ Initial = 0
    /\ Side \in [Player -> Color \cup {"spectator"}]
    /\ \A p, q \in Player : Side[p] = Side[q] /\ p # q => Side[p] = "spectator"
    /\ Lossy \in BOOLEAN
    /\ MaxLate \in Nat
    /\ MaxMoves \in Nat

VARIABLES
    match,     \* the match on the server
    snapshot,  \* [Player -> the snapshot the client holds]
    board,     \* [Player -> the position the client shows]
    client,    \* [Player -> what the client is doing]
    late       \* the requests on the way that their clients have given up

vars == <<match, snapshot, board, client, late>>

NoResult == "none"   \* Result of the zero MatchSnapshot: neither "*" nor an outcome
NoSide == "none"     \* Turn of the zero MatchSnapshot

\* The fields of MatchSnapshot a client reads.
SnapshotOf(m) ==
    [sequence |-> m.sequence, position |-> m.position,
     turn |-> Turn[m.position], result |-> m.result]

ZeroSnapshot ==
    [sequence |-> 0, position |-> Start, turn |-> NoSide, result |-> NoResult]

\* Mutant: keeps the position of the snapshot before the move.
FromAcknowledgement_OldBoard(accepted) ==
    [accepted EXCEPT !.turn = NoSide, !.sequence = @ - 1]

\* What a client knows when the move is acknowledged but the snapshot after it
\* does not arrive: the rest of the zero snapshot stays.
FromAcknowledgement(accepted) == [accepted EXCEPT !.turn = NoSide]

Prompt == [at |-> "prompt"]
Show == [at |-> "show"]
Sent(request) == [at |-> "sent", request |-> request]
Answered(request, err, answer) ==
    [at |-> "answered", request |-> request, err |-> err, answer |-> answer]

\* Everybody has joined.
Opening ==
    [NewMatch EXCEPT
       !.players = [c \in Color |->
                      IF \E p \in Player : Side[p] = c
                      THEN CHOOSE p \in Player : Side[p] = c ELSE NoPlayer],
       !.spectators = {p \in Player : Side[p] = "spectator"}]

Init ==
    /\ match = Opening
    /\ snapshot = [p \in Player |-> SnapshotOf(Opening)]
    /\ board = [p \in Player |-> Start]
    /\ client = [p \in Player |-> Show]
    /\ late = {}

-----------------------------------------------------------------------------
(* The loop of runRemote.                                                  *)

\* Anything but "*" is taken for the end of the game.
ShowBoard(p) ==
    /\ client[p] = Show
    /\ client' = [client EXCEPT ![p] =
                    IF snapshot[p].result # "*" THEN [at |-> "over"] ELSE Prompt]
    /\ UNCHANGED <<match, snapshot, board, late>>

TypeMove(p, mv) ==
    /\ client[p] = Prompt
    /\ snapshot[p].turn = Side[p]
    /\ client' = [client EXCEPT ![p] =
                    Sent([kind |-> "move", player |-> p, move |-> mv,
                          sequence |-> snapshot[p].sequence,
                          hash |-> Hash[snapshot[p].position]])]
    /\ UNCHANGED <<match, snapshot, board, late>>

TypeCommand(p, command) ==
    /\ client[p] = Prompt
    /\ client' = [client EXCEPT ![p] = Sent([kind |-> command, player |-> p])]
    /\ UNCHANGED <<match, snapshot, board, late>>

Quit(p) ==
    /\ client[p] = Prompt
    /\ client' = [client EXCEPT ![p] = [at |-> "quit"]]
    /\ UNCHANGED <<match, snapshot, board, late>>

-----------------------------------------------------------------------------
(* The server, and the network on both ways.                               *)

Perform(request) ==
    CASE request.kind = "move" -> ApplyMove(match, request, 0)
      [] request.kind = "draw" -> OfferDraw(match, request.player, 0)
      [] request.kind = "resign" -> Resign(match, request.player, 0)
      [] OTHER -> Done(match)

WithinBounds(request) == request.kind = "move" => match.sequence < MaxMoves

\* The server carries out the request; its answer is on the way.
Handle(p) ==
    LET request == client[p].request
        outcome == Perform(request)
    IN  /\ client[p].at = "sent"
        /\ WithinBounds(request)
        /\ match' = outcome.match
        /\ client' = [client EXCEPT ![p] =
                        Answered(request, outcome.err, SnapshotOf(outcome.match))]
        /\ UNCHANGED <<snapshot, board, late>>

\* A request whose client has given up is carried out all the same.
HandleLate(request) ==
    /\ WithinBounds(request)
    /\ match' = Perform(request).match
    /\ late' = late \ {request}
    /\ UNCHANGED <<snapshot, board, client>>

\* The snapshot a client holds after a request has failed.
AfterError(p, request) ==
    IF request.kind = "follow" THEN FromAcknowledgement(request.accepted)
    ELSE IF request.kind = "move" THEN snapshot[p]
    ELSE ZeroSnapshot

\* A failed refresh, draw or resignation leaves the board as it was.
Fails(p, request) ==
    LET after == AfterError(p, request)
    IN  /\ snapshot' = [snapshot EXCEPT ![p] = after]
        /\ board' = [board EXCEPT ![p] =
                       IF request.kind = "follow" THEN after.position ELSE @]
        /\ client' = [client EXCEPT ![p] = Show]

LoseRequest(p) ==
    /\ Lossy
    /\ client[p].at = "sent"
    /\ Fails(p, client[p].request)
    /\ UNCHANGED <<match, late>>

GiveUp(p) ==
    /\ Lossy
    /\ client[p].at = "sent"
    /\ client[p].request.kind \in {"move", "draw", "resign"}
    /\ Cardinality(late) < MaxLate
    /\ late' = late \cup {client[p].request}
    /\ Fails(p, client[p].request)
    /\ UNCHANGED match

LoseAnswer(p) ==
    /\ Lossy
    /\ client[p].at = "answered"
    /\ Fails(p, client[p].request)
    /\ UNCHANGED <<match, late>>

ReceiveRefusal(p) ==
    /\ client[p].at = "answered"
    /\ client[p].err # OK
    /\ Fails(p, client[p].request)
    /\ UNCHANGED <<match, late>>

\* An acknowledged move asks for the snapshot; any other answer is one.
Receive(p) ==
    LET request == client[p].request
        answer  == client[p].answer
    IN  /\ client[p].at = "answered"
        /\ client[p].err = OK
        /\ \/ /\ request.kind = "move"
              /\ client' = [client EXCEPT ![p] =
                              Sent([kind |-> "follow", accepted |-> answer])]
              /\ UNCHANGED <<snapshot, board>>
           \/ /\ request.kind # "move"
              /\ snapshot' = [snapshot EXCEPT ![p] = answer]
              /\ board' = [board EXCEPT ![p] = answer.position]
              /\ client' = [client EXCEPT ![p] = Show]
        /\ UNCHANGED <<match, late>>

Next ==
    \/ \E p \in Player : ShowBoard(p)
    \/ \E p \in Player, mv \in Move : TypeMove(p, mv)
    \/ \E p \in Player, command \in {"refresh", "draw", "resign"} :
         TypeCommand(p, command)
    \/ \E p \in Player : Quit(p)
    \/ \E p \in Player : Handle(p)
    \/ \E request \in late : HandleLate(request)
    \/ \E p \in Player : LoseRequest(p)
    \/ \E p \in Player : GiveUp(p)
    \/ \E p \in Player : LoseAnswer(p)
    \/ \E p \in Player : ReceiveRefusal(p)
    \/ \E p \in Player : Receive(p)

Spec == Init /\ [][Next]_vars

-----------------------------------------------------------------------------
(* Properties.                                                             *)

\* What a client shows has been the state of the match: whatever is lost, the
\* board is the position some moves ago, the sequence number says how many,
\* and an outcome it knows is the outcome.
ViewIsPast ==
    \A p \in Player :
      LET s == snapshot[p]
      IN  /\ \E n \in 0 .. Len(match.moves) :
               board[p] = Replay(Start, SubSeq(match.moves, 1, n))
          /\ s.result # NoResult =>
               /\ s.sequence <= Len(match.moves)
               /\ s.position = Replay(Start, SubSeq(match.moves, 1, s.sequence))
               /\ board[p] = s.position
          /\ s.result \in Result \ {"*"} =>
               s.result = match.result /\ s.sequence = Len(match.moves)

\* A move is made only in the position its player is looking at, and once:
\* neither a move typed again after its answer was lost nor one that arrives
\* late is played in a position the player has not seen.
NoMoveOnStaleBoard ==
    [][match'.sequence # match.sequence =>
         LET mover == match.players[Turn[match.position]]
         IN  /\ board[mover] = match.position
             /\ snapshot[mover].result # NoResult =>
                  snapshot[mover].sequence = Len(match.moves)]_vars
=============================================================================
