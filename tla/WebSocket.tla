----------------------------- MODULE WebSocket -----------------------------
(***************************************************************************)
(* WebSocket connections and the sessions they keep connected              *)
(* (src/transport/websocket.go, with Connect and Disconnect of             *)
(* src/protocol/server.go).  Each connection is served by a goroutine that *)
(* reads a frame, handles it and writes the reply before it reads the      *)
(* next.  When it returns, its deferred calls first close the socket and   *)
(* only then disconnect the player's session.  A message names its player  *)
(* itself: nothing ties it to the player_id of the connection it comes on. *)
(***************************************************************************)
EXTENDS Naturals, SequencesExt

CONSTANTS
    PlayerID,
    Anonymous,   \* an upgrade request without a player_id
    Conn,        \* connections, over time
    PlayerOf,    \* [Conn -> the player_id of the upgrade request]
    MaxFrames    \* bound: [Conn -> frames its peer sends]

ASSUME ConnectionAssumption ==
    /\ Anonymous \notin PlayerID
    /\ PlayerOf \in [Conn -> PlayerID \cup {Anonymous}]
    /\ MaxFrames \in [Conn -> Nat]

VARIABLES
    connected,   \* [PlayerID -> Session.Connected]
    server,      \* [Conn -> where the goroutine is]
    peer,        \* [Conn -> whether the peer still has its end open]
    inbox,       \* [Conn -> frames sent and not yet read]
    outbox,      \* [Conn -> frames written to the peer]
    sent         \* [Conn -> frames the peer has sent]

socketVars == <<connected, server, peer, inbox, outbox, sent>>

\* What readFrame makes of a frame.  "bad" is a malformed or fragmented frame,
\* "huge" one above MaxMessageBytes.
Kind == {"message", "ping", "pong", "close", "bad", "huge"}

\* A frame with its place in the order of sending; a reply has the place of
\* the frame it answers (envelopes carry the request ID).
Frame(kind, n) == [kind |-> kind, n |-> n]

\* A message that creates, joins or looks for a match for a player and is not
\* refused.  All other messages are of the kind "message".
Request(n, p) == [kind |-> "join", n |-> n, names |-> p]

\* Connect and ensureSessionLocked, or Disconnect.
Mark(p, now) == IF p = Anonymous THEN connected ELSE [connected EXCEPT ![p] = now]

SocketInit ==
    /\ connected = [p \in PlayerID |-> FALSE]
    /\ server = [c \in Conn |-> "new"]
    /\ peer = [c \in Conn |-> FALSE]
    /\ inbox = [c \in Conn |-> << >>]
    /\ outbox = [c \in Conn |-> << >>]
    /\ sent = [c \in Conn |-> << >>]

-----------------------------------------------------------------------------
(* The peer.                                                               *)

\* A peer tells the server what it wants until it has said "close".
Send(c) ==
    /\ server[c] # "new"
    /\ peer[c]
    /\ Len(sent[c]) < MaxFrames[c]
    /\ \A i \in 1 .. Len(sent[c]) : sent[c][i].kind # "close"
    /\ LET n == Len(sent[c]) + 1
       IN  \E frame \in {Frame(kind, n) : kind \in Kind} \cup {Request(n, p) : p \in PlayerID} :
             /\ sent' = [sent EXCEPT ![c] = Append(@, frame)]
             /\ inbox' = [inbox EXCEPT ![c] = Append(@, frame)]
    /\ UNCHANGED <<connected, server, peer, outbox>>

\* The peer goes away, or its network does.
Hangup(c) ==
    /\ peer[c]
    /\ peer' = [peer EXCEPT ![c] = FALSE]
    /\ UNCHANGED <<connected, server, inbox, outbox, sent>>

-----------------------------------------------------------------------------
(* The goroutine.                                                          *)

Upgrade(c) ==
    /\ server[c] = "new"
    /\ connected' = Mark(PlayerOf[c], TRUE)
    /\ server' = [server EXCEPT ![c] = "serving"]
    /\ peer' = [peer EXCEPT ![c] = TRUE]
    /\ UNCHANGED <<inbox, outbox, sent>>

\* The connection breaks between Connect and the end of the handshake.
UpgradeFails(c) ==
    /\ server[c] = "new"
    /\ connected' = Mark(PlayerOf[c], TRUE)
    /\ server' = [server EXCEPT ![c] = "leaving"]
    /\ UNCHANGED <<peer, inbox, outbox, sent>>

\* The frames the loop writes for a frame it has read.
Replies(frame) ==
    CASE frame.kind \in {"message", "join"} -> <<Frame("reply", frame.n)>>
      [] frame.kind = "ping" -> <<Frame("pong", frame.n)>>
      [] frame.kind \in {"close", "bad"} -> <<Frame("close", frame.n)>>
      [] OTHER -> << >>

\* Mutant: a protocol error is reported, but the loop goes on.
Ends_Lenient(frame) == frame.kind \in {"close", "huge"}

\* After these the loop returns.
Ends(frame) == frame.kind \in {"close", "bad", "huge"}

\* What handling the frame does to the sessions: a request for a match
\* connects the player it names.
Handled(frame) == IF frame.kind = "join" THEN Mark(frame.names, TRUE) ELSE connected

\* Returning closes the socket: the peer cannot use it any more.
Serve(c) ==
    LET frame == Head(inbox[c])
    IN  /\ server[c] = "serving"
        /\ inbox[c] # << >>
        /\ inbox' = [inbox EXCEPT ![c] = Tail(@)]
        /\ outbox' = [outbox EXCEPT ![c] = @ \o Replies(frame)]
        /\ server' = [server EXCEPT ![c] = IF Ends(frame) THEN "leaving" ELSE @]
        /\ peer' = [peer EXCEPT ![c] = @ /\ ~Ends(frame)]
        /\ connected' = Handled(frame)
        /\ UNCHANGED sent

\* Mutant: drops the frame and reads on.
WriteFails_ReadsOn(c) ==
    /\ server[c] = "serving"
    /\ inbox[c] # << >>
    /\ Replies(Head(inbox[c])) # << >>
    /\ inbox' = [inbox EXCEPT ![c] = Tail(@)]
    /\ connected' = Handled(Head(inbox[c]))
    /\ UNCHANGED <<server, peer, outbox, sent>>

\* A reply cannot be written to a peer that is gone, and the answer to a
\* message not when it is above MaxMessageBytes: the message has been handled
\* all the same, and the loop returns.
WriteFails(c) ==
    LET frame == Head(inbox[c])
    IN  /\ server[c] = "serving"
        /\ inbox[c] # << >>
        /\ Replies(frame) # << >>
        /\ ~peer[c] \/ frame.kind \in {"message", "join"}
        /\ inbox' = [inbox EXCEPT ![c] = Tail(@)]
        /\ server' = [server EXCEPT ![c] = "leaving"]
        /\ peer' = [peer EXCEPT ![c] = FALSE]
        /\ connected' = Handled(frame)
        /\ UNCHANGED <<outbox, sent>>

\* Reading reports the end of the stream once everything sent is read.
ReadFails(c) ==
    /\ server[c] = "serving"
    /\ ~peer[c]
    /\ inbox[c] = << >>
    /\ server' = [server EXCEPT ![c] = "leaving"]
    /\ UNCHANGED <<connected, peer, inbox, outbox, sent>>

\* Mutant: the session of a player stays connected.
Leave_KeepsSession(c) ==
    /\ server[c] = "leaving"
    /\ server' = [server EXCEPT ![c] = "gone"]
    /\ UNCHANGED <<connected, peer, inbox, outbox, sent>>

\* The deferred Disconnect, after the socket was closed.
Leave(c) ==
    /\ server[c] = "leaving"
    /\ connected' = Mark(PlayerOf[c], FALSE)
    /\ server' = [server EXCEPT ![c] = "gone"]
    /\ UNCHANGED <<peer, inbox, outbox, sent>>

ServerStep(c) == Serve(c) \/ WriteFails(c) \/ ReadFails(c) \/ Leave(c)

SocketNext ==
    \/ \E c \in Conn : Send(c)
    \/ \E c \in Conn : Hangup(c)
    \/ \E c \in Conn : Upgrade(c)
    \/ \E c \in Conn : UpgradeFails(c)
    \/ \E c \in Conn : ServerStep(c)

\* A goroutine with a frame, an error or a deferred call before it proceeds.
SocketSpec ==
    SocketInit /\ [][SocketNext]_socketVars /\ \A c \in Conn : WF_socketVars(ServerStep(c))

-----------------------------------------------------------------------------
(* Properties.                                                             *)

\* Nothing is written after a close frame (RFC 6455, 5.5.1).
NothingAfterClose ==
    \A c \in Conn : \A i \in 1 .. Len(outbox[c]) :
      outbox[c][i].kind = "close" => i = Len(outbox[c])

\* Replies come in the order of the requests, none is skipped, pongs and
\* replies of one connection are not exchanged, and a close frame is the last:
\* what was written is exactly what a beginning of the frames sent calls for.
RepliesInOrder ==
    /\ NothingAfterClose
    /\ \A c \in Conn : \E k \in 0 .. Len(sent[c]) :
         outbox[c] = FlattenSeq([i \in 1 .. k |-> Replies(sent[c][i])])

\* A message on a connection that is not p's asked for a match in p's name.
NamedByOthers(p) ==
    \E c \in Conn : /\ PlayerOf[c] # p
                    /\ \E i \in 1 .. Len(sent[c]) :
                         sent[c][i].kind = "join" /\ sent[c][i].names = p

\* When the last connection of a player is gone for good, so is the session's
\* connected state, whatever requests were read on any of them, and in which
\* order the goroutines cleaned up.  A player named in a request on a
\* connection that is not his own is excepted: nothing disconnects him then.
NoGhostSession ==
    \A p \in PlayerID :
      <>[](~NamedByOthers(p) /\ \A c \in Conn : PlayerOf[c] = p => server[c] = "gone")
        => <>[](~connected[p])
=============================================================================
