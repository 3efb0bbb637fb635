------------------------------ MODULE Sockets ------------------------------
(***************************************************************************)
(* The APG sockets the servers are written against (APG is a git submodule *)
(* and is not part of this repository).  The model is what the callers in  *)
(* src/server rely on: hasActivity(), recv(), send(), disconnect(),        *)
(* setError() and hasError() of a non-blocking TCP socket.                 *)
(*                                                                         *)
(* Messages are delivered whole and in order, and the peer does what it    *)
(* likes: it sends any message of PeerMessages at any time and may go away *)
(* at any time.  A send can only fail once the connection is gone, and a   *)
(* failed send may or may not leave the socket's error flag set, which is  *)
(* why the callers look at both.                                           *)
(***************************************************************************)
EXTENDS Naturals, Sequences

CONSTANTS
    Conns,          \* identities of sockets; one is reused after the socket is destroyed
    PeerMessages,   \* what the peers may send
    MaxPending,     \* bound: messages waiting unread on one socket
    Buffered        \* TRUE where the peers are modelled too and the replies wait for them

VARIABLES
    link,       \* link[c]: "none" (no socket), "up", "closed" by the peer, "disconnected" by us
    toServer,   \* toServer[c]: messages that have arrived and have not been read
    told,       \* told[c]: the last reply that was put on the wire
    toPeer,     \* toPeer[c]: if Buffered, the replies the peer has not read yet
    fault       \* fault[c]: the error flag of the socket

socketVars == <<link, toServer, told, toPeer, fault>>

Nothing == [kind |-> "nothing"]

InitSockets ==
    /\ link = [c \in Conns |-> "none"]
    /\ toServer = [c \in Conns |-> <<>>]
    /\ told = [c \in Conns |-> Nothing]
    /\ toPeer = [c \in Conns |-> <<>>]
    /\ fault = [c \in Conns |-> FALSE]

Readable(c) == link[c] \in {"up", "closed"} /\ toServer[c] # <<>>

\* Something to read, or the end of the stream to be noticed.  Of a socket we have
\* disconnected ourselves the callers' code does not tell what hasActivity() says.
HasActivity(c) == Readable(c) \/ link[c] = "closed"

HasError(c) == fault[c]

\* The message a handler decodes: recv() has filled the buffer from its start.
Received(c) == Head(toServer[c])

\* recv(2048) takes all that has arrived; what lies behind the first message is
\* dropped by the clear() that every handler calls before it answers.
RecvAll(c) == toServer' = [toServer EXCEPT ![c] = <<>>]

\* recv(n) with the exact size of the first message.
RecvOne(c) == toServer' = [toServer EXCEPT ![c] = Tail(@)]

Send(c, reply, ok) ==
    \/ /\ ok
       /\ told' = [told EXCEPT ![c] = reply]
       /\ toPeer' = IF Buffered THEN [toPeer EXCEPT ![c] = Append(@, reply)] ELSE toPeer
       /\ UNCHANGED fault
    \/ /\ ~ok
       /\ link[c] # "up"
       /\ \E error \in BOOLEAN : fault' = [fault EXCEPT ![c] = error]
       /\ UNCHANGED <<told, toPeer>>

\* A send whose result the caller only logs, or ignores.
SendAnyhow(c, reply) == \E ok \in BOOLEAN : Send(c, reply, ok)

Disconnect(c) == link' = [link EXCEPT ![c] = "disconnected"]

OpenSocket(c) ==
    /\ link' = [link EXCEPT ![c] = "up"]
    /\ toPeer' = [toPeer EXCEPT ![c] = <<>>]
    /\ UNCHANGED <<toServer, told, fault>>

\* The destructor of the unique_ptrs that hold the sockets S.  What is on its way to
\* the peers arrives all the same.
DestroySockets(S) ==
    /\ link' = [c \in Conns |-> IF c \in S THEN "none" ELSE link[c]]
    /\ toServer' = [c \in Conns |-> IF c \in S THEN <<>> ELSE toServer[c]]
    /\ told' = [c \in Conns |-> IF c \in S THEN Nothing ELSE told[c]]
    /\ fault' = [c \in Conns |-> IF c \in S THEN FALSE ELSE fault[c]]
    /\ UNCHANGED toPeer

-----------------------------------------------------------------------------
(* The peer.  It may read what has been sent to it as it goes. *)

PeerMayRead(c) == toPeer' \in {toPeer, [toPeer EXCEPT ![c] = <<>>]}

PeerReads(c) ==
    /\ toPeer[c] # <<>>
    /\ PeerMayRead(c)
    /\ UNCHANGED <<link, toServer, told, fault>>

\* MaxPending counts messages, not the last byte that one which came out odd has left.
HasRoom(c) ==
    \/ Len(toServer[c]) < MaxPending
    \/ toServer[c] # <<>> /\ toServer[c][1].kind = "oddByte" /\ Len(toServer[c]) =< MaxPending

PeerSends(c) ==
    /\ link[c] = "up"
    /\ HasRoom(c)
    /\ \E m \in PeerMessages : toServer' = [toServer EXCEPT ![c] = Append(@, m)]
    /\ PeerMayRead(c)
    /\ UNCHANGED <<link, told, fault>>

PeerCloses(c) ==
    /\ link[c] = "up"
    /\ link' = [link EXCEPT ![c] = "closed"]
    /\ PeerMayRead(c)
    /\ UNCHANGED <<toServer, told, fault>>

=============================================================================
