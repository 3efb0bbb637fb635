-------------------------- MODULE LoginProperties --------------------------
(***************************************************************************)
(* What the login server is meant to guarantee.                            *)
(***************************************************************************)
EXTENDS LoginServer

Owners == {"none", "incoming", "session", "mapServer"}
Links  == {"none", "up", "closed", "disconnected"}

\* Every variable keeps the type of the field it stands for.
TypeOK ==
    /\ link \in [Conns -> Links]
    /\ toServer \in [Conns -> Seq(Messages)]
    /\ told \in [Conns -> Replies]
    /\ toPeer \in [Conns -> Seq(Replies)]
    /\ fault \in [Conns -> BOOLEAN]
    /\ owner \in [Conns -> Owners]
    /\ state \in [Conns -> IncomingConnectionState \cup {"ABSENT"}]
    /\ attempts \in [Conns -> 0..MAX_ATTEMPTS_ALLOWED]
    /\ hello \in [Conns -> BOOLEAN]
    /\ maps \in [Conns -> SUBSET Maps]
    /\ user \in [Conns -> Names \cup {None}]
    /\ index \in [Names -> Conns \cup {None}]
    /\ character \in [Conns -> Characters \cup {None}]
    /\ mapServers \in Seq(MapServerConnection)
    /\ capacity \in Nat
    /\ block \in Nat
    /\ directory \in [Maps -> [slot : Nat, block : Nat]]
    /\ players \subseteq Names
    /\ pc \in {"initDB", "accepting", "joining", "crashed"}

-----------------------------------------------------------------------------
(* Incoming connections. *)

\* processIncoming dereferences connection.socket of every entry that is not DONE:
\* no handler that has moved the socket away, or purge, leaves such an entry behind,
\* and an entry keeps its socket until then.
SocketPresent ==
    \A c \in Conns :
        /\ state[c] \notin {"ABSENT", "DONE"} => owner[c] = "incoming"
        /\ owner[c] = "incoming" => state[c] # "ABSENT"
        /\ owner[c] = "none" <=> link[c] = "none"

\* Three failed attempts and never a fourth, whatever mixture of wrong passwords,
\* unknown users and unexpected data they were, and over both handlers; a map server
\* ("they only get one shot") has not used any.
AttemptBudget ==
    \A c \in Conns :
        /\ attempts[c] = MAX_ATTEMPTS_ALLOWED => state[c] = "DONE"
        /\ state[c] = "LOGIN_FAILED" => attempts[c] > 0
        /\ state[c] \notin {"LOGIN_FAILED", "DONE"} => attempts[c] = 0

\* What the peer was last told agrees with what the server will do: while it may
\* try again the number it was given is the number it has (unless it has gone, when
\* the reply may be lost), a peer told that it has none left is finished with, and
\* a peer told that it succeeded has a session.
VerdictHonest ==
    \A c \in Conns :
        /\ state[c] = "LOGIN_FAILED" /\ link[c] = "up" => told[c] = Response(FALSE, attempts[c])
        /\ told[c] = Response(FALSE, MAX_ATTEMPTS_ALLOWED) => state[c] = "DONE" /\ owner[c] = "incoming"
        /\ \A used \in 0..MAX_ATTEMPTS_ALLOWED :
               told[c] = Response(TRUE, used) => owner[c] = "session"

\* The verdict on an entry is final: once DONE it waits for the purge and nothing
\* else, and its socket is neither handed to a session or map server nor taken back.
VerdictFinal ==
    [][\A c \in Conns : state[c] = "DONE" =>
          /\ state'[c] \in {"DONE", "ABSENT"}
          /\ owner'[c] \in {owner[c], "none"}]_vars

\* The REQUIREs of processMapWaitAckSocket: name, address, port and maps are set when
\* the acknowledgement is awaited, though two handlers set them.
WaitAckReady ==
    \A c \in Conns : state[c] = "MAP_WAIT_ACK" => hello[c] /\ maps[c] # {}

-----------------------------------------------------------------------------
(* Sessions. *)

\* A session belongs to an account of the table that is not locked, and there is no
\* session without an owner of the socket nor the other way round.
SessionsEntitled ==
    \A c \in Conns :
        /\ owner[c] = "session" <=> user[c] # None
        /\ user[c] # None => user[c] \in players \ Locked

\* usernameToPlayerSession holds raw pointers: each points to a session that still
\* exists and is that user's, however many sessions a user opens and in whatever
\* order they are reaped.
IndexSound ==
    \A n \in Names : index[n] # None =>
        owner[index[n]] = "session" /\ user[index[n]] = n

\* A session's character is the player's own and stands on a map of this login server
\* that some map server has registered for.
CharacterPlaced ==
    \A c \in Conns : character[c] # None =>
        /\ owner[c] = "session"
        /\ CharacterOwner[character[c]] = user[c]
        /\ CharacterMap[character[c]] \in Maps /\ HasServer(CharacterMap[character[c]])

-----------------------------------------------------------------------------
(* Map servers. *)

\* The map directory agrees with the list of servers: a map is found with the first
\* server that was registered for it, and is found if any was.
DirectorySound ==
    \A m \in Maps :
        /\ HasServer(m) =>
              /\ directory[m].slot \in 1..Len(mapServers)
              /\ m \in mapServers[directory[m].slot].maps
        /\ \A i \in 1..Len(mapServers) :
               m \in mapServers[i].maps => HasServer(m) /\ directory[m].slot =< i

\* The list of servers has each socket once, and owns it.
ServersOwned ==
    \A i \in 1..Len(mapServers) :
        /\ owner[mapServers[i].connection] = "mapServer"
        /\ mapServers[i].maps # {}
        /\ \A j \in 1..Len(mapServers) :
               mapServers[i].connection = mapServers[j].connection => i = j

\* A client that was sent to a map's server is not contradicted by what a later one is
\* told: the directory goes on naming the same server, and the list has it.
DirectoryStable ==
    [][/\ \A m \in Maps : HasServer(m) => directory'[m].slot = directory[m].slot
       /\ \A i \in 1..Len(mapServers) : Len(mapServers') >= i /\ mapServers'[i] = mapServers[i]]_vars

\* The pointers into mapServers are good as long as no more servers registered than
\* the vector was reserved for, one for each map.
PointersValidWhileReserved ==
    Len(mapServers) =< Cardinality(Maps) =>
        \A m \in Maps : HasServer(m) => ~Dangling(m)

\* "lock guard avoids concurrent modification + ensures .back() is valid while we're
\* using it" (LoginServerIncomingHandler.cpp:390): the directory goes on using that
\* address after the block, so it has to stay valid.
PointersValid == \A m \in Maps : HasServer(m) => ~Dangling(m)

\* MAP_WAIT_ACK is "waiting for the map server to acknowledge that it will support
\* the maps the login server requested" (LoginServer.hpp:62-63): a server is only
\* registered when that acknowledgement has come.  The code registers it on anything it
\* sends; that it sends nothing else is up to the map server (see World).
RegisteredOnAck ==
    [][\A c \in Conns : owner[c] = "incoming" /\ owner'[c] = "mapServer"
           => Received(c).kind = "ack"]_vars

-----------------------------------------------------------------------------
(* Liveness. *)

\* The entry of a peer that has gone away does not stay in the list, in whatever state
\* of the handshake it was left and with whatever still to be read.
DeadPeerPurged ==
    \A c \in Conns :
        owner[c] = "incoming" /\ link[c] = "closed" ~> owner[c] # "incoming" \/ ~Alive

\* A session whose player has gone away is reaped, unless the server has itself
\* disconnected the socket (when a character of somebody else was asked for): time and
\* again the list has no such session.
DeadSessionReaped ==
    []<>(Alive => \A c \in Conns : ~(owner[c] = "session" /\ link[c] = "closed"))

=============================================================================
