-------------------------- MODULE WorldProperties --------------------------
(***************************************************************************)
(* What the login server, the map servers and the clients guarantee        *)
(* together.                                                               *)
(***************************************************************************)
EXTENDS World, LoginProperties

\* The variables of the programs keep their types; no two programs share a connection,
\* and one that is waiting has one.
WorldTypeOK ==
    /\ line \in [Programs -> Conns \cup {None}]
    /\ build \in [Programs -> Build]
    /\ stage \in [MapServers -> Stages]
    /\ starts \in [MapServers -> 0..MaxStarts]
    /\ gameState \in [Clients -> GameState \cup {"CRASHED", "CLOSED"}]
    /\ wait \in [Clients -> {"none", "challenge", "answer", "characters"}]
    /\ crypto \in [Clients -> BOOLEAN]
    /\ username \in [Clients -> Names]
    /\ currentCharacter \in [Clients -> Characters \cup {None}]
    /\ \A p, q \in Programs : line[p] = line[q] /\ Linked(p) => p = q
    /\ \A p \in MapServers : stage[p] # "stopped" <=> Linked(p)
    /\ \A u \in Clients :
          /\ wait[u] # "none" => Linked(u)
          /\ wait[u] \in {"challenge", "answer"} => gameState[u] = "LOGIN"
          /\ wait[u] = "answer" => crypto[u]
          /\ wait[u] = "characters" => gameState[u] = "CHARACTER_SELECT"

Up(p) == Linked(p) /\ link[line[p]] = "up"

Listed(c) == \E i \in 1..Len(mapServers) : mapServers[i].connection = c

ListedMaps(c) == UNION {mapServers[i].maps : i \in {j \in 1..Len(mapServers) : mapServers[j].connection = c}}

-----------------------------------------------------------------------------
(* Map servers. *)

\* "a real map server has our private key and they should be right first time, every
\* time" (LoginServerIncomingHandler.cpp:144-146): no map server program, of whatever
\* key or build and however often restarted, is charged with a failed attempt.
RightFirstTime == \A p \in MapServers : Linked(p) => attempts[line[p]] = 0

\* A map server that accepts players has the login server's word for it: either its
\* acknowledgement is on its way, or it is listed, and only for maps it has.
AcceptingAgreed ==
    \A p \in MapServers : stage[p] = "accepting" /\ Up(p) =>
        LET c == line[p] IN
        \/ /\ state[c] = "MAP_WAIT_ACK" /\ Readable(c) /\ Received(c).kind = "ack"
           /\ maps[c] \subseteq Supported[p]
        \/ Listed(c) /\ ListedMaps(c) \subseteq Supported[p]

\* And the login server sends nobody to a map server that is still registering or has
\* been refused: what is listed and connected accepts players.
ListedAccepts ==
    \A i \in 1..Len(mapServers) : \A p \in MapServers :
        line[p] = mapServers[i].connection /\ Up(p) =>
            stage[p] = "accepting" /\ mapServers[i].maps \subseteq Supported[p]

\* A map server that accepts players is listed in the end, unless it goes away.
AcceptingListed ==
    \A p \in MapServers :
        stage[p] = "accepting" ~> (Linked(p) /\ Listed(line[p])) \/ stage[p] # "accepting" \/ ~Alive

\* "This map server doesn't support any maps which the login server needs"
\* (MapServer.cpp:207): a map server is only turned away when each map it offers has
\* a map server that is connected.
TurnedAwayServed ==
    [][\A p \in MapServers : LET c == line[p] IN
          Linked(p) /\ told[c].kind # "notNeeded" /\ told'[c].kind = "notNeeded" =>
              \A m \in Supported[p] :
                  link[mapServers[directory[m].slot].connection] = "up"]_worldVars

-----------------------------------------------------------------------------
(* Clients. *)

Past(u) == gameState[u] \in {"CHARACTER_SELECT", "MAP_SERVER_CONNECT", "PLAYING"}

\* A client that believes it is logged in is: as long as the connection lives the
\* login server has a session for it, late and dropped answers notwithstanding.
LoggedInTogether ==
    \A u \in Clients : Past(u) /\ Up(u) => owner[line[u]] = "session"

\* A client only asks for a character of the user its session belongs to, though it
\* may have sent other names before, so that it is never dropped for doing so.
ChoosesOwn ==
    \A u \in Clients : currentCharacter[u] # None /\ Linked(u) /\ owner[line[u]] = "session" =>
        /\ CharacterOwner[currentCharacter[u]] = user[line[u]]
        /\ link[line[u]] = "disconnected" => HasError(line[u])

\* A client that plays was sent there: the login server has recorded the very
\* character the client selected last.
PlayingAgreed ==
    \A u \in Clients : gameState[u] = "PLAYING" /\ Linked(u) /\ owner[line[u]] = "session" =>
        character[line[u]] = currentCharacter[u]

\* The client dies of a missing key only on a connection whose challenge it has not
\* read.
CrashUnchallenged ==
    [][\A u \in Clients : gameState[u] # "CRASHED" /\ gameState'[u] = "CRASHED" =>
          IF Heard(u) THEN First(u).kind = "challenge" ELSE told[line[u]] = Nothing]_worldVars

\* No client waits for ever for the map server it is to connect to, or for its list
\* of characters, while its connection is up.
WaitsEnd ==
    \A u \in Clients :
        gameState[u] = "MAP_SERVER_CONNECT" \/ wait[u] # "none"
            ~> (gameState[u] # "MAP_SERVER_CONNECT" /\ wait[u] = "none") \/ ~Up(u) \/ ~Alive

=============================================================================
