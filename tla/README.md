# A TLA+ verification of PlayPG

PlayPG is a small online role-playing game: a **login server** that players and
map servers connect to, **map servers** that register for the maps they can run,
and a **client** with a window.  This directory has TLA+ models of its moving
parts, TLC configurations that check them on small instances, and TLAPS proofs
of their main properties for every instance.

`PROJECT.json` lists components, runs, mutants (small changes to the model that
each property must notice), the source lines every definition stands for,
hazards, findings and theorems.  Line numbers below are those of the repository.

## 1. The system

| part | state it keeps | operations | talks to |
|---|---|---|---|
| login server, main thread (`server/LoginServer.cpp`) | acceptor, account table, `done` | `processMaps`, `initDB`, accept | adds to `incomingConnections` |
| login server, incoming thread (`server/LoginServerIncomingHandler.cpp`) | `incomingConnections` (socket, state, attempts, map server details) | one handler per state, purge of DONE entries | moves sockets to sessions or to `mapServers` |
| login server, connected thread (`server/LoginServerConnectedHandler.cpp`) | `playerSessions`, `usernameToPlayerSession` | reap, opcode dispatch, character request and selection | reads `mapNameToConnection` |
| login server, registry (`server-include/LoginServer.hpp`) | `mapServers`, `mapNameToConnection`, `allMaps`, `mapIDToName` | written by the incoming thread, read by the connected thread | |
| map server (`server/MapServer.cpp`) | parsed maps, connection to the login server | parse, register (four messages, timeouts), accept and drop players | login server |
| client, login (`client/PlayPG.cpp`) | socket, `crypto`, `gameState` | `doLogin`, character request, selection, waiting for a map server | login server |
| client, world (`client/systems`, `include/Map.hpp`) | entities, current map, movement | change of world, movement on the tile grid | |
| packets (`include/net`, `src/net/packets`, `src/util`) | none | put / parse, JSON, hex strings, 16-bit lengths | |
| cryptography (`src/net/crypto`) | key pairs, in memory and in `login.pub`, `login.prv` | generate, write, load, check, encrypt, decrypt | the files are shared by all servers of a machine |
| server program (`server/servermain.cpp`, `ServerCommon.cpp`) | options | decide what to start, construct, run | |
| drawing (`client/systems/RenderSystem.cpp`, ...) | textures, camera | per frame | |
| APG sockets | buffers, error flag | external: an empty git submodule | |

The three threads of the login server share data under three mutexes.  The
incoming thread holds `incomingConnectionsMutex` for a whole pass over the list
and takes `playerSessionMutex` or `mapServersMutex` inside it when a connection
changes hands; the connected thread holds `playerSessionMutex` for a whole pass
and reads `mapNameToConnection` without a lock.

### What is hard

* **Hand-over of sockets.** An entry of `incomingConnections` gives its
  `unique_ptr` away and must be `DONE` before the next pass dereferences it; it
  is purged seconds later, when the socket is someone else's.
* **Attempts** are counted in three places and checked with `==` in two.
* **Raw pointers**: into the list of sessions from an index by name, into a
  vector of map servers from an index by map.
* **Registration races**: two map servers can be in the middle of registering
  for one map.
* **Peers that go away** in any state, with messages unread.
* **Two key files for one pair**, written one after the other by a process that may
  end in between, or that runs next to the one that serves; public keys are compared
  where private ones are meant; the client's key outlives its connection.
* **Loss**: a failing `send` is logged on most paths and changes the state on
  others; the client and the map server give up on timeouts the server does not
  know of.

The list of hazards, each at its line and with the properties that watch it, is
in `PROJECT.json`.

## 2. The modules

| module | models | code |
|---|---|---|
| `Sockets` | the APG socket as its callers rely on it, and the peer at its other end | external |
| `LoginState` | constants, messages and variables of the login server | `LoginServer.hpp` |
| `LoginIncoming` | the handlers of `processIncoming` | `LoginServerIncomingHandler.cpp` |
| `LoginConnected` | the handlers of `processConnected` | `LoginServerConnectedHandler.cpp` |
| `LoginServer` | main thread, composition, specification and fairness | `LoginServer.cpp` |
| `LoginProperties` | its type invariant, safety, action and liveness properties | |
| `LoginContract` | what the login server promises: guests, players, hosts, and who becomes what | abstract |
| `LoginRefinement` | the mapping of `LoginServer` to `LoginContract` | |
| `Peers` | a program at the other end: connect, wait, receive, send, hang up | external |
| `MapServer` | `MapServer::run` and `registerWithMasterServer` | `MapServer.cpp` |
| `LoginClient` | `PlayPG::render` up to PLAYING, `doLogin` | `PlayPG.cpp` |
| `World`, `WorldProperties` | the three programs composed, and what they guarantee together | |
| `ServerThreads` | the three threads of the login server between their locks | `LoginServer.cpp`, both handlers |
| `MapCatalog` | `processMaps` over runs that end anywhere and files that are edited | `LoginServer.cpp`, `Location`, `db.sql` |
| `TileGrid`, `MapParsing` | tiles, `getTile`, `parseTiles` | `Map.hpp`, `Map.cpp` |
| `Movement` | a frame of PLAYING: change of world, keys, moves and collisions | `PlayPG.cpp`, `client/systems` |
| `KeyFiles` | the server program's start, the key pair and its files, challenges and passwords | `servermain.cpp`, `RSACrypto`, both constructors, `doLogin` |
| `Packets` | layouts, lengths and texts of all packets, written and read | `net/packets`, `Character.hpp` |
| `Framing` | packets on a stream that arrives in parts, and its two readers | both handlers |
| `MCLogin`, `MCWorld`, `MCThreads`, `MCMapCatalog`, `MCMovement`, `MCFraming`, `MCKeyFiles` | small instances for TLC | |
| `LoginProofs`, `ThreadProofs`, `KeyProofs`, `CatalogProofs`, `WorldProofs`, `ClientProofs`, `MovementProofs`, `FramingProofs` | proofs, each of the modules it extends | |

`World` extends `MapServer` and `LoginClient`, which extend `Peers`, which extends
`LoginServer`; the programs' actions fill and empty the very queues the login
server's actions use.  `Movement` extends `MapParsing`: the tiles it walks on are
those that were parsed.  `Framing` extends `Packets`.  `LoginRefinement` instantiates
`LoginContract` under the mapping of the next section.

### State and code

| variable | code |
|---|---|
| `link`, `toServer`, `told`, `fault` | a socket: whether it is connected, what waits to be read by the server, the last answer sent, its error flag |
| `toPeer` | what waits to be read by the peer; kept only where `Buffered` is TRUE, that is where the peer is a program of the repository |
| `owner[c]` | which `unique_ptr` holds the socket: the entry's, a session's, a map server's |
| `state`, `attempts`, `hello`, `maps` | `IncomingConnection::state`, `loginAttempts`, the `mapServer...` optionals, `maps` |
| `user`, `character`, `index` | `PlayerSession::username`, `characterID`, `usernameToPlayerSession` |
| `mapServers`, `capacity`, `block` | the vector, its capacity, and a number for its present storage |
| `directory[m]` | `mapNameToConnection`: the slot, and the storage the address was taken in |
| `players`, `pc` | the account table, the main thread |
| `line[p]`, `build[p]` | the connection of a program; whether it has the login server's version and key |
| `stage`, `starts` | the call a map server blocks in; how often it was started |
| `gameState`, `wait`, `crypto`, `username`, `currentCharacter` | the members of `PlayPG`, and the call the client blocks in |
| `owner[mutex]`, `main`, `incoming`, `connected` (`ServerThreads`) | the three mutexes, and where each thread is |
| `toVisit`, `toServe`, `toPublish` (`ServerThreads`) | how far the loops have come |
| `locations`, `files`, `allMaps`, `mapIDToName` (`MapCatalog`) | the table, the files, the results of `processMaps` |
| `layers`, `tiles`, `spawnPoint`, `x`, `y` | the file, `Map::tiles`, `Map::spawnPoint`, the loops |
| `file`, `held`, `made` (`KeyFiles`) | `login.pub` and `login.prv`; `publicKey`, `privateKey` of a process; the pairs that were generated |
| `role`, `step`, `warned`, `port` (`KeyFiles`) | `LoginServer` or `MapServer`, where its start has got to, whether a fatal error was logged, who listens |
| `link`, `crypto`, `challenged`, `verdict` (`KeyFiles`) | whom a client or map server talks to, the client's key, whether this connection's challenge was read, the answer to the password |
| `indoor`, `p`, `moves_`, `phase` | `PlayPG::indoor`, the player's `Position`, `MovementSystem::moves_`, the part of the frame |
| `stream`, `sent`, `handled` (`Framing`) | the bytes in flight, what was written, what the reader made of it |

A handler of one connection is one action of `LoginServer`, as the thread holds the
list's mutex around it; what the threads can do to each other inside of handlers is
the question of `ServerThreads`.  A blocking call of a map server or client is two
or more actions: entering it, and each way it may return.

### The contract

`LoginContract` knows neither sockets nor vectors nor threads.  A visitor is
absent, a guest, shown out, a player with an account and perhaps a seat (a
character), or a host of maps; a guest has strikes.  The mapping in
`LoginRefinement`:

| contract | login server |
|---|---|
| `standing` | from who holds the socket and the entry's state: guest while the entry is served, out when it is DONE, player with a session, host as a map server |
| `strikes` | `loginAttempts`, while a guest |
| `account`, `seat` | a session's user and character |
| `host[m]` | the connection of the server the directory leads to |
| `accounts` | the account table |

`KeepsContract` says that every handler of either thread makes at most one move of
the contract for one visitor.  Taking a DONE entry up again, giving back an attempt,
registering after a failed attempt, replacing a map's host, seating a player on a map
without one, all on any path through the handlers, break it.

### What is abstracted

* In the login server a message is a record with the fields the handlers tell apart,
  and arrives whole.  Layouts, 16-bit lengths and partial reads are in `Framing`.  What
  a session does not know leaves its payload as `garbage`, which comes out even or as
  an `oddByte`; that byte ends the session, or takes half of the message behind it
  along.  How many passes the payload takes is left out: none of them does anything
  else.  So are requests that a payload might be mistaken for: `RequestsMade` says
  when there are any, and a peer may as well send them in step.
* An identity says whether its password is the right one (salt and hash are left
  out; which key it was encrypted with is the matter of `KeyFiles`).
* A map list is the set of the maps it names with the login server's hash: the
  loop of `processMapListSocket` skips all others without effect.
* Time is left out: a purge may come at the end of any pass, a timeout at any moment
  at which nothing has arrived.  `Send` may fail only when the connection is gone,
  and then sets the error flag or not, because the callers look at both.
* `lastLogin`, session key and guid are left out, nothing reads them.
* `emplace_back` doubles a full vector, as libstdc++ does; the properties only
  depend on its storage moving when it is full.
* A program is a version and a key (`build`) chosen once; the maps that a map
  server parsed are a constant.
* In `MapCatalog` a content is its own hash, of 32 digits; names fit their column of
  50.  Both a database that refuses long values and one that cuts them are followed
  (`strictTable`).  The model leaves open which `locations` row comes first.
* In `Packets` a number of 16 bits is two cells and counts modulo a small base, a
  text is one value and as many cells as it has characters.  What rapidjson does
  with a text that was cut is unknown here: it is garbage and the reader goes on.
  Two opcodes are left out: `SERVER_PUBKEY`, whose packet is never sent, and `MOVE`, which
  has no packet and which the session's reader does not know.
  `IsPacket` says what the constructors make: the fields of each class, a port that is
  a short, and health, strength and intelligence that fit an `int`.  They are
  `int64_t` in `Character.hpp` and cut by `writer->Int`, but are loaded from columns
  of `int(11)` (`db.sql:74-76`).  The empty string has no bytes of its own, and is the
  only one.
* In `Framing` a session begins where its reader takes over.  What it is sent is what
  the client may send from there on: requests, selections, and the identity once more by
  a client that gave up the answer to the first (`PlayPG.cpp:151-162`).  Of such an
  identity nothing is assumed but that the text of its object is longer than the
  numbers of the two requests: the names of its two fields are.
* In `ServerThreads` a handler is what it does to the lists and the directory.
* In `KeyFiles` a key text is the name of its pair, absent or empty: what is written
  to a file arrives when it is closed.  `logger->fatal` ends the process or not, as
  the logging library may be configured; a null `crypto` ends it when it is used.  A
  private key stands for the whole pair, as `RSA_check_key` sees it.  All servers use
  the default port and files; versions, sessions and the count of attempts are left
  to the other modules.
* In `Movement` coordinates are tiles; the index outside of the vector reads
  anything, and a negative float becomes what x86 or ARM make of it.  The code asks
  the outdoor map for collisions in either world, and so does the model.

## 3. What the runs check

| run | instance | what it shows |
|---|---|---|
| `logins` | `MCLogin`, 2 connections, 3 names, one account locked, messages of a login, a registration and a selection, one unread | `KeepsContract`: the server implements `LoginContract`; `TypeOK`; `SocketPresent`: a served entry has its socket; `AttemptBudget`: never a fourth attempt; `VerdictHonest`: what a peer was told is what the server will do; `SessionsEntitled`; `IndexSound`: the index by name never dangles; `VerdictFinal` |
| `registry` | `MCLogin`, 3 connections, 2 maps, lists {m1}, {m1, m2}, a player with a character | `WaitAckReady`: the REQUIREs hold; `DirectorySound`, `ServersOwned`: directory and list of servers agree; `PointersValidWhileReserved`; `CharacterPlaced` |
| `world_servers` | `MCWorld`, 2 map servers, one of any build, started twice, 2 sockets, 2 maps, fair | `RightFirstTime`: no failed attempt is ever counted against a map server; `AcceptingAgreed`, `ListedAccepts`: both sides agree on who serves what; `RegisteredOnAck`; `AcceptingListed`; `DeadPeerPurged`: entries of the dead leave the list |
| `world_client` | `MCWorld`, a client of any version and a map server, 2 sockets, two characters of one player, fair | `Spec`: the composition implements `LoginServer`; `LoggedInTogether`, `ChoosesOwn`, `PlayingAgreed`: the client's view is the server's; `CrashUnchallenged`: when a client dies of a null key; `WaitsEnd`; `DeadSessionReaped` |
| `maps` | `MCMovement`, maps of 4 x 5 tiles in up to four layers | `TilesInPlace`: the parsed vector; `StandsFree`, `WallsKeepInside`: walking on it |
| `map_catalog` | `MCMapCatalog`, 2 files, 5 contents | `OneRowPerName`, `MapsAccountedFor`, `CatalogueForward` |
| `framing` | `MCFraming`, in any fragments, 2 packets of every kind in a handshake or 3 in a session, an identity that is sent again among them; numbers modulo 25 | `HandledAsSent`: whole packets are decoded as sent; `TextsNeverForged`, `RequestsMade`: what becomes of cut ones, and of what a session does not know |
| `threads` | `MCThreads`, 3 sockets, 2 maps, fair | `PassesUndisturbed`: no list is lengthened under a pass; `PassesEnd`: no deadlock among the mutexes |
| `key_files` | `MCKeyFiles`, 3 processes, 2 key pairs, a client, 8 command lines | `AcceptedHoldsPrivateKey`: equal public keys mean equal private ones; `RefusedForStaleKey`: why a right password is refused |
| `freed_servers` | `MCLogin`, 3 connections, 1 map | violated: `PointersValid` |
| `turned_away` | `MCWorld`, 1 map server, started twice | violated: `TurnedAwayServed` |
| `hash_difference` | as `map_catalog` | violated: `HashDifferenceReal` |

### Bounds

* Connections depend on each other only through the account table, the index and the
  registry.  Two are enough for two sessions of one user; three for two servers
  after the same map and a third party.  `MaxPending` (1) bounds the messages that
  wait to be read by the server: handlers of the handshake take all that has
  arrived, sessions one message; a queue of programs' answers is not bounded but
  by what is sent.  The last byte of a message that came out odd is not counted
  (`HasRoom`), so that something may lie behind it.  `MaxPending` is 2 in `world_client`,
  where a request may be sent before the identity in front of it was skipped.
* `NoFailures` stops following states with a failed attempt in the runs on the
  registry, which are not about attempts; `OneGone`, in `registry`, adds that at most
  one peer is gone at a time, the states with more being those with fewer connections.
  `OddAlone` follows what lies behind an odd byte where nobody else is there: it is
  the matter of one socket, and ends in states that others lead to as well.
* `AcceptorMayFail` is TRUE in `logins` only, since a server that accepts nobody any
  more does nothing else new; `AcceptorOnce` follows the failure only until
  somebody is connected.  The proofs are about either value.
* Two servers of any build at a time would ask each question twice: in
  `world_servers` one is sound, in `world_client` the map server is.
* Key pairs (2) are a first one and its successor; a third changes nothing but
  the run's length.  Processes are reused, so restarts are not bounded.
* `MaxStarts` (2) is how often a map server is started: once more than needed for a
  dead predecessor.  Two sockets are enough for one that is held by the dead.
* The maps are not square, so that a swapped dimension shows, and have an inner part
  of 2 x 3 tiles.  `NearTheMap` ends the walk on a map without walls two tiles off.
* Numbers on the wire are two digits to the base 5, texts up to one character longer
  than that can count: the wrap of the lengths happens.  A second packet is enough for
  a handshake, whose reader keeps nothing from one read to the next.  A session reads
  its third packet out of step behind an identity of an odd length (`MaxSession` 3);
  ids are six bytes, so that half of one reads as a request.
* One login server at a time goes through the map files.  A second one fails to take the
  port, but goes through them all the same (`LoginServer.cpp:91`); two transactions on one
  row are the database's affair.
* Five map contents: three versions of one map, one with two contents, and a file
  without name and version.
* Symmetry among connections is used in `logins`, `registry` and `freed_servers`
  only, none of which has a liveness property.

`CHECK_DEADLOCK FALSE` is there where the system really stops: the login server has
crashed or nobody is left to serve (`MCLogin`,
`MCWorld`), the bound on packets is reached (`MCFraming`), a map has no spawn point
(`MCMovement`).

### Fairness

Both workers loop for ever and each pass visits every entry, so each entry's handler
and the purge are weakly fair, and so is the service of each session.  Blocking calls
of programs return when something has arrived, and those with a limit when nothing
has.  Nothing is assumed of peers, users, the acceptor, `initDB`, or of how a send
fails; nor that a program lives on, nor that a socket the server disconnected itself
reports activity.  In `ServerThreads` the threads run (weak fairness), and a thread
that waits for a mutex gets it in the end (strong fairness) in two places: the
sessions' mutex, where the connected thread pauses a second between passes
(`LoginServerConnectedHandler.cpp:49-55`), and the connections' mutex for the
incoming thread, whose only competitor blocks in `acceptSocket` between two takes.
The main thread is given no such right, since the incoming thread takes the mutex
again at once after it gave it up.

### Findings

1. **Map servers can be freed under the directory** (`freed_servers`).  The list of
   needed maps (`LoginServerIncomingHandler.cpp:321`) only looks at servers that
   are registered, so two that are both in `MAP_WAIT_ACK` for one map both get in.
   One more than `reserve(allMaps.size())` moves the vector, and the addresses in
   `mapNameToConnection` (`:403`) are read later (`LoginServerConnectedHandler.cpp:241`).
   `PointersValidWhileReserved` says that this is the only way: as long as no more
   servers register than were reserved for, no address is stale.
2. **A restarted map server is turned away** (`turned_away`).  Nothing leaves
   `mapServers` and `mapNameToConnection`, so a server that died keeps its maps, its
   successor is told `MAP_SERVER_NOT_NEEDED`, and players go on being sent to the
   dead one.  (`LoginServer.hpp:172` calls `mapServers` "A list of connected map
   servers".)
3. **Every start reports hash differences** (`hash_difference`).  The hash has 32
   digits and its column 25 (`db.sql:46`), so the comparison at
   `LoginServer.cpp:167` fails for every unchanged map where the database cuts, and
   the first persist where it refuses.

Seen while modelling, and modelled as the code does it, without a run of their own:

* `processMapWaitAckSocket` (`:380`) registers a server on whatever it sends; no
  opcode is read.  `RegisteredOnAck` holds in `world_servers` because the map server
  of the repository sends nothing else there.
* `MapTile::isSpawn` is false for every tile: `spawn` (`Map.cpp:78`) is never
  assigned.
* The connected thread reads `mapNameToConnection` without the mutex the incoming
  thread inserts under (`LoginServerConnectedHandler.cpp:222`); `ServerThreads`
  reaches that state.
* Indoors the walls are the outdoor map's, and the spawn point of `assets/room1.tmx`
  is a wall there with walls on every side.
* An acceptor error ends in joins that never return: nothing sets `done`.
* A client whose connection ends in `MAP_SERVER_CONNECT` stays there.

## 4. What is proved

TLAPS proves these for any sets of connections, names, maps and characters and
any bound on the queues, from `ConstantsAssumption` (a null value that is none of
the others, accounts among the names, a super-user who is not locked, finitely
many maps, `MaxPending` at least 1) and `PeerMessagesAssumption` (peers send
messages the model knows).  Those on the world assume besides that programs are map
servers or clients and not both, that no program is the null value
(`WorldAssumption`, `MapServersAssumption`, `ClientsAssumption`, `ProgramsAssumption`),
and that peers may send what the programs send (`MessagesAssumption`).

| module | theorems |
|---|---|
| `LoginProofs` | `TypeCorrect`, `SocketPresentCorrect`, `AttemptBudgetCorrect`, `SessionsEntitledCorrect`, `IndexSoundCorrect`, `WaitAckReadyCorrect`, `DirectorySoundCorrect`, `ServersOwnedCorrect`, `DirectoryStableCorrect`, `PointersCorrect`, `CharacterPlacedCorrect`, `VerdictFinalCorrect`, `VerdictHonestCorrect`, `KeepsContractCorrect` |
| `ThreadProofs` | `LocksHeldCorrect`, `PassesUndisturbedCorrect` |
| `KeyProofs` | `AcceptedHoldsPrivateKeyCorrect`, `RefusedForStaleKeyCorrect` |
| `CatalogProofs` | `CatalogInvariant`, `OneRowPerNameCorrect`, `MapsAccountedForCorrect`, `CatalogueForwardCorrect` |
| `WorldProofs` | `WorldImplementsSpec`, `WorldTypeCorrect`, `RightFirstTimeCorrect`, `AcceptingAgreedCorrect`, `ListedAcceptsCorrect`, `LoggedInTogetherCorrect` |
| `ClientProofs` | `ChoosesOwnCorrect`, `PlayingAgreedCorrect`, `CrashUnchallengedCorrect`, `RegisteredOnAckCorrect` |
| `MovementProofs` | `TilesInPlaceCorrect`, `StandsFreeCorrect`, `WallsKeepInsideCorrect` |
| `FramingProofs` | `ReadWhole`, `HandledAsSentCorrect`, `TextsNeverForgedCorrect`, `RequestsMadeCorrect` |

The argument.  `Inv` (types, where sockets are, attempts) is inductive by itself
and goes first.  On top of it:

* `SessionInv`: sessions have users with unlocked accounts, and the index points
  to them.  Needed because reaping goes by name and could hit another's entry.
* `HandshakeInv`: a server that has reached `MAP_LIST` has said its name, one in
  `MAP_WAIT_ACK` has been asked for at least one map.
* `RegistryInv`: directory and list agree, the list owns its sockets and each
  server in it has maps.  Distinct sockets follow from `owner`: the newcomer is
  still "incoming".
* `StorageInv`: while no more servers are registered than maps exist, the vector
  is in its first storage and its capacity is the reserved one; pointers name the
  storage they were taken in.
* `Honest`: strengthens `VerdictHonest` with what has been told in each state, as
  a verdict must not survive on the wire of a connection that goes on.
* `KeepsContractCorrect` takes the conjunction of these and shows for every action
  which move of the contract it maps to: most handlers change the standing of one
  visitor, and what they leave alone (the count of an entry that is done with, a
  directory entry that is not replaced) maps to what the contract leaves alone.
* `LockInv` (`ThreadProofs`), of which `LocksHeld` is the main part: who owns a mutex
  follows from where the threads are, so whoever lengthens a list meets its reader
  between two passes.
* `KeyInv` (`KeyProofs`): a process that runs without a warning has a valid pair, a
  connection leads to a login server that runs, and what was compared or loaded when
  it was made is what that server still holds.  Nothing is said of the files: they
  may hold anything at any moment.  From `KeyFilesAssumption` (names of processes and
  clients differ, absent and empty are no keys).
* `CatalogInv` (`CatalogProofs`): a stored hash is no longer than its column, each id
  of `mapIDToName` is that of a row with the name, names are not repeated in the table,
  and what a run has gone over is in the table or complained about.
  From `CatalogAssumption`.
* `WorldInv` (`WorldProofs`) looks at one line at a time.  Of a map server's it says how
  far the registration is (`InChallenge`, `InRegistered`, `InRequired`, `InAccepting`,
  `InLeaving`): what the program waits for, what the entry waits for, and what lies
  unread in either direction, belong together, as each side speaks only when spoken to.
  A server that gave up meanwhile is on the same path, and its entry stays where it is.
  Of a client's it says that a success on its way, or already believed, has a
  session behind it.  A program's step disturbs no other line (`ProgramStepKeeps`), a
  handler of one connection no other connection (`ConnectionKeeps`, `SessionKeeps`).
* `TalkInv` (`ClientProofs`) follows a client's conversation.  While it logs in, answers
  may come late, but they are challenges and verdicts only; from then on it asks one
  thing at a time, and what it waits for is either unanswered, with its question the
  last that the server has to read, or answered, with nothing else under way
  (`InLogin`, `InSelect`, `InList`, `InSent`, `InPlay`).  An instruction that is under way
  was given for the character that was selected last, so `PlayingAgreed` needs no
  more than its arrival.  Before the first challenge is read the connection is new,
  or the challenge is in front of everything else; hence `CrashUnchallenged`.
* `AckFirst` (`ClientProofs`): what lies in front of an entry in `MAP_WAIT_ACK` is an
  acknowledgement.  The handler would take anything there; that a map server of the
  repository sends nothing else is a matter of its path through the registration.
* `MovementInv` (`MovementProofs`): the vector has `x + Width * y` tiles, those of the
  places that were visited, each where `resolveTileLoc` looks for it, and the player
  comes into the game when it is complete.  A move that starts inside of the walls
  ends at most one tile off, on the walls, where the tile that is read is that of the
  place; a walled map keeps her inside from there.  From `GridAssumption`,
  `MapFilesAssumption` and `IndoorAssumption`.
* `FramingInv` (`FramingProofs`).  `ReadWhole` comes first: a number is read back from
  its bytes (`NumberOfBytes`), a text from behind its length, and a packet of each
  class from its layout.  Then the stream.  In step (`InStep`), the packets that were
  not handled lie in it one behind the other, so a reader that is not cut meets the
  next one.  Out of step nothing is known of where packets begin; what remains
  (`Sourced`) is that every cell lies behind the cells it was sent with, as far as
  they were not read.  A document that is accepted has its first cell in the fifth
  place, and the four in front of it are an opcode and a length: with those of a
  registration, whose second text lies behind another, they would be a piece of text or
  the length 0, which is no opcode.  Proved for any packets that satisfy
  `SentAssumption`, any base above 4 and any limit of a `recv()`.  A session that is sent
  an identity again is in step up to that (`KnownUpTo`); then it skips its bytes in pairs.
  The first pair is an opcode of no request, the second a length too great for one, and
  every other has a piece of text in it (`IdentitySkipped`).  So nothing of an identity
  is taken for a request, and when it comes out even the session is in step again
  (`Paired`); when it does not, it has refused at least the opcode (`Refused`), which is
  what `RequestsMade` says must come before.

`WorldImplementsSpec` is the refinement `world_client` checks on one instance: every
step of a program is one that a peer may take, so all of the theorems about
`LoginServer` hold with real programs too.  The types of `WorldInv` are needed for
it: a selection must be a character, which it is since the login server listed it.

Two things are done once for all of it.  The library states induction over the
naturals for a predicate, which the provers here cannot instantiate; `NaturalsBelongTo`
states it for a set, from the fact that the finite subsets of a set are well-founded,
and the recursions over the bytes of a number (`LeftRecursion`, `NumberRecursion`) rest
on it.  And what a step leaves alone of one connection is said in lemmas by connection
(`ConnectionKeeps`, `SessionKeeps`, `ProgramStepKeeps`, `ConnectionData`, `SessionData`), so
that each invariant looks at the connection it is about only.

All invariants and all action properties that the runs check are proved.  Only
model-checked are the liveness properties (`AcceptingListed`, `DeadPeerPurged`,
`WaitsEnd`, `DeadSessionReaped`, `PassesEnd`): they rest on fairness and ENABLED, which the
prover does not handle.  The three runs that expect a violation are TLC's alone, too.

## 5. Plan

What is left, in this order:

1. `PollTimers`: the truncated periods of the purge and of the connected thread, and
   the timeouts of the client and the map server against them.
2. The restart of the login server with its map servers still connected to the old
   one.
3. An abstract reader for `Framing`, a queue of packets, which it implements until a
   read is cut.

Not modelled: drawing and the camera, which keep no state that anything else reads;
the text of command lines (what the server program decides to start is in
`KeyFiles`); OpenSSL, rapidjson and the generated persistence code, which are not
part of this repository; the build files.
