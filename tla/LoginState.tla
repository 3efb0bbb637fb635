----------------------------- MODULE LoginState -----------------------------
(***************************************************************************)
(* The data of the login server: the connections that have not identified  *)
(* themselves yet, the sessions of the players who have, the map servers   *)
(* that registered, and the account table.  LoginIncoming and              *)
(* LoginConnected hold the handlers of its two worker threads.             *)
(***************************************************************************)
EXTENDS Sockets, FiniteSets

CONSTANTS
    Names,          \* user names a peer may give
    Registered,     \* the accounts of a database that is not empty
    Locked,         \* the accounts with players.locked set
    SuperUser,      \* the account initDB makes in an empty database
    Maps,           \* allMaps: the maps the login server was started with
    Characters,     \* the rows of the character table
    CharacterOwner, \* CharacterOwner[ch]: the player a character belongs to
    CharacterMap,   \* CharacterMap[ch]: its map, or a map that is not one of ours
    AcceptorMayFail, \* bound: whether acceptSocket() ever reports an error
    None            \* a null pointer, an unset optional

MAX_ATTEMPTS_ALLOWED == 3

ASSUME ConstantsAssumption ==
    /\ None \notin Conns \cup Names \cup Characters
    /\ Registered \subseteq Names /\ Registered # {}
    /\ Locked \subseteq Names
    /\ SuperUser \in Names \ Locked
    /\ IsFiniteSet(Maps)
    /\ CharacterOwner \in [Characters -> Names]
    /\ MaxPending \in Nat \ {0}
    /\ {Buffered, AcceptorMayFail} \subseteq BOOLEAN

(* What a peer may send.  A map list is the set of those maps it names     *)
(* whose hash is the login server's: the handler skips every other entry.  *)
Identities   == [kind : {"identity"}, user : Names, right : BOOLEAN]
MapLists     == [kind : {"mapList"}, maps : SUBSET Maps]
Selections   == [kind : {"characterSelect"}, character : Characters \cup {None}]
PlainRequests ==
    [kind : {"versionMismatch", "registration", "ack", "requestCharacters", "garbage", "oddByte"}]
Messages == Identities \cup MapLists \cup Selections \cup PlainRequests

ASSUME PeerMessagesAssumption == PeerMessages \subseteq Messages

(* What the server answers. *)
Responses    == [kind : {"response"}, success : BOOLEAN, remaining : 0..MAX_ATTEMPTS_ALLOWED]
Requirements == [kind : {"requiredMaps"}, maps : SUBSET Maps]
CharacterLists == [kind : {"characters"}, characters : SUBSET Characters]
Instructions == [kind : {"instructions"}, server : Conns]
PlainReplies ==
    [kind : {"nothing", "challenge", "registrationResponse", "notNeeded", "malformed",
             "noMapServer"}]
Replies == Responses \cup Requirements \cup CharacterLists \cup Instructions \cup PlainReplies

VARIABLES
    owner,      \* owner[c]: who holds the unique_ptr of the socket
    state,      \* state[c]: of the IncomingConnection, "ABSENT" when the vector has none
    attempts,   \* attempts[c]: loginAttempts
    hello,      \* hello[c]: the map server's name, address and port are set
    maps,       \* maps[c]: the maps asked of a map server, {} while the optional is unset
    user,       \* user[c]: the user name of the PlayerSession that holds socket c
    index,      \* index[n]: usernameToPlayerSession, the session as its socket
    character,  \* character[c]: characterID of the session
    mapServers, \* the vector of registered map servers
    capacity,   \* of that vector
    block,      \* how often its storage has been moved
    directory,  \* mapNameToConnection: a pointer is a slot of one storage block
    players,    \* the account table
    pc          \* of the main thread, "crashed" when the process has died

entryVars    == <<state, attempts, hello, maps>>
sessionVars  == <<user, index, character>>
registryVars == <<mapServers, capacity, block, directory>>
processVars  == <<players, pc>>
vars == <<socketVars, owner, entryVars, sessionVars, registryVars, processVars>>

IncomingConnectionState ==
    {"FRESH", "CHALLENGE_SENT", "LOGIN_FAILED", "MAP_LIST", "MAP_WAIT_ACK", "DONE"}

MapServerConnection == [connection : Conns, maps : SUBSET Maps]

NoServer == [slot |-> 0, block |-> 0]

\* A map has a server when mapNameToConnection.find() is not end().
HasServer(m) == directory[m].slot # 0

InitState ==
    /\ InitSockets
    /\ owner = [c \in Conns |-> "none"]
    /\ state = [c \in Conns |-> "ABSENT"]
    /\ attempts = [c \in Conns |-> 0]
    /\ hello = [c \in Conns |-> FALSE]
    /\ maps = [c \in Conns |-> {}]
    /\ user = [c \in Conns |-> None]
    /\ index = [n \in Names |-> None]
    /\ character = [c \in Conns |-> None]
    /\ mapServers = <<>>
    /\ capacity = Cardinality(Maps)     \* reserve(allMaps.size())
    /\ block = 0
    /\ directory = [m \in Maps |-> NoServer]
    /\ players \in {{}, Registered}
    /\ pc = "initDB"

\* Running as ever: every handler is a step of a process that has not crashed.
Alive == pc # "crashed"

=============================================================================
