---------------------------- MODULE LoginClient ----------------------------
(***************************************************************************)
(* The client up to the moment it plays: PlayPG::render with its game      *)
(* states and the blocking calls of doLogin.  The user presses keys when   *)
(* they are looked at; in between the client waits in a call.              *)
(***************************************************************************)
EXTENDS Peers

CONSTANTS
    Clients,        \* the client programs; each is started once
    DefaultUser,    \* "test@example.com"
    PasswordTesta   \* the accounts that have the one password the client sends

ASSUME ClientsAssumption ==
    /\ Clients \subseteq Programs
    /\ DefaultUser \in Names

VARIABLES
    gameState,          \* of the client; "CRASHED" and "CLOSED" when it is no more
    wait,               \* wait[u]: the call it blocks in, "none" between two frames
    crypto,             \* crypto[u]: the key of a challenge has been loaded
    username,           \* what it sends as its identity
    currentCharacter    \* the character of the last selection

clientVars == <<gameState, wait, crypto, username, currentCharacter>>

GameState == {"LOGIN", "CHARACTER_SELECT", "MAP_SERVER_CONNECT", "PLAYING"}

InitClients ==
    /\ gameState = [u \in Clients |-> "LOGIN"]
    /\ wait = [u \in Clients |-> "none"]
    /\ crypto = [u \in Clients |-> FALSE]
    /\ username = [u \in Clients |-> DefaultUser]
    /\ currentCharacter = [u \in Clients |-> None]

Idle(u, s) == gameState[u] = s /\ wait[u] = "none"
Await(u, w) == wait' = [wait EXCEPT ![u] = w]
Move(u, s) == gameState' = [gameState EXCEPT ![u] = s]

\* What isConnected() says after recv() has met the end of the stream is the
\* library's affair.
MayNoticeEnd(u) ==
    \/ UNCHANGED line
    \/ Ended(u) /\ line' = [line EXCEPT ![u] = None]

\* MUTANT: the password is not encrypted, so that the server decrypts something else.
SendIdentityPlain(u) == Tell(u, [kind |-> "identity", user |-> username[u], right |-> FALSE])

SendIdentity(u) ==
    Tell(u, [kind |-> "identity", user |-> username[u], right |-> username[u] \in PasswordTesta])

\* SDL_SCANCODE_1
PressOne(u) ==
    /\ Idle(u, "LOGIN")
    /\ username' = [username EXCEPT ![u] = SuperUser]
    /\ Silent
    /\ UNCHANGED <<toPeer, line, gameState, wait, crypto, currentCharacter>>

-----------------------------------------------------------------------------
(* doLogin.  SDL_SCANCODE_SPACE *)

Connect(u) ==
    /\ Idle(u, "LOGIN")
    /\ ~Linked(u)
    /\ Dial(u)
    /\ Await(u, "challenge")
    /\ UNCHANGED <<gameState, crypto, username, currentCharacter>>

\* The socket is connected, so the challenge is taken to have been received: without
\* a key encryptStringPublic is called on a null pointer.
LoginAgain(u) ==
    /\ Idle(u, "LOGIN")
    /\ Linked(u)
    /\ \/ /\ crypto[u]
          /\ SendIdentity(u)
          /\ Await(u, "answer")
          /\ UNCHANGED <<toPeer, line, gameState>>
       \/ /\ ~crypto[u]
          /\ HangUp(u)
          /\ Move(u, "CRASHED")
          /\ UNCHANGED wait
    /\ UNCHANGED <<crypto, username, currentCharacter>>

\* Two seconds, or the end of the stream, in either wait of doLogin.
GiveUpWaiting(u) ==
    /\ wait[u] \in {"challenge", "answer"}
    /\ ~Heard(u)
    /\ MayNoticeEnd(u)
    /\ Await(u, "none")
    /\ Silent
    /\ UNCHANGED <<toPeer, gameState, crypto, username, currentCharacter>>

AnswerChallenge(u) ==
    \/ build[u] = "wrongVersion" /\ Tell(u, [kind |-> "versionMismatch"]) /\ Await(u, "none")
    \/ build[u] # "wrongVersion" /\ SendIdentity(u) /\ Await(u, "answer")

\* MUTANT: the key is not kept.
ClientChallengeUnkept(u) ==
    /\ wait[u] = "challenge" /\ Heard(u)
    /\ TakeAll(u)
    /\ AnswerChallenge(u)
    /\ UNCHANGED <<line, gameState, crypto, username, currentCharacter>>

ClientChallenge(u) ==
    /\ wait[u] = "challenge" /\ Heard(u)
    /\ TakeAll(u)
    /\ \/ First(u).kind # "challenge" /\ Silent /\ Await(u, "none") /\ UNCHANGED crypto
       \/ /\ First(u).kind = "challenge"
          /\ crypto' = [crypto EXCEPT ![u] = TRUE]
          /\ AnswerChallenge(u)
    /\ UNCHANGED <<line, gameState, username, currentCharacter>>

\* A response that says there are no attempts left.
LastAttempt(r) == r.kind = "response" /\ ~r.success /\ r.remaining = 0

\* MUTANT: any answer will do.
AnyAnswer(r) == TRUE

Successful(r) == r.kind = "response" /\ r.success

ReceiveAnswer(u) ==
    /\ wait[u] = "answer" /\ Heard(u)
    /\ \/ LastAttempt(First(u)) /\ HangUp(u)
       \/ ~LastAttempt(First(u)) /\ TakeAll(u) /\ Silent /\ UNCHANGED line
    /\ IF Successful(First(u)) THEN Move(u, "CHARACTER_SELECT") ELSE UNCHANGED gameState
    /\ Await(u, "none")
    /\ UNCHANGED <<crypto, username, currentCharacter>>

-----------------------------------------------------------------------------
(* Characters.  SDL_SCANCODE_RETURN *)

\* Without a connection nothing goes out, nothing arrives, and the frame is over.
RequestCharacters(u) ==
    /\ Idle(u, "CHARACTER_SELECT")
    /\ \/ Linked(u) /\ Tell(u, [kind |-> "requestCharacters"]) /\ Await(u, "characters")
       \/ ~Linked(u) /\ Silent /\ UNCHANGED wait
    /\ UNCHANGED <<toPeer, line, gameState, crypto, username, currentCharacter>>

CharactersMissing(u) ==
    /\ wait[u] = "characters"
    /\ Ended(u)
    /\ MayNoticeEnd(u)
    /\ Await(u, "none")
    /\ Silent
    /\ UNCHANGED <<toPeer, gameState, crypto, username, currentCharacter>>

\* The first of the list, whatever the order of the database.
SelectCharacter(u) ==
    \E ch \in First(u).characters :
        /\ currentCharacter' = [currentCharacter EXCEPT ![u] = ch]
        /\ Tell(u, [kind |-> "characterSelect", character |-> ch])
        /\ Move(u, "MAP_SERVER_CONNECT")

ReceiveCharacters(u) ==
    /\ wait[u] = "characters" /\ Heard(u)
    /\ TakeAll(u)
    /\ Await(u, "none")
    /\ LET listed == First(u).kind = "characters" /\ First(u).characters # {} IN
       \/ listed /\ SelectCharacter(u)
       \/ ~listed /\ Silent /\ UNCHANGED <<gameState, currentCharacter>>
    /\ UNCHANGED <<line, crypto, username>>

\* MUTANT: the first reply sends the player into the world.
PlayAnyhow(r) == "PLAYING"

Instructed(r) == IF r.kind = "instructions" THEN "PLAYING" ELSE "CHARACTER_SELECT"

\* Every frame waits, without a limit, until something arrives; at the end of the
\* stream nothing does, and the state stays.
ReceiveInstructions(u) ==
    /\ gameState[u] = "MAP_SERVER_CONNECT" /\ Heard(u)
    /\ TakeAll(u)
    /\ Silent
    /\ Move(u, Instructed(First(u)))
    /\ UNCHANGED <<line, wait, crypto, username, currentCharacter>>

\* The window is closed.
Quit(u) ==
    /\ gameState[u] \in GameState
    /\ IF Linked(u) THEN HangUp(u) ELSE Silent /\ UNCHANGED <<toPeer, line>>
    /\ Move(u, "CLOSED")
    /\ Await(u, "none")
    /\ UNCHANGED <<crypto, username, currentCharacter>>

doLogin(u) == Connect(u) \/ LoginAgain(u) \/ GiveUpWaiting(u) \/ ClientChallenge(u) \/ ReceiveAnswer(u)

render(u) ==
    \/ PressOne(u)
    \/ doLogin(u)
    \/ RequestCharacters(u)
    \/ CharactersMissing(u)
    \/ ReceiveCharacters(u)
    \/ ReceiveInstructions(u)
    \/ Quit(u)

=============================================================================
