------------------------------- MODULE Peers -------------------------------
(***************************************************************************)
(* Programs at the other end of the login server's sockets: what the map   *)
(* server and the client rely on when they connect, send, wait and receive *)
(* (APG::Socket again, external to the repository).  A program has at most *)
(* one connection, its line.  The line outlives the login server's socket: *)
(* a program that does not look does not know that it was dropped.         *)
(***************************************************************************)
EXTENDS LoginServer

CONSTANTS
    Programs,
    Builds      \* Builds[p]: what program p may have been built and installed as

\* Next to a sound installation: another version than the login server's, and another
\* public key file.
Build == {"right", "wrongVersion", "wrongKey"}

ASSUME ProgramsAssumption ==
    /\ None \notin Programs
    /\ Builds \in [Programs -> SUBSET Build]

VARIABLES
    line,   \* line[p]: the connection of program p, None while it has none
    build   \* build[p]: which of them it is, for good

serverVars == <<owner, entryVars, sessionVars, registryVars, processVars>>

Linked(p) == line[p] # None

\* connect(), and the login server's accept: a program that is never accepted differs
\* in nothing from one that is accepted and not served.
Dial(p) ==
    \E c \in Conns :
        /\ \A q \in Programs : line[q] # c
        /\ AcceptConnection(c)
        /\ line' = [line EXCEPT ![p] = c]

\* waitForActivity() has something to read, or only the end of the stream.
Heard(p) == Linked(p) /\ toPeer[line[p]] # <<>>
Ended(p) == Linked(p) /\ toPeer[line[p]] = <<>> /\ link[line[p]] # "up"

\* recv() takes all that has arrived; the message that is decoded is the first.
First(p) == Head(toPeer[line[p]])
TakeAll(p) == toPeer' = [toPeer EXCEPT ![line[p]] = <<>>]

\* send(), of which no caller looks at the result.
Tell(p, m) ==
    LET c == line[p] IN
    /\ link[c] = "up" => HasRoom(c)
    /\ toServer' = IF link[c] = "up" THEN [toServer EXCEPT ![c] = Append(@, m)] ELSE toServer
    /\ UNCHANGED <<link, told, fault, serverVars>>

\* Nothing goes out.
Silent == UNCHANGED <<link, toServer, told, fault, serverVars>>

\* The program's socket is closed, by disconnect(), its destructor or the system.
HangUp(p) ==
    LET c == line[p] IN
    /\ link' = IF link[c] = "up" THEN [link EXCEPT ![c] = "closed"] ELSE link
    /\ TakeAll(p)
    /\ line' = [line EXCEPT ![p] = None]
    /\ UNCHANGED <<toServer, told, fault, serverVars>>

InitPeers ==
    /\ Init
    /\ line = [p \in Programs |-> None]
    /\ build \in {b \in [Programs -> Build] : \A p \in Programs : b[p] \in Builds[p]}

=============================================================================
