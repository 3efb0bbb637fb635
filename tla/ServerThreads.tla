--------------------------- MODULE ServerThreads ---------------------------
(***************************************************************************)
(* The three threads of the login server and their three mutexes, step by  *)
(* step between the locks.  LoginServer takes a handler as one action;     *)
(* here a handler is only what it does to what the threads share: which    *)
(* list holds a socket, and the directory of map servers.                  *)
(***************************************************************************)
EXTENDS Naturals, FiniteSets

CONSTANTS Sockets, Maps

ASSUME ThreadsAssumption == Maps # {} /\ "nobody" \notin Sockets

Mutexes == {"incomingConnections", "playerSession", "mapServers"}

VARIABLES
    owner,              \* the thread that holds a mutex
    main, accepted,     \* where the main thread is, and the socket it has in its hand
    incoming, toVisit,  \* the incoming thread, and the entries its pass has not come to
    current, toPublish, \* the entry it handles, and the maps of it that it has not published
    connected, toServe, \* the connected thread, and the sessions of its pass
    incomingConnections, playerSessions, mapServers, directory

mainVars == <<main, accepted>>
incomingVars == <<incoming, toVisit, current, toPublish>>
connectedVars == <<connected, toServe>>
shared == <<incomingConnections, playerSessions, mapServers, directory>>
vars == <<owner, mainVars, incomingVars, connectedVars, shared>>

None == "nobody"

Init ==
    /\ owner = [x \in Mutexes |-> None]
    /\ main = "accepting" /\ accepted = None
    /\ incoming = "between passes" /\ toVisit = {} /\ current = None /\ toPublish = {}
    /\ connected = "between passes" /\ toServe = {}
    /\ incomingConnections = {} /\ playerSessions = {} /\ mapServers = {} /\ directory = {}

Lock(x, thread) == owner[x] = None /\ owner' = [owner EXCEPT ![x] = thread]
Unlock(x) == owner' = [owner EXCEPT ![x] = None]

-----------------------------------------------------------------------------
(* The main thread. *)

Accept ==
    /\ main = "accepting"
    /\ \E s \in Sockets \ (incomingConnections \cup playerSessions \cup mapServers) : accepted' = s
    /\ main' = "locking"
    /\ UNCHANGED <<owner, incomingVars, connectedVars, shared>>

\* MUTANT: the guard is taken after the list has been added to.
LockListLate ==
    /\ main = "locking" /\ main' = "adding"
    /\ UNCHANGED <<owner, accepted, incomingVars, connectedVars, shared>>

LockList ==
    /\ main = "locking" /\ main' = "adding"
    /\ Lock("incomingConnections", "main")
    /\ UNCHANGED <<accepted, incomingVars, connectedVars, shared>>

Add ==
    /\ main = "adding" /\ main' = "accepting"
    /\ incomingConnections' = incomingConnections \cup {accepted} /\ accepted' = None
    /\ owner' = [owner EXCEPT !["incomingConnections"] = IF @ = "main" THEN None ELSE @]
    /\ UNCHANGED <<incomingVars, connectedVars, playerSessions, mapServers, directory>>

\* The error of the acceptor ends the loop and leaves the main thread in a join that never
\* returns: nothing sets `done`.
AcceptorError ==
    /\ main = "accepting" /\ main' = "joining"
    /\ UNCHANGED <<owner, accepted, incomingVars, connectedVars, shared>>

MainThread == Accept \/ LockList \/ Add \/ AcceptorError

-----------------------------------------------------------------------------
(* processIncoming. *)

BeginVisits ==
    /\ incoming = "between passes" /\ incoming' = "visiting"
    /\ Lock("incomingConnections", "incoming")
    /\ toVisit' = incomingConnections
    /\ UNCHANGED <<mainVars, current, toPublish, connectedVars, shared>>

\* The handlers that touch nothing another thread has, and the purge of what is done.
VisitAlone ==
    /\ incoming = "visiting" /\ toVisit # {}
    /\ \E s \in toVisit : /\ toVisit' = toVisit \ {s}
                          /\ incomingConnections' \in {incomingConnections, incomingConnections \ {s}}
    /\ UNCHANGED <<owner, mainVars, incoming, current, toPublish, connectedVars, playerSessions, mapServers, directory>>

\* An entry whose handler is about to hand its socket on.
BeginHandOver ==
    /\ incoming = "visiting"
    /\ \E s \in toVisit : current' = s /\ toVisit' = toVisit \ {s}
    /\ \/ incoming' = "logged in" /\ UNCHANGED toPublish
       \/ incoming' = "acknowledged" /\ toPublish' \in (SUBSET Maps) \ {{}}
    /\ UNCHANGED <<owner, mainVars, connectedVars, shared>>

LockSessions ==
    /\ incoming = "logged in" /\ incoming' = "adding session"
    /\ Lock("playerSession", "incoming")
    /\ UNCHANGED <<mainVars, toVisit, current, toPublish, connectedVars, shared>>

\* The entry that lost its socket is DONE.
AddSession ==
    /\ incoming = "adding session" /\ incoming' = "visiting"
    /\ playerSessions' = playerSessions \cup {current}
    /\ incomingConnections' = incomingConnections \ {current} /\ current' = None
    /\ owner' = [owner EXCEPT !["playerSession"] = IF @ = "incoming" THEN None ELSE @]
    /\ UNCHANGED <<mainVars, toVisit, toPublish, connectedVars, mapServers, directory>>

AddServer ==
    /\ incoming = "acknowledged" /\ incoming' = "publishing"
    /\ Lock("mapServers", "incoming")
    /\ mapServers' = mapServers \cup {current}
    /\ UNCHANGED <<mainVars, toVisit, current, toPublish, connectedVars, incomingConnections, playerSessions, directory>>

\* One turn of the loop over the maps of the new server.
Publish ==
    /\ incoming = "publishing" /\ toPublish # {}
    /\ \E m \in toPublish : directory' = directory \cup {m} /\ toPublish' = toPublish \ {m}
    /\ UNCHANGED <<owner, mainVars, incoming, toVisit, current, connectedVars, incomingConnections, playerSessions, mapServers>>

\* MUTANT: the mutex is not given back.
PublishedLocked ==
    /\ incoming = "publishing" /\ toPublish = {} /\ incoming' = "visiting"
    /\ incomingConnections' = incomingConnections \ {current} /\ current' = None
    /\ UNCHANGED <<owner, mainVars, toVisit, toPublish, connectedVars, playerSessions, mapServers, directory>>

Published ==
    /\ incoming = "publishing" /\ toPublish = {} /\ incoming' = "visiting"
    /\ Unlock("mapServers")
    /\ incomingConnections' = incomingConnections \ {current} /\ current' = None
    /\ UNCHANGED <<mainVars, toVisit, toPublish, connectedVars, playerSessions, mapServers, directory>>

EndVisits ==
    /\ incoming = "visiting" /\ toVisit = {} /\ incoming' = "between passes"
    /\ Unlock("incomingConnections")
    /\ UNCHANGED <<mainVars, toVisit, current, toPublish, connectedVars, shared>>

IncomingThread ==
    \/ BeginVisits \/ VisitAlone \/ BeginHandOver \/ LockSessions \/ AddSession
    \/ AddServer \/ Publish \/ Published \/ EndVisits

-----------------------------------------------------------------------------
(* processConnected. *)

BeginServices ==
    /\ connected = "between passes" /\ connected' = "serving"
    /\ Lock("playerSession", "connected")
    /\ toServe' = playerSessions
    /\ UNCHANGED <<mainVars, incomingVars, shared>>

\* A session is reaped, or asks for nothing, or for its characters.
ServeAlone ==
    /\ connected = "serving"
    /\ \E s \in toServe : /\ toServe' = toServe \ {s}
                          /\ playerSessions' \in {playerSessions, playerSessions \ {s}}
    /\ UNCHANGED <<owner, mainVars, incomingVars, connected, incomingConnections, mapServers, directory>>

\* A selection looks for its map in the directory, and takes no mutex for it.
BeginFind ==
    /\ connected = "serving" /\ connected' = "finding"
    /\ \E s \in toServe : toServe' = toServe \ {s}
    /\ UNCHANGED <<owner, mainVars, incomingVars, shared>>

Found ==
    /\ connected = "finding" /\ connected' = "serving"
    /\ UNCHANGED <<owner, mainVars, incomingVars, toServe, shared>>

EndServices ==
    /\ connected = "serving" /\ toServe = {} /\ connected' = "between passes"
    /\ Unlock("playerSession")
    /\ UNCHANGED <<mainVars, incomingVars, toServe, shared>>

ConnectedThread == BeginServices \/ ServeAlone \/ BeginFind \/ Found \/ EndServices

Next == MainThread \/ IncomingThread \/ ConnectedThread

Spec == Init /\ [][Next]_vars

\* The threads run.  A lock may be taken by another thread again and again: only for the
\* sessions does the code leave a pause between the passes of the thread that competes, so
\* only there a thread that waits is served in the end.
FairSpec ==
    /\ Spec
    /\ WF_vars(Add) /\ WF_vars(IncomingThread) /\ WF_vars(ConnectedThread)
    /\ SF_vars(LockSessions) /\ SF_vars(BeginVisits)

-----------------------------------------------------------------------------

\* A vector is not added to, nor a list, while another thread goes through it: the passes
\* hold iterators and references into them.
PassesUndisturbed ==
    [][/\ incoming # "between passes" => incomingConnections' \subseteq incomingConnections
       /\ connected # "between passes" => playerSessions' \subseteq playerSessions]_vars

\* Every pass over the connections ends: the mutexes taken inside of it are never held by a
\* thread that waits for this one.
PassesEnd == []<>(incoming = "between passes")

=============================================================================
