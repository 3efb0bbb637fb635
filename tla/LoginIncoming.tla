--------------------------- MODULE LoginIncoming ---------------------------
(***************************************************************************)
(* The thread that runs LoginServer::processIncoming.  It holds            *)
(* incomingConnectionsMutex for a whole pass over the vector, so the       *)
(* handler of one connection is one step; the steps of one pass touch      *)
(* different connections, and what they share (accounts, sessions, map     *)
(* servers) they take one after the other.                                 *)
(***************************************************************************)
EXTENDS LoginState

\* MUTANT: an entry that is DONE but still has its socket is served again.
VisitsDone(c, s) ==
    /\ Alive /\ ~HasError(c)
    /\ state[c] = s \/ (s = "LOGIN_FAILED" /\ state[c] = "DONE" /\ owner[c] = "incoming")

\* A pass reaches a connection in state s whose socket has no error (the error
\* check at the top of the loop has moved any other one to DONE).
Visits(c, s) == Alive /\ state[c] = s /\ ~HasError(c)

\* MUTANT: off by one.
ResponseOffByOne(success, used) ==
    [kind |-> "response", success |-> success, remaining |-> MAX_ATTEMPTS_ALLOWED - 1 - used]

Response(success, used) ==
    [kind |-> "response", success |-> success, remaining |-> MAX_ATTEMPTS_ALLOWED - used]

SetState(c, s) == state' = [state EXCEPT ![c] = s]

\* The error check at the top of the loop.
DropFaulty(c) ==
    /\ Alive
    /\ state[c] \notin {"ABSENT", "DONE"}
    /\ HasError(c)
    /\ SetState(c, "DONE")
    /\ UNCHANGED <<socketVars, owner, attempts, hello, maps, sessionVars, registryVars, processVars>>

processFreshSocket(c) ==
    /\ Visits(c, "FRESH")
    /\ SendAnyhow(c, [kind |-> "challenge"])
    /\ SetState(c, IF fault'[c] THEN "DONE" ELSE "CHALLENGE_SENT")
    /\ UNCHANGED <<link, toServer, owner, attempts, hello, maps,
                   sessionVars, registryVars, processVars>>

\* MUTANT: the end of the stream is overlooked.
NothingReadIgnored(c) ==
    /\ ~Readable(c)
    /\ UNCHANGED <<socketVars, owner, entryVars, sessionVars, registryVars>>

\* There is activity but recv() returns nothing: the peer has gone.
NothingRead(c) ==
    /\ ~Readable(c)
    /\ SetState(c, "DONE")
    /\ UNCHANGED <<socketVars, owner, attempts, hello, maps, sessionVars, registryVars>>

\* MUTANT: the attempt is not counted.
FailUncounted(c) ==
    /\ SetState(c, "LOGIN_FAILED")
    /\ SendAnyhow(c, Response(FALSE, attempts[c]))
    /\ UNCHANGED <<link, owner, attempts, hello, maps, sessionVars, registryVars>>

\* MUTANT: the answer is made before the attempt is counted.
FailAnsweredFirst(c) ==
    /\ attempts' = [attempts EXCEPT ![c] = @ + 1]
    /\ SetState(c, IF attempts'[c] = MAX_ATTEMPTS_ALLOWED THEN "DONE" ELSE "LOGIN_FAILED")
    /\ SendAnyhow(c, Response(FALSE, attempts[c]))
    /\ UNCHANGED <<link, owner, hello, maps, sessionVars, registryVars>>

\* One attempt is used up.  The check that follows the dispatch in both handlers
\* ends the connection when it was the last one.
FailAttempt(c) ==
    /\ attempts' = [attempts EXCEPT ![c] = @ + 1]
    /\ SetState(c, IF attempts'[c] = MAX_ATTEMPTS_ALLOWED THEN "DONE" ELSE "LOGIN_FAILED")
    /\ SendAnyhow(c, Response(FALSE, attempts'[c]))
    /\ UNCHANGED <<link, owner, hello, maps, sessionVars, registryVars>>

\* A locked account is told so whatever the password.
RefuseLocked(c) ==
    /\ SendAnyhow(c, Response(FALSE, MAX_ATTEMPTS_ALLOWED))
    /\ Disconnect(c)
    /\ SetState(c, "DONE")
    /\ UNCHANGED <<owner, attempts, hello, maps, sessionVars, registryVars>>

\* MUTANT: the entry is not marked DONE when its socket has been moved.
OpenSessionNotDone(c, n) ==
    /\ SendAnyhow(c, Response(TRUE, attempts[c]))
    /\ owner' = [owner EXCEPT ![c] = "session"]
    /\ user' = [user EXCEPT ![c] = n]
    /\ index' = IF index[n] = None THEN [index EXCEPT ![n] = c] ELSE index
    /\ UNCHANGED <<link, entryVars, character, registryVars>>

\* emplace() leaves an entry alone that is there already: of two sessions of one
\* player the first stays the one in the index.
OpenSession(c, n) ==
    /\ SendAnyhow(c, Response(TRUE, attempts[c]))
    /\ owner' = [owner EXCEPT ![c] = "session"]
    /\ user' = [user EXCEPT ![c] = n]
    /\ index' = IF index[n] = None THEN [index EXCEPT ![n] = c] ELSE index
    /\ SetState(c, "DONE")
    /\ UNCHANGED <<link, attempts, hello, maps, character, registryVars>>

\* MUTANT: the lock of the account is not looked at.
LoginAttemptUnlocked(c, m) ==
    \/ m.user \notin players /\ FailAttempt(c)
    \/ m.user \in players /\ m.right /\ OpenSession(c, m.user)
    \/ m.user \in players /\ ~m.right /\ FailAttempt(c)

\* The row's lastLogin, which nothing reads, is left out.
processLoginAttempt(c, m) ==
    \/ m.user \notin players /\ FailAttempt(c)
    \/ m.user \in players \cap Locked /\ RefuseLocked(c)
    \/ m.user \in players \ Locked /\ m.right /\ OpenSession(c, m.user)
    \/ m.user \in players \ Locked /\ ~m.right /\ FailAttempt(c)

processMapAuthenticationRequest(c) ==
    \E ok \in BOOLEAN :
        /\ Send(c, [kind |-> "registrationResponse"], ok)
        /\ SetState(c, IF ok THEN "MAP_LIST" ELSE state[c])

RegisterMapServer(c) ==
    /\ hello' = [hello EXCEPT ![c] = TRUE]
    /\ processMapAuthenticationRequest(c)
    /\ UNCHANGED <<link, owner, attempts, maps, sessionVars, registryVars>>

VersionMismatch(c) ==
    /\ SetState(c, "DONE")
    /\ UNCHANGED <<link, told, toPeer, fault, owner, attempts, hello, maps, sessionVars, registryVars>>

processChallengeSentSocket(c) ==
    /\ Visits(c, "CHALLENGE_SENT")
    /\ HasActivity(c)
    /\ \/ NothingRead(c)
       \/ /\ Readable(c)
          /\ RecvAll(c)
          /\ LET m == Received(c) IN
             \/ m.kind = "identity" /\ processLoginAttempt(c, m)
             \/ m.kind = "versionMismatch" /\ VersionMismatch(c)
             \/ m.kind = "registration" /\ RegisterMapServer(c)
             \/ /\ m.kind \notin {"identity", "versionMismatch", "registration"}
                /\ FailAttempt(c)
    /\ UNCHANGED processVars

\* Only an identity is looked at; a map server gets no second try.
processLoginFailedSocket(c) ==
    /\ Visits(c, "LOGIN_FAILED")
    /\ HasActivity(c)
    /\ \/ NothingRead(c)
       \/ /\ Readable(c)
          /\ RecvAll(c)
          /\ LET m == Received(c) IN
             \/ m.kind = "identity" /\ processLoginAttempt(c, m)
             \/ m.kind # "identity" /\ FailAttempt(c)
    /\ UNCHANGED processVars

-----------------------------------------------------------------------------
(* Registration of map servers. *)

\* MUTANT: maps the map server did not list are asked of it too.
RequiredMapsUnlisted(m) == {n \in Maps : m.maps # {} /\ ~HasServer(n)}

\* The listed maps that no registered server has yet.
RequiredMaps(m) == {n \in m.maps : ~HasServer(n)}

\* MUTANT: the entry does not remember what was asked for.
RequireMapsForgotten(c, required) ==
    /\ SendAnyhow(c, [kind |-> "requiredMaps", maps |-> required])
    /\ SetState(c, "MAP_WAIT_ACK")
    /\ UNCHANGED maps

RequireMaps(c, required) ==
    /\ SendAnyhow(c, [kind |-> "requiredMaps", maps |-> required])
    /\ maps' = [maps EXCEPT ![c] = required]
    /\ SetState(c, "MAP_WAIT_ACK")

NotNeeded(c) ==
    /\ SendAnyhow(c, [kind |-> "notNeeded"])
    /\ SetState(c, "DONE")
    /\ UNCHANGED maps

NotAList(c) ==
    /\ SetState(c, "DONE")
    /\ UNCHANGED <<told, toPeer, fault, maps>>

processMapListSocket(c) ==
    /\ Visits(c, "MAP_LIST")
    /\ HasActivity(c)
    /\ \/ NothingRead(c)
       \/ /\ Readable(c)
          /\ RecvAll(c)
          /\ LET m == Received(c) IN
             \/ m.kind # "mapList" /\ NotAList(c)
             \/ m.kind = "mapList" /\ RequiredMaps(m) = {} /\ NotNeeded(c)
             \/ /\ m.kind = "mapList" /\ RequiredMaps(m) # {}
                /\ RequireMaps(c, RequiredMaps(m))
          /\ UNCHANGED <<link, owner, attempts, hello, sessionVars, registryVars>>
    /\ UNCHANGED processVars

\* MUTANT: nothing was reserved and the vector is grown one by one.
EmplaceUnreserved(server) ==
    /\ mapServers' = Append(mapServers, server)
    /\ capacity' = capacity
    /\ block' = block + 1

\* emplace_back: the vector's storage is replaced when it is full (twice as large,
\* as libstdc++ does it).
EmplaceServer(server) ==
    LET full == Len(mapServers) = capacity IN
    /\ mapServers' = Append(mapServers, server)
    /\ capacity' = IF ~full THEN capacity ELSE IF capacity = 0 THEN 1 ELSE 2 * capacity
    /\ block' = IF full THEN block + 1 ELSE block

\* MUTANT: operator[] instead of emplace().
PublishOverwriting(served) ==
    directory' = [m \in Maps |->
        IF m \in served THEN [slot |-> Len(mapServers'), block |-> block'] ELSE directory[m]]

\* MUTANT: back() taken before the new server is there.
PublishEarly(served) ==
    directory' = [m \in Maps |->
        IF m \in served /\ ~HasServer(m)
        THEN [slot |-> Len(mapServers), block |-> block]
        ELSE directory[m]]

\* emplace() of a pointer to the newest server for each of its maps.
Publish(served) ==
    directory' = [m \in Maps |->
        IF m \in served /\ ~HasServer(m)
        THEN [slot |-> Len(mapServers'), block |-> block']
        ELSE directory[m]]

\* MUTANT: a server is dropped when another one has registered for one of its maps.
WaitAckLate(c) ==
    /\ Visits(c, "MAP_WAIT_ACK")
    /\ HasActivity(c)
    /\ \/ NothingRead(c)
       \/ /\ Readable(c)
          /\ RecvAll(c)
          /\ IF \E m \in maps[c] : HasServer(m)
             THEN UNCHANGED <<mapServers, capacity, block, directory, owner, maps>>
             ELSE /\ EmplaceServer([connection |-> c, maps |-> maps[c]])
                  /\ Publish(maps[c])
                  /\ owner' = [owner EXCEPT ![c] = "mapServer"]
                  /\ maps' = [maps EXCEPT ![c] = {}]
          /\ SetState(c, "DONE")
          /\ UNCHANGED <<link, told, toPeer, fault, attempts, hello, sessionVars>>
    /\ UNCHANGED processVars

\* Whatever arrives is taken for the acknowledgement.  The maps are moved out of
\* the entry.
processMapWaitAckSocket(c) ==
    /\ Visits(c, "MAP_WAIT_ACK")
    /\ HasActivity(c)
    /\ \/ NothingRead(c)
       \/ /\ Readable(c)
          /\ RecvAll(c)
          /\ EmplaceServer([connection |-> c, maps |-> maps[c]])
          /\ Publish(maps[c])
          /\ owner' = [owner EXCEPT ![c] = "mapServer"]
          /\ maps' = [maps EXCEPT ![c] = {}]
          /\ SetState(c, "DONE")
          /\ UNCHANGED <<link, told, toPeer, fault, attempts, hello, sessionVars>>
    /\ UNCHANGED processVars

-----------------------------------------------------------------------------

\* remove_if and erase: the entries go, and with them the sockets S.
EraseDone(S) ==
    LET gone == {c \in Conns : state[c] = "DONE"} IN
    /\ Alive
    /\ gone # {}
    /\ state' = [c \in Conns |-> IF c \in gone THEN "ABSENT" ELSE state[c]]
    /\ attempts' = [c \in Conns |-> IF c \in gone THEN 0 ELSE attempts[c]]
    /\ hello' = [c \in Conns |-> IF c \in gone THEN FALSE ELSE hello[c]]
    /\ maps' = [c \in Conns |-> IF c \in gone THEN {} ELSE maps[c]]
    /\ owner' = [c \in Conns |-> IF c \in S THEN "none" ELSE owner[c]]
    /\ DestroySockets(S)

DoneWithSocket == {c \in Conns : state[c] = "DONE" /\ owner[c] = "incoming"}

\* MUTANT: sockets that were moved out of their entries are closed with them.
PurgeMoved ==
    /\ EraseDone({c \in Conns : state[c] = "DONE"})
    /\ UNCHANGED <<sessionVars, registryVars, processVars>>

\* The end of a pass, when the last purge is long enough ago: the DONE entries go,
\* and with them the sockets that were not moved out of them.
PurgeDone ==
    /\ EraseDone(DoneWithSocket)
    /\ UNCHANGED <<sessionVars, registryVars, processVars>>

processConnection(c) ==
    \/ DropFaulty(c)
    \/ processFreshSocket(c)
    \/ processChallengeSentSocket(c)
    \/ processLoginFailedSocket(c)
    \/ processMapListSocket(c)
    \/ processMapWaitAckSocket(c)

processIncoming == PurgeDone \/ \E c \in Conns : processConnection(c)

=============================================================================
