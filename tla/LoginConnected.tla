--------------------------- MODULE LoginConnected ---------------------------
(***************************************************************************)
(* The thread that runs LoginServer::processConnected.  About once a       *)
(* second it walks over the player sessions, holding playerSessionMutex.   *)
(* The null pointers a pass leaves behind are erased before the mutex is   *)
(* released, so a reaped session is gone in one step.                      *)
(***************************************************************************)
EXTENDS LoginState

HasSession(c) == owner[c] = "session"

\* A session without an error and with activity.
Serves(c) == Alive /\ HasSession(c) /\ ~HasError(c) /\ HasActivity(c)

\* recv(2) has found an opcode.
Requests(c, kind) == Serves(c) /\ Readable(c) /\ Received(c).kind = kind

\* MUTANT: the index keeps its pointer.
ReapUnindexed(c) ==
    /\ Alive
    /\ HasSession(c)
    /\ HasError(c)
    /\ user' = [user EXCEPT ![c] = None]
    /\ character' = [character EXCEPT ![c] = None]
    /\ owner' = [owner EXCEPT ![c] = "none"]
    /\ DestroySockets({c})
    /\ UNCHANGED <<index, entryVars, registryVars, processVars>>

\* The session goes, and with it whatever the index has under its user's name.
ReapSession(c) ==
    /\ Alive
    /\ HasSession(c)
    /\ HasError(c)
    /\ index' = [index EXCEPT ![user[c]] = None]
    /\ user' = [user EXCEPT ![c] = None]
    /\ character' = [character EXCEPT ![c] = None]
    /\ owner' = [owner EXCEPT ![c] = "none"]
    /\ DestroySockets({c})
    /\ UNCHANGED <<entryVars, registryVars, processVars>>

SetError(c) ==
    /\ fault' = [fault EXCEPT ![c] = TRUE]
    /\ UNCHANGED <<link, toServer, told, toPeer, owner, entryVars, sessionVars, registryVars, processVars>>

\* MUTANT: a session that cannot be read from is passed over.
OpcodeMissingIgnored(c) ==
    /\ Serves(c)
    /\ ~Readable(c)
    /\ UNCHANGED vars

OpcodeMissing(c) ==
    /\ Serves(c)
    /\ ~Readable(c)
    /\ SetError(c)

\* The same for a socket that processCharacterSelect has disconnected, should it
\* report activity; nothing says that it does.
DisconnectNoticed(c) ==
    /\ Alive
    /\ HasSession(c)
    /\ ~HasError(c)
    /\ link[c] = "disconnected"
    /\ SetError(c)

Garbage == [kind |-> "garbage"]
OddByte == [kind |-> "oddByte"]

\* What an opcode that is not handled leaves of its message: the payload, which is read as
\* opcodes in its turn, two bytes in a pass.  Such a payload comes out even or it does not.
LeftOf(m) ==
    CASE m.kind \in {"identity", "mapList", "registration"} -> {<<Garbage>>}
      [] m.kind = "garbage" -> {<<>>, <<OddByte>>}
      [] OTHER -> {<<>>}

UnhandledOpcode(c) ==
    /\ Serves(c)
    /\ Readable(c)
    /\ Received(c).kind \notin {"requestCharacters", "characterSelect", "oddByte"}
    /\ \E left \in LeftOf(Received(c)) : toServer' = [toServer EXCEPT ![c] = left \o Tail(@)]
    /\ UNCHANGED <<link, told, toPeer, fault, owner, entryVars, sessionVars, registryVars, processVars>>

\* A last odd byte with nothing behind it: recv(2) returns one.
OpcodeCutShort(c) ==
    /\ Serves(c)
    /\ toServer[c] = <<OddByte>>
    /\ RecvOne(c)
    /\ fault' = [fault EXCEPT ![c] = TRUE]
    /\ UNCHANGED <<link, told, toPeer, owner, entryVars, sessionVars, registryVars, processVars>>

\* What is left of a message whose first byte went with the one before it: two bytes of
\* opcode, or ten with an id, leave an odd one once more.
OddRest(m) ==
    IF \/ m.kind \in {"requestCharacters", "versionMismatch", "ack"}
       \/ m.kind = "characterSelect" /\ m.character # None
    THEN OddByte
    ELSE Garbage

\* The odd byte is taken for half of an opcode, of which the message behind it makes the
\* other half.  (What opcodes can come of that is Framing's subject; a peer that sends what
\* it likes may as well send them in step.)
OpcodeOutOfStep(c) ==
    /\ Serves(c)
    /\ Len(toServer[c]) > 1 /\ Received(c) = OddByte
    /\ toServer' = [toServer EXCEPT ![c] = <<OddRest(@[2])>> \o Tail(Tail(@))]
    /\ UNCHANGED <<link, told, toPeer, fault, owner, entryVars, sessionVars, registryVars, processVars>>

Owned(c, ch) == ch \in Characters /\ CharacterOwner[ch] = user[c]

\* MUTANT: the query forgets its condition.
EveryCharacter(c) == Characters

CharactersOf(c) == {ch \in Characters : Owned(c, ch)}

processCharacterRequest(c) ==
    /\ Requests(c, "requestCharacters")
    /\ RecvOne(c)
    /\ \/ /\ Send(c, [kind |-> "characters", characters |-> CharactersOf(c)], TRUE)
          /\ UNCHANGED link
       \/ /\ link[c] # "up"
          /\ Disconnect(c)
          /\ fault' = [fault EXCEPT ![c] = TRUE]
          /\ UNCHANGED <<told, toPeer>>
    /\ UNCHANGED <<owner, entryVars, sessionVars, registryVars, processVars>>

-----------------------------------------------------------------------------
(* processCharacterSelect: the character's row, its map, the map's server. *)

\* fewer than eight bytes of character id
MalformedSelection(c) ==
    /\ Received(c).character = None
    /\ SendAnyhow(c, [kind |-> "malformed"])
    /\ UNCHANGED <<link, character, pc>>

\* The session keeps its disconnected socket and its error flag stays clear.
ForeignCharacter(c) ==
    /\ Received(c).character # None
    /\ ~Owned(c, Received(c).character)
    /\ Disconnect(c)
    /\ UNCHANGED <<told, toPeer, fault, character, pc>>

\* MUTANT: the character is set although there is no server to send the player to.
MapUnavailableSet(c, ch) ==
    /\ Owned(c, ch)
    /\ CharacterMap[ch] \in Maps => ~HasServer(CharacterMap[ch])
    /\ SendAnyhow(c, [kind |-> "noMapServer"])
    /\ character' = [character EXCEPT ![c] = ch]
    /\ UNCHANGED <<link, pc>>

\* MUTANT: the player is not told.
MapUnavailableSilent(c, ch) ==
    /\ Owned(c, ch)
    /\ CharacterMap[ch] \in Maps => ~HasServer(CharacterMap[ch])
    /\ UNCHANGED <<told, toPeer, fault, link, character, pc>>

\* A map that is not in mapIDToName, or has no entry in mapNameToConnection.
MapUnavailable(c, ch) ==
    /\ Owned(c, ch)
    /\ CharacterMap[ch] \in Maps => ~HasServer(CharacterMap[ch])
    /\ SendAnyhow(c, [kind |-> "noMapServer"])
    /\ UNCHANGED <<link, character, pc>>

\* The server's name and address are read through the stored pointer.
Dangling(m) == directory[m].block # block

\* The server's name and address are what the pointer leads to, whatever that is.
SendToMapServer(c, ch) ==
    LET m == CharacterMap[ch] IN
    /\ Owned(c, ch)
    /\ m \in Maps /\ HasServer(m)
    /\ \E ok \in BOOLEAN, server \in Conns :
          /\ ~Dangling(m) => server = mapServers[directory[m].slot].connection
          /\ Send(c, [kind |-> "instructions", server |-> server], ok)
          /\ character' = IF ok THEN [character EXCEPT ![c] = ch] ELSE character
    /\ UNCHANGED <<link, pc>>

\* The storage the pointer points into has been freed: the read is undefined and
\* may as well end the process.
ReadFreedServer(c, ch) ==
    /\ Owned(c, ch)
    /\ CharacterMap[ch] \in Maps /\ HasServer(CharacterMap[ch])
    /\ Dangling(CharacterMap[ch])
    /\ pc' = "crashed"
    /\ UNCHANGED <<link, told, toPeer, fault, character>>

processCharacterSelect(c) ==
    /\ Requests(c, "characterSelect")
    /\ RecvOne(c)
    /\ LET ch == Received(c).character IN
       \/ MalformedSelection(c)
       \/ ForeignCharacter(c)
       \/ MapUnavailable(c, ch)
       \/ SendToMapServer(c, ch)
       \/ ReadFreedServer(c, ch)
    /\ UNCHANGED <<owner, entryVars, user, index, registryVars, players>>

processSession(c) ==
    \/ ReapSession(c)
    \/ OpcodeMissing(c)
    \/ DisconnectNoticed(c)
    \/ UnhandledOpcode(c)
    \/ OpcodeCutShort(c)
    \/ OpcodeOutOfStep(c)
    \/ processCharacterRequest(c)
    \/ processCharacterSelect(c)

processConnected == \E c \in Conns : processSession(c)

=============================================================================
