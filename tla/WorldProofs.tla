----------------------------- MODULE WorldProofs -----------------------------
(***************************************************************************)
(* The world of a login server, map servers and clients, for any number of *)
(* each.  Every step of a program is one that LoginServer grants the peer  *)
(* at the other end of its line, so that what is proved of LoginServer     *)
(* holds here.  In return the login server's steps are followed along each *)
(* line: where the handshake of a map server has got to, on both sides and *)
(* in between, and what a client has sent and been told.                   *)
(***************************************************************************)
EXTENDS WorldProperties, LoginProofs

Plain(k) == [kind |-> k]
List(S) == [kind |-> "mapList", maps |-> S]

At(c, s, unread) == state[c] = s /\ toServer[c] = unread

ListedFor(c, S) == \E i \in 1..Len(mapServers) : mapServers[i].connection = c /\ mapServers[i].maps \subseteq S

\* How far map server p is with its registration over connection c, which is up: what
\* waits for it to be read on either side belongs to what both are waiting for.
InChallenge(p, c) ==
    /\ stage[p] = "challenge"
    /\ \/ At(c, "FRESH", <<>>) /\ toPeer[c] = <<>>
       \/ At(c, "CHALLENGE_SENT", <<>>) /\ toPeer[c] = <<Plain("challenge")>>

InRegistered(p, c) ==
    /\ stage[p] = "registered"
    /\ \/ At(c, "CHALLENGE_SENT", <<Plain("registration")>>) /\ toPeer[c] = <<>>
       \/ At(c, "MAP_LIST", <<>>) /\ toPeer[c] = <<Plain("registrationResponse")>>

InRequired(p, c) ==
    /\ stage[p] = "required"
    /\ \/ At(c, "MAP_LIST", <<List(Supported[p])>>) /\ toPeer[c] = <<>>
       \/ /\ At(c, "MAP_WAIT_ACK", <<>>)
          /\ toPeer[c] = <<[kind |-> "requiredMaps", maps |-> maps[c]]>> /\ maps[c] \subseteq Supported[p]
       \/ At(c, "DONE", <<>>) /\ owner[c] = "incoming" /\ toPeer[c] = <<Plain("notNeeded")>>

InAccepting(p, c) ==
    /\ stage[p] = "accepting"
    /\ \/ At(c, "MAP_WAIT_ACK", <<Plain("ack")>>) /\ maps[c] \subseteq Supported[p]
       \/ owner[c] = "mapServer" /\ ListedFor(c, Supported[p])

\* It has given up, and the login server will find out.
InLeaving(p, c) ==
    /\ stage[p] = "leaving" /\ owner[c] = "incoming"
    /\ \/ At(c, "FRESH", <<>>)
       \/ /\ state[c] = "CHALLENGE_SENT"
          /\ toServer[c] \in {<<>>, <<Plain("registration")>>, <<Plain("versionMismatch")>>}
       \/ state[c] = "MAP_LIST" /\ toServer[c] \in {<<>>, <<List(Supported[p])>>}
       \/ At(c, "MAP_WAIT_ACK", <<>>)
       \/ state[c] = "DONE"

Registering(p, c) ==
    InChallenge(p, c) \/ InRegistered(p, c) \/ InRequired(p, c) \/ InAccepting(p, c) \/ InLeaving(p, c)

ServerOn(p, c) ==
    /\ attempts[c] = 0
    /\ link[c] \in {"up", "none"}
    /\ link[c] = "up" => Registering(p, c)

\* A client never begins a registration, and believes of its login what the login server does.
ClientOn(u, c) ==
    /\ owner[c] # "mapServer" /\ state[c] \notin {"MAP_LIST", "MAP_WAIT_ACK"}
    /\ \A i \in 1..Len(toServer[c]) : toServer[c][i].kind # "registration"
    /\ link[c] = "up" =>
          /\ Past(u) => owner[c] = "session"
          /\ \A i \in 1..Len(toPeer[c]) : Successful(toPeer[c][i]) => owner[c] = "session"

\* The error flag of a socket is only set once its connection is gone, or by a session that
\* has read half of an opcode; and of a socket that is gone nothing is left: nothing unread,
\* and nothing that it was told.
Unfaulty(c) == link[c] = "none" \/ (link[c] = "up" /\ owner[c] # "session")
FaultsDown == \A c \in Conns : Unfaulty(c) => ~fault[c]
NothingLeft == \A c \in Conns : link[c] = "none" => toServer[c] = <<>> /\ told[c] = Nothing

WorldInv ==
    /\ Inv /\ HandshakeInv /\ RegistryInv
    /\ WorldTypeOK
    /\ FaultsDown /\ NothingLeft
    /\ \A p \in MapServers, c \in Conns : line[p] = c => ServerOn(p, c)
    /\ \A u \in Clients, c \in Conns : line[u] = c => ClientOn(u, c)

-----------------------------------------------------------------------------
(* What a step leaves alone. *)

\* All that the invariant says of a connection.
ConnKept(c) ==
    /\ link'[c] = link[c] /\ toServer'[c] = toServer[c] /\ toPeer'[c] = toPeer[c] /\ fault'[c] = fault[c]
    /\ owner'[c] = owner[c] /\ state'[c] = state[c] /\ attempts'[c] = attempts[c] /\ maps'[c] = maps[c]

\* Servers that are listed stay listed, where they are.
ListKept == \A i \in 1..Len(mapServers) : i \in 1..Len(mapServers') /\ mapServers'[i] = mapServers[i]

LEMMA SendKeeps ==
    ASSUME Inv, NEW c \in Conns, NEW d \in Conns \ {c}, NEW reply, NEW ok, Send(c, reply, ok)
    PROVE  toPeer'[d] = toPeer[d] /\ fault'[d] = fault[d]
BY DEF Send, Inv, TypeOK

\* A handler of the incoming thread reads and writes one connection.
LEMMA ConnectionKeeps ==
    ASSUME Inv, NEW c \in Conns, NEW d \in Conns \ {c}, processConnection(c)
    PROVE  ConnKept(d)
<1>. DEFINE Rest == toServer'[d] = toServer[d] /\ toPeer'[d] = toPeer[d] /\ fault'[d] = fault[d] /\ maps'[d] = maps[d]
<1>. SUFFICES Rest
  BY OneEntry DEF ConnKept
<1>1. ASSUME NothingRead(c) PROVE Rest
  BY <1>1 DEF NothingRead, socketVars
<1>2. ASSUME RecvAll(c) PROVE toServer'[d] = toServer[d]
  BY <1>2 DEF RecvAll, Inv, TypeOK
<1>3. ASSUME FailAttempt(c) PROVE toPeer'[d] = toPeer[d] /\ fault'[d] = fault[d] /\ maps'[d] = maps[d]
  BY <1>3, SendKeeps DEF FailAttempt, SendAnyhow
<1>4. ASSUME NEW m, processLoginAttempt(c, m)
      PROVE toPeer'[d] = toPeer[d] /\ fault'[d] = fault[d] /\ maps'[d] = maps[d]
  BY <1>3, <1>4, SendKeeps DEF processLoginAttempt, RefuseLocked, OpenSession, SendAnyhow, entryVars
<1>5. CASE DropFaulty(c)
  BY <1>5 DEF DropFaulty, socketVars
<1>6. CASE processFreshSocket(c)
  BY <1>6, SendKeeps DEF processFreshSocket, SendAnyhow
<1>7. CASE processChallengeSentSocket(c)
  <2>1. ASSUME RegisterMapServer(c) PROVE toPeer'[d] = toPeer[d] /\ fault'[d] = fault[d] /\ maps'[d] = maps[d]
    BY <2>1, SendKeeps DEF RegisterMapServer, processMapAuthenticationRequest
  <2>. QED
    BY <1>1, <1>2, <1>3, <1>4, <1>7, <2>1 DEF processChallengeSentSocket, VersionMismatch
<1>8. CASE processLoginFailedSocket(c)
  BY <1>1, <1>2, <1>3, <1>4, <1>8 DEF processLoginFailedSocket
<1>9. CASE processMapListSocket(c)
  <2>1. ASSUME NEW required, RequireMaps(c, required)
        PROVE  toPeer'[d] = toPeer[d] /\ fault'[d] = fault[d] /\ maps'[d] = maps[d]
    BY <2>1, SendKeeps DEF RequireMaps, SendAnyhow, Inv, TypeOK
  <2>2. ASSUME NotAList(c) \/ NotNeeded(c) PROVE toPeer'[d] = toPeer[d] /\ fault'[d] = fault[d] /\ maps'[d] = maps[d]
    BY <2>2, SendKeeps DEF NotAList, NotNeeded, SendAnyhow
  <2>. QED
    BY <1>1, <1>2, <1>9, <2>1, <2>2 DEF processMapListSocket
<1>10. CASE processMapWaitAckSocket(c)
  BY <1>1, <1>2, <1>10 DEF processMapWaitAckSocket, Inv, TypeOK
<1>. QED
  BY <1>5, <1>6, <1>7, <1>8, <1>9, <1>10 DEF processConnection

LEMMA SessionKeeps ==
    ASSUME Inv, NEW c \in Conns, NEW d \in Conns \ {c}, processSession(c)
    PROVE  ConnKept(d)
<1>. USE DEF Inv, TypeOK, entryVars
<1>1. toServer'[d] = toServer[d] /\ toPeer'[d] = toPeer[d] /\ fault'[d] = fault[d]
  <2>1. CASE ReapSession(c)
    BY <2>1 DEF ReapSession, DestroySockets
  <2>2. CASE OpcodeMissing(c) \/ DisconnectNoticed(c)
    BY <2>2 DEF OpcodeMissing, DisconnectNoticed, SetError
  <2>3. CASE UnhandledOpcode(c) \/ OpcodeCutShort(c) \/ OpcodeOutOfStep(c)
    BY <2>3 DEF UnhandledOpcode, OpcodeCutShort, OpcodeOutOfStep, RecvOne
  <2>4. CASE processCharacterRequest(c)
    BY <2>4, SendKeeps DEF processCharacterRequest, RecvOne
  <2>5. CASE processCharacterSelect(c)
    BY <2>5, SendKeeps DEF processCharacterSelect, RecvOne, MalformedSelection, ForeignCharacter,
       MapUnavailable, SendToMapServer, ReadFreedServer, SendAnyhow
  <2>. QED
    BY <2>1, <2>2, <2>3, <2>4, <2>5 DEF processSession
<1>2. UNCHANGED maps
  BY DEF processSession, ReapSession, OpcodeMissing, DisconnectNoticed, SetError, UnhandledOpcode, OpcodeCutShort, OpcodeOutOfStep,
     processCharacterRequest, processCharacterSelect
<1>. QED
  BY <1>1, <1>2, OneSession DEF ConnKept

LEMMA AcceptKeeps ==
    ASSUME Inv, NEW c \in Conns, NEW d \in Conns \ {c}, AcceptConnection(c)
    PROVE  ConnKept(d)
BY DEF AcceptConnection, OpenSocket, ConnKept, Inv, TypeOK

\* The purge leaves the entries that are not DONE and, of the others, the sockets that
\* were moved.
LEMMA PurgeKeeps ==
    ASSUME Inv, NEW d \in Conns, PurgeDone
    PROVE  /\ state[d] # "DONE" => ConnKept(d)
           /\ state[d] = "DONE" => /\ state'[d] = "ABSENT" /\ attempts'[d] = 0
                                  /\ toPeer'[d] = toPeer[d]
           /\ owner[d] # "incoming" => /\ link'[d] = link[d] /\ owner'[d] = owner[d]
                                      /\ toServer'[d] = toServer[d]
           /\ state[d] = "DONE" /\ owner[d] = "incoming" => /\ link'[d] = "none" /\ owner'[d] = "none"
                                                          /\ toServer'[d] = <<>> /\ fault'[d] = FALSE
           /\ owner[d] # "incoming" => fault'[d] = fault[d]
BY DEF PurgeDone, EraseDone, DoneWithSocket, DestroySockets, ConnKept, Inv, TypeOK

\* The list only grows.
LEMMA ListGrows == ASSUME Inv, [Next]_vars PROVE ListKept
<1>1. ASSUME NEW c \in Conns, Registers(c) PROVE ListKept
  <2>1. /\ Len(mapServers) \in Nat /\ Len(mapServers') = Len(mapServers) + 1
        /\ \A i \in 1..Len(mapServers) : mapServers'[i] = mapServers[i]
    BY <1>1, RegistersList
  <2>2. \A i \in 1..Len(mapServers) : i \in 1..Len(mapServers')
    BY <2>1
  <2>. QED
    BY <2>1, <2>2 DEF ListKept
<1>2. CASE UNCHANGED registryVars
  BY <1>2 DEF registryVars, ListKept
<1>. QED
  BY <1>1, <1>2, RegistrySteps

-----------------------------------------------------------------------------
(* What a program does with its line, whatever program it is. *)

Speaks(x) ==
    /\ Linked(x) /\ (toPeer' = toPeer \/ TakeAll(x))
    /\ link[line[x]] = "up" => owner[line[x]] # "mapServer"
    /\ \E m \in PeerMessages : Tell(x, m)
    /\ UNCHANGED line

Listens(x) ==
    /\ Linked(x) /\ (toPeer' = toPeer \/ TakeAll(x))
    /\ Silent
    /\ UNCHANGED line \/ (link[line[x]] # "up" /\ line' = [line EXCEPT ![x] = None])

Rests == Silent /\ UNCHANGED <<toPeer, line>>

ProgramStep(x) == Dial(x) \/ Speaks(x) \/ Listens(x) \/ (Linked(x) /\ HangUp(x)) \/ Rests

\* No two programs hold one line.
Lines ==
    /\ line \in [Programs -> Conns \cup {None}]
    /\ \A p, q \in Programs : line[p] = line[q] /\ Linked(p) => p = q

LEMMA LineOfProgram == ASSUME Lines, NEW p \in Programs, Linked(p) PROVE line[p] \in Conns
BY DEF Lines, Linked

\* The programs send nothing that the login server's peers may not send.
LEMMA MessageKinds ==
    /\ \A S \in SUBSET Maps : [kind |-> "mapList", maps |-> S] \in PeerMessages
    /\ \A n \in Names : [kind |-> "identity", user |-> n, right |-> n \in PasswordTesta] \in PeerMessages
    /\ \A ch \in Characters : [kind |-> "characterSelect", character |-> ch] \in PeerMessages
    /\ \A k \in {"versionMismatch", "registration", "ack", "requestCharacters"} : [kind |-> k] \in PeerMessages
BY MessagesAssumption DEF ProgramMessages

LEMMA StayIsSpec == Rests => [Next]_vars
BY DEF Rests, Silent, vars, serverVars, socketVars

\* Reading is granted at any time, and reading nothing changes nothing.
LEMMA ReadIsSpec ==
    ASSUME Inv, NEW c \in Conns, toPeer' = toPeer \/ toPeer' = [toPeer EXCEPT ![c] = <<>>],
           UNCHANGED <<link, toServer, told, fault, serverVars>>
    PROVE  [Next]_vars
<1>1. CASE toPeer' = toPeer
  BY <1>1 DEF vars, serverVars, socketVars
<1>2. CASE toPeer[c] = <<>>
  <2>1. toPeer' = toPeer
    BY <1>2 DEF Inv, TypeOK
  <2>. QED
    BY <1>1, <2>1
<1>3. CASE toPeer[c] # <<>> /\ toPeer' # toPeer
  <2>1. PeerReads(c)
    BY <1>3 DEF PeerReads, PeerMayRead
  <2>2. Peer(c)
    BY <2>1 DEF Peer, serverVars
  <2>. QED
    BY <2>2 DEF Next
<1>. QED
  BY <1>1, <1>2, <1>3

LEMMA ProgramStepIsSpec ==
    ASSUME Inv, Lines, NEW x \in Programs, ProgramStep(x)
    PROVE  [Next]_vars
<1>. DEFINE c == line[x]
<1>1. CASE Dial(x)
  BY <1>1 DEF Dial, Next, ServerNext, run
<1>2. CASE Rests
  BY <1>2, StayIsSpec
<1>3. CASE Listens(x)
  BY <1>3, ReadIsSpec, LineOfProgram DEF Listens, TakeAll, Silent
<1>4. CASE Speaks(x)
  <2>0. c \in Conns /\ (toPeer' = toPeer \/ toPeer' = [toPeer EXCEPT ![c] = <<>>])
    BY <1>4, LineOfProgram DEF Speaks, TakeAll
  <2>1. PICK m \in PeerMessages : Tell(x, m)
    BY <1>4 DEF Speaks
  <2>2. CASE link[c] = "up"
    <3>1. owner[c] \in {"incoming", "session"}
      BY <1>4, <2>0, <2>2 DEF Speaks, Inv, TypeOK, SocketPresent, Owners
    <3>2. PeerSends(c)
      BY <2>0, <2>1, <2>2 DEF Tell, PeerSends, PeerMayRead
    <3>3. Peer(c)
      BY <2>1, <3>1, <3>2 DEF Tell, Peer, serverVars
    <3>. QED
      BY <2>0, <3>3 DEF Next
  <2>3. CASE link[c] # "up"
    BY <2>0, <2>1, <2>3, ReadIsSpec DEF Tell
  <2>. QED
    BY <2>2, <2>3
<1>5. CASE Linked(x) /\ HangUp(x)
  <2>0. c \in Conns
    BY <1>5, LineOfProgram
  <2>1. CASE link[c] = "up"
    <3>1. PeerCloses(c)
      BY <1>5, <2>1 DEF HangUp, TakeAll, PeerCloses, PeerMayRead
    <3>2. Peer(c)
      BY <1>5, <3>1 DEF HangUp, Peer, serverVars
    <3>. QED
      BY <2>0, <3>2 DEF Next
  <2>2. CASE link[c] # "up"
    BY <1>5, <2>0, <2>2, ReadIsSpec DEF HangUp, TakeAll
  <2>. QED
    BY <2>1, <2>2
<1>. QED
  BY <1>1, <1>2, <1>3, <1>4, <1>5 DEF ProgramStep

\* A program disturbs nobody else, and gets a line of its own.
LEMMA ProgramStepKeeps ==
    ASSUME Inv, Lines, NEW x \in Programs, ProgramStep(x)
    PROVE  /\ Lines' /\ UNCHANGED mapServers
           /\ \A q \in Programs \ {x} : line'[q] = line[q] /\ (Linked(q) => ConnKept(line[q]))
<1>. DEFINE c == line[x]
            Goal == /\ Lines' /\ UNCHANGED mapServers
                    /\ \A q \in Programs \ {x} : line'[q] = line[q] /\ (Linked(q) => ConnKept(line[q]))
<1>. USE NoneIsNobody DEF Lines, Linked
<1>1. CASE Dial(x)
  <2>1. PICK new \in Conns : /\ \A q \in Programs : line[q] # new
                             /\ AcceptConnection(new)
                             /\ line' = [line EXCEPT ![x] = new]
    BY <1>1 DEF Dial
  <2>2. Lines' /\ \A q \in Programs \ {x} : line'[q] = line[q]
    BY <2>1
  <2>3. \A q \in Programs \ {x} : Linked(q) => ConnKept(line[q])
    BY <2>1, AcceptKeeps
  <2>. QED
    BY <2>1, <2>2, <2>3 DEF AcceptConnection, registryVars
<1>2. ASSUME c \in Conns, UNCHANGED <<told, serverVars>>, UNCHANGED line \/ line' = [line EXCEPT ![x] = None],
             \A d \in Conns \ {c} : /\ link'[d] = link[d] /\ toServer'[d] = toServer[d]
                                   /\ toPeer'[d] = toPeer[d] /\ fault'[d] = fault[d]
      PROVE  Goal
  <2>1. Lines' /\ \A q \in Programs \ {x} : line'[q] = line[q]
    BY <1>2
  <2>2. \A q \in Programs \ {x} : Linked(q) => line[q] \in Conns \ {c}
    BY <1>2
  <2>3. UNCHANGED <<owner, state, attempts, maps, mapServers>>
    BY <1>2 DEF serverVars, entryVars, registryVars
  <2>. QED
    BY <1>2, <2>1, <2>2, <2>3 DEF ConnKept
<1>3. CASE Speaks(x)
  <2>1. PICK m \in PeerMessages : Tell(x, m)
    BY <1>3 DEF Speaks
  <2>. QED
    BY <1>2, <1>3, <2>1, LineOfProgram DEF Speaks, Tell, TakeAll, Inv, TypeOK
<1>4. CASE Listens(x)
  BY <1>2, <1>4, LineOfProgram DEF Listens, Silent, TakeAll, Inv, TypeOK
<1>5. CASE Linked(x) /\ HangUp(x)
  BY <1>2, <1>5, LineOfProgram DEF HangUp, TakeAll, Inv, TypeOK
<1>6. CASE Rests
  <2>1. UNCHANGED <<link, toServer, toPeer, fault, owner, state, attempts, maps, mapServers, line>>
    BY <1>6 DEF Rests, Silent, serverVars, entryVars, registryVars
  <2>. QED
    BY <2>1 DEF ConnKept
<1>. QED
  BY <1>1, <1>3, <1>4, <1>5, <1>6 DEF ProgramStep

-----------------------------------------------------------------------------
(* The error flag. *)

LEMMA SendFault ==
    ASSUME Inv, FaultsDown, NEW c \in Conns, link[c] # "none", NEW reply, NEW ok, Send(c, reply, ok)
    PROVE  \A d \in Conns : Unfaulty(d) => ~fault'[d]
BY DEF Send, FaultsDown, Unfaulty, Inv, TypeOK

LEMMA FaultsNext == Inv /\ FaultsDown /\ [Next]_vars => FaultsDown'
<1>. SUFFICES ASSUME Inv, FaultsDown, [Next]_vars PROVE FaultsDown'
  OBVIOUS
<1>. USE DEF FaultsDown, Unfaulty, Inv, TypeOK
<1>1. CASE initDB \/ AcceptorFails \/ UNCHANGED vars
  BY <1>1 DEF initDB, AcceptorFails, vars, socketVars
<1>2. ASSUME NEW c \in Conns, AcceptConnection(c) PROVE FaultsDown'
  BY <1>2 DEF AcceptConnection, OpenSocket, SocketPresent
<1>3. CASE PurgeDone
  BY <1>3 DEF PurgeDone, EraseDone, DestroySockets
<1>4. ASSUME NEW c \in Conns, processConnection(c) PROVE FaultsDown'
  <2>0. owner[c] # "session" /\ \A d \in Conns \ {c} : owner'[d] = owner[d]
    BY <1>4, DoneIdle, OneEntry DEF SocketPresent
  <2>1. link[c] # "none"
    BY <1>4, DoneIdle DEF SocketPresent
  <2>2. ASSUME NEW reply, SendAnyhow(c, reply), UNCHANGED link \/ Disconnect(c) PROVE FaultsDown'
    <3>1. \A d \in Conns : Unfaulty(d) => ~fault'[d]
      BY <2>1, <2>2, SendFault DEF SendAnyhow
    <3>. QED
      BY <2>0, <2>2, <3>1 DEF Disconnect
  <2>3. CASE UNCHANGED <<link, fault>>
    BY <2>0, <2>3
  <2>4. CASE FailAttempt(c)
    BY <2>2, <2>4 DEF FailAttempt
  <2>5. ASSUME NEW m, processLoginAttempt(c, m) PROVE FaultsDown'
    BY <2>2, <2>4, <2>5 DEF processLoginAttempt, RefuseLocked, OpenSession
  <2>6. CASE NothingRead(c) \/ DropFaulty(c) \/ VersionMismatch(c) \/ processMapWaitAckSocket(c)
    BY <2>3, <2>6 DEF NothingRead, DropFaulty, VersionMismatch, processMapWaitAckSocket, socketVars
  <2>7. CASE RegisterMapServer(c)
    BY <2>2, <2>7 DEF RegisterMapServer, processMapAuthenticationRequest, SendAnyhow
  <2>8. CASE processMapListSocket(c)
    BY <2>2, <2>3, <2>6, <2>8 DEF processMapListSocket, NotAList, NotNeeded, RequireMaps
  <2>9. CASE processFreshSocket(c)
    BY <2>2, <2>9 DEF processFreshSocket
  <2>. QED
    BY <1>4, <2>4, <2>5, <2>6, <2>7, <2>8, <2>9 DEF processConnection, processChallengeSentSocket, processLoginFailedSocket
<1>5. ASSUME NEW c \in Conns, processSession(c) PROVE FaultsDown'
  <2>1. owner[c] = "session" /\ \A d \in Conns \ {c} : owner'[d] = owner[d] /\ link'[d] = link[d] /\ fault'[d] = fault[d]
    BY <1>5, OneSession, SessionKeeps DEF ConnKept
  <2>2. CASE ReapSession(c)
    BY <2>1, <2>2 DEF ReapSession, DestroySockets
  <2>3. CASE UNCHANGED owner
    <3>1. link'[c] # "none"
      BY <2>1, <2>3, NextInv DEF SocketPresent
    <3>. QED
      BY <2>1, <2>3, <3>1
  <2>. QED
    BY <1>5, <2>2, <2>3 DEF processSession, OpcodeMissing, DisconnectNoticed, SetError, UnhandledOpcode, OpcodeCutShort,
       OpcodeOutOfStep, processCharacterRequest, processCharacterSelect
<1>6. ASSUME NEW c \in Conns, Peer(c) PROVE FaultsDown'
  BY <1>6 DEF Peer, PeerSends, PeerReads, PeerCloses
<1>. QED
  BY <1>1, <1>2, <1>3, <1>4, <1>5, <1>6 DEF Next, ServerNext, run, processIncoming, processConnected

-----------------------------------------------------------------------------
(* The login server's side of a registration, state by state. *)

\* With a live connection a reply is always delivered.
LEMMA Delivered ==
    ASSUME Inv, NEW c \in Conns, link[c] = "up", NEW reply, NEW ok, Send(c, reply, ok)
    PROVE  ok /\ toPeer'[c] = Append(toPeer[c], reply) /\ UNCHANGED fault
BY WorldAssumption DEF Send, Inv, TypeOK

\* What a handler that goes on with a map server does not touch.
Steady(c) == UNCHANGED <<link, owner, attempts>>

LEMMA ServedFresh ==
    ASSUME Inv, NEW c \in Conns, link[c] = "up", ~fault[c], state[c] = "FRESH", processConnection(c)
    PROVE  /\ Steady(c) /\ state'[c] = "CHALLENGE_SENT" /\ toServer'[c] = toServer[c]
           /\ toPeer'[c] = Append(toPeer[c], Plain("challenge"))
<1>1. processFreshSocket(c)
  BY DEF processConnection, DropFaulty, HasError, processChallengeSentSocket, processLoginFailedSocket,
     processMapListSocket, processMapWaitAckSocket, Visits
<1>2. toPeer'[c] = Append(toPeer[c], Plain("challenge")) /\ UNCHANGED fault
  BY <1>1, Delivered DEF processFreshSocket, SendAnyhow, Plain
<1>. QED
  BY <1>1, <1>2 DEF processFreshSocket, SetState, Steady, Inv, TypeOK

\* Nothing to read, nothing done.
LEMMA Unserved ==
    ASSUME Inv, NEW c \in Conns, link[c] = "up", ~fault[c], state[c] # "FRESH", toServer[c] = <<>>
    PROVE  ~processConnection(c)
BY DEF processConnection, DropFaulty, HasError, processFreshSocket, processChallengeSentSocket,
   processLoginFailedSocket, processMapListSocket, processMapWaitAckSocket, Visits, HasActivity, Readable

LEMMA HeadOfOne == \A m : Head(<<m>>) = m /\ <<m>> # <<>>
OBVIOUS

LEMMA AppendOne == \A m : Append(<<>>, m) = <<m>>
OBVIOUS

LEMMA ServedRegistration ==
    ASSUME Inv, NEW c \in Conns, link[c] = "up", ~fault[c], At(c, "CHALLENGE_SENT", <<Plain("registration")>>),
           processConnection(c)
    PROVE  /\ Steady(c) /\ At(c, "MAP_LIST", <<>>)'
           /\ toPeer'[c] = Append(toPeer[c], Plain("registrationResponse"))
<1>1. processChallengeSentSocket(c)
  BY DEF At, processConnection, DropFaulty, HasError, processFreshSocket, processLoginFailedSocket,
     processMapListSocket, processMapWaitAckSocket, Visits
<1>2. Readable(c) /\ Received(c).kind = "registration"
  BY HeadOfOne DEF At, Readable, Received, Plain
<1>3. RecvAll(c) /\ RegisterMapServer(c)
  BY <1>1, <1>2 DEF processChallengeSentSocket, NothingRead
<1>4. /\ toPeer'[c] = Append(toPeer[c], Plain("registrationResponse"))
      /\ SetState(c, "MAP_LIST")
  BY <1>3, Delivered DEF RegisterMapServer, processMapAuthenticationRequest, Plain
<1>. QED
  BY <1>3, <1>4 DEF RecvAll, RegisterMapServer, SetState, Steady, At, Inv, TypeOK

LEMMA ServedMismatch ==
    ASSUME Inv, NEW c \in Conns, link[c] = "up", ~fault[c], At(c, "CHALLENGE_SENT", <<Plain("versionMismatch")>>),
           processConnection(c)
    PROVE  Steady(c) /\ state'[c] = "DONE"
<1>1. processChallengeSentSocket(c)
  BY DEF At, processConnection, DropFaulty, HasError, processFreshSocket, processLoginFailedSocket,
     processMapListSocket, processMapWaitAckSocket, Visits
<1>2. Readable(c) /\ Received(c).kind = "versionMismatch"
  BY HeadOfOne DEF At, Readable, Received, Plain
<1>3. VersionMismatch(c)
  BY <1>1, <1>2 DEF processChallengeSentSocket, NothingRead
<1>. QED
  BY <1>3 DEF VersionMismatch, SetState, Steady, Inv, TypeOK

LEMMA ServedList ==
    ASSUME Inv, NEW c \in Conns, link[c] = "up", ~fault[c], NEW S, At(c, "MAP_LIST", <<List(S)>>),
           processConnection(c)
    PROVE  /\ Steady(c)
           /\ \/ /\ At(c, "MAP_WAIT_ACK", <<>>)' /\ maps'[c] \subseteq S
                 /\ toPeer'[c] = Append(toPeer[c], [kind |-> "requiredMaps", maps |-> maps'[c]])
              \/ At(c, "DONE", <<>>)' /\ toPeer'[c] = Append(toPeer[c], Plain("notNeeded"))
<1>. DEFINE required == RequiredMaps(Received(c))
<1>1. processMapListSocket(c)
  BY DEF At, processConnection, DropFaulty, HasError, processFreshSocket, processLoginFailedSocket,
     processChallengeSentSocket, processMapWaitAckSocket, Visits
<1>2. Readable(c) /\ Received(c).kind = "mapList" /\ Received(c).maps = S
  BY HeadOfOne DEF At, Readable, Received, List
<1>3. /\ RecvAll(c) /\ UNCHANGED <<link, owner, attempts>>
      /\ NotNeeded(c) \/ RequireMaps(c, required)
  BY <1>1, <1>2 DEF processMapListSocket, NothingRead
<1>4. required \subseteq S
  BY <1>2 DEF RequiredMaps
<1>5. toServer'[c] = <<>>
  BY <1>3 DEF RecvAll, Inv, TypeOK
<1>6. CASE NotNeeded(c)
  <2>1. state'[c] = "DONE" /\ toPeer'[c] = Append(toPeer[c], Plain("notNeeded"))
    BY <1>6, Delivered DEF NotNeeded, SendAnyhow, SetState, Plain, Inv, TypeOK
  <2>. QED
    BY <1>3, <1>5, <2>1 DEF Steady, At
<1>7. CASE RequireMaps(c, required)
  <2>. HIDE DEF required
  <2>1. state'[c] = "MAP_WAIT_ACK" /\ maps'[c] = required
    BY <1>7 DEF RequireMaps, SetState, Inv, TypeOK
  <2>2. toPeer'[c] = Append(toPeer[c], [kind |-> "requiredMaps", maps |-> required])
    BY <1>7, Delivered DEF RequireMaps, SendAnyhow
  <2>. QED
    BY <1>3, <1>4, <1>5, <2>1, <2>2 DEF Steady, At
<1>. QED
  BY <1>3, <1>6, <1>7

LEMMA ServedAck ==
    ASSUME Inv, NEW c \in Conns, link[c] = "up", ~fault[c], At(c, "MAP_WAIT_ACK", <<Plain("ack")>>),
           NEW S, maps[c] \subseteq S, processConnection(c)
    PROVE  UNCHANGED <<link, attempts>> /\ owner'[c] = "mapServer" /\ ListedFor(c, S)'
<1>1. processMapWaitAckSocket(c)
  BY DEF At, processConnection, DropFaulty, HasError, processFreshSocket, processLoginFailedSocket,
     processChallengeSentSocket, processMapListSocket, Visits
<1>2. Readable(c)
  BY HeadOfOne DEF At, Readable
<1>3. Registers(c) /\ UNCHANGED link
  BY <1>1, <1>2 DEF processMapWaitAckSocket, NothingRead, Registers, Visits
<1>4. UNCHANGED attempts /\ owner'[c] = "mapServer"
  BY <1>3 DEF Registers, Inv, TypeOK
<1>5. Len(mapServers) \in Nat /\ Len(mapServers') = Len(mapServers) + 1
      /\ mapServers'[Len(mapServers')] = [connection |-> c, maps |-> maps[c]]
  BY <1>3, RegistersList
<1>6. Len(mapServers') \in 1..Len(mapServers')
  BY <1>5
<1>. QED
  BY <1>3, <1>4, <1>5, <1>6 DEF ListedFor

\* A handler takes a map server from one point of its registration to the next.
LEMMA ServedServer ==
    ASSUME Inv, FaultsDown, NEW p \in MapServers, NEW c \in Conns, ServerOn(p, c),
           stage'[p] = stage[p], processConnection(c)
    PROVE  ServerOn(p, c)'
<1>0. link[c] = "up" /\ ~fault[c] /\ Registering(p, c) /\ owner[c] = "incoming" /\ state[c] \notin {"ABSENT", "DONE"}
  <2>1. state[c] \notin {"ABSENT", "DONE"} /\ owner[c] = "incoming" /\ link[c] # "none"
    BY DoneIdle DEF Inv, SocketPresent
  <2>. QED
    BY <2>1 DEF ServerOn, FaultsDown, Unfaulty
<1>. SUFFICES UNCHANGED <<link, attempts>> /\ Registering(p, c)'
  BY <1>0 DEF ServerOn
<1>1. CASE InChallenge(p, c)
  <2>1. At(c, "FRESH", <<>>) /\ toPeer[c] = <<>>
    BY <1>0, <1>1, Unserved DEF InChallenge, At
  <2>2. At(c, "CHALLENGE_SENT", <<>>)' /\ toPeer'[c] = <<Plain("challenge")>> /\ Steady(c)
    BY <1>0, <2>1, ServedFresh, AppendOne DEF At
  <2>. QED
    BY <1>1, <2>2 DEF InChallenge, Registering, Steady
<1>2. CASE InRegistered(p, c)
  <2>1. At(c, "CHALLENGE_SENT", <<Plain("registration")>>) /\ toPeer[c] = <<>>
    BY <1>0, <1>2, Unserved DEF InRegistered, At
  <2>2. At(c, "MAP_LIST", <<>>)' /\ toPeer'[c] = <<Plain("registrationResponse")>> /\ Steady(c)
    BY <1>0, <2>1, ServedRegistration, AppendOne
  <2>. QED
    BY <1>2, <2>2 DEF InRegistered, Registering, Steady
<1>3. CASE InRequired(p, c)
  <2>1. At(c, "MAP_LIST", <<List(Supported[p])>>) /\ toPeer[c] = <<>>
    BY <1>0, <1>3, Unserved DEF InRequired, At
  <2>2. /\ Steady(c)
        /\ \/ /\ At(c, "MAP_WAIT_ACK", <<>>)' /\ maps'[c] \subseteq Supported[p]
              /\ toPeer'[c] = <<[kind |-> "requiredMaps", maps |-> maps'[c]]>>
           \/ At(c, "DONE", <<>>)' /\ toPeer'[c] = <<Plain("notNeeded")>>
    BY <1>0, <2>1, ServedList, AppendOne
  <2>. QED
    BY <1>0, <1>3, <2>2 DEF InRequired, Registering, Steady
<1>4. CASE InAccepting(p, c)
  <2>1. At(c, "MAP_WAIT_ACK", <<Plain("ack")>>) /\ maps[c] \subseteq Supported[p]
    BY <1>0, <1>4 DEF InAccepting
  <2>2. UNCHANGED <<link, attempts>> /\ owner'[c] = "mapServer" /\ ListedFor(c, Supported[p])'
    BY <1>0, <2>1, ServedAck
  <2>. QED
    BY <1>4, <2>2 DEF InAccepting, Registering
<1>5. CASE InLeaving(p, c)
  <2>1. CASE At(c, "FRESH", <<>>)
    <3>1. At(c, "CHALLENGE_SENT", <<>>)' /\ Steady(c)
      BY <1>0, <2>1, ServedFresh DEF At
    <3>. QED
      BY <1>0, <1>5, <3>1 DEF InLeaving, Registering, Steady, At
  <2>2. CASE state[c] = "CHALLENGE_SENT" /\ toServer[c] = <<Plain("registration")>>
    <3>1. At(c, "MAP_LIST", <<>>)' /\ Steady(c)
      BY <1>0, <2>2, ServedRegistration DEF At
    <3>. QED
      BY <1>0, <1>5, <3>1 DEF InLeaving, Registering, Steady, At
  <2>3. CASE state[c] = "CHALLENGE_SENT" /\ toServer[c] = <<Plain("versionMismatch")>>
    <3>1. state'[c] = "DONE" /\ Steady(c)
      BY <1>0, <2>3, ServedMismatch DEF At
    <3>. QED
      BY <1>0, <1>5, <3>1 DEF InLeaving, Registering, Steady
  <2>4. CASE state[c] = "MAP_LIST" /\ toServer[c] = <<List(Supported[p])>>
    <3>1. Steady(c) /\ (At(c, "MAP_WAIT_ACK", <<>>)' \/ At(c, "DONE", <<>>)')
      BY <1>0, <2>4, ServedList DEF At
    <3>. QED
      BY <1>0, <1>5, <3>1 DEF InLeaving, Registering, Steady, At
  <2>. QED
    BY <1>0, <1>5, <2>1, <2>2, <2>3, <2>4, Unserved DEF InLeaving, At
<1>. QED
  BY <1>0, <1>1, <1>2, <1>3, <1>4, <1>5 DEF Registering

-----------------------------------------------------------------------------
(* A step of the login server, seen along the line of a map server. *)

LEMMA ServerKept ==
    ASSUME NEW p \in MapServers, NEW c \in Conns, ServerOn(p, c), ConnKept(c), ListKept, stage'[p] = stage[p]
    PROVE  ServerOn(p, c)'
<1>1. ASSUME NEW S, ListedFor(c, S) PROVE ListedFor(c, S)'
  BY <1>1 DEF ListKept, ListedFor
<1>2. ASSUME Registering(p, c) PROVE Registering(p, c)'
  BY <1>1, <1>2 DEF ConnKept, Registering, InChallenge, InRegistered, InRequired, InAccepting, InLeaving, At
<1>. QED
  BY <1>2 DEF ServerOn, ConnKept

\* The entry of a map server that is DONE holds the socket no more, or never will again.
LEMMA PurgedServer ==
    ASSUME Inv, NEW p \in MapServers, NEW c \in Conns, ServerOn(p, c), ListKept, stage'[p] = stage[p],
           PurgeDone
    PROVE  ServerOn(p, c)'
<1>1. CASE state[c] # "DONE"
  BY <1>1, PurgeKeeps, ServerKept
<1>2. CASE state[c] = "DONE" /\ owner[c] = "incoming"
  BY <1>2, PurgeKeeps DEF ServerOn
<1>3. CASE state[c] = "DONE" /\ owner[c] # "incoming"
  <2>1. attempts'[c] = 0 /\ link'[c] = link[c] /\ owner'[c] = owner[c]
    BY <1>3, PurgeKeeps
  <2>2. link[c] = "up" => stage[p] = "accepting" /\ owner[c] = "mapServer" /\ ListedFor(c, Supported[p])
    BY <1>3 DEF ServerOn, Registering, InChallenge, InRegistered, InRequired, InAccepting, InLeaving, At
  <2>3. ListedFor(c, Supported[p]) => ListedFor(c, Supported[p])'
    BY DEF ListKept, ListedFor
  <2>. QED
    BY <2>1, <2>2, <2>3 DEF ServerOn, Registering, InAccepting
<1>. QED
  BY <1>1, <1>2, <1>3

LEMMA NoSession ==
    ASSUME Inv, NEW p \in MapServers, NEW c \in Conns, ServerOn(p, c)
    PROVE  owner[c] # "session"
BY DEF ServerOn, Registering, InChallenge, InRegistered, InRequired, InAccepting, InLeaving, At, Inv, SocketPresent

LEMMA StepOnServer ==
    ASSUME Inv, FaultsDown, NEW p \in MapServers, NEW c \in Conns, ServerOn(p, c), LoginServerStep
    PROVE  ServerOn(p, c)'
<1>0. stage'[p] = stage[p] /\ [Next]_vars
  BY DEF LoginServerStep, programVars, mapServerVars, Next, ServerNext, run
<1>1. ListKept
  BY <1>0, ListGrows
<1>2. CASE initDB \/ AcceptorFails
  <2>1. ConnKept(c)
    BY <1>2 DEF initDB, AcceptorFails, ConnKept, socketVars, entryVars
  <2>. QED
    BY <1>0, <1>1, <2>1, ServerKept
<1>3. CASE PurgeDone
  BY <1>0, <1>1, <1>3, PurgedServer
<1>4. ASSUME NEW d \in Conns, processConnection(d) PROVE ServerOn(p, c)'
  BY <1>0, <1>1, <1>4, ConnectionKeeps, ServerKept, ServedServer
<1>5. ASSUME NEW d \in Conns, processSession(d) PROVE ServerOn(p, c)'
  BY <1>0, <1>1, <1>5, SessionKeeps, ServerKept, NoSession, OneSession
<1>. QED
  BY <1>2, <1>3, <1>4, <1>5 DEF LoginServerStep, processIncoming, processConnected

-----------------------------------------------------------------------------
(* A step of a map server. *)

LEMMA LeftNext == Inv /\ NothingLeft /\ [Next]_vars => NothingLeft'
<1>. SUFFICES ASSUME Inv, NothingLeft, [Next]_vars PROVE NothingLeft'
  OBVIOUS
<1>. USE DEF NothingLeft, Inv, TypeOK
<1>1. CASE initDB \/ AcceptorFails \/ UNCHANGED vars
  BY <1>1 DEF initDB, AcceptorFails, vars, socketVars
<1>2. ASSUME NEW c \in Conns, AcceptConnection(c) PROVE NothingLeft'
  BY <1>2 DEF AcceptConnection, OpenSocket
<1>3. CASE PurgeDone
  BY <1>3 DEF PurgeDone, EraseDone, DestroySockets
<1>4. ASSUME NEW c \in Conns, processConnection(c) PROVE NothingLeft'
  <2>1. link'[c] # "none"
    <3>1. link[c] # "none"
      BY <1>4, DoneIdle DEF SocketPresent
    <3>2. ASSUME NEW m, processLoginAttempt(c, m) PROVE link'[c] \in {link[c], "disconnected"}
      BY <3>2 DEF processLoginAttempt, FailAttempt, RefuseLocked, OpenSession, Disconnect
    <3>. QED
      BY <1>4, <3>1, <3>2 DEF processConnection, DropFaulty, processFreshSocket, processChallengeSentSocket,
         processLoginFailedSocket, processMapListSocket, processMapWaitAckSocket, NothingRead, FailAttempt,
         VersionMismatch, RegisterMapServer, socketVars
  <2>2. \A d \in Conns \ {c} : link'[d] = link[d] /\ toServer'[d] = toServer[d] /\ told'[d] = told[d]
    BY <1>4, ConnectionKeeps, OneEntry DEF ConnKept
  <2>. QED
    BY <2>1, <2>2
<1>5. ASSUME NEW c \in Conns, processSession(c) PROVE NothingLeft'
  <2>1. link'[c] = "none" => toServer'[c] = <<>> /\ told'[c] = Nothing
    <3>1. link[c] # "none"
      BY <1>5, OneSession DEF SocketPresent
    <3>2. CASE ReapSession(c)
      BY <3>2 DEF ReapSession, DestroySockets
    <3>3. CASE ~ReapSession(c)
      BY <1>5, <3>1, <3>3 DEF processSession, OpcodeMissing, DisconnectNoticed, SetError, UnhandledOpcode, OpcodeCutShort, OpcodeOutOfStep,
         processCharacterRequest, processCharacterSelect, MalformedSelection, ForeignCharacter,
         MapUnavailable, SendToMapServer, ReadFreedServer, Disconnect
    <3>. QED
      BY <3>2, <3>3
  <2>2. \A d \in Conns \ {c} : link'[d] = link[d] /\ toServer'[d] = toServer[d] /\ told'[d] = told[d]
    BY <1>5, SessionKeeps, OneSession DEF ConnKept
  <2>. QED
    BY <2>1, <2>2
<1>6. ASSUME NEW c \in Conns, Peer(c) PROVE NothingLeft'
  BY <1>6 DEF Peer, PeerSends, PeerReads, PeerCloses
<1>. QED
  BY <1>1, <1>2, <1>3, <1>4, <1>5, <1>6 DEF Next, ServerNext, run, processIncoming, processConnected

LEMMA LinesTyped == WorldTypeOK => Lines /\ \A p \in MapServers : p \in Programs
BY MapServersAssumption DEF WorldTypeOK, Lines

LEMMA MapServerProgram ==
    ASSUME Inv, WorldTypeOK, NEW p \in MapServers, \A c \in Conns : line[p] = c => ServerOn(p, c), RunMapServer(p)
    PROVE  ProgramStep(p)
<1>0. \A k \in {"versionMismatch", "registration", "ack"} : Plain(k) \in PeerMessages
  BY MessageKinds DEF Plain
<1>1. List(Supported[p]) \in PeerMessages
  BY MapServersAssumption, MessageKinds DEF List
<1>2. stage[p] \in Waiting /\ Linked(p) /\ link[line[p]] = "up" => owner[line[p]] # "mapServer"
  <2>1. Linked(p) => line[p] \in Conns
    BY LinesTyped, LineOfProgram
  <2>. QED
    BY <2>1 DEF ServerOn, Registering, InChallenge, InRegistered, InRequired, InAccepting, InLeaving, At,
       Waiting, Inv, SocketPresent
<1>3. CASE Start(p)
  BY <1>3 DEF Start, ProgramStep
<1>4. CASE TimeOut(p)
  <2>1. Rests
    BY <1>4 DEF TimeOut, Rests
  <2>. QED
    BY <2>1 DEF ProgramStep
<1>5. ASSUME NEW m \in PeerMessages, stage[p] \in Waiting, Heard(p), TakeAll(p), UNCHANGED line, Silent \/ Tell(p, m)
      PROVE  ProgramStep(p)
  BY <1>2, <1>5 DEF ProgramStep, Speaks, Listens, Heard
<1>6. CASE ReceiveChallenge(p)
  BY <1>0, <1>5, <1>6 DEF ReceiveChallenge, Reject, RequestRegistration, Plain, Waiting
<1>7. CASE ReceiveRegistered(p)
  BY <1>0, <1>1, <1>5, <1>7 DEF ReceiveRegistered, Reject, List, Waiting
<1>8. CASE ReceiveRequired(p)
  BY <1>0, <1>5, <1>8 DEF ReceiveRequired, Reject, Plain, Waiting
<1>9. CASE Leave(p)
  <2>1. Linked(p)
    BY <1>9 DEF Leave, WorldTypeOK
  <2>. QED
    BY <1>9, <2>1 DEF Leave, ProgramStep
<1>. QED
  BY <1>3, <1>4, <1>6, <1>7, <1>8, <1>9 DEF RunMapServer, Register

\* A map server takes its own registration from one point to the next.
LEMMA MapServerOwn ==
    ASSUME Inv, NothingLeft, WorldTypeOK, NEW p \in MapServers, \A c \in Conns : line[p] = c => ServerOn(p, c),
           RunMapServer(p), NEW c \in Conns, line'[p] = c
    PROVE  ServerOn(p, c)'
<1>. USE DEF ServerOn
<1>0. line \in [Programs -> Conns \cup {None}] /\ stage \in [MapServers -> Stages] /\ p \in Programs /\ None \notin Conns
  BY LinesTyped, NoneIsNobody DEF WorldTypeOK
<1>1. CASE Start(p)
  <2>1. AcceptConnection(c) /\ stage'[p] = "challenge"
    BY <1>0, <1>1 DEF Start, Dial
  <2>2. link[c] = "none" /\ attempts[c] = 0 /\ toServer[c] = <<>>
    BY <2>1 DEF AcceptConnection, Inv, SocketPresent, AttemptBudget, NothingLeft
  <2>3. At(c, "FRESH", <<>>)' /\ toPeer'[c] = <<>> /\ attempts'[c] = 0 /\ link'[c] = "up"
    BY <2>1, <2>2 DEF AcceptConnection, OpenSocket, At, Inv, TypeOK
  <2>. QED
    BY <2>1, <2>3 DEF Registering, InChallenge
<1>2. CASE Leave(p)
  BY <1>0, <1>2 DEF Leave, HangUp
<1>3. ASSUME Register(p) PROVE ServerOn(p, c)'
  <2>0. /\ line[p] = c /\ ServerOn(p, c) /\ stage[p] \in Waiting
        /\ UNCHANGED <<link, owner, state, attempts, maps>>
    BY <1>3 DEF Register, TimeOut, ReceiveChallenge, ReceiveRegistered, ReceiveRequired, Reject,
       RequestRegistration, Tell, Silent, serverVars, entryVars, Waiting
  <2>1. CASE link[c] # "up"
    BY <2>0, <2>1
  <2>. SUFFICES ASSUME link[c] = "up" PROVE Registering(p, c)'
    BY <2>0, <2>1
  <2>2. Registering(p, c) /\ owner[c] = "incoming"
    BY <2>0 DEF Registering, InChallenge, InRegistered, InRequired, InAccepting, InLeaving, At, Waiting,
       Inv, SocketPresent
  <2>3. ASSUME NEW m, Tell(p, m), toServer[c] = <<>> PROVE toServer'[c] = <<m>>
    BY <2>0, <2>3, AppendOne DEF Tell, Inv, TypeOK
  <2>4. ASSUME TakeAll(p) PROVE toPeer'[c] = <<>>
    BY <2>0, <2>4 DEF TakeAll, Inv, TypeOK
  <2>5. ASSUME NEW s, Enter(p, s) PROVE stage'[p] = s
    BY <1>0, <2>5 DEF Enter
  <2>6. ASSUME Silent, Enter(p, "leaving") PROVE Registering(p, c)'
    <3>1. stage'[p] = "leaving" /\ UNCHANGED toServer
      BY <2>5, <2>6 DEF Silent
    <3>. QED
      BY <2>0, <2>2, <3>1 DEF Registering, InChallenge, InRegistered, InRequired, InAccepting, InLeaving, At, Waiting
  <2>7. CASE TimeOut(p)
    BY <2>6, <2>7 DEF TimeOut
  <2>8. CASE ReceiveChallenge(p)
    <3>1. At(c, "CHALLENGE_SENT", <<>>)
      BY <2>0, <2>2, <2>8 DEF ReceiveChallenge, Heard, Registering, InChallenge, InRegistered, InRequired,
         InAccepting, InLeaving
    <3>2. CASE Tell(p, [kind |-> "versionMismatch"]) /\ Enter(p, "leaving")
      <4>1. stage'[p] = "leaving" /\ toServer'[c] = <<Plain("versionMismatch")>>
        BY <2>3, <2>5, <3>1, <3>2 DEF At, Plain
      <4>. QED
        BY <2>0, <2>2, <3>1, <4>1 DEF Registering, InLeaving, At
    <3>3. CASE RequestRegistration(p)
      <4>1. stage'[p] = "registered" /\ toServer'[c] = <<Plain("registration")>> /\ toPeer'[c] = <<>>
        BY <2>3, <2>4, <2>5, <2>8, <3>1, <3>3 DEF ReceiveChallenge, RequestRegistration, At, Plain
      <4>. QED
        BY <2>0, <3>1, <4>1 DEF Registering, InRegistered, At
    <3>. QED
      BY <2>6, <2>8, <3>2, <3>3 DEF ReceiveChallenge, Reject
  <2>9. CASE ReceiveRegistered(p)
    <3>1. At(c, "MAP_LIST", <<>>)
      BY <2>0, <2>2, <2>9 DEF ReceiveRegistered, Heard, Registering, InChallenge, InRegistered, InRequired,
         InAccepting, InLeaving
    <3>2. CASE Tell(p, [kind |-> "mapList", maps |-> Supported[p]]) /\ Enter(p, "required")
      <4>1. stage'[p] = "required" /\ toServer'[c] = <<List(Supported[p])>> /\ toPeer'[c] = <<>>
        BY <2>3, <2>4, <2>5, <2>9, <3>1, <3>2 DEF ReceiveRegistered, At, List
      <4>. QED
        BY <2>0, <3>1, <4>1 DEF Registering, InRequired, At
    <3>. QED
      BY <2>6, <2>9, <3>2 DEF ReceiveRegistered, Reject
  <2>10. CASE ReceiveRequired(p)
    <3>1. CASE First(p).kind = "requiredMaps" /\ Tell(p, [kind |-> "ack"]) /\ Enter(p, "accepting")
      <4>1. At(c, "MAP_WAIT_ACK", <<>>) /\ maps[c] \subseteq Supported[p]
        BY <2>0, <2>2, <2>10, <3>1, HeadOfOne DEF ReceiveRequired, Heard, First, Registering, InChallenge,
           InRegistered, InRequired, InAccepting, InLeaving, Plain
      <4>2. stage'[p] = "accepting" /\ toServer'[c] = <<Plain("ack")>>
        BY <2>3, <2>5, <3>1, <4>1 DEF At, Plain
      <4>. QED
        BY <2>0, <4>1, <4>2 DEF Registering, InAccepting, At
    <3>. QED
      BY <2>6, <2>10, <3>1 DEF ReceiveRequired, Reject
  <2>. QED
    BY <1>3, <2>7, <2>8, <2>9, <2>10 DEF Register
<1>. QED
  BY <1>1, <1>2, <1>3 DEF RunMapServer

-----------------------------------------------------------------------------
(* A step of the login server, seen along the line of a client. *)

NoRegistration(c) == \A i \in 1..Len(toServer[c]) : toServer[c][i].kind # "registration"
SuccessKept(c) == \A i \in 1..Len(toPeer[c]) : Successful(toPeer[c][i]) => owner[c] = "session"

\* One more reply, which is no success unless there is a session now.
LEMMA OneReply ==
    ASSUME Inv, NEW c \in Conns, \A i \in 1..Len(toPeer[c]) : ~Successful(toPeer[c][i]),
           NEW reply, toPeer'[c] = toPeer[c] \/ toPeer'[c] = Append(toPeer[c], reply),
           Successful(reply) => owner'[c] = "session"
    PROVE  SuccessKept(c)'
<1>1. toPeer[c] \in Seq(Replies)
  BY DEF Inv, TypeOK
<1>2. CASE toPeer'[c] = toPeer[c]
  BY <1>2 DEF SuccessKept
<1>3. CASE toPeer'[c] = Append(toPeer[c], reply)
  BY <1>1, <1>3, AppendProperties DEF SuccessKept
<1>. QED
  BY <1>2, <1>3

LEMMA SendReply ==
    ASSUME Inv, NEW c \in Conns, NEW reply, NEW ok, Send(c, reply, ok)
    PROVE  toPeer'[c] = toPeer[c] \/ toPeer'[c] = Append(toPeer[c], reply)
BY DEF Send, Inv, TypeOK

\* One reply of the login, which is no success unless there is a session now, or none.
Replied(c) ==
    \E reply : /\ reply.kind \in {"challenge", "response"}
               /\ toPeer'[c] = toPeer[c] \/ toPeer'[c] = Append(toPeer[c], reply)
               /\ Successful(reply) => owner'[c] = "session"

\* Whoever does not begin a registration is taken through the login.
LEMMA ServedLogin ==
    ASSUME Inv, NEW c \in Conns, state[c] \notin {"MAP_LIST", "MAP_WAIT_ACK"}, NoRegistration(c),
           processConnection(c)
    PROVE  /\ owner[c] = "incoming" /\ owner'[c] \in {"incoming", "session"}
           /\ state'[c] \in {"CHALLENGE_SENT", "LOGIN_FAILED", "DONE"}
           /\ link'[c] = link[c] \/ (link'[c] = "disconnected" /\ owner'[c] = "incoming" /\ state'[c] = "DONE")
           /\ toServer'[c] \in {toServer[c], <<>>}
           /\ Replied(c)
<1>. USE DEF Inv, TypeOK, SetState
<1>0. state[c] \in {"FRESH", "CHALLENGE_SENT", "LOGIN_FAILED"} /\ owner[c] = "incoming"
  BY DoneIdle DEF SocketPresent, IncomingConnectionState
<1>. DEFINE Out(s) == /\ owner'[c] \in {"incoming", "session"} /\ state'[c] = s
                      /\ \/ link'[c] = link[c]
                         \/ link'[c] = "disconnected" /\ owner'[c] = "incoming" /\ s = "DONE"
                      /\ Replied(c)
            Fine == (Out("CHALLENGE_SENT") \/ Out("LOGIN_FAILED") \/ Out("DONE")) /\ toServer'[c] \in {toServer[c], <<>>}
<1>1. ASSUME toPeer'[c] = toPeer[c] \/ toPeer'[c] = Append(toPeer[c], Plain("challenge")) PROVE Replied(c)
  <2>1. Plain("challenge").kind = "challenge" /\ ~Successful(Plain("challenge"))
    BY DEF Successful, Plain
  <2>. QED
    BY <1>1, <2>1 DEF Replied
<1>a. ASSUME NEW success, NEW n, toPeer'[c] = toPeer[c] \/ toPeer'[c] = Append(toPeer[c], Response(success, n)),
             success => owner'[c] = "session"
      PROVE  Replied(c)
  <2>1. Response(success, n).kind = "response" /\ (Successful(Response(success, n)) => owner'[c] = "session")
    BY <1>a DEF Successful, Response
  <2>. QED
    BY <1>a, <2>1 DEF Replied
<1>2. ASSUME NothingRead(c) PROVE Out("DONE") /\ toServer'[c] = toServer[c]
  <2>1. Replied(c)
    BY <1>1, <1>2 DEF NothingRead, socketVars
  <2>. QED
    BY <1>0, <1>2, <2>1 DEF NothingRead, socketVars
<1>3. ASSUME FailAttempt(c) PROVE Out("DONE") \/ Out("LOGIN_FAILED")
  <2>1. toPeer'[c] = toPeer[c] \/ toPeer'[c] = Append(toPeer[c], Response(FALSE, attempts'[c]))
    BY <1>3, SendReply DEF FailAttempt, SendAnyhow
  <2>2. Replied(c)
    BY <1>a, <2>1
  <2>. QED
    BY <1>0, <1>3, <2>2 DEF FailAttempt
<1>4. ASSUME NEW m, processLoginAttempt(c, m) PROVE Out("DONE") \/ Out("LOGIN_FAILED")
  <2>1. CASE FailAttempt(c)
    BY <1>3, <2>1
  <2>2. CASE RefuseLocked(c)
    <3>1. toPeer'[c] = toPeer[c] \/ toPeer'[c] = Append(toPeer[c], Response(FALSE, MAX_ATTEMPTS_ALLOWED))
      BY <2>2, SendReply DEF RefuseLocked, SendAnyhow
    <3>2. Replied(c)
      BY <1>a, <3>1
    <3>. QED
      BY <1>0, <2>2, <3>2 DEF RefuseLocked, Disconnect
  <2>3. CASE OpenSession(c, m.user)
    <3>1. toPeer'[c] = toPeer[c] \/ toPeer'[c] = Append(toPeer[c], Response(TRUE, attempts[c]))
      BY <2>3, SendReply DEF OpenSession, SendAnyhow
    <3>2. owner'[c] = "session"
      BY <2>3 DEF OpenSession
    <3>3. Replied(c)
      BY <1>a, <3>1, <3>2
    <3>. QED
      BY <2>3, <3>2, <3>3 DEF OpenSession
  <2>. QED
    BY <1>4, <2>1, <2>2, <2>3 DEF processLoginAttempt
<1>5. ASSUME RecvAll(c) PROVE toServer'[c] = <<>>
  BY <1>5 DEF RecvAll
<1>6. ASSUME DropFaulty(c) PROVE Fine
  <2>1. Replied(c)
    BY <1>1, <1>6 DEF DropFaulty, socketVars
  <2>. QED
    BY <1>0, <1>6, <2>1 DEF DropFaulty, socketVars
<1>7. ASSUME processFreshSocket(c) PROVE Fine
  <2>1. toPeer'[c] = toPeer[c] \/ toPeer'[c] = Append(toPeer[c], Plain("challenge"))
    BY <1>7, SendReply DEF processFreshSocket, SendAnyhow, Plain
  <2>2. Replied(c)
    BY <1>1, <2>1
  <2>. QED
    BY <1>0, <1>7, <2>2 DEF processFreshSocket
<1>8. ASSUME RecvAll(c), VersionMismatch(c) \/ FailAttempt(c) \/ \E m : processLoginAttempt(c, m) PROVE Fine
  <2>1. ASSUME VersionMismatch(c) PROVE Out("DONE")
    <3>1. toPeer'[c] = toPeer[c]
      BY <2>1 DEF VersionMismatch
    <3>2. Replied(c)
      BY <1>1, <3>1
    <3>. QED
      BY <1>0, <2>1, <3>2 DEF VersionMismatch
  <2>2. Out("DONE") \/ Out("LOGIN_FAILED")
    <3>. HIDE DEF Out
    <3>. QED
      BY <1>3, <1>4, <1>8, <2>1
  <2>. QED
    BY <1>5, <1>8, <2>2
<1>9. Fine
  <2>. HIDE DEF Out, Fine
  <2>1. Readable(c) => Received(c).kind # "registration"
    <3>1. toServer[c] \in Seq(Messages)
      OBVIOUS
    <3>2. toServer[c] # <<>> => 1 \in 1..Len(toServer[c]) /\ Head(toServer[c]) = toServer[c][1]
      BY <3>1
    <3>. QED
      BY <3>2 DEF Readable, Received, NoRegistration
  <2>2. CASE NothingRead(c)
    BY <1>2, <2>2 DEF Out, Fine
  <2>3. CASE processChallengeSentSocket(c)
    BY <1>8, <2>1, <2>2, <2>3 DEF processChallengeSentSocket
  <2>4. CASE processLoginFailedSocket(c)
    BY <1>8, <2>2, <2>4 DEF processLoginFailedSocket
  <2>. QED
    BY <1>0, <1>6, <1>7, <2>3, <2>4 DEF processConnection, processMapListSocket, processMapWaitAckSocket, Visits
<1>. QED
  BY <1>0, <1>9

LEMMA ServedClient ==
    ASSUME Inv, NEW u \in Clients, NEW c \in Conns, ClientOn(u, c), UNCHANGED gameState, processConnection(c)
    PROVE  ClientOn(u, c)'
<1>1. /\ owner[c] = "incoming" /\ owner'[c] \in {"incoming", "session"}
      /\ state'[c] \in {"CHALLENGE_SENT", "LOGIN_FAILED", "DONE"}
      /\ link'[c] = link[c] \/ (link'[c] = "disconnected" /\ owner'[c] = "incoming")
      /\ toServer'[c] \in {toServer[c], <<>>}
      /\ Replied(c)
  BY ServedLogin DEF ClientOn, NoRegistration
<1>2. link[c] = "up" => ~Past(u) /\ \A i \in 1..Len(toPeer[c]) : ~Successful(toPeer[c][i])
  BY <1>1 DEF ClientOn
<1>3. ASSUME link[c] = "up" PROVE SuccessKept(c)'
  <2>1. PICK reply : /\ toPeer'[c] = toPeer[c] \/ toPeer'[c] = Append(toPeer[c], reply)
                     /\ Successful(reply) => owner'[c] = "session"
    BY <1>1 DEF Replied
  <2>. QED
    BY <1>2, <1>3, <2>1, OneReply
<1>4. Past(u)' = Past(u)
  BY DEF Past
<1>. QED
  BY <1>1, <1>2, <1>3, <1>4 DEF ClientOn, SuccessKept

\* What is left of the messages of S when the session has taken another two bytes.
LEMMA OpcodeReads ==
    ASSUME Inv, NEW c \in Conns, UnhandledOpcode(c) \/ OpcodeCutShort(c) \/ OpcodeOutOfStep(c),
           NEW S, toServer[c] \in Seq(S), Garbage \in S, OddByte \in S
    PROVE  toServer'[c] \in Seq(S)
<1>. DEFINE s == toServer[c]
<1>1. s # <<>>
  <2>1. <<OddByte>> # <<>>
    OBVIOUS
  <2>2. Len(s) > 1 => s # <<>>
    BY EmptySeq
  <2>. QED
    BY <2>1, <2>2 DEF UnhandledOpcode, OpcodeCutShort, OpcodeOutOfStep, Readable
<1>2. Tail(s) \in Seq(S) /\ Len(Tail(s)) = Len(s) - 1
  BY <1>1, HeadTailProperties
<1>3. \A left \in {<<>>, <<Garbage>>, <<OddByte>>} : left \in Seq(S)
  <2>1. <<>> \in Seq(S) /\ \A m \in S : <<m>> \in Seq(S)
    OBVIOUS
  <2>. QED
    BY <2>1
<1>4. CASE UnhandledOpcode(c)
  <2>1. PICK left \in {<<>>, <<Garbage>>, <<OddByte>>} : toServer'[c] = left \o Tail(s)
    BY <1>4 DEF UnhandledOpcode, LeftOf, Inv, TypeOK
  <2>. HIDE DEF s
  <2>2. left \in Seq(S)
    BY <1>3
  <2>3. left \o Tail(s) \in Seq(S)
    BY <1>2, <2>2, ConcatProperties
  <2>. QED
    BY <2>1, <2>3
<1>5. CASE OpcodeCutShort(c)
  BY <1>2, <1>5 DEF OpcodeCutShort, RecvOne, Inv, TypeOK
<1>6. CASE OpcodeOutOfStep(c)
  <2>1. PICK left \in {<<Garbage>>, <<OddByte>>} : toServer'[c] = left \o Tail(Tail(s))
    BY <1>6 DEF OpcodeOutOfStep, OddRest, Inv, TypeOK
  <2>2. Len(s) \in Nat /\ Len(s) > 1
    BY <1>6 DEF OpcodeOutOfStep
  <2>. HIDE DEF s
  <2>3. Tail(s) # <<>>
    <3>1. \A n, k \in Nat : n > 1 /\ k = n - 1 => k # 0
      OBVIOUS
    <3>2. Len(Tail(s)) \in Nat
      BY <1>2
    <3>3. Len(Tail(s)) # 0
      BY <1>2, <2>2, <3>1, <3>2, Zenon
    <3>. QED
      BY <3>3, EmptySeq
  <2>4. Tail(Tail(s)) \in Seq(S)
    BY <1>2, <2>3, HeadTailProperties
  <2>5. left \o Tail(Tail(s)) \in Seq(S)
    BY <1>3, <2>4, ConcatProperties
  <2>. QED
    BY <2>1, <2>5
<1>. QED
  BY <1>4, <1>5, <1>6

\* What is left unread after an opcode is no registration either.
LEMMA SessionReads ==
    ASSUME Inv, NEW c \in Conns, NoRegistration(c), processSession(c)
    PROVE  NoRegistration(c)'
<1>. DEFINE S == {m \in Messages : m.kind # "registration"}
<1>1. toServer[c] \in Seq(S)
  <2>1. toServer[c] \in Seq(Messages)
    BY DEF Inv, TypeOK
  <2>2. \A i \in 1..Len(toServer[c]) : toServer[c][i] \in S
    BY <2>1 DEF NoRegistration
  <2>. QED
    BY <2>1, <2>2
<1>2. Garbage \in S /\ OddByte \in S
  BY DEF Garbage, OddByte, Messages, PlainRequests
<1>3. toServer'[c] \in Seq(S)
  <2>. HIDE DEF S
  <2>1. CASE UNCHANGED toServer
    BY <1>1, <2>1
  <2>2. ASSUME RecvOne(c), toServer[c] # <<>> PROVE toServer'[c] \in Seq(S)
    BY <1>1, <2>2, HeadTailProperties DEF RecvOne, Inv, TypeOK
  <2>3. CASE ReapSession(c)
    BY <2>3 DEF ReapSession, DestroySockets
  <2>4. CASE UnhandledOpcode(c) \/ OpcodeCutShort(c) \/ OpcodeOutOfStep(c)
    BY <1>1, <1>2, <2>4, OpcodeReads
  <2>5. CASE processCharacterRequest(c) \/ processCharacterSelect(c)
    BY <2>2, <2>5 DEF processCharacterRequest, processCharacterSelect, Requests, Readable
  <2>. QED
    BY <2>1, <2>3, <2>4, <2>5 DEF processSession, OpcodeMissing, DisconnectNoticed, SetError
<1>. QED
  BY <1>3 DEF NoRegistration

LEMMA StepOnClient ==
    ASSUME Inv, NEW u \in Clients, NEW c \in Conns, ClientOn(u, c), LoginServerStep
    PROVE  ClientOn(u, c)'
<1>0. UNCHANGED gameState /\ [Next]_vars /\ Past(u)' = Past(u)
  BY DEF LoginServerStep, programVars, clientVars, Next, ServerNext, run, Past
<1>1. ASSUME ConnKept(c) PROVE ClientOn(u, c)'
  BY <1>0, <1>1 DEF ClientOn, ConnKept
<1>2. CASE initDB \/ AcceptorFails
  <2>1. ConnKept(c)
    BY <1>2 DEF initDB, AcceptorFails, ConnKept, socketVars, entryVars
  <2>. QED
    BY <1>1, <2>1
<1>3. CASE PurgeDone
  <2>1. CASE state[c] # "DONE"
    BY <1>1, <1>3, <2>1, PurgeKeeps
  <2>2. CASE state[c] = "DONE" /\ owner[c] = "incoming"
    <3>1. link'[c] = "none" /\ owner'[c] = "none" /\ toServer'[c] = <<>> /\ state'[c] = "ABSENT"
      BY <1>3, <2>2, PurgeKeeps
    <3>. QED
      BY <3>1 DEF ClientOn
  <2>3. CASE state[c] = "DONE" /\ owner[c] # "incoming"
    <3>1. /\ link'[c] = link[c] /\ owner'[c] = owner[c] /\ toServer'[c] = toServer[c]
          /\ toPeer'[c] = toPeer[c] /\ state'[c] = "ABSENT"
      BY <1>3, <2>3, PurgeKeeps
    <3>. QED
      BY <1>0, <3>1 DEF ClientOn
  <2>. QED
    BY <2>1, <2>2, <2>3
<1>4. ASSUME NEW d \in Conns, processConnection(d) PROVE ClientOn(u, c)'
  BY <1>0, <1>1, <1>4, ConnectionKeeps, ServedClient
<1>5. ASSUME NEW d \in Conns, processSession(d) PROVE ClientOn(u, c)'
  <2>1. CASE d # c
    BY <1>1, <1>5, <2>1, SessionKeeps
  <2>2. CASE d = c
    <3>1. state'[c] = state[c] /\ owner'[c] \in {"session", "none"}
      BY <1>5, <2>2, OneSession
    <3>2. owner'[c] = "none" => link'[c] = "none"
      BY <1>0, NextInv DEF Inv, SocketPresent
    <3>3. NoRegistration(c)'
      BY <1>5, <2>2, SessionReads DEF ClientOn, NoRegistration
    <3>. QED
      BY <3>1, <3>2, <3>3 DEF ClientOn, NoRegistration
  <2>. QED
    BY <2>1, <2>2
<1>. QED
  BY <1>2, <1>3, <1>4, <1>5 DEF LoginServerStep, processIncoming, processConnected

-----------------------------------------------------------------------------
(* A step of a client. *)

LEMMA CharactersListed ==
    ASSUME Inv, WorldTypeOK, NEW u \in Clients, Heard(u), First(u).kind = "characters"
    PROVE  First(u).characters \subseteq Characters
<1>1. line[u] \in Conns
  BY LinesTyped, LineOfProgram, ClientsAssumption DEF Heard
<1>2. First(u) \in Replies
  BY <1>1 DEF First, Heard, Inv, TypeOK
<1>. QED
  BY <1>2 DEF Replies, Responses, Requirements, CharacterLists, Instructions, PlainReplies

LEMMA ClientProgram ==
    ASSUME Inv, WorldTypeOK, NEW u \in Clients, \A c \in Conns : line[u] = c => ClientOn(u, c), render(u)
    PROVE  ProgramStep(u)
<1>0. /\ username[u] \in Names
      /\ Linked(u) => line[u] \in Conns /\ (link[line[u]] = "up" => owner[line[u]] # "mapServer")
  BY LinesTyped, LineOfProgram, ClientsAssumption DEF WorldTypeOK, ClientOn
<1>1. ASSUME NEW m \in PeerMessages, Linked(u), toPeer' = toPeer \/ TakeAll(u), UNCHANGED line,
             Silent \/ Tell(u, m)
      PROVE  ProgramStep(u)
  BY <1>0, <1>1 DEF ProgramStep, Speaks, Listens
<1>2. [kind |-> "identity", user |-> username[u], right |-> username[u] \in PasswordTesta] \in PeerMessages
  BY <1>0, MessageKinds
<1>3. \A k \in {"versionMismatch", "requestCharacters"} : [kind |-> k] \in PeerMessages
  BY MessageKinds
<1>4. CASE PressOne(u)
  BY <1>4 DEF PressOne, ProgramStep, Rests
<1>5. CASE Connect(u)
  BY <1>5 DEF Connect, ProgramStep
<1>6. CASE LoginAgain(u)
  BY <1>1, <1>2, <1>6 DEF LoginAgain, SendIdentity, ProgramStep
<1>7. ASSUME MayNoticeEnd(u), Silent, UNCHANGED toPeer PROVE ProgramStep(u)
  BY <1>7 DEF MayNoticeEnd, Ended, ProgramStep, Listens, Rests
<1>8. CASE GiveUpWaiting(u) \/ CharactersMissing(u)
  BY <1>7, <1>8 DEF GiveUpWaiting, CharactersMissing
<1>9. CASE ClientChallenge(u)
  BY <1>1, <1>2, <1>3, <1>9 DEF ClientChallenge, AnswerChallenge, SendIdentity, Heard
<1>10. CASE ReceiveAnswer(u)
  BY <1>1, <1>2, <1>10 DEF ReceiveAnswer, Heard, ProgramStep
<1>11. CASE RequestCharacters(u)
  BY <1>1, <1>3, <1>11 DEF RequestCharacters, ProgramStep, Rests
<1>12. CASE ReceiveCharacters(u)
  <2>1. First(u).kind = "characters" => First(u).characters \subseteq Characters
    BY <1>12, CharactersListed DEF ReceiveCharacters
  <2>2. CASE SelectCharacter(u) /\ First(u).kind = "characters"
    <3>1. PICK ch \in First(u).characters : Tell(u, [kind |-> "characterSelect", character |-> ch])
      BY <2>2 DEF SelectCharacter
    <3>2. [kind |-> "characterSelect", character |-> ch] \in PeerMessages
      BY <2>1, <2>2, MessageKinds
    <3>. QED
      BY <1>1, <1>12, <3>1, <3>2 DEF ReceiveCharacters, Heard
  <2>3. CASE Silent
    BY <1>1, <1>2, <1>12, <2>3 DEF ReceiveCharacters, Heard
  <2>. QED
    BY <1>12, <2>2, <2>3 DEF ReceiveCharacters
<1>13. CASE ReceiveInstructions(u)
  BY <1>1, <1>2, <1>13 DEF ReceiveInstructions, Heard
<1>14. CASE Quit(u)
  BY <1>14 DEF Quit, ProgramStep, Rests
<1>. QED
  BY <1>4, <1>5, <1>6, <1>8, <1>9, <1>10, <1>11, <1>12, <1>13, <1>14 DEF render, doLogin

\* A client sends no registration, and only goes past the login on an answer that says
\* it succeeded.
LEMMA ClientOwn ==
    ASSUME Inv, NothingLeft, WorldTypeOK, NEW u \in Clients, \A c \in Conns : line[u] = c => ClientOn(u, c),
           render(u), NEW c \in Conns, line'[u] = c
    PROVE  ClientOn(u, c)'
<1>0. /\ line \in [Programs -> Conns \cup {None}] /\ gameState \in [Clients -> GameState \cup {"CRASHED", "CLOSED"}]
      /\ u \in Programs /\ None \notin Conns
  BY ClientsAssumption, NoneIsNobody DEF WorldTypeOK
<1>. DEFINE Says == \/ toServer'[c] = toServer[c]
                    \/ \E m : m.kind # "registration" /\ toServer'[c] = Append(toServer[c], m)
            Reads == toPeer'[c] = toPeer[c] \/ toPeer'[c] = <<>>
            Passes == Past(u)' => Past(u) \/ (toPeer[c] # <<>> /\ Successful(Head(toPeer[c])))
            Goes == line[u] = c /\ UNCHANGED <<link, owner, state>> /\ Says /\ Reads /\ Passes
<1>1. CASE Connect(u)
  <2>1. AcceptConnection(c) /\ UNCHANGED gameState /\ gameState[u] = "LOGIN"
    BY <1>0, <1>1 DEF Connect, Dial, Idle
  <2>2. toServer[c] = <<>>
    BY <2>1 DEF AcceptConnection, Inv, SocketPresent, NothingLeft
  <2>3. /\ owner'[c] = "incoming" /\ state'[c] = "FRESH" /\ toServer'[c] = <<>> /\ toPeer'[c] = <<>>
        /\ ~Past(u)'
    BY <2>1, <2>2 DEF AcceptConnection, OpenSocket, Past, Inv, TypeOK
  <2>. QED
    BY <2>3 DEF ClientOn
<1>2. ASSUME HangUp(u) PROVE FALSE
  BY <1>0, <1>2 DEF HangUp
<1>3. ASSUME line'[u] = line[u], Silent PROVE UNCHANGED <<link, owner, state>> /\ Says
  BY <1>3 DEF Silent, serverVars, entryVars
<1>4. ASSUME line'[u] = line[u], NEW m, Tell(u, m), m.kind # "registration"
      PROVE  UNCHANGED <<link, owner, state>> /\ Says
  BY <1>4 DEF Tell, serverVars, entryVars, Inv, TypeOK
<1>5. ASSUME UNCHANGED toPeer \/ TakeAll(u), line'[u] = line[u] PROVE Reads
  BY <1>5 DEF TakeAll, Inv, TypeOK
<1>6. ASSUME UNCHANGED gameState PROVE Passes
  BY <1>6 DEF Past
<1>7. ASSUME MayNoticeEnd(u) PROVE line'[u] = line[u]
  BY <1>0, <1>7 DEF MayNoticeEnd
<1>8. ASSUME SendIdentity(u), line'[u] = line[u] PROVE UNCHANGED <<link, owner, state>> /\ Says
  <2>1. [kind |-> "identity", user |-> username[u], right |-> username[u] \in PasswordTesta].kind # "registration"
    OBVIOUS
  <2>. QED
    BY <1>4, <1>8, <2>1 DEF SendIdentity
<1>9. [kind |-> "versionMismatch"].kind # "registration" /\ [kind |-> "requestCharacters"].kind # "registration"
      /\ \A ch : [kind |-> "characterSelect", character |-> ch].kind # "registration"
  OBVIOUS
<1>. HIDE DEF Says, Reads, Passes
<1>10. ASSUME PressOne(u) PROVE Goes
  BY <1>3, <1>5, <1>6, <1>10 DEF PressOne
<1>11. ASSUME LoginAgain(u) PROVE Goes
  BY <1>2, <1>5, <1>6, <1>8, <1>11 DEF LoginAgain
<1>12. ASSUME GiveUpWaiting(u) \/ CharactersMissing(u) PROVE Goes
  BY <1>3, <1>5, <1>6, <1>7, <1>12 DEF GiveUpWaiting, CharactersMissing
<1>13. ASSUME ClientChallenge(u) PROVE Goes
  BY <1>3, <1>4, <1>5, <1>6, <1>8, <1>9, <1>13 DEF ClientChallenge, AnswerChallenge
<1>14. ASSUME ReceiveAnswer(u) PROVE Goes
  <2>1. Passes
    BY <1>0, <1>2, <1>14 DEF ReceiveAnswer, Heard, First, Move, Past, Passes
  <2>. QED
    BY <1>2, <1>3, <1>5, <1>14, <2>1 DEF ReceiveAnswer
<1>15. ASSUME RequestCharacters(u) PROVE Goes
  BY <1>3, <1>4, <1>5, <1>6, <1>9, <1>15 DEF RequestCharacters
<1>16. ASSUME ReceiveCharacters(u) PROVE Goes
  <2>1. Past(u)
    BY <1>16 DEF ReceiveCharacters, WorldTypeOK, Past
  <2>2. Passes
    BY <2>1 DEF Passes
  <2>. QED
    BY <1>3, <1>4, <1>5, <1>9, <1>16, <2>2 DEF ReceiveCharacters, SelectCharacter
<1>17. ASSUME ReceiveInstructions(u) PROVE Goes
  <2>1. Passes
    BY <1>17 DEF ReceiveInstructions, Past, Passes
  <2>. QED
    BY <1>3, <1>5, <1>17, <2>1 DEF ReceiveInstructions
<1>18. ASSUME Quit(u) PROVE Goes
  <2>1. Passes
    BY <1>0, <1>18 DEF Quit, Move, Past, Passes
  <2>. QED
    BY <1>2, <1>3, <1>5, <1>18, <2>1 DEF Quit
<1>19. ASSUME Goes PROVE ClientOn(u, c)'
  <2>1. ClientOn(u, c) /\ line[u] = c /\ UNCHANGED <<link, owner, state>>
    BY <1>19
  <2>2. toServer[c] \in Seq(Messages)
    BY DEF Inv, TypeOK
  <2>3. NoRegistration(c)'
    <3>1. NoRegistration(c)
      BY <2>1 DEF ClientOn, NoRegistration
    <3>2. CASE toServer'[c] = toServer[c]
      BY <3>1, <3>2 DEF NoRegistration
    <3>3. ASSUME NEW m, m.kind # "registration", toServer'[c] = Append(toServer[c], m) PROVE NoRegistration(c)'
      BY <2>2, <3>1, <3>3 DEF NoRegistration
    <3>. QED
      BY <1>19, <3>2, <3>3 DEF Says
  <2>4. ASSUME link[c] = "up" PROVE (Past(u)' => owner[c] = "session") /\ SuccessKept(c)'
    <3>1. SuccessKept(c)'
      BY <1>19, <2>1, <2>4 DEF ClientOn, SuccessKept, Reads
    <3>2. toPeer[c] # <<>> => Head(toPeer[c]) = toPeer[c][1] /\ 1 \in 1..Len(toPeer[c])
      BY DEF Inv, TypeOK
    <3>3. Past(u)' => owner[c] = "session"
      BY <1>19, <2>1, <2>4, <3>2 DEF ClientOn, Passes
    <3>. QED
      BY <3>1, <3>3
  <2>. QED
    BY <2>1, <2>3, <2>4 DEF ClientOn, NoRegistration, SuccessKept
<1>. QED
  BY <1>1, <1>10, <1>11, <1>12, <1>13, <1>14, <1>15, <1>16, <1>17, <1>18, <1>19 DEF render, doLogin

LEMMA ClientKept ==
    ASSUME NEW u \in Clients, NEW c \in Conns, ClientOn(u, c), ConnKept(c), gameState'[u] = gameState[u]
    PROVE  ClientOn(u, c)'
BY DEF ClientOn, ConnKept, Past

-----------------------------------------------------------------------------
(* The types of the programs. *)

LEMMA MapServerTypes ==
    ASSUME Inv, WorldTypeOK, NEW p \in MapServers, RunMapServer(p), ProgramStep(p), UNCHANGED <<build, clientVars>>
    PROVE  WorldTypeOK'
<1>. USE WorldAssumption, MapServersAssumption DEF WorldTypeOK
<1>1. Lines' /\ \A q \in Programs \ {p} : line'[q] = line[q]
  BY LinesTyped, ProgramStepKeeps
<1>2. /\ stage' \in [MapServers -> Stages] /\ starts' \in [MapServers -> 0..MaxStarts]
      /\ \A q \in MapServers \ {p} : stage'[q] = stage[q]
  BY DEF RunMapServer, Start, Register, TimeOut, ReceiveChallenge, ReceiveRegistered, ReceiveRequired, Leave,
     Reject, RequestRegistration, Enter, Stages, Waiting
<1>3. stage'[p] # "stopped" <=> line'[p] # None
  <2>1. CASE Start(p)
    BY <2>1, NoneIsNobody DEF Start, Dial
  <2>2. CASE Register(p)
    BY <2>2 DEF Register, TimeOut, ReceiveChallenge, ReceiveRegistered, ReceiveRequired,
       Reject, RequestRegistration, Enter, Waiting, Linked
  <2>3. CASE Leave(p)
    BY <2>3 DEF Leave, HangUp, Enter
  <2>. QED
    BY <2>1, <2>2, <2>3 DEF RunMapServer
<1>4. \A q \in MapServers : stage'[q] # "stopped" <=> line'[q] # None
  BY <1>1, <1>2, <1>3 DEF Linked
<1>5. \A u \in Clients : line'[u] = line[u]
  BY <1>1
<1>. QED
  BY <1>1, <1>2, <1>4, <1>5 DEF Lines, Linked, clientVars

LEMMA ClientTypes ==
    ASSUME Inv, WorldTypeOK, NEW u \in Clients, render(u), ProgramStep(u), UNCHANGED <<build, mapServerVars>>
    PROVE  WorldTypeOK'
<1>. USE WorldAssumption, ClientsAssumption DEF WorldTypeOK
<1>1. Lines' /\ \A q \in Programs \ {u} : line'[q] = line[q]
  BY LinesTyped, ProgramStepKeeps
<1>. DEFINE Typed == /\ gameState' \in [Clients -> GameState \cup {"CRASHED", "CLOSED"}]
                     /\ wait' \in [Clients -> {"none", "challenge", "answer", "characters"}]
                     /\ crypto' \in [Clients -> BOOLEAN]
                     /\ username' \in [Clients -> Names]
                     /\ currentCharacter' \in [Clients -> Characters \cup {None}]
            Others == \A v \in Clients \ {u} : gameState'[v] = gameState[v] /\ wait'[v] = wait[v] /\ crypto'[v] = crypto[v]
<1>2. ASSUME Connect(u) \/ PressOne(u) \/ RequestCharacters(u) \/ CharactersMissing(u) \/ GiveUpWaiting(u)
      PROVE  Typed /\ Others
  BY <1>2, ConstantsAssumption DEF PressOne, Connect, GiveUpWaiting, RequestCharacters, CharactersMissing, Await
<1>3. ASSUME LoginAgain(u) PROVE Typed /\ Others
  BY <1>3 DEF LoginAgain, Await, Move
<1>4. ASSUME ClientChallenge(u) PROVE Typed /\ Others
  <2>1. \E w \in {"none", "answer"} : Await(u, w)
    BY <1>4 DEF ClientChallenge, AnswerChallenge
  <2>2. UNCHANGED <<gameState, username, currentCharacter>>
    BY <1>4 DEF ClientChallenge
  <2>3. UNCHANGED crypto \/ crypto' = [crypto EXCEPT ![u] = TRUE]
    BY <1>4 DEF ClientChallenge
  <2>4. crypto' \in [Clients -> BOOLEAN] /\ \A v \in Clients \ {u} : crypto'[v] = crypto[v]
    <3>1. crypto \in [Clients -> BOOLEAN]
      OBVIOUS
    <3>. HIDE DEF WorldTypeOK
    <3>. QED
      BY <2>3, <3>1, Zenon
  <2>5. /\ wait' \in [Clients -> {"none", "challenge", "answer", "characters"}]
        /\ \A v \in Clients \ {u} : wait'[v] = wait[v]
    BY <2>1 DEF Await
  <2>6. Typed
    BY <2>2, <2>4, <2>5
  <2>7. Others
    <3>. HIDE DEF WorldTypeOK
    <3>. QED
      BY <2>2, <2>4, <2>5, Zenon
  <2>. QED
    BY <2>6, <2>7
<1>5. ASSUME ReceiveAnswer(u) PROVE Typed /\ Others
  <2>1. UNCHANGED <<crypto, username, currentCharacter>> /\ Await(u, "none")
        /\ (UNCHANGED gameState \/ Move(u, "CHARACTER_SELECT"))
    BY <1>5 DEF ReceiveAnswer
  <2>. QED
    BY <2>1 DEF Await, Move, GameState
<1>6. ASSUME ReceiveInstructions(u) \/ Quit(u) PROVE Typed /\ Others
  <2>1. \E s \in GameState \cup {"CLOSED"} : Move(u, s)
    BY <1>6 DEF ReceiveInstructions, Instructed, Quit, GameState
  <2>2. UNCHANGED <<crypto, username, currentCharacter>> /\ (UNCHANGED wait \/ Await(u, "none"))
    BY <1>6 DEF ReceiveInstructions, Quit
  <2>. QED
    BY <2>1, <2>2 DEF Await, Move
<1>7. ASSUME ReceiveCharacters(u) PROVE Typed /\ Others
  <2>1. \A ch \in First(u).characters : First(u).kind = "characters" => ch \in Characters
    BY <1>7, CharactersListed DEF ReceiveCharacters
  <2>2. UNCHANGED currentCharacter \/ \E ch \in Characters : currentCharacter' = [currentCharacter EXCEPT ![u] = ch]
    BY <1>7, <2>1 DEF ReceiveCharacters, SelectCharacter
  <2>3. UNCHANGED <<crypto, username>> /\ Await(u, "none") /\ (UNCHANGED gameState \/ Move(u, "MAP_SERVER_CONNECT"))
    BY <1>7 DEF ReceiveCharacters, SelectCharacter
  <2>. QED
    BY <2>2, <2>3 DEF Await, Move, GameState
<1>8. Typed /\ Others
  <2>. HIDE DEF Typed, Others
  <2>. QED
    BY <1>2, <1>3, <1>4, <1>5, <1>6, <1>7 DEF render, doLogin
<1>. DEFINE Waits == /\ wait'[u] # "none" => line'[u] # None
                     /\ wait'[u] \in {"challenge", "answer"} => gameState'[u] = "LOGIN"
                     /\ wait'[u] = "answer" => crypto'[u]
                     /\ wait'[u] = "characters" => gameState'[u] = "CHARACTER_SELECT"
<1>9. Waits
  <2>1. CASE Connect(u)
    BY <2>1, NoneIsNobody DEF Connect, Dial, Idle, Await
  <2>2. CASE LoginAgain(u) \/ PressOne(u)
    BY <2>2 DEF LoginAgain, PressOne, Idle, Await, Linked
  <2>3. CASE GiveUpWaiting(u) \/ CharactersMissing(u) \/ ReceiveAnswer(u) \/ Quit(u) \/ ReceiveCharacters(u)
    BY <2>3 DEF GiveUpWaiting, CharactersMissing, ReceiveAnswer, Quit, ReceiveCharacters, Await
  <2>4. CASE ClientChallenge(u)
    BY <2>4 DEF ClientChallenge, AnswerChallenge, Heard, Linked, Await
  <2>5. CASE RequestCharacters(u)
    BY <2>5 DEF RequestCharacters, Idle, Await, Linked
  <2>6. CASE ReceiveInstructions(u)
    BY <2>6 DEF ReceiveInstructions
  <2>. QED
    BY <2>1, <2>2, <2>3, <2>4, <2>5, <2>6 DEF render, doLogin
<1>10. \A v \in Clients \ {u} : line'[v] = line[v]
  BY <1>1
<1>11. \A v \in Clients :
          /\ wait'[v] # "none" => line'[v] # None
          /\ wait'[v] \in {"challenge", "answer"} => gameState'[v] = "LOGIN"
          /\ wait'[v] = "answer" => crypto'[v]
          /\ wait'[v] = "characters" => gameState'[v] = "CHARACTER_SELECT"
  BY <1>8, <1>9, <1>10 DEF Linked
<1>12. \A p \in MapServers : line'[p] = line[p]
  BY <1>1
<1>. HIDE DEF Waits
<1>. QED
  BY <1>1, <1>8, <1>11, <1>12 DEF Lines, Linked, mapServerVars

-----------------------------------------------------------------------------

LEMMA WorldStart == WorldInit => WorldInv
<1>. SUFFICES ASSUME WorldInit PROVE WorldInv
  OBVIOUS
<1>. USE DEF WorldInit, InitPeers, InitMapServers, InitClients
<1>1. Inv /\ HandshakeInv /\ RegistryInv
  BY InitInv, HandshakeInit, RegistryInit
<1>2. WorldTypeOK
  BY MapServersAssumption, ClientsAssumption, ProgramsAssumption
  DEF WorldTypeOK, Stages, Linked, GameState
<1>3. FaultsDown /\ NothingLeft
  BY DEF Init, InitState, InitSockets, FaultsDown, Unfaulty, NothingLeft
<1>4. \A p \in MapServers \cup Clients : line[p] = None
  BY MapServersAssumption, ClientsAssumption
<1>. QED
  BY <1>1, <1>2, <1>3, <1>4, NoneIsNobody DEF WorldInv

\* Every step of this world is a step of the login server's world or leaves that alone.
LEMMA WorldStepIsSpec == WorldInv /\ [WorldNext]_worldVars => [Next]_vars
<1>. SUFFICES ASSUME WorldInv, [WorldNext]_worldVars PROVE [Next]_vars
  OBVIOUS
<1>. USE DEF WorldInv
<1>0. Lines /\ MapServers \subseteq Programs /\ Clients \subseteq Programs
  BY LinesTyped, MapServersAssumption, ClientsAssumption
<1>1. CASE LoginServerStep
  BY <1>1 DEF LoginServerStep, Next, ServerNext, run
<1>2. ASSUME NEW p \in MapServers, RunMapServer(p) PROVE [Next]_vars
  BY <1>0, <1>2, MapServerProgram, ProgramStepIsSpec
<1>3. ASSUME NEW u \in Clients, render(u) PROVE [Next]_vars
  BY <1>0, <1>3, ClientProgram, ProgramStepIsSpec
<1>. QED
  BY <1>1, <1>2, <1>3 DEF WorldNext, MapServerStep, ClientStep, worldVars

LEMMA ClientOthers ==
    ASSUME WorldTypeOK, NEW u \in Clients, NEW v \in Clients \ {u}, render(u)
    PROVE  gameState'[v] = gameState[v]
<1>1. UNCHANGED gameState \/ \E s : Move(u, s)
  BY DEF render, doLogin, PressOne, Connect, LoginAgain, GiveUpWaiting, ClientChallenge, ReceiveAnswer,
     RequestCharacters, CharactersMissing, ReceiveCharacters, SelectCharacter, ReceiveInstructions, Quit
<1>. QED
  BY <1>1 DEF Move, WorldTypeOK

LEMMA WorldStepKeeps == WorldInv /\ [WorldNext]_worldVars => WorldInv'
<1>. SUFFICES ASSUME WorldInv, [WorldNext]_worldVars PROVE WorldInv'
  OBVIOUS
<1>. USE DEF WorldInv
<1>0. Lines /\ MapServers \subseteq Programs /\ Clients \subseteq Programs
  BY LinesTyped, MapServersAssumption, ClientsAssumption
<1>1. (Inv /\ HandshakeInv /\ RegistryInv)' /\ (FaultsDown /\ NothingLeft)' /\ ListKept
  BY WorldStepIsSpec, NextInv, HandshakeNext, RegistryNext, FaultsNext, LeftNext, ListGrows
<1>2. CASE LoginServerStep
  <2>1. UNCHANGED programVars
    BY <1>2 DEF LoginServerStep
  <2>2. WorldTypeOK'
    BY <2>1 DEF programVars, mapServerVars, clientVars, WorldTypeOK, Linked
  <2>3. \A p \in MapServers, c \in Conns : (line[p] = c => ServerOn(p, c))'
    BY <1>2, <2>1, StepOnServer DEF programVars
  <2>4. \A u \in Clients, c \in Conns : (line[u] = c => ClientOn(u, c))'
    BY <1>2, <2>1, StepOnClient DEF programVars
  <2>. QED
    BY <1>1, <2>2, <2>3, <2>4
<1>3. ASSUME NEW p \in MapServers, RunMapServer(p), UNCHANGED <<build, clientVars>> PROVE WorldInv'
  <2>1. ProgramStep(p)
    BY <1>3, MapServerProgram
  <2>2. WorldTypeOK'
    BY <1>3, <2>1, MapServerTypes
  <2>3. \A q \in Programs \ {p} : line'[q] = line[q] /\ (Linked(q) => ConnKept(line[q]))
    BY <1>0, <2>1, ProgramStepKeeps
  <2>4. ASSUME NEW q \in MapServers, NEW c \in Conns, line'[q] = c PROVE ServerOn(q, c)'
    <3>1. CASE q = p
      BY <1>3, <2>4, <3>1, MapServerOwn
    <3>2. CASE q # p
      <4>1. line[q] = c /\ ServerOn(q, c) /\ ConnKept(c)
        BY <1>0, <2>3, <2>4, <3>2, NoneIsNobody DEF Linked
      <4>2. stage'[q] = stage[q]
        BY <1>3, <3>2 DEF RunMapServer, Start, Register, TimeOut, ReceiveChallenge, ReceiveRegistered,
           ReceiveRequired, Leave, Reject, RequestRegistration, Enter, WorldTypeOK
      <4>. QED
        BY <1>1, <4>1, <4>2, ServerKept
    <3>. QED
      BY <3>1, <3>2
  <2>5. ASSUME NEW u \in Clients, NEW c \in Conns, line'[u] = c PROVE ClientOn(u, c)'
    <3>1. u # p
      BY WorldAssumption
    <3>2. line[u] = c /\ ClientOn(u, c) /\ ConnKept(c)
      BY <1>0, <2>3, <2>5, <3>1, NoneIsNobody DEF Linked
    <3>. QED
      BY <1>3, <3>2, ClientKept DEF clientVars
  <2>. QED
    BY <1>1, <2>2, <2>4, <2>5
<1>4. ASSUME NEW u \in Clients, render(u), UNCHANGED <<build, mapServerVars>> PROVE WorldInv'
  <2>1. ProgramStep(u)
    BY <1>4, ClientProgram
  <2>2. WorldTypeOK'
    BY <1>4, <2>1, ClientTypes
  <2>3. \A q \in Programs \ {u} : line'[q] = line[q] /\ (Linked(q) => ConnKept(line[q]))
    BY <1>0, <2>1, ProgramStepKeeps
  <2>4. ASSUME NEW p \in MapServers, NEW c \in Conns, line'[p] = c PROVE ServerOn(p, c)'
    <3>1. p # u
      BY WorldAssumption
    <3>2. line[p] = c /\ ServerOn(p, c) /\ ConnKept(c)
      BY <1>0, <2>3, <2>4, <3>1, NoneIsNobody DEF Linked
    <3>. QED
      BY <1>1, <1>4, <3>2, ServerKept DEF mapServerVars
  <2>5. ASSUME NEW v \in Clients, NEW c \in Conns, line'[v] = c PROVE ClientOn(v, c)'
    <3>1. CASE v = u
      BY <1>4, <2>5, <3>1, ClientOwn
    <3>2. CASE v # u
      <4>1. line[v] = c /\ ClientOn(v, c) /\ ConnKept(c)
        BY <1>0, <2>3, <2>5, <3>2, NoneIsNobody DEF Linked
      <4>2. gameState'[v] = gameState[v]
        BY <1>4, <3>2, ClientOthers
      <4>. QED
        BY <4>1, <4>2, ClientKept
    <3>. QED
      BY <3>1, <3>2
  <2>. QED
    BY <1>1, <2>2, <2>4, <2>5
<1>5. CASE UNCHANGED worldVars
  <2>1. WorldTypeOK' /\ UNCHANGED <<line, stage, gameState>> /\ \A c \in Conns : ConnKept(c)
    BY <1>5 DEF worldVars, vars, socketVars, entryVars, registryVars, programVars, mapServerVars, clientVars,
       WorldTypeOK, Linked, ConnKept
  <2>. QED
    BY <1>1, <2>1, ServerKept, ClientKept
<1>. QED
  BY <1>2, <1>3, <1>4, <1>5 DEF WorldNext, MapServerStep, ClientStep

-----------------------------------------------------------------------------

LEMMA WorldInvCorrect == WorldSpec => []WorldInv
BY WorldStart, WorldStepKeeps, PTL DEF WorldSpec

\* The login server, real map servers and real clients together are a behaviour of the
\* login server among peers that may do anything, whatever the number of each: no
\* program ever does what a peer may not, so that what is proved of Spec holds of them.
THEOREM WorldImplementsSpec == WorldSpec => Spec
<1>1. WorldInit => Init
  BY DEF WorldInit, InitPeers
<1>. QED
  BY <1>1, WorldInvCorrect, WorldStepIsSpec, PTL DEF WorldSpec, Spec

\* The programs keep their types, and no two of them one connection.
THEOREM WorldTypeCorrect == WorldSpec => []WorldTypeOK
BY WorldInvCorrect, PTL DEF WorldInv

\* "they should be right first time, every time": no map server is charged with a
\* failed attempt, whatever its key and version and whenever it gives up.
THEOREM RightFirstTimeCorrect == WorldSpec => []RightFirstTime
<1>1. WorldInv => RightFirstTime
  <2>1. WorldInv => \A p \in MapServers : Linked(p) => line[p] \in Conns
    BY LinesTyped, LineOfProgram DEF WorldInv
  <2>. QED
    BY <2>1 DEF WorldInv, ServerOn, RightFirstTime
<1>. QED
  BY <1>1, WorldInvCorrect, PTL

\* The list has each connection once: its maps are those of the one entry.
LEMMA ListedOnce ==
    ASSUME RegistryInv, NEW c \in Conns, NEW S, ListedFor(c, S)
    PROVE  Listed(c) /\ ListedMaps(c) \subseteq S
<1>1. PICK i \in 1..Len(mapServers) : mapServers[i].connection = c /\ mapServers[i].maps \subseteq S
  BY DEF ListedFor
<1>2. \A j \in 1..Len(mapServers) : mapServers[j].connection = c => j = i
  BY <1>1 DEF RegistryInv, ServersOwned
<1>. QED
  BY <1>1, <1>2 DEF Listed, ListedMaps

\* A map server that accepts players has the login server's word for it, in its own
\* acknowledgement still to be read or in the list, and only for maps it has.
THEOREM AcceptingAgreedCorrect == WorldSpec => []AcceptingAgreed
<1>1. ASSUME WorldInv, NEW p \in MapServers, stage[p] = "accepting", Up(p)
      PROVE  LET c == line[p] IN
             \/ /\ state[c] = "MAP_WAIT_ACK" /\ Readable(c) /\ Received(c).kind = "ack"
                /\ maps[c] \subseteq Supported[p]
             \/ Listed(c) /\ ListedMaps(c) \subseteq Supported[p]
  <2>. DEFINE c == line[p]
  <2>1. c \in Conns /\ link[c] = "up"
    BY <1>1, LinesTyped, LineOfProgram DEF WorldInv, Up
  <2>2. InAccepting(p, c)
    BY <1>1, <2>1 DEF WorldInv, ServerOn, Registering, InChallenge, InRegistered, InRequired, InLeaving
  <2>3. CASE At(c, "MAP_WAIT_ACK", <<Plain("ack")>>) /\ maps[c] \subseteq Supported[p]
    BY <2>1, <2>3, HeadOfOne DEF At, Readable, Received, Plain
  <2>4. CASE ListedFor(c, Supported[p])
    BY <1>1, <2>1, <2>4, ListedOnce DEF WorldInv
  <2>. QED
    BY <2>2, <2>3, <2>4 DEF InAccepting
<1>2. WorldInv => AcceptingAgreed
  BY <1>1 DEF AcceptingAgreed
<1>. QED
  BY <1>2, WorldInvCorrect, PTL

\* The login server sends nobody to a map server that does not accept players, or that
\* does not have the map.
THEOREM ListedAcceptsCorrect == WorldSpec => []ListedAccepts
<1>1. ASSUME WorldInv, NEW i \in 1..Len(mapServers), NEW p \in MapServers,
             line[p] = mapServers[i].connection, Up(p)
      PROVE  stage[p] = "accepting" /\ mapServers[i].maps \subseteq Supported[p]
  <2>. DEFINE c == line[p]
  <2>1. c \in Conns /\ link[c] = "up" /\ owner[c] = "mapServer"
    BY <1>1, LinesTyped, LineOfProgram DEF WorldInv, Up, RegistryInv, ServersOwned
  <2>2. ServerOn(p, c) /\ Registering(p, c)
    BY <1>1, <2>1 DEF WorldInv, ServerOn
  <2>3. state[c] \in {"ABSENT", "DONE"}
    BY <1>1, <2>1 DEF WorldInv, Inv, SocketPresent
  <2>4. stage[p] = "accepting" /\ ListedFor(c, Supported[p])
    BY <2>1, <2>2, <2>3 DEF Registering, InChallenge, InRegistered, InRequired, InAccepting, InLeaving, At
  <2>5. PICK j \in 1..Len(mapServers) : mapServers[j].connection = c /\ mapServers[j].maps \subseteq Supported[p]
    BY <2>4 DEF ListedFor
  <2>6. i = j
    BY <1>1, <2>5 DEF WorldInv, RegistryInv, ServersOwned
  <2>. QED
    BY <2>4, <2>5, <2>6
<1>2. WorldInv => ListedAccepts
  BY <1>1 DEF ListedAccepts
<1>. QED
  BY <1>2, WorldInvCorrect, PTL

\* A client that believes it is logged in has a session, as long as the connection
\* lives: no late answer, no answer dropped and no answer to an earlier attempt takes
\* it past the login without one.
THEOREM LoggedInTogetherCorrect == WorldSpec => []LoggedInTogether
<1>1. ASSUME WorldInv, NEW u \in Clients, Past(u), Up(u) PROVE owner[line[u]] = "session"
  <2>1. line[u] \in Conns
    BY <1>1, LinesTyped, LineOfProgram, ClientsAssumption DEF WorldInv, Up
  <2>. QED
    BY <1>1, <2>1 DEF WorldInv, ClientOn, Up
<1>2. WorldInv => LoggedInTogether
  BY <1>1 DEF LoggedInTogether
<1>. QED
  BY <1>2, WorldInvCorrect, PTL

=============================================================================
