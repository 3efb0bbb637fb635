---------------------------- MODULE LoginProofs ----------------------------
(***************************************************************************)
(* Proofs about the login server.  The types, the sockets and the attempts *)
(* come first and are inductive by themselves (Inv): an attempt is only    *)
(* counted past two, out of its type, if an entry with three is looked at  *)
(* again.  What follows about sessions, map servers and verdicts is proved *)
(* from Inv and from the one lemma that says which steps touch the         *)
(* variables it is about.  Last comes that the login server implements     *)
(* LoginContract: each of its steps is one move of one visitor, the        *)
(* departure of those that were shown out, the first account, or nothing.  *)
(***************************************************************************)
EXTENDS LoginRefinement, TLAPS, FiniteSetTheorems, SequenceTheorems

-----------------------------------------------------------------------------
(* Types, sockets and attempts. *)

Inv == TypeOK /\ SocketPresent /\ AttemptBudget

\* What the handlers decode has the fields that its opcode promises.
LEMMA ReceivedType ==
    ASSUME TypeOK, NEW c \in Conns, Readable(c)
    PROVE  /\ Received(c) \in Messages
           /\ Received(c).kind = "identity" => Received(c).user \in Names
           /\ Received(c).kind = "mapList" => Received(c).maps \subseteq Maps
           /\ Received(c).kind = "characterSelect" => Received(c).character \in Characters \cup {None}
           /\ Tail(toServer[c]) \in Seq(Messages)
<1>1. toServer[c] \in Seq(Messages) /\ toServer[c] # <<>>
  BY DEF TypeOK, Readable
<1>2. Received(c) \in Messages /\ Tail(toServer[c]) \in Seq(Messages)
  BY <1>1, HeadTailProperties DEF Received
<1>. QED
  BY <1>2 DEF Messages, Identities, MapLists, Selections, PlainRequests

LEMMA ResponseType ==
    ASSUME NEW success \in BOOLEAN, NEW used \in 0..MAX_ATTEMPTS_ALLOWED
    PROVE  Response(success, used) \in Replies
BY DEF Response, Replies, Responses, MAX_ATTEMPTS_ALLOWED

LEMMA SendType ==
    ASSUME TypeOK, NEW c \in Conns, NEW reply \in Replies, NEW ok \in BOOLEAN, Send(c, reply, ok)
    PROVE  told' \in [Conns -> Replies] /\ toPeer' \in [Conns -> Seq(Replies)] /\ fault' \in [Conns -> BOOLEAN]
<1>1. toPeer \in [Conns -> Seq(Replies)]
  BY DEF TypeOK
<1>2. Append(toPeer[c], reply) \in Seq(Replies)
  BY <1>1, AppendProperties
<1>3. [toPeer EXCEPT ![c] = Append(@, reply)] \in [Conns -> Seq(Replies)]
  BY <1>1, <1>2
<1>4. toPeer' = toPeer \/ toPeer' = [toPeer EXCEPT ![c] = Append(@, reply)]
  BY ConstantsAssumption DEF Send
<1>5. toPeer' \in [Conns -> Seq(Replies)]
  BY <1>1, <1>3, <1>4
<1>6. told' \in [Conns -> Replies] /\ fault' \in [Conns -> BOOLEAN]
  <2>1. told \in [Conns -> Replies] /\ fault \in [Conns -> BOOLEAN]
    BY DEF TypeOK
  <2>2. /\ told' = told \/ told' = [told EXCEPT ![c] = reply]
        /\ fault' = fault \/ \E error \in BOOLEAN : fault' = [fault EXCEPT ![c] = error]
    BY DEF Send
  <2>. QED
    BY <2>1, <2>2
<1>. QED
  BY <1>5, <1>6

LEMMA SendAnyhowType ==
    ASSUME TypeOK, NEW c \in Conns, NEW reply \in Replies, SendAnyhow(c, reply)
    PROVE  told' \in [Conns -> Replies] /\ toPeer' \in [Conns -> Seq(Replies)] /\ fault' \in [Conns -> BOOLEAN]
BY SendType DEF SendAnyhow

LEMMA RecvAllType ==
    ASSUME TypeOK, NEW c \in Conns, RecvAll(c)
    PROVE  toServer' \in [Conns -> Seq(Messages)]
<1>1. <<>> \in Seq(Messages)
  BY EmptySeq
<1>. QED
  BY <1>1 DEF TypeOK, RecvAll

LEMMA InitInv == Init => Inv
<1>. SUFFICES ASSUME Init PROVE Inv
  OBVIOUS
<1>1. Cardinality(Maps) \in Nat
  BY ConstantsAssumption, FS_CardinalityType
<1>2. TypeOK
  BY <1>1, ConstantsAssumption DEF Init, InitState, InitSockets, TypeOK, Links, Owners, Nothing, NoServer,
     Replies, PlainReplies, MAX_ATTEMPTS_ALLOWED, MapServerConnection
<1>3. SocketPresent /\ AttemptBudget
  BY DEF Init, InitState, InitSockets, SocketPresent, AttemptBudget, MAX_ATTEMPTS_ALLOWED
<1>. QED
  BY <1>2, <1>3 DEF Inv

-----------------------------------------------------------------------------
(* Each action keeps Inv. *)

LEMMA InitDBInv == Inv /\ initDB => Inv'
<1>. SUFFICES ASSUME Inv, initDB PROVE Inv'
  OBVIOUS
<1>. USE DEF Inv, initDB, socketVars, entryVars, sessionVars, registryVars
<1>1. TypeOK'
  BY ConstantsAssumption DEF TypeOK
<1>2. SocketPresent' /\ AttemptBudget'
  BY DEF SocketPresent, AttemptBudget
<1>. QED
  BY <1>1, <1>2

LEMMA AcceptorInv == Inv /\ AcceptorFails => Inv'
<1>. SUFFICES ASSUME Inv, AcceptorFails PROVE Inv'
  OBVIOUS
<1>. USE DEF Inv, AcceptorFails, socketVars, entryVars, sessionVars, registryVars
<1>1. TypeOK'
  BY DEF TypeOK
<1>2. SocketPresent' /\ AttemptBudget'
  BY DEF SocketPresent, AttemptBudget
<1>. QED
  BY <1>1, <1>2

LEMMA AcceptInv == ASSUME NEW c \in Conns PROVE Inv /\ AcceptConnection(c) => Inv'
<1>. SUFFICES ASSUME Inv, AcceptConnection(c) PROVE Inv'
  OBVIOUS
<1>. USE DEF Inv, AcceptConnection, OpenSocket, sessionVars, registryVars, processVars
<1>1. TypeOK'
  BY DEF TypeOK, Links, Owners, IncomingConnectionState
<1>2. SocketPresent' /\ AttemptBudget'
  BY DEF TypeOK, SocketPresent, AttemptBudget, MAX_ATTEMPTS_ALLOWED
<1>. QED
  BY <1>1, <1>2

LEMMA DropFaultyInv == ASSUME NEW c \in Conns PROVE Inv /\ DropFaulty(c) => Inv'
<1>. SUFFICES ASSUME Inv, DropFaulty(c) PROVE Inv'
  OBVIOUS
<1>. USE DEF Inv, DropFaulty, SetState, socketVars, sessionVars, registryVars, processVars
<1>1. TypeOK'
  BY DEF TypeOK, IncomingConnectionState
<1>2. SocketPresent' /\ AttemptBudget'
  BY DEF TypeOK, SocketPresent, AttemptBudget
<1>. QED
  BY <1>1, <1>2

LEMMA FreshInv == ASSUME NEW c \in Conns PROVE Inv /\ processFreshSocket(c) => Inv'
<1>. SUFFICES ASSUME Inv, processFreshSocket(c) PROVE Inv'
  OBVIOUS
<1>. USE DEF Inv, processFreshSocket, Visits, SetState, sessionVars, registryVars, processVars
<1>1. told' \in [Conns -> Replies] /\ toPeer' \in [Conns -> Seq(Replies)] /\ fault' \in [Conns -> BOOLEAN]
  <2>1. [kind |-> "challenge"] \in Replies
    BY DEF Replies, PlainReplies
  <2>. QED
    BY <2>1, SendType DEF SendAnyhow
<1>2. TypeOK'
  BY <1>1 DEF TypeOK, IncomingConnectionState
<1>3. SocketPresent' /\ AttemptBudget'
  BY DEF TypeOK, SocketPresent, AttemptBudget
<1>. QED
  BY <1>2, <1>3

\* What both handlers of a login share: what is read has a type, and what they count
\* and answer keeps it.
LEMMA NothingReadInv ==
    ASSUME NEW c \in Conns, Inv, state[c] \notin {"ABSENT", "DONE"}, NothingRead(c), UNCHANGED processVars
    PROVE  Inv'
<1>. USE DEF Inv, NothingRead, SetState, socketVars, sessionVars, registryVars, processVars
<1>1. TypeOK'
  BY DEF TypeOK, IncomingConnectionState
<1>2. SocketPresent' /\ AttemptBudget'
  BY DEF TypeOK, SocketPresent, AttemptBudget
<1>. QED
  BY <1>1, <1>2

LEMMA FailAttemptInv ==
    ASSUME NEW c \in Conns, Inv, state[c] \in {"CHALLENGE_SENT", "LOGIN_FAILED"},
           RecvAll(c), FailAttempt(c), UNCHANGED processVars
    PROVE  Inv'
<1>. USE DEF Inv, RecvAll, FailAttempt, SetState, sessionVars, registryVars, processVars
<1>1. attempts[c] \in 0..2 /\ attempts'[c] = attempts[c] + 1
  BY DEF TypeOK, AttemptBudget, MAX_ATTEMPTS_ALLOWED
<1>2. told' \in [Conns -> Replies] /\ toPeer' \in [Conns -> Seq(Replies)] /\ fault' \in [Conns -> BOOLEAN]
  <2>1. Response(FALSE, attempts'[c]) \in Replies
    BY <1>1 DEF Response, Replies, Responses, MAX_ATTEMPTS_ALLOWED
  <2>2. SendAnyhow(c, Response(FALSE, attempts'[c])) /\ TypeOK
    OBVIOUS
  <2>. QED
    BY <2>1, <2>2, SendAnyhowType, Zenon
<1>3. TypeOK'
  <2>1. toServer' \in [Conns -> Seq(Messages)]
    BY RecvAllType
  <2>2. state' \in [Conns -> IncomingConnectionState \cup {"ABSENT"}]
    BY DEF TypeOK, IncomingConnectionState
  <2>3. attempts' \in [Conns -> 0..MAX_ATTEMPTS_ALLOWED]
    BY <1>1 DEF TypeOK, MAX_ATTEMPTS_ALLOWED
  <2>. QED
    BY <1>2, <2>1, <2>2, <2>3 DEF TypeOK
<1>4. SocketPresent'
  BY DEF TypeOK, SocketPresent
<1>5. AttemptBudget'
  BY <1>1 DEF TypeOK, AttemptBudget, MAX_ATTEMPTS_ALLOWED
<1>. QED
  BY <1>3, <1>4, <1>5

LEMMA LoginAttemptInv ==
    ASSUME NEW c \in Conns, NEW m, Inv, state[c] \in {"CHALLENGE_SENT", "LOGIN_FAILED"},
           m.user \in Names, RecvAll(c), processLoginAttempt(c, m), UNCHANGED processVars
    PROVE  Inv'
<1>1. CASE FailAttempt(c)
  BY <1>1, FailAttemptInv
<1>2. CASE RefuseLocked(c)
  <2>. USE <1>2 DEF Inv, RecvAll, RefuseLocked, Disconnect, SetState, sessionVars, registryVars, processVars
  <2>1. told' \in [Conns -> Replies] /\ toPeer' \in [Conns -> Seq(Replies)] /\ fault' \in [Conns -> BOOLEAN]
    <3>1. Response(FALSE, MAX_ATTEMPTS_ALLOWED) \in Replies
      BY DEF Response, Replies, Responses, MAX_ATTEMPTS_ALLOWED
    <3>2. SendAnyhow(c, Response(FALSE, MAX_ATTEMPTS_ALLOWED)) /\ TypeOK
      OBVIOUS
    <3>. QED
      BY <3>1, <3>2, SendAnyhowType, Zenon
  <2>2. TypeOK'
    BY <2>1, RecvAllType DEF TypeOK, IncomingConnectionState, Links
  <2>3. SocketPresent' /\ AttemptBudget'
    BY DEF TypeOK, SocketPresent, AttemptBudget
  <2>. QED
    BY <2>2, <2>3
<1>3. CASE OpenSession(c, m.user)
  <2>. USE <1>3 DEF Inv, RecvAll, OpenSession, SetState, registryVars, processVars
  <2>1. told' \in [Conns -> Replies] /\ toPeer' \in [Conns -> Seq(Replies)] /\ fault' \in [Conns -> BOOLEAN]
    <3>1. attempts[c] \in 0..MAX_ATTEMPTS_ALLOWED
      BY DEF TypeOK
    <3>2. Response(TRUE, attempts[c]) \in Replies
      BY <3>1, ResponseType
    <3>. QED
      BY <3>2, SendAnyhowType
  <2>2. TypeOK'
    BY <2>1, RecvAllType DEF TypeOK, IncomingConnectionState, Owners
  <2>3. SocketPresent' /\ AttemptBudget'
    BY DEF TypeOK, SocketPresent, AttemptBudget
  <2>. QED
    BY <2>2, <2>3
<1>. QED
  BY <1>1, <1>2, <1>3 DEF processLoginAttempt

LEMMA ChallengeSentInv == ASSUME NEW c \in Conns PROVE Inv /\ processChallengeSentSocket(c) => Inv'
<1>. SUFFICES ASSUME Inv, processChallengeSentSocket(c) PROVE Inv'
  OBVIOUS
<1>. USE DEF processChallengeSentSocket, Visits
<1>1. CASE NothingRead(c)
  BY <1>1, NothingReadInv
<1>2. CASE Readable(c) /\ RecvAll(c) /\ Received(c).kind = "identity" /\ processLoginAttempt(c, Received(c))
  BY <1>2, ReceivedType, LoginAttemptInv DEF Inv
<1>3. CASE Readable(c) /\ RecvAll(c) /\ VersionMismatch(c)
  <2>. USE <1>3 DEF Inv, RecvAll, VersionMismatch, SetState, sessionVars, registryVars, processVars
  <2>1. TypeOK'
    BY RecvAllType DEF TypeOK, IncomingConnectionState
  <2>2. SocketPresent' /\ AttemptBudget'
    BY DEF TypeOK, SocketPresent, AttemptBudget
  <2>. QED
    BY <2>1, <2>2
<1>4. CASE Readable(c) /\ RecvAll(c) /\ RegisterMapServer(c)
  <2>. USE <1>4 DEF Inv, RecvAll, RegisterMapServer, processMapAuthenticationRequest, SetState,
       sessionVars, registryVars, processVars
  <2>1. told' \in [Conns -> Replies] /\ toPeer' \in [Conns -> Seq(Replies)] /\ fault' \in [Conns -> BOOLEAN]
    <3>1. [kind |-> "registrationResponse"] \in Replies
      BY DEF Replies, PlainReplies
    <3>. QED
      BY <3>1, SendType
  <2>2. TypeOK'
    BY <2>1, RecvAllType DEF TypeOK, IncomingConnectionState
  <2>3. SocketPresent' /\ AttemptBudget'
    BY DEF TypeOK, SocketPresent, AttemptBudget
  <2>. QED
    BY <2>2, <2>3
<1>5. CASE Readable(c) /\ RecvAll(c) /\ FailAttempt(c)
  BY <1>5, FailAttemptInv
<1>. QED
  BY <1>1, <1>2, <1>3, <1>4, <1>5

LEMMA LoginFailedInv == ASSUME NEW c \in Conns PROVE Inv /\ processLoginFailedSocket(c) => Inv'
<1>. SUFFICES ASSUME Inv, processLoginFailedSocket(c) PROVE Inv'
  OBVIOUS
<1>. USE DEF processLoginFailedSocket, Visits
<1>1. CASE NothingRead(c)
  BY <1>1, NothingReadInv
<1>2. CASE Readable(c) /\ RecvAll(c) /\ Received(c).kind = "identity" /\ processLoginAttempt(c, Received(c))
  BY <1>2, ReceivedType, LoginAttemptInv DEF Inv
<1>3. CASE Readable(c) /\ RecvAll(c) /\ FailAttempt(c)
  BY <1>3, FailAttemptInv
<1>. QED
  BY <1>1, <1>2, <1>3

LEMMA MapListInv == ASSUME NEW c \in Conns PROVE Inv /\ processMapListSocket(c) => Inv'
<1>. SUFFICES ASSUME Inv, processMapListSocket(c) PROVE Inv'
  OBVIOUS
<1>. USE DEF processMapListSocket, Visits
<1>1. CASE NothingRead(c)
  BY <1>1, NothingReadInv
<1>2. ASSUME Readable(c), RecvAll(c), ~NothingRead(c) PROVE Inv'
  <2>. USE <1>2 DEF Inv, RecvAll, SetState, sessionVars, registryVars, processVars
  <2>. DEFINE required == RequiredMaps(Received(c))
  <2>1. CASE NotAList(c)
    BY <2>1, RecvAllType DEF TypeOK, IncomingConnectionState, SocketPresent, AttemptBudget, NotAList
  <2>2. CASE NotNeeded(c)
    <3>1. [kind |-> "notNeeded"] \in Replies
      BY DEF Replies, PlainReplies
    <3>2. told' \in [Conns -> Replies] /\ toPeer' \in [Conns -> Seq(Replies)] /\ fault' \in [Conns -> BOOLEAN]
      BY <2>2, <3>1, SendAnyhowType DEF NotNeeded
    <3>3. TypeOK'
      BY <2>2, <3>2, RecvAllType DEF TypeOK, IncomingConnectionState, NotNeeded
    <3>. QED
      BY <2>2, <3>3 DEF TypeOK, SocketPresent, AttemptBudget, NotNeeded
  <2>3. CASE Received(c).kind = "mapList" /\ RequireMaps(c, required)
    <3>1. required \subseteq Maps
      BY <2>3, ReceivedType DEF RequiredMaps
    <3>2. [kind |-> "requiredMaps", maps |-> required] \in Replies
      BY <3>1 DEF Replies, Requirements
    <3>3. told' \in [Conns -> Replies] /\ toPeer' \in [Conns -> Seq(Replies)] /\ fault' \in [Conns -> BOOLEAN]
      BY <2>3, <3>2, SendAnyhowType DEF RequireMaps
    <3>4. TypeOK'
      BY <2>3, <3>1, <3>3, RecvAllType DEF TypeOK, IncomingConnectionState, RequireMaps
    <3>. QED
      BY <2>3, <3>4 DEF TypeOK, SocketPresent, AttemptBudget, RequireMaps
  <2>. QED
    BY <2>1, <2>2, <2>3
<1>. QED
  BY <1>1, <1>2

LEMMA MapWaitAckInv == ASSUME NEW c \in Conns PROVE Inv /\ processMapWaitAckSocket(c) => Inv'
<1>. SUFFICES ASSUME Inv, processMapWaitAckSocket(c) PROVE Inv'
  OBVIOUS
<1>. USE DEF processMapWaitAckSocket, Visits
<1>1. CASE NothingRead(c)
  BY <1>1, NothingReadInv
<1>2. ASSUME RecvAll(c), ~NothingRead(c) PROVE Inv'
  <2>. USE <1>2 DEF Inv, RecvAll, SetState, sessionVars, processVars
  <2>1. mapServers' \in Seq(MapServerConnection) /\ Len(mapServers') \in Nat
    <3>. DEFINE server == [connection |-> c, maps |-> maps[c]]
    <3>1. server \in MapServerConnection /\ mapServers \in Seq(MapServerConnection)
      BY DEF TypeOK, MapServerConnection
    <3>2. mapServers' = Append(mapServers, server)
      BY DEF EmplaceServer
    <3>. HIDE DEF server
    <3>. QED
      BY <3>1, <3>2, AppendProperties
  <2>2. capacity' \in Nat /\ block' \in Nat
    BY DEF TypeOK, EmplaceServer
  <2>3. directory' \in [Maps -> [slot : Nat, block : Nat]]
    BY <2>1, <2>2 DEF TypeOK, Publish
  <2>4. TypeOK'
    <3>1. toServer' \in [Conns -> Seq(Messages)]
      BY RecvAllType
    <3>2. /\ state' \in [Conns -> IncomingConnectionState \cup {"ABSENT"}]
          /\ owner' \in [Conns -> Owners]
          /\ maps' \in [Conns -> SUBSET Maps]
      BY DEF TypeOK, IncomingConnectionState, Owners
    <3>3. UNCHANGED <<link, told, toPeer, fault, attempts, hello, user, index, character, players, pc>>
      OBVIOUS
    <3>. QED
      BY <2>1, <2>2, <2>3, <3>1, <3>2, <3>3 DEF TypeOK
  <2>5. SocketPresent' /\ AttemptBudget'
    BY DEF TypeOK, SocketPresent, AttemptBudget
  <2>. QED
    BY <2>4, <2>5
<1>. QED
  BY <1>1, <1>2

LEMMA PurgeInv == Inv /\ PurgeDone => Inv'
<1>. SUFFICES ASSUME Inv, PurgeDone PROVE Inv'
  OBVIOUS
<1>. USE DEF Inv, PurgeDone, EraseDone, DoneWithSocket, DestroySockets, sessionVars, registryVars, processVars
<1>1. TypeOK'
  <2>1. <<>> \in Seq(Messages) /\ Nothing \in Replies
    BY EmptySeq DEF Nothing, Replies, PlainReplies
  <2>2. /\ link' \in [Conns -> Links] /\ fault' \in [Conns -> BOOLEAN]
        /\ toServer' \in [Conns -> Seq(Messages)] /\ told' \in [Conns -> Replies]
    BY <2>1 DEF TypeOK, Links
  <2>3. /\ owner' \in [Conns -> Owners]
        /\ state' \in [Conns -> IncomingConnectionState \cup {"ABSENT"}]
    BY DEF TypeOK, Owners
  <2>4. attempts' \in [Conns -> 0..MAX_ATTEMPTS_ALLOWED]
    BY DEF TypeOK, MAX_ATTEMPTS_ALLOWED
  <2>5. hello' \in [Conns -> BOOLEAN]
    BY DEF TypeOK
  <2>6. maps' \in [Conns -> SUBSET Maps]
    BY DEF TypeOK
  <2>. QED
    BY <2>2, <2>3, <2>4, <2>5, <2>6 DEF TypeOK
<1>2. SocketPresent' /\ AttemptBudget'
  BY DEF TypeOK, SocketPresent, AttemptBudget, MAX_ATTEMPTS_ALLOWED
<1>. QED
  BY <1>1, <1>2

LEMMA ReapInv == ASSUME NEW c \in Conns PROVE Inv /\ ReapSession(c) => Inv'
<1>. SUFFICES ASSUME Inv, ReapSession(c) PROVE Inv'
  OBVIOUS
<1>. USE DEF Inv, ReapSession, HasSession, DestroySockets, entryVars, registryVars, processVars
<1>1. TypeOK'
  <2>1. <<>> \in Seq(Messages) /\ Nothing \in Replies
    BY EmptySeq DEF Nothing, Replies, PlainReplies
  <2>. QED
    BY <2>1 DEF TypeOK, Owners, Links
<1>2. SocketPresent' /\ AttemptBudget'
  BY DEF TypeOK, SocketPresent, AttemptBudget
<1>. QED
  BY <1>1, <1>2

LEMMA SetErrorInv == ASSUME NEW c \in Conns PROVE Inv /\ SetError(c) => Inv'
<1>. SUFFICES ASSUME Inv, SetError(c) PROVE Inv'
  OBVIOUS
<1>. USE DEF Inv, SetError, entryVars, sessionVars, registryVars, processVars
<1>1. TypeOK'
  BY DEF TypeOK
<1>2. SocketPresent' /\ AttemptBudget'
  BY DEF TypeOK, SocketPresent, AttemptBudget
<1>. QED
  BY <1>1, <1>2

LEMMA UnhandledInv == ASSUME NEW c \in Conns PROVE Inv /\ UnhandledOpcode(c) => Inv'
<1>. SUFFICES ASSUME Inv, UnhandledOpcode(c) PROVE Inv'
  OBVIOUS
<1>. USE DEF Inv, UnhandledOpcode, entryVars, sessionVars, registryVars, processVars
<1>1. toServer' \in [Conns -> Seq(Messages)]
  <2>1. PICK left \in LeftOf(Received(c)) : toServer' = [toServer EXCEPT ![c] = left \o Tail(@)]
    OBVIOUS
  <2>2. left \in Seq(Messages)
    <3>1. left \in {<<>>, <<Garbage>>, <<OddByte>>}
      BY <2>1 DEF LeftOf
    <3>2. Garbage \in Messages /\ OddByte \in Messages
      BY DEF Garbage, OddByte, Messages, PlainRequests
    <3>3. ASSUME NEW m \in Messages PROVE <<m>> \in Seq(Messages)
      OBVIOUS
    <3>4. <<>> \in Seq(Messages)
      OBVIOUS
    <3>. HIDE DEF Inv, UnhandledOpcode
    <3>. QED
      BY <3>1, <3>2, <3>3, <3>4
  <2>3. Tail(toServer[c]) \in Seq(Messages)
    BY ReceivedType
  <2>4. left \o Tail(toServer[c]) \in Seq(Messages)
    BY <2>2, <2>3, ConcatProperties
  <2>. QED
    BY <2>1, <2>4 DEF TypeOK
<1>2. TypeOK'
  BY <1>1 DEF TypeOK
<1>3. SocketPresent' /\ AttemptBudget'
  BY DEF SocketPresent, AttemptBudget
<1>. QED
  BY <1>2, <1>3

LEMMA CutShortInv == ASSUME NEW c \in Conns PROVE Inv /\ OpcodeCutShort(c) => Inv'
<1>. SUFFICES ASSUME Inv, OpcodeCutShort(c) PROVE Inv'
  OBVIOUS
<1>. USE DEF Inv, OpcodeCutShort, RecvOne, entryVars, sessionVars, registryVars, processVars
<1>1. Tail(toServer[c]) \in Seq(Messages)
  BY ReceivedType DEF Serves, HasActivity, Readable
<1>2. TypeOK'
  BY <1>1 DEF TypeOK
<1>3. SocketPresent' /\ AttemptBudget'
  BY DEF TypeOK, SocketPresent, AttemptBudget
<1>. QED
  BY <1>2, <1>3

LEMMA OutOfStepInv == ASSUME NEW c \in Conns PROVE Inv /\ OpcodeOutOfStep(c) => Inv'
<1>. SUFFICES ASSUME Inv, OpcodeOutOfStep(c) PROVE Inv'
  OBVIOUS
<1>. USE DEF Inv, OpcodeOutOfStep, entryVars, sessionVars, registryVars, processVars
<1>. DEFINE s == toServer[c]  rest == OddRest(s[2])
<1>1. s \in Seq(Messages) /\ Len(s) > 1
  BY DEF TypeOK
<1>2. Tail(Tail(s)) \in Seq(Messages)
  <2>1. s # <<>> /\ Tail(s) \in Seq(Messages) /\ Len(Tail(s)) = Len(s) - 1
    BY <1>1, HeadTailProperties
  <2>2. Tail(s) # <<>>
    <3>. HIDE DEF s
    <3>1. Len(s) \in Nat
      BY <1>1
    <3>2. \A n, k \in Nat : n > 1 /\ k = n - 1 => k # 0
      OBVIOUS
    <3>3. Len(Tail(s)) \in Nat
      BY <2>1
    <3>4. Len(Tail(s)) # 0
      BY <1>1, <2>1, <3>1, <3>2, <3>3, Zenon
    <3>. QED
      BY <3>4, EmptySeq
  <2>. QED
    BY <2>1, <2>2, HeadTailProperties
<1>3. <<rest>> \in Seq(Messages)
  BY DEF OddRest, Garbage, OddByte, Messages, PlainRequests
<1>4. toServer' = [toServer EXCEPT ![c] = <<rest>> \o Tail(Tail(s))]
  BY DEF TypeOK
<1>. HIDE DEF s, rest
<1>5. <<rest>> \o Tail(Tail(s)) \in Seq(Messages)
  BY <1>2, <1>3, ConcatProperties
<1>6. TypeOK'
  <2>1. toServer' \in [Conns -> Seq(Messages)]
    BY <1>4, <1>5 DEF TypeOK
  <2>. QED
    BY <2>1 DEF TypeOK
<1>7. SocketPresent' /\ AttemptBudget'
  BY DEF SocketPresent, AttemptBudget
<1>. QED
  BY <1>6, <1>7

LEMMA CharacterRequestInv == ASSUME NEW c \in Conns PROVE Inv /\ processCharacterRequest(c) => Inv'
<1>. SUFFICES ASSUME Inv, processCharacterRequest(c) PROVE Inv'
  OBVIOUS
<1>. USE DEF Inv, processCharacterRequest, Requests, Serves, HasSession, RecvOne, Disconnect,
     entryVars, sessionVars, registryVars, processVars
<1>1. toServer' \in [Conns -> Seq(Messages)]
  BY ReceivedType DEF TypeOK
<1>2. told' \in [Conns -> Replies] /\ toPeer' \in [Conns -> Seq(Replies)] /\ fault' \in [Conns -> BOOLEAN]
  <2>1. [kind |-> "characters", characters |-> CharactersOf(c)] \in Replies
    BY DEF Replies, CharacterLists, CharactersOf
  <2>. QED
    BY <2>1, SendType DEF TypeOK
<1>3. TypeOK'
  BY <1>1, <1>2 DEF TypeOK, Links
<1>4. SocketPresent' /\ AttemptBudget'
  BY DEF TypeOK, SocketPresent, AttemptBudget
<1>. QED
  BY <1>3, <1>4

LEMMA CharacterSelectInv == ASSUME NEW c \in Conns PROVE Inv /\ processCharacterSelect(c) => Inv'
<1>. SUFFICES ASSUME Inv, processCharacterSelect(c) PROVE Inv'
  OBVIOUS
<1>. USE DEF Inv, processCharacterSelect, Requests, Serves, HasSession, RecvOne, entryVars, registryVars
<1>. DEFINE ch == Received(c).character
<1>1. toServer' \in [Conns -> Seq(Messages)]
  BY ReceivedType DEF TypeOK
<1>2. /\ told' \in [Conns -> Replies] /\ toPeer' \in [Conns -> Seq(Replies)] /\ fault' \in [Conns -> BOOLEAN]
      /\ link' \in [Conns -> Links]
      /\ link'[c] = "none" <=> link[c] = "none"
      /\ \A d \in Conns \ {c} : link'[d] = link[d]
  <2>1. CASE MalformedSelection(c)
    <3>1. [kind |-> "malformed"] \in Replies
      BY DEF Replies, PlainReplies
    <3>. QED
      BY <2>1, <3>1, SendAnyhowType DEF MalformedSelection, TypeOK
  <2>2. CASE ForeignCharacter(c)
    BY <2>2 DEF ForeignCharacter, Disconnect, TypeOK, Links, SocketPresent
  <2>3. CASE MapUnavailable(c, ch)
    <3>1. [kind |-> "noMapServer"] \in Replies
      BY DEF Replies, PlainReplies
    <3>. QED
      BY <2>3, <3>1, SendAnyhowType DEF MapUnavailable, TypeOK
  <2>4. CASE SendToMapServer(c, ch)
    <3>1. \A server \in Conns : [kind |-> "instructions", server |-> server] \in Replies
      BY DEF Replies, Instructions
    <3>2. PICK ok \in BOOLEAN, server \in Conns :
               /\ Send(c, [kind |-> "instructions", server |-> server], ok)
               /\ character' = IF ok THEN [character EXCEPT ![c] = ch] ELSE character
      BY <2>4 DEF SendToMapServer
    <3>3. told' \in [Conns -> Replies] /\ toPeer' \in [Conns -> Seq(Replies)] /\ fault' \in [Conns -> BOOLEAN]
      BY <3>1, <3>2, SendType DEF TypeOK
    <3>. QED
      BY <2>4, <3>2, <3>3 DEF SendToMapServer, TypeOK
  <2>5. CASE ReadFreedServer(c, ch)
    BY <2>5 DEF ReadFreedServer, TypeOK
  <2>. QED
    BY <2>1, <2>2, <2>3, <2>4, <2>5
<1>3. character' \in [Conns -> Characters \cup {None}]
      /\ pc' \in {"initDB", "accepting", "joining", "crashed"}
  BY DEF MalformedSelection, ForeignCharacter, MapUnavailable, SendToMapServer, ReadFreedServer,
     Owned, TypeOK
<1>4. UNCHANGED <<owner, state, attempts, hello, maps, user, index,
                  mapServers, capacity, block, directory, players>>
  OBVIOUS
<1>. HIDE DEF processCharacterSelect
<1>5. TypeOK'
  BY <1>1, <1>2, <1>3, <1>4 DEF TypeOK
<1>6. SocketPresent' /\ AttemptBudget'
  BY <1>2, <1>4 DEF SocketPresent, AttemptBudget
<1>. QED
  BY <1>5, <1>6

LEMMA PeerInv == ASSUME NEW c \in Conns PROVE Inv /\ Peer(c) => Inv'
<1>. SUFFICES ASSUME Inv, Peer(c) PROVE Inv'
  OBVIOUS
<1>. USE DEF Inv, Peer, entryVars, sessionVars, registryVars, processVars
<1>1. toServer' \in [Conns -> Seq(Messages)]
  <2>1. CASE PeerSends(c)
    <3>1. PICK m \in PeerMessages : toServer' = [toServer EXCEPT ![c] = Append(@, m)]
      BY <2>1 DEF PeerSends
    <3>2. m \in Messages /\ toServer[c] \in Seq(Messages)
      BY PeerMessagesAssumption DEF TypeOK
    <3>3. Append(toServer[c], m) \in Seq(Messages)
      BY <3>2, AppendProperties
    <3>. QED
      BY <3>1, <3>3 DEF TypeOK
  <2>2. CASE PeerReads(c) \/ PeerCloses(c)
    BY <2>2 DEF PeerReads, PeerCloses, TypeOK
  <2>. QED
    BY <2>1, <2>2
<1>2. toPeer' \in [Conns -> Seq(Replies)]
  <2>1. <<>> \in Seq(Replies)
    BY EmptySeq
  <2>2. toPeer' = toPeer \/ toPeer' = [toPeer EXCEPT ![c] = <<>>]
    BY DEF PeerSends, PeerReads, PeerCloses, PeerMayRead
  <2>. QED
    BY <2>1, <2>2 DEF TypeOK
<1>3. link' \in [Conns -> Links] /\ UNCHANGED <<told, fault>>
  BY DEF TypeOK, PeerSends, PeerReads, PeerCloses, Links
<1>4. TypeOK'
  BY <1>1, <1>2, <1>3 DEF TypeOK
<1>5. SocketPresent' /\ AttemptBudget'
  BY DEF TypeOK, SocketPresent, AttemptBudget, PeerSends, PeerReads, PeerCloses
<1>. QED
  BY <1>4, <1>5

-----------------------------------------------------------------------------

\* Every step keeps it.
LEMMA NextInv == Inv /\ [Next]_vars => Inv'
<1>. SUFFICES ASSUME Inv, [Next]_vars PROVE Inv'
  OBVIOUS
<1>1. CASE run
  BY <1>1, InitDBInv, AcceptorInv, AcceptInv DEF run
<1>2. CASE processIncoming
  BY <1>2, PurgeInv, DropFaultyInv, FreshInv, ChallengeSentInv, LoginFailedInv, MapListInv, MapWaitAckInv
  DEF processIncoming, processConnection
<1>3. CASE processConnected
  BY <1>3, ReapInv, SetErrorInv, UnhandledInv, CutShortInv, OutOfStepInv, CharacterRequestInv, CharacterSelectInv
  DEF processConnected, processSession, OpcodeMissing, DisconnectNoticed
<1>4. CASE \E c \in Conns : Peer(c)
  BY <1>4, PeerInv
<1>5. CASE UNCHANGED vars
  BY <1>5 DEF Inv, TypeOK, SocketPresent, AttemptBudget,
     vars, socketVars, entryVars, sessionVars, registryVars, processVars
<1>. QED
  BY <1>1, <1>2, <1>3, <1>4, <1>5 DEF Next, ServerNext

\* Every field of the login server keeps its type; no entry that processIncoming still
\* looks at has lost its socket; a connection has three attempts and never a fourth.
THEOREM InvCorrect == Spec => []Inv
BY InitInv, NextInv, PTL DEF Spec

\* Every field of the login server keeps its type, whatever its peers send.
THEOREM TypeCorrect == Spec => []TypeOK
BY InvCorrect, PTL DEF Inv

\* An entry that processIncoming still serves has the socket it is about to use.
THEOREM SocketPresentCorrect == Spec => []SocketPresent
BY InvCorrect, PTL DEF Inv

\* Failed logins and failed registrations together are three at most.
THEOREM AttemptBudgetCorrect == Spec => []AttemptBudget
BY InvCorrect, PTL DEF Inv

-----------------------------------------------------------------------------
(* Which steps move a socket. *)

\* The two steps of the incoming thread that move a socket out of its entry.
Opens(c, n) ==
    /\ state[c] \in {"CHALLENGE_SENT", "LOGIN_FAILED"}
    /\ n \in players \ Locked
    /\ OpenSession(c, n)
    /\ UNCHANGED players

Registers(c) ==
    /\ state[c] = "MAP_WAIT_ACK"
    /\ EmplaceServer([connection |-> c, maps |-> maps[c]])
    /\ Publish(maps[c])
    /\ owner' = [owner EXCEPT ![c] = "mapServer"]
    /\ maps' = [maps EXCEPT ![c] = {}]
    /\ SetState(c, "DONE")
    /\ UNCHANGED <<attempts, hello, sessionVars, processVars>>

\* Who holds which socket only changes in these steps.
LEMMA OwnershipSteps ==
    ASSUME Inv, [Next]_vars
    PROVE  \/ initDB
           \/ PurgeDone
           \/ \E c \in Conns : AcceptConnection(c) \/ ReapSession(c) \/ Registers(c)
           \/ \E c \in Conns, n \in Names : Opens(c, n)
           \/ UNCHANGED <<owner, user, index, players>>
<1>1. CASE run
  BY <1>1 DEF run, AcceptorFails, sessionVars
<1>2. CASE processIncoming
  <2>. SUFFICES ASSUME NEW c \in Conns, processConnection(c),
                       ~Registers(c), \A n \in Names : ~Opens(c, n)
                PROVE  UNCHANGED <<owner, user, index, players>>
    BY <1>2 DEF processIncoming
  <2>1. CASE DropFaulty(c)
    BY <2>1 DEF DropFaulty, sessionVars, processVars
  <2>2. CASE processFreshSocket(c)
    BY <2>2 DEF processFreshSocket, sessionVars, processVars
  <2>3. CASE processMapListSocket(c)
    BY <2>3 DEF processMapListSocket, NothingRead, sessionVars, processVars
  <2>4. CASE processMapWaitAckSocket(c)
    BY <2>4 DEF processMapWaitAckSocket, Registers, Visits, NothingRead, sessionVars, processVars
  <2>5. ASSUME state[c] \in {"CHALLENGE_SENT", "LOGIN_FAILED"}, Readable(c), UNCHANGED processVars,
               Received(c).kind = "identity", processLoginAttempt(c, Received(c))
        PROVE  UNCHANGED <<owner, user, index, players>>
    <3>. DEFINE n == Received(c).user
    <3>1. n \in Names
      BY <2>5, ReceivedType DEF Inv
    <3>2. ~OpenSession(c, n) \/ n \notin players \ Locked
      BY <2>5, <3>1 DEF Opens, processVars
    <3>3. FailAttempt(c) \/ RefuseLocked(c)
      BY <2>5, <3>2 DEF processLoginAttempt
    <3>. QED
      BY <2>5, <3>3 DEF FailAttempt, RefuseLocked, sessionVars, processVars
  <2>6. CASE processChallengeSentSocket(c)
    BY <2>5, <2>6 DEF processChallengeSentSocket, Visits, NothingRead, FailAttempt, VersionMismatch,
       RegisterMapServer, sessionVars, processVars
  <2>7. CASE processLoginFailedSocket(c)
    BY <2>5, <2>7 DEF processLoginFailedSocket, Visits, NothingRead, FailAttempt, sessionVars, processVars
  <2>. QED
    BY <2>1, <2>2, <2>3, <2>4, <2>6, <2>7 DEF processConnection
<1>3. CASE processConnected
  BY <1>3 DEF processConnected, processSession, OpcodeMissing, DisconnectNoticed, SetError,
     UnhandledOpcode, OpcodeCutShort, OpcodeOutOfStep, processCharacterRequest, processCharacterSelect, sessionVars, processVars
<1>4. CASE \E c \in Conns : Peer(c)
  BY <1>4 DEF Peer, sessionVars, processVars
<1>5. CASE UNCHANGED vars
  BY <1>5 DEF vars, sessionVars, processVars
<1>. QED
  BY <1>1, <1>2, <1>3, <1>4, <1>5 DEF Next, ServerNext

\* The list of map servers only changes in one.
LEMMA RegistrySteps ==
    ASSUME [Next]_vars
    PROVE  \/ \E c \in Conns : Registers(c)
           \/ UNCHANGED registryVars
<1>1. CASE run
  BY <1>1 DEF run, initDB, AcceptConnection, AcceptorFails
<1>2. CASE processIncoming
  <2>1. ASSUME NEW c \in Conns, NEW m, processLoginAttempt(c, m) PROVE UNCHANGED registryVars
    BY <2>1 DEF processLoginAttempt, FailAttempt, RefuseLocked, OpenSession
  <2>2. ASSUME NEW c \in Conns, processChallengeSentSocket(c) PROVE UNCHANGED registryVars
    BY <2>1, <2>2 DEF processChallengeSentSocket, NothingRead, FailAttempt, VersionMismatch, RegisterMapServer
  <2>3. ASSUME NEW c \in Conns, processLoginFailedSocket(c) PROVE UNCHANGED registryVars
    BY <2>1, <2>3 DEF processLoginFailedSocket, NothingRead, FailAttempt
  <2>4. ASSUME NEW c \in Conns, processMapListSocket(c) PROVE UNCHANGED registryVars
    BY <2>4 DEF processMapListSocket, NothingRead
  <2>5. ASSUME NEW c \in Conns, processMapWaitAckSocket(c) PROVE Registers(c) \/ UNCHANGED registryVars
    BY <2>5 DEF processMapWaitAckSocket, NothingRead, Registers, Visits
  <2>6. ASSUME NEW c \in Conns, DropFaulty(c) \/ processFreshSocket(c) PROVE UNCHANGED registryVars
    BY <2>6 DEF DropFaulty, processFreshSocket
  <2>. QED
    BY <1>2, <2>2, <2>3, <2>4, <2>5, <2>6 DEF processIncoming, PurgeDone, processConnection
<1>3. CASE processConnected
  BY <1>3 DEF processConnected, processSession, ReapSession, OpcodeMissing, DisconnectNoticed,
     SetError, UnhandledOpcode, OpcodeCutShort, OpcodeOutOfStep, processCharacterRequest, processCharacterSelect
<1>4. CASE \E c \in Conns : Peer(c)
  BY <1>4 DEF Peer
<1>5. CASE UNCHANGED vars
  BY <1>5 DEF vars
<1>. QED
  BY <1>1, <1>2, <1>3, <1>4, <1>5 DEF Next, ServerNext

-----------------------------------------------------------------------------
(* Sessions: the entitlement carries the index, and the other way round nothing. *)

SessionInv == SessionsEntitled /\ IndexSound

LEMMA NoneIsNobody == None \notin Conns /\ None \notin Names /\ None \notin Characters
BY ConstantsAssumption

LEMMA SessionInit == Init => SessionInv
BY NoneIsNobody DEF Init, InitState, SessionInv, SessionsEntitled, IndexSound

LEMMA SessionNext == Inv /\ SessionInv /\ [Next]_vars => SessionInv'
<1>. SUFFICES ASSUME Inv, SessionInv, [Next]_vars PROVE SessionInv'
  OBVIOUS
<1>. USE NoneIsNobody DEF SessionInv, SessionsEntitled, IndexSound
<1>1. CASE initDB
  <2>1. players \subseteq players' /\ UNCHANGED <<owner, user, index>>
    BY <1>1 DEF initDB, sessionVars
  <2>. QED
    BY <2>1
<1>2. CASE PurgeDone
  <2>1. /\ \A d \in Conns : owner'[d] = owner[d] \/ (owner[d] = "incoming" /\ owner'[d] = "none")
        /\ UNCHANGED <<user, index, players>>
    BY <1>2 DEF PurgeDone, EraseDone, DoneWithSocket, Inv, TypeOK, sessionVars, processVars
  <2>2. \A d \in Conns : owner'[d] = "session" <=> owner[d] = "session"
    BY <2>1
  <2>. QED
    BY <2>1, <2>2 DEF Inv, TypeOK
<1>3. ASSUME NEW c \in Conns, AcceptConnection(c) \/ Registers(c) PROVE SessionInv'
  <2>1. /\ owner[c] \in {"none", "incoming"} /\ owner'[c] \in {"incoming", "mapServer"}
        /\ \A d \in Conns \ {c} : owner'[d] = owner[d]
        /\ UNCHANGED <<user, index, players>>
    BY <1>3 DEF AcceptConnection, Registers, Inv, TypeOK, SocketPresent, sessionVars, processVars
  <2>2. \A d \in Conns : owner'[d] = "session" <=> owner[d] = "session"
    BY <2>1
  <2>. QED
    BY <2>1, <2>2 DEF Inv, TypeOK
<1>4. ASSUME NEW c \in Conns, ReapSession(c) PROVE SessionInv'
  <2>1. user[c] \in Names /\ owner[c] = "session"
    BY <1>4 DEF ReapSession, HasSession, Inv, TypeOK
  <2>2. /\ \A d \in Conns : d # c => owner'[d] = owner[d] /\ user'[d] = user[d]
        /\ owner'[c] = "none" /\ user'[c] = None
        /\ \A m \in Names : index'[m] = IF m = user[c] THEN None ELSE index[m]
        /\ players' = players
    BY <1>4 DEF ReapSession, Inv, TypeOK, processVars
  <2>3. SessionsEntitled'
    BY <2>1, <2>2
  <2>4. ASSUME NEW m \in Names, index'[m] # None
        PROVE  owner'[index'[m]] = "session" /\ user'[index'[m]] = m
    <3>1. m # user[c] /\ index'[m] = index[m] /\ index[m] \in Conns
      BY <2>2, <2>4 DEF Inv, TypeOK
    <3>2. index[m] # c
      BY <3>1, <2>4
    <3>. QED
      BY <3>1, <3>2, <2>2, <2>4
  <2>. QED
    BY <2>3, <2>4
<1>5. ASSUME NEW c \in Conns, NEW n \in Names, Opens(c, n) PROVE SessionInv'
  <2>1. owner[c] = "incoming" /\ user[c] = None
    BY <1>5 DEF Opens, Inv, SocketPresent
  <2>2. /\ \A d \in Conns : d # c => owner'[d] = owner[d] /\ user'[d] = user[d]
        /\ owner'[c] = "session" /\ user'[c] = n
        /\ \A m \in Names : index'[m] = IF m = n /\ index[n] = None THEN c ELSE index[m]
        /\ players' = players /\ n \in players \ Locked
    BY <1>5 DEF Opens, OpenSession, Inv, TypeOK
  <2>3. SessionsEntitled'
    BY <2>1, <2>2
  <2>4. ASSUME NEW m \in Names, index'[m] # None
        PROVE  owner'[index'[m]] = "session" /\ user'[index'[m]] = m
    <3>1. CASE index'[m] = c /\ m = n
      BY <3>1, <2>2
    <3>2. CASE index'[m] = index[m]
      <4>1. index[m] \in Conns /\ index[m] # c
        BY <2>1, <2>4, <3>2 DEF Inv, TypeOK
      <4>. QED
        BY <4>1, <3>2, <2>2, <2>4
    <3>. QED
      BY <3>1, <3>2, <2>2
  <2>. QED
    BY <2>3, <2>4
<1>6. CASE UNCHANGED <<owner, user, index, players>>
  BY <1>6
<1>. QED
  BY <1>1, <1>2, <1>3, <1>4, <1>5, <1>6, OwnershipSteps

\* Only an account of the table that is not locked has a session, and the session and
\* the socket it holds come and go together.
THEOREM SessionsEntitledCorrect == Spec => []SessionsEntitled
<1>1. Inv /\ SessionInv /\ [Next]_vars => (Inv /\ SessionInv)'
  BY NextInv, SessionNext
<1>2. Init => Inv /\ SessionInv
  BY InitInv, SessionInit
<1>. QED
  BY <1>1, <1>2, PTL DEF Spec, SessionInv

\* No pointer of usernameToPlayerSession outlives its session.
THEOREM IndexSoundCorrect == Spec => []IndexSound
<1>1. Inv /\ SessionInv /\ [Next]_vars => (Inv /\ SessionInv)'
  BY NextInv, SessionNext
<1>2. Init => Inv /\ SessionInv
  BY InitInv, SessionInit
<1>. QED
  BY <1>1, <1>2, PTL DEF Spec, SessionInv

-----------------------------------------------------------------------------
(* Map servers.  That a server brings maps to the list comes from the REQUIREs, *)
(* and these from what an entry has been given on its way to MAP_WAIT_ACK.      *)

HandshakeInv ==
    \A c \in Conns :
        /\ state[c] \in {"MAP_LIST", "MAP_WAIT_ACK"} => hello[c]
        /\ state[c] = "MAP_WAIT_ACK" => maps[c] # {}

LEMMA HandshakeInit == Init => HandshakeInv
BY DEF Init, InitState, HandshakeInv

LEMMA HandshakeNext == Inv /\ HandshakeInv /\ [Next]_vars => HandshakeInv'
<1>. SUFFICES ASSUME Inv, HandshakeInv, [Next]_vars PROVE HandshakeInv'
  OBVIOUS
<1>. USE DEF Inv, TypeOK, HandshakeInv
<1>1. CASE run
  BY <1>1 DEF run, initDB, AcceptConnection, AcceptorFails, entryVars
<1>2. CASE PurgeDone
  BY <1>2 DEF PurgeDone, EraseDone
<1>3. ASSUME NEW c \in Conns, processConnection(c) PROVE HandshakeInv'
  <2>. SUFFICES /\ \A d \in Conns \ {c} : /\ state'[d] = state[d]
                                         /\ hello'[d] = hello[d]
                                         /\ maps'[d] = maps[d]
                /\ state'[c] \in {"MAP_LIST", "MAP_WAIT_ACK"} => hello'[c]
                /\ state'[c] = "MAP_WAIT_ACK" => maps'[c] # {}
    OBVIOUS
  <2>1. CASE DropFaulty(c)
    BY <2>1 DEF DropFaulty, SetState
  <2>2. CASE processFreshSocket(c)
    BY <2>2 DEF processFreshSocket, Visits, SetState
  <2>3. CASE NothingRead(c)
    BY <2>3 DEF NothingRead, SetState
  <2>4. CASE FailAttempt(c)
    BY <2>4 DEF FailAttempt, SetState
  <2>5. CASE RefuseLocked(c)
    BY <2>5 DEF RefuseLocked, SetState
  <2>6. ASSUME NEW n, OpenSession(c, n)
        PROVE /\ \A d \in Conns \ {c} : /\ state'[d] = state[d]
                                        /\ hello'[d] = hello[d]
                                        /\ maps'[d] = maps[d]
              /\ state'[c] = "DONE"
    BY <2>6 DEF OpenSession, SetState
  <2>7. CASE VersionMismatch(c)
    BY <2>7 DEF VersionMismatch, SetState
  <2>8. CASE RegisterMapServer(c) /\ state[c] = "CHALLENGE_SENT"
    BY <2>8 DEF RegisterMapServer, processMapAuthenticationRequest, SetState
  <2>9. CASE processChallengeSentSocket(c)
    BY <2>3, <2>4, <2>5, <2>6, <2>7, <2>8, <2>9
    DEF processChallengeSentSocket, Visits, processLoginAttempt
  <2>10. CASE processLoginFailedSocket(c)
    BY <2>3, <2>4, <2>5, <2>6, <2>10 DEF processLoginFailedSocket, processLoginAttempt
  <2>11. CASE processMapListSocket(c)
    BY <2>3, <2>11 DEF processMapListSocket, Visits, NotAList, NotNeeded, RequireMaps, SetState
  <2>12. CASE processMapWaitAckSocket(c)
    BY <2>3, <2>12 DEF processMapWaitAckSocket, SetState
  <2>. QED
    BY <1>3, <2>1, <2>2, <2>9, <2>10, <2>11, <2>12 DEF processConnection
<1>4. CASE processConnected
  BY <1>4 DEF processConnected, processSession, ReapSession, OpcodeMissing, DisconnectNoticed,
     SetError, UnhandledOpcode, OpcodeCutShort, OpcodeOutOfStep, processCharacterRequest, processCharacterSelect, entryVars
<1>5. CASE \E c \in Conns : Peer(c)
  BY <1>5 DEF Peer, entryVars
<1>6. CASE UNCHANGED vars
  BY <1>6 DEF vars, entryVars
<1>. QED
  BY <1>1, <1>2, <1>3, <1>4, <1>5, <1>6 DEF Next, ServerNext, processIncoming

\* The REQUIREs of processMapWaitAckSocket never throw.
THEOREM WaitAckReadyCorrect == Spec => []WaitAckReady
<1>1. Inv /\ HandshakeInv /\ [Next]_vars => (Inv /\ HandshakeInv)'
  BY NextInv, HandshakeNext
<1>2. Init => Inv /\ HandshakeInv
  BY InitInv, HandshakeInit
<1>3. HandshakeInv => WaitAckReady
  BY DEF HandshakeInv, WaitAckReady
<1>. QED
  BY <1>1, <1>2, <1>3, PTL DEF Spec

RegistryInv == ServersOwned /\ DirectorySound

\* The list a registration leaves behind, slot by slot.
LEMMA RegistersList ==
    ASSUME Inv, NEW c \in Conns, Registers(c)
    PROVE  /\ Len(mapServers) \in Nat /\ Len(mapServers') = Len(mapServers) + 1
           /\ \A i \in 1..Len(mapServers) : mapServers'[i] = mapServers[i]
           /\ mapServers'[Len(mapServers')] = [connection |-> c, maps |-> maps[c]]
           /\ \A m \in Maps : directory'[m] =
                 IF m \in maps[c] /\ ~HasServer(m)
                 THEN [slot |-> Len(mapServers'), block |-> block'] ELSE directory[m]
<1>. DEFINE server == [connection |-> c, maps |-> maps[c]]
<1>1. server \in MapServerConnection /\ mapServers \in Seq(MapServerConnection)
  BY DEF Inv, TypeOK, MapServerConnection
<1>2. mapServers' = Append(mapServers, server)
  BY DEF Registers, EmplaceServer
<1>3. \A m \in Maps : directory'[m] =
         IF m \in maps[c] /\ ~HasServer(m)
         THEN [slot |-> Len(mapServers'), block |-> block'] ELSE directory[m]
  BY DEF Registers, Publish
<1>. HIDE DEF server
<1>4. Len(mapServers) \in Nat
  BY <1>1, LenProperties
<1>5. /\ Len(mapServers') = Len(mapServers) + 1
      /\ \A i \in 1..Len(mapServers) : mapServers'[i] = mapServers[i]
      /\ mapServers'[Len(mapServers) + 1] = server
  BY <1>1, <1>2, AppendProperties
<1>. QED
  BY <1>3, <1>4, <1>5 DEF server

LEMMA RegistryInit == Init => RegistryInv
BY DEF Init, InitState, RegistryInv, ServersOwned, DirectorySound, HasServer, NoServer

\* A socket that a map server holds stays with it.
LEMMA ServerSocketKept ==
    ASSUME Inv, [Next]_vars, NEW d \in Conns, owner[d] = "mapServer"
    PROVE  owner'[d] = "mapServer"
<1>1. CASE initDB
  BY <1>1 DEF initDB
<1>2. CASE PurgeDone
  BY <1>2 DEF PurgeDone, EraseDone, DoneWithSocket, Inv, TypeOK
<1>3. ASSUME NEW c \in Conns, AcceptConnection(c) \/ ReapSession(c) \/ Registers(c)
      PROVE owner'[d] = "mapServer"
  <2>1. CASE AcceptConnection(c)
    BY <2>1 DEF AcceptConnection, Inv, TypeOK
  <2>2. CASE ReapSession(c)
    BY <2>2 DEF ReapSession, HasSession, Inv, TypeOK
  <2>3. CASE Registers(c)
    BY <2>3 DEF Registers, Inv, TypeOK
  <2>. QED
    BY <1>3, <2>1, <2>2, <2>3
<1>4. ASSUME NEW c \in Conns, NEW n \in Names, Opens(c, n)
      PROVE owner'[d] = "mapServer"
  BY <1>4 DEF Opens, OpenSession, Inv, TypeOK, SocketPresent
<1>. QED
  BY <1>1, <1>2, <1>3, <1>4, OwnershipSteps

LEMMA RegistryNext == Inv /\ HandshakeInv /\ RegistryInv /\ [Next]_vars => RegistryInv'
<1>. SUFFICES ASSUME Inv, HandshakeInv, RegistryInv, [Next]_vars PROVE RegistryInv'
  OBVIOUS
<1>0. /\ mapServers \in Seq(MapServerConnection) /\ Len(mapServers) \in Nat
      /\ \A i \in 1..Len(mapServers) : mapServers[i].connection \in Conns
  <2>1. mapServers \in Seq(MapServerConnection)
    BY DEF Inv, TypeOK
  <2>2. \A i \in 1..Len(mapServers) : mapServers[i] \in MapServerConnection
    BY <2>1, ElementOfSeq
  <2>. QED
    BY <2>1, <2>2, LenProperties DEF MapServerConnection
<1>1. ASSUME NEW c \in Conns, Registers(c) PROVE RegistryInv'
  <2>. DEFINE len == Len(mapServers)
  <2>1. owner[c] = "incoming" /\ owner'[c] = "mapServer" /\ maps[c] # {} /\ maps[c] \subseteq Maps
    BY <1>1 DEF Registers, Inv, TypeOK, SocketPresent, HandshakeInv
  <2>2. \A i \in 1..len : mapServers[i].connection # c
    BY <2>1 DEF RegistryInv, ServersOwned
  <2>3. /\ len \in Nat /\ Len(mapServers') = len + 1
        /\ \A i \in 1..len : mapServers'[i] = mapServers[i]
        /\ mapServers'[len + 1] = [connection |-> c, maps |-> maps[c]]
    BY <1>1, RegistersList
  <2>4. \A m \in Maps : directory'[m] =
           IF m \in maps[c] /\ ~HasServer(m)
           THEN [slot |-> len + 1, block |-> block'] ELSE directory[m]
    BY <1>1, <2>3, RegistersList
  <2>. HIDE DEF len
  <2>5. ServersOwned'
    <3>1. \A i \in 1..len + 1 : i \in 1..len \/ i = len + 1
      BY <2>3
    <3>2. \A i \in 1..len : owner'[mapServers[i].connection] = "mapServer" /\ mapServers[i].maps # {}
      BY <1>0, ServerSocketKept DEF RegistryInv, ServersOwned, len
    <3>3. ASSUME NEW i \in 1..len + 1, NEW j \in 1..len + 1,
                 mapServers'[i].connection = mapServers'[j].connection
          PROVE  i = j
      BY <2>2, <2>3, <3>1, <3>3 DEF RegistryInv, ServersOwned, len
    <3>. QED
      BY <2>1, <2>3, <3>1, <3>2, <3>3 DEF ServersOwned
  <2>6. DirectorySound'
    <3>. SUFFICES ASSUME NEW m \in Maps
         PROVE /\ directory'[m].slot # 0 =>
                     /\ directory'[m].slot \in 1..(len + 1)
                     /\ m \in mapServers'[directory'[m].slot].maps
               /\ \A i \in 1..(len + 1) :
                     m \in mapServers'[i].maps => directory'[m].slot # 0 /\ directory'[m].slot =< i
      BY <2>3 DEF DirectorySound, HasServer
    <3>1. \A i \in 1..(len + 1) : i \in 1..len \/ i = len + 1
      BY <2>3
    <3>2. CASE HasServer(m)
      <4>1. directory'[m] = directory[m]
        BY <2>4, <3>2
      <4>2. directory[m].slot \in 1..len /\ m \in mapServers[directory[m].slot].maps
        BY <3>2 DEF RegistryInv, DirectorySound, len
      <4>3. \A i \in 1..len : m \in mapServers[i].maps => directory[m].slot =< i
        BY DEF RegistryInv, DirectorySound, len
      <4>. QED
        BY <2>3, <3>1, <4>1, <4>2, <4>3
    <3>3. CASE ~HasServer(m)
      <4>1. \A i \in 1..len : m \notin mapServers[i].maps
        BY <3>3 DEF RegistryInv, DirectorySound, len
      <4>2. CASE m \in maps[c]
        <5>1. directory'[m].slot = len + 1
          BY <2>4, <3>3, <4>2
        <5>. QED
          BY <2>3, <3>1, <4>1, <4>2, <5>1
      <4>3. CASE m \notin maps[c]
        <5>1. directory'[m].slot = 0
          BY <2>4, <3>3, <4>3 DEF HasServer
        <5>. QED
          BY <2>3, <3>1, <4>1, <4>3, <5>1
      <4>. QED
        BY <4>2, <4>3
    <3>. QED
      BY <3>2, <3>3
  <2>. QED
    BY <2>5, <2>6 DEF RegistryInv
<1>2. CASE UNCHANGED registryVars
  <2>1. UNCHANGED <<mapServers, directory>>
    BY <1>2 DEF registryVars
  <2>2. ServersOwned'
    BY <1>0, <2>1, ServerSocketKept DEF RegistryInv, ServersOwned
  <2>3. DirectorySound'
    BY <2>1 DEF RegistryInv, DirectorySound, HasServer
  <2>. QED
    BY <2>2, <2>3 DEF RegistryInv
<1>. QED
  BY <1>1, <1>2, RegistrySteps

LEMMA RegistryInvariant == Spec => [](Inv /\ HandshakeInv /\ RegistryInv)
<1>1. Inv /\ HandshakeInv /\ RegistryInv /\ [Next]_vars => (Inv /\ HandshakeInv /\ RegistryInv)'
  BY NextInv, HandshakeNext, RegistryNext
<1>2. Init => Inv /\ HandshakeInv /\ RegistryInv
  BY InitInv, HandshakeInit, RegistryInit
<1>. QED
  BY <1>1, <1>2, PTL DEF Spec

\* No map server's socket is in the list twice or held by anybody else, which nothing in
\* processMapWaitAckSocket checks.
THEOREM ServersOwnedCorrect == Spec => []ServersOwned
BY RegistryInvariant, PTL DEF RegistryInv

\* A map is found in the directory with the first server registered for it.
THEOREM DirectorySoundCorrect == Spec => []DirectorySound
BY RegistryInvariant, PTL DEF RegistryInv

\* An entry of the directory never changes and no server leaves the list.
THEOREM DirectoryStableCorrect == Spec => DirectoryStable
<1>. DEFINE Stable == /\ \A m \in Maps : HasServer(m) => directory'[m].slot = directory[m].slot
                      /\ \A i \in 1..Len(mapServers) :
                            Len(mapServers') >= i /\ mapServers'[i] = mapServers[i]
<1>1. ASSUME Inv, [Next]_vars PROVE Stable
  <2>1. mapServers \in Seq(MapServerConnection) /\ Len(mapServers) \in Nat
    BY <1>1, LenProperties DEF Inv, TypeOK
  <2>2. ASSUME NEW c \in Conns, Registers(c) PROVE Stable
    <3>1. /\ Len(mapServers') = Len(mapServers) + 1
          /\ \A i \in 1..Len(mapServers) : mapServers'[i] = mapServers[i]
      BY <1>1, <2>2, RegistersList
    <3>2. \A m \in Maps : HasServer(m) => directory'[m].slot = directory[m].slot
      BY <1>1, <2>2, RegistersList
    <3>. QED
      BY <2>1, <3>1, <3>2
  <2>3. CASE UNCHANGED registryVars
    BY <2>1, <2>3 DEF registryVars
  <2>. QED
    BY <1>1, <2>2, <2>3, RegistrySteps
<1>2. Inv /\ [Next]_vars => [Stable]_vars
  BY <1>1
<1>. QED
  BY <1>2, InvCorrect, PTL DEF Spec, DirectoryStable

-----------------------------------------------------------------------------
(* The storage of mapServers.  As long as the servers are no more than the  *)
(* maps the vector has the capacity it was reserved with.                   *)

StorageInv ==
    Len(mapServers) =< Cardinality(Maps) =>
        /\ capacity = Cardinality(Maps)
        /\ block = 0
        /\ \A m \in Maps : directory[m].block = 0

LEMMA StorageInit == Init => StorageInv
BY DEF Init, InitState, StorageInv, NoServer

LEMMA StorageNext == Inv /\ StorageInv /\ [Next]_vars => StorageInv'
<1>. SUFFICES ASSUME Inv, StorageInv, [Next]_vars PROVE StorageInv'
  OBVIOUS
<1>0. Cardinality(Maps) \in Nat
  BY ConstantsAssumption, FS_CardinalityType
<1>1. ASSUME NEW c \in Conns, Registers(c), Len(mapServers') =< Cardinality(Maps) PROVE
         /\ capacity' = Cardinality(Maps)
         /\ block' = 0
         /\ \A m \in Maps : directory'[m].block = 0
  <2>1. Len(mapServers) \in Nat /\ Len(mapServers') = Len(mapServers) + 1
    BY <1>1, RegistersList
  <2>2. Len(mapServers) < Cardinality(Maps)
    BY <1>0, <1>1, <2>1
  <2>3. capacity = Cardinality(Maps) /\ block = 0 /\ \A m \in Maps : directory[m].block = 0
    BY <1>0, <2>1, <2>2 DEF StorageInv
  <2>4. capacity' = capacity /\ block' = block
    BY <1>0, <1>1, <2>1, <2>2, <2>3 DEF Registers, EmplaceServer
  <2>5. ASSUME NEW m \in Maps PROVE directory'[m].block = 0
    <3>1. directory'[m] = [slot |-> Len(mapServers'), block |-> block'] \/ directory'[m] = directory[m]
      BY <1>1, RegistersList
    <3>. QED
      BY <2>3, <2>4, <3>1
  <2>. QED
    BY <2>3, <2>4, <2>5
<1>2. CASE UNCHANGED registryVars
  BY <1>2 DEF registryVars, StorageInv
<1>. QED
  BY <1>1, <1>2, RegistrySteps DEF StorageInv

\* Without one registration too many no pointer of the directory dangles.
THEOREM PointersCorrect == Spec => []PointersValidWhileReserved
<1>1. Inv /\ StorageInv /\ [Next]_vars => (Inv /\ StorageInv)'
  BY NextInv, StorageNext
<1>2. Init => Inv /\ StorageInv
  BY InitInv, StorageInit
<1>3. StorageInv => PointersValidWhileReserved
  BY DEF StorageInv, PointersValidWhileReserved, Dangling
<1>. QED
  BY <1>1, <1>2, <1>3, PTL DEF Spec

-----------------------------------------------------------------------------
(* Characters. *)

\* The one step that gives a session its character.
Places(c, ch) ==
    /\ HasSession(c)
    /\ SendToMapServer(c, ch)
    /\ UNCHANGED <<owner, user, registryVars>>

LEMMA CharacterSteps ==
    ASSUME [Next]_vars
    PROVE  \/ \E c \in Conns : ReapSession(c)
           \/ \E c \in Conns, ch \in Characters : Places(c, ch)
           \/ UNCHANGED character
<1>1. CASE run
  BY <1>1 DEF run, initDB, AcceptConnection, AcceptorFails, sessionVars
<1>2. CASE processIncoming
  BY <1>2 DEF processIncoming, PurgeDone, processConnection, DropFaulty, processFreshSocket,
     processChallengeSentSocket, processLoginFailedSocket, processMapListSocket,
     processMapWaitAckSocket, NothingRead, processLoginAttempt, FailAttempt,
     RefuseLocked, OpenSession, VersionMismatch, RegisterMapServer, sessionVars
<1>3. ASSUME NEW c \in Conns, processSession(c), ~ReapSession(c),
             \A ch \in Characters : ~Places(c, ch)
      PROVE  UNCHANGED character
  <2>1. CASE processCharacterSelect(c)
    BY <1>3, <2>1 DEF processCharacterSelect, Requests, Serves, Places, MalformedSelection,
       ForeignCharacter, MapUnavailable, ReadFreedServer, SendToMapServer, Owned
  <2>. QED
    BY <1>3, <2>1 DEF processSession, OpcodeMissing, DisconnectNoticed,
       SetError, UnhandledOpcode, OpcodeCutShort, OpcodeOutOfStep, processCharacterRequest, sessionVars
<1>4. CASE \E c \in Conns : Peer(c)
  BY <1>4 DEF Peer, sessionVars
<1>5. CASE UNCHANGED vars
  BY <1>5 DEF vars, sessionVars
<1>. QED
  BY <1>1, <1>2, <1>3, <1>4, <1>5 DEF Next, ServerNext, processConnected

LEMMA ServersKept ==
    ASSUME Inv, [Next]_vars, NEW m \in Maps, HasServer(m)
    PROVE  directory'[m].slot # 0
<1>1. ASSUME NEW c \in Conns, Registers(c) PROVE directory'[m] = directory[m]
  BY <1>1, RegistersList
<1>. QED
  BY <1>1, RegistrySteps DEF registryVars, HasServer

LEMMA CharacterNext ==
    Inv /\ SessionInv /\ CharacterPlaced /\ [Next]_vars => CharacterPlaced'
<1>. SUFFICES ASSUME Inv, SessionInv, CharacterPlaced, [Next]_vars,
                     NEW d \in Conns, character'[d] # None
              PROVE  /\ owner'[d] = "session"
                     /\ CharacterOwner[character'[d]] = user'[d]
                     /\ CharacterMap[character'[d]] \in Maps
                     /\ directory'[CharacterMap[character'[d]]].slot # 0
  BY DEF CharacterPlaced, HasServer
<1>1. CASE character'[d] = character[d] /\ owner'[d] = "session" /\ user'[d] = user[d]
  <2>1. /\ CharacterOwner[character[d]] = user[d]
        /\ CharacterMap[character[d]] \in Maps /\ HasServer(CharacterMap[character[d]])
    BY <1>1 DEF CharacterPlaced
  <2>. QED
    BY <1>1, <2>1, ServersKept
<1>2. ASSUME NEW c \in Conns, NEW ch \in Characters, Places(c, ch)
      PROVE  \/ character'[d] = character[d] /\ owner'[d] = "session" /\ user'[d] = user[d]
             \/ /\ owner'[d] = "session" /\ character'[d] = ch
                /\ CharacterOwner[ch] = user'[d]
                /\ CharacterMap[ch] \in Maps /\ HasServer(CharacterMap[ch])
  BY <1>2 DEF Places, SendToMapServer, Owned, HasSession, CharacterPlaced, Inv, TypeOK
<1>3. ASSUME NEW c \in Conns, ReapSession(c)
      PROVE  character'[d] = character[d] /\ owner'[d] = "session" /\ user'[d] = user[d]
  BY <1>3 DEF ReapSession, CharacterPlaced, Inv, TypeOK
<1>4. ASSUME UNCHANGED character
      PROVE  (owner'[d] = "session" /\ user'[d] = user[d]) \/ \E c \in Conns : ReapSession(c)
  <2>. SUFFICES ASSUME \A c \in Conns : ~ReapSession(c)
                PROVE  owner'[d] = "session" /\ user'[d] = user[d]
    OBVIOUS
  <2>0. owner[d] = "session"
    BY <1>4 DEF CharacterPlaced
  <2>1. CASE initDB
    BY <2>0, <2>1 DEF initDB, sessionVars
  <2>2. CASE PurgeDone
    BY <2>0, <2>2 DEF PurgeDone, EraseDone, DoneWithSocket, Inv, TypeOK, sessionVars
  <2>3. ASSUME NEW c \in Conns, AcceptConnection(c) \/ Registers(c)
        PROVE  owner'[d] = "session" /\ user'[d] = user[d]
    BY <2>0, <2>3 DEF AcceptConnection, Registers, Inv, TypeOK, SocketPresent, sessionVars
  <2>4. ASSUME NEW c \in Conns, NEW n \in Names, Opens(c, n)
        PROVE  owner'[d] = "session" /\ user'[d] = user[d]
    BY <2>0, <2>4 DEF Opens, OpenSession, Inv, TypeOK, SocketPresent
  <2>. QED
    BY <2>0, <2>1, <2>2, <2>3, <2>4, OwnershipSteps
<1>5. ASSUME NEW c \in Conns, NEW ch \in Characters, Places(c, ch), character'[d] = ch,
             CharacterMap[ch] \in Maps /\ HasServer(CharacterMap[ch])
      PROVE  directory'[CharacterMap[ch]].slot # 0
  BY <1>5 DEF Places, registryVars, HasServer
<1>. QED
  BY <1>1, <1>2, <1>3, <1>4, <1>5, CharacterSteps

\* A session's character is its player's own and stands on a map with a registered
\* server.
THEOREM CharacterPlacedCorrect == Spec => []CharacterPlaced
<1>. DEFINE I == Inv /\ SessionInv /\ CharacterPlaced
<1>1. Init => I
  BY InitInv, SessionInit DEF Init, InitState, CharacterPlaced
<1>2. I /\ [Next]_vars => I'
  BY NextInv, SessionNext, CharacterNext
<1>. QED
  BY <1>1, <1>2, PTL DEF Spec

-----------------------------------------------------------------------------
(* Verdicts: an entry that is done with stays so. *)

\* A handler of the incoming thread changes the entry of its own connection only.
LEMMA OneEntry ==
    ASSUME Inv, NEW c \in Conns, processConnection(c), NEW d \in Conns \ {c}
    PROVE  /\ state'[d] = state[d] /\ owner'[d] = owner[d] /\ attempts'[d] = attempts[d]
           /\ told'[d] = told[d] /\ link'[d] = link[d]
<1>. USE DEF Inv, TypeOK, SetState
<1>1. ASSUME NothingRead(c) PROVE UNCHANGED <<owner, attempts, told, link>> /\ state'[d] = state[d]
  BY <1>1 DEF NothingRead, socketVars
<1>2. ASSUME NEW reply, NEW ok, Send(c, reply, ok) PROVE told'[d] = told[d]
  BY <1>2 DEF Send
<1>3. ASSUME FailAttempt(c) PROVE
         /\ state'[d] = state[d] /\ owner'[d] = owner[d] /\ attempts'[d] = attempts[d]
         /\ told'[d] = told[d] /\ link'[d] = link[d]
  BY <1>2, <1>3 DEF FailAttempt, SendAnyhow
<1>4. ASSUME NEW m, processLoginAttempt(c, m) PROVE
         /\ state'[d] = state[d] /\ owner'[d] = owner[d] /\ attempts'[d] = attempts[d]
         /\ told'[d] = told[d] /\ link'[d] = link[d]
  BY <1>2, <1>3, <1>4 DEF processLoginAttempt, RefuseLocked, OpenSession, SendAnyhow, Disconnect
<1>5. CASE DropFaulty(c)
  BY <1>5 DEF DropFaulty, socketVars
<1>6. CASE processFreshSocket(c)
  BY <1>2, <1>6 DEF processFreshSocket, SendAnyhow
<1>7. CASE processChallengeSentSocket(c)
  BY <1>1, <1>2, <1>3, <1>4, <1>7 DEF processChallengeSentSocket, VersionMismatch, RegisterMapServer,
     processMapAuthenticationRequest
<1>8. CASE processLoginFailedSocket(c)
  BY <1>1, <1>3, <1>4, <1>8 DEF processLoginFailedSocket
<1>9. CASE processMapListSocket(c)
  BY <1>1, <1>2, <1>9 DEF processMapListSocket, NotAList, NotNeeded, RequireMaps, SendAnyhow
<1>10. CASE processMapWaitAckSocket(c)
  BY <1>1, <1>10 DEF processMapWaitAckSocket
<1>. QED
  BY <1>5, <1>6, <1>7, <1>8, <1>9, <1>10 DEF processConnection

\* No handler has anything to do with an entry that is DONE.
LEMMA DoneIdle ==
    ASSUME NEW c \in Conns, processConnection(c)
    PROVE  state[c] \notin {"ABSENT", "DONE"}
BY DEF processConnection, DropFaulty, processFreshSocket, processChallengeSentSocket,
   processLoginFailedSocket, processMapListSocket, processMapWaitAckSocket, Visits

\* A session's handler leaves the incoming entries and every other session alone.
LEMMA OneSession ==
    ASSUME Inv, NEW c \in Conns, processSession(c)
    PROVE  /\ UNCHANGED <<state, attempts>> /\ owner[c] = "session"
           /\ owner'[c] \in {"session", "none"}
           /\ \A d \in Conns \ {c} :
                 owner'[d] = owner[d] /\ told'[d] = told[d] /\ link'[d] = link[d]
<1>. USE DEF Inv, TypeOK, HasSession, Serves, Requests, entryVars
<1>1. ASSUME NEW reply, NEW ok, Send(c, reply, ok) PROVE \A d \in Conns \ {c} : told'[d] = told[d]
  BY <1>1 DEF Send
<1>2. CASE ReapSession(c)
  BY <1>2 DEF ReapSession, DestroySockets
<1>3. CASE OpcodeMissing(c) \/ DisconnectNoticed(c) \/ UnhandledOpcode(c) \/ OpcodeCutShort(c) \/ OpcodeOutOfStep(c)
  BY <1>3 DEF OpcodeMissing, DisconnectNoticed, SetError, UnhandledOpcode, OpcodeCutShort, OpcodeOutOfStep
<1>4. CASE processCharacterRequest(c)
  BY <1>1, <1>4 DEF processCharacterRequest, Disconnect
<1>5. CASE processCharacterSelect(c)
  BY <1>1, <1>5 DEF processCharacterSelect, MalformedSelection, ForeignCharacter, MapUnavailable,
     SendToMapServer, ReadFreedServer, SendAnyhow, Disconnect
<1>. QED
  BY <1>2, <1>3, <1>4, <1>5 DEF processSession

\* An entry that is DONE is only ever purged, and its socket only destroyed.
THEOREM VerdictFinalCorrect == Spec => VerdictFinal
<1>. DEFINE Final == \A c \in Conns : state[c] = "DONE" =>
                        /\ state'[c] \in {"DONE", "ABSENT"}
                        /\ owner'[c] \in {owner[c], "none"}
<1>1. ASSUME Inv, [Next]_vars PROVE Final
  <2>1. CASE run
    BY <1>1, <2>1 DEF run, initDB, AcceptConnection, AcceptorFails, entryVars, Inv, TypeOK
  <2>2. CASE PurgeDone
    BY <1>1, <2>2 DEF PurgeDone, EraseDone, DoneWithSocket, Inv, TypeOK
  <2>3. ASSUME NEW c \in Conns, processConnection(c) PROVE Final
    BY <1>1, <2>3, OneEntry, DoneIdle
  <2>4. ASSUME NEW c \in Conns, processSession(c) PROVE Final
    BY <1>1, <2>4, OneSession
  <2>5. CASE \E c \in Conns : Peer(c)
    BY <2>5 DEF Peer, entryVars
  <2>6. CASE UNCHANGED vars
    BY <2>6 DEF vars, entryVars
  <2>. QED
    BY <1>1, <2>1, <2>2, <2>3, <2>4, <2>5, <2>6 DEF Next, ServerNext, processIncoming, processConnected
<1>2. Inv /\ [Next]_vars => [Final]_vars
  BY <1>1
<1>. QED
  BY <1>2, InvCorrect, PTL DEF Spec, VerdictFinal

-----------------------------------------------------------------------------
(* What the peer was told. *)

Honest(c) ==
    /\ state[c] = "LOGIN_FAILED" /\ link[c] = "up" => told[c] = Response(FALSE, attempts[c])
    /\ told[c] = Response(FALSE, MAX_ATTEMPTS_ALLOWED) => state[c] = "DONE" /\ owner[c] = "incoming"
    /\ \A used \in 0..MAX_ATTEMPTS_ALLOWED : told[c] = Response(TRUE, used) => owner[c] = "session"

NoResponse(reply) ==
    \A used \in 0..MAX_ATTEMPTS_ALLOWED :
        reply # Response(TRUE, used) /\ reply # Response(FALSE, used)

\* No answer but a Response reads as one, and the numbers in it are told apart.
LEMMA ResponsesDiffer ==
    /\ \A used \in 0..MAX_ATTEMPTS_ALLOWED :
          /\ Response(FALSE, used) = Response(FALSE, MAX_ATTEMPTS_ALLOWED) => used = MAX_ATTEMPTS_ALLOWED
          /\ \A more \in 0..MAX_ATTEMPTS_ALLOWED : Response(FALSE, used) # Response(TRUE, more)
          /\ Response(TRUE, used) # Response(FALSE, MAX_ATTEMPTS_ALLOWED)
    /\ NoResponse(Nothing)
    /\ NoResponse([kind |-> "challenge"])
    /\ NoResponse([kind |-> "registrationResponse"])
    /\ NoResponse([kind |-> "notNeeded"])
    /\ \A S : NoResponse([kind |-> "requiredMaps", maps |-> S])
    /\ \A S : NoResponse([kind |-> "characters", characters |-> S])
    /\ NoResponse([kind |-> "malformed"])
    /\ NoResponse([kind |-> "noMapServer"])
    /\ \A c : NoResponse([kind |-> "instructions", server |-> c])
BY DEF NoResponse, Response, Nothing, MAX_ATTEMPTS_ALLOWED

LEMMA NoResponseNoRefusal ==
    ASSUME NEW reply, NoResponse(reply) PROVE reply # Response(FALSE, MAX_ATTEMPTS_ALLOWED)
<1>1. MAX_ATTEMPTS_ALLOWED \in 0..MAX_ATTEMPTS_ALLOWED
  BY DEF MAX_ATTEMPTS_ALLOWED
<1>. QED
  BY <1>1, Zenon DEF NoResponse

\* What is said to c, or left unsaid because c has gone.
LEMMA SendTold ==
    ASSUME Inv, NEW c \in Conns, NEW reply, NEW ok, Send(c, reply, ok)
    PROVE  told'[c] = reply \/ (told'[c] = told[c] /\ link[c] # "up")
BY DEF Send, Inv, TypeOK

LEMMA FailHonest ==
    ASSUME Inv, NEW c \in Conns, Honest(c), state[c] \in {"CHALLENGE_SENT", "LOGIN_FAILED"}, FailAttempt(c)
    PROVE  Honest(c)'
<1>1. /\ attempts[c] \in 0..2 /\ attempts'[c] = attempts[c] + 1
      /\ attempts'[c] \in 0..MAX_ATTEMPTS_ALLOWED
      /\ state'[c] = IF attempts'[c] = MAX_ATTEMPTS_ALLOWED THEN "DONE" ELSE "LOGIN_FAILED"
      /\ owner[c] = "incoming" /\ owner'[c] = "incoming" /\ link'[c] = link[c]
  BY DEF FailAttempt, SetState, Inv, TypeOK, AttemptBudget, SocketPresent, MAX_ATTEMPTS_ALLOWED
<1>2. told'[c] = Response(FALSE, attempts'[c]) \/ (told'[c] = told[c] /\ link[c] # "up")
  BY SendTold DEF FailAttempt, SendAnyhow
<1>3. CASE told'[c] = Response(FALSE, attempts'[c])
  BY <1>1, <1>3, ResponsesDiffer DEF Honest
<1>4. CASE told'[c] = told[c] /\ link[c] # "up"
  BY <1>1, <1>4 DEF Honest
<1>. QED
  BY <1>2, <1>3, <1>4

LEMMA AttemptHonest ==
    ASSUME Inv, NEW c \in Conns, Honest(c), state[c] \in {"CHALLENGE_SENT", "LOGIN_FAILED"},
           NEW m, processLoginAttempt(c, m)
    PROVE  Honest(c)'
<1>. USE DEF MAX_ATTEMPTS_ALLOWED
<1>0. owner[c] = "incoming" /\ attempts[c] \in 0..MAX_ATTEMPTS_ALLOWED
  BY DEF Inv, TypeOK, SocketPresent
<1>1. CASE FailAttempt(c)
  BY <1>1, FailHonest
<1>2. CASE RefuseLocked(c)
  <2>1. state'[c] = "DONE" /\ owner'[c] = "incoming"
    BY <1>0, <1>2 DEF RefuseLocked, SetState, Inv, TypeOK
  <2>2. told'[c] = Response(FALSE, MAX_ATTEMPTS_ALLOWED) \/ told'[c] = told[c]
    BY <1>2, SendTold DEF RefuseLocked, SendAnyhow
  <2>. QED
    BY <1>0, <2>1, <2>2, ResponsesDiffer DEF Honest
<1>3. CASE OpenSession(c, m.user)
  <2>1. state'[c] = "DONE" /\ owner'[c] = "session"
    BY <1>3 DEF OpenSession, SetState, Inv, TypeOK
  <2>2. told'[c] = Response(TRUE, attempts[c]) \/ told'[c] = told[c]
    BY <1>3, SendTold DEF OpenSession, SendAnyhow
  <2>. QED
    BY <1>0, <2>1, <2>2, ResponsesDiffer DEF Honest
<1>. QED
  BY <1>1, <1>2, <1>3 DEF processLoginAttempt

\* A handler that says something else than a response, or nothing, and does not give
\* the peer another attempt.
LEMMA PlainHonest ==
    ASSUME Inv, NEW c \in Conns, Honest(c), state[c] # "DONE", state[c] # "ABSENT",
           state'[c] # "LOGIN_FAILED",
           \/ told'[c] = told[c]
           \/ NoResponse(told'[c])
    PROVE  Honest(c)'
<1>1. owner[c] = "incoming"
  BY DEF Inv, SocketPresent
<1>2. \A used \in 0..MAX_ATTEMPTS_ALLOWED : told'[c] # Response(TRUE, used)
  BY <1>1 DEF Honest, NoResponse
<1>3. told'[c] # Response(FALSE, MAX_ATTEMPTS_ALLOWED)
  <2>1. told[c] # Response(FALSE, MAX_ATTEMPTS_ALLOWED)
    BY DEF Honest
  <2>. QED
    BY <2>1, NoResponseNoRefusal
<1>. QED
  BY <1>2, <1>3 DEF Honest

LEMMA ConnectionHonest ==
    ASSUME Inv, NEW c \in Conns, Honest(c), processConnection(c)
    PROVE  Honest(c)'
<1>0. state[c] \notin {"ABSENT", "DONE"} /\ state'[c] \in IncomingConnectionState \cup {"ABSENT"}
  BY DoneIdle, NextInv DEF Inv, TypeOK, Next, ServerNext, processIncoming
<1>1. CASE NothingRead(c)
  BY <1>0, <1>1, PlainHonest DEF NothingRead, SetState, socketVars, Inv, TypeOK
<1>2. CASE DropFaulty(c)
  BY <1>0, <1>2, PlainHonest DEF DropFaulty, SetState, socketVars, Inv, TypeOK
<1>3. CASE processFreshSocket(c)
  <2>1. told'[c] = [kind |-> "challenge"] \/ told'[c] = told[c]
    BY <1>3, SendTold DEF processFreshSocket, SendAnyhow
  <2>2. state'[c] # "LOGIN_FAILED"
    BY <1>3 DEF processFreshSocket, SetState, Inv, TypeOK
  <2>. QED
    BY <1>0, <2>1, <2>2, ResponsesDiffer, PlainHonest
<1>4. CASE processChallengeSentSocket(c)
  <2>1. CASE FailAttempt(c)
    BY <1>4, <2>1, FailHonest DEF processChallengeSentSocket, Visits
  <2>2. ASSUME NEW m, processLoginAttempt(c, m) PROVE Honest(c)'
    BY <1>4, <2>2, AttemptHonest DEF processChallengeSentSocket, Visits
  <2>3. CASE VersionMismatch(c)
    BY <1>0, <2>3, PlainHonest DEF VersionMismatch, SetState, Inv, TypeOK
  <2>4. CASE RegisterMapServer(c)
    <3>1. told'[c] = [kind |-> "registrationResponse"] \/ told'[c] = told[c]
      BY <2>4, SendTold DEF RegisterMapServer, processMapAuthenticationRequest
    <3>2. state'[c] # "LOGIN_FAILED"
      BY <1>4, <2>4 DEF RegisterMapServer, processMapAuthenticationRequest, processChallengeSentSocket,
         Visits, SetState, Inv, TypeOK
    <3>. QED
      BY <1>0, <3>1, <3>2, ResponsesDiffer, PlainHonest
  <2>. QED
    BY <1>1, <1>4, <2>1, <2>2, <2>3, <2>4 DEF processChallengeSentSocket
<1>5. CASE processLoginFailedSocket(c)
  <2>1. CASE FailAttempt(c)
    BY <1>5, <2>1, FailHonest DEF processLoginFailedSocket, Visits
  <2>2. ASSUME NEW m, processLoginAttempt(c, m) PROVE Honest(c)'
    BY <1>5, <2>2, AttemptHonest DEF processLoginFailedSocket, Visits
  <2>. QED
    BY <1>1, <1>5, <2>1, <2>2 DEF processLoginFailedSocket
<1>6. CASE processMapListSocket(c)
  <2>1. CASE NotAList(c)
    BY <1>0, <2>1, PlainHonest DEF NotAList, SetState, Inv, TypeOK
  <2>2. CASE NotNeeded(c)
    <3>1. told'[c] = [kind |-> "notNeeded"] \/ told'[c] = told[c]
      BY <2>2, SendTold DEF NotNeeded, SendAnyhow
    <3>2. state'[c] # "LOGIN_FAILED"
      BY <2>2 DEF NotNeeded, SetState, Inv, TypeOK
    <3>. QED
      BY <1>0, <3>1, <3>2, ResponsesDiffer, PlainHonest
  <2>3. ASSUME NEW required, RequireMaps(c, required) PROVE Honest(c)'
    <3>1. told'[c] = [kind |-> "requiredMaps", maps |-> required] \/ told'[c] = told[c]
      BY <2>3, SendTold DEF RequireMaps, SendAnyhow
    <3>2. state'[c] # "LOGIN_FAILED"
      BY <2>3 DEF RequireMaps, SetState, Inv, TypeOK
    <3>. QED
      BY <1>0, <3>1, <3>2, ResponsesDiffer, PlainHonest
  <2>. QED
    BY <1>1, <1>6, <2>1, <2>2, <2>3 DEF processMapListSocket
<1>7. CASE processMapWaitAckSocket(c)
  BY <1>0, <1>1, <1>7, PlainHonest DEF processMapWaitAckSocket, SetState, Inv, TypeOK
<1>. QED
  BY <1>2, <1>3, <1>4, <1>5, <1>6, <1>7 DEF processConnection

LEMMA SessionHonest ==
    ASSUME Inv, NEW c \in Conns, Honest(c), processSession(c)
    PROVE  Honest(c)'
<1>. USE DEF Inv, TypeOK
<1>0. /\ owner[c] = "session" /\ state'[c] = state[c] /\ attempts'[c] = attempts[c]
      /\ state[c] # "LOGIN_FAILED"
  BY OneSession DEF SocketPresent
<1>1. told'[c] = told[c] \/ NoResponse(told'[c])
  <2>1. CASE ReapSession(c)
    BY <2>1, ResponsesDiffer DEF ReapSession, DestroySockets
  <2>2. CASE OpcodeMissing(c) \/ DisconnectNoticed(c) \/ UnhandledOpcode(c) \/ OpcodeCutShort(c) \/ OpcodeOutOfStep(c)
    BY <2>2 DEF OpcodeMissing, DisconnectNoticed, SetError, UnhandledOpcode, OpcodeCutShort, OpcodeOutOfStep
  <2>3. CASE processCharacterRequest(c)
    <3>1. \/ Send(c, [kind |-> "characters", characters |-> CharactersOf(c)], TRUE)
          \/ UNCHANGED told
      BY <2>3 DEF processCharacterRequest
    <3>2. \/ told'[c] = told[c]
          \/ told'[c] = [kind |-> "characters", characters |-> CharactersOf(c)]
      BY <3>1, SendTold
    <3>. QED
      BY <3>2, ResponsesDiffer
  <2>4. CASE processCharacterSelect(c)
    <3>. DEFINE ch == Received(c).character
    <3>1. CASE MalformedSelection(c) \/ MapUnavailable(c, ch)
      BY <3>1, SendTold, ResponsesDiffer DEF MalformedSelection, MapUnavailable, SendAnyhow
    <3>2. CASE SendToMapServer(c, ch)
      <4>1. PICK server \in Conns, ok \in BOOLEAN :
                 Send(c, [kind |-> "instructions", server |-> server], ok)
        BY <3>2 DEF SendToMapServer
      <4>2. told'[c] = told[c] \/ told'[c] = [kind |-> "instructions", server |-> server]
        BY <4>1, SendTold
      <4>. QED
        BY <4>2, ResponsesDiffer
    <3>3. CASE ForeignCharacter(c) \/ ReadFreedServer(c, ch)
      BY <3>3 DEF ForeignCharacter, ReadFreedServer
    <3>. QED
      BY <2>4, <3>1, <3>2, <3>3 DEF processCharacterSelect
  <2>. QED
    BY <2>1, <2>2, <2>3, <2>4 DEF processSession
<1>2. owner'[c] = "session" \/ NoResponse(told'[c])
  <2>1. CASE ReapSession(c)
    BY <2>1, ResponsesDiffer DEF ReapSession, DestroySockets
  <2>2. CASE OpcodeMissing(c) \/ DisconnectNoticed(c) \/ UnhandledOpcode(c) \/ OpcodeCutShort(c) \/ OpcodeOutOfStep(c)
    BY <1>0, <2>2 DEF OpcodeMissing, DisconnectNoticed, SetError, UnhandledOpcode, OpcodeCutShort, OpcodeOutOfStep
  <2>3. CASE processCharacterRequest(c)
    BY <1>0, <2>3 DEF processCharacterRequest
  <2>4. CASE processCharacterSelect(c)
    BY <1>0, <2>4 DEF processCharacterSelect
  <2>. QED
    BY <2>1, <2>2, <2>3, <2>4 DEF processSession
<1>3. told'[c] # Response(FALSE, MAX_ATTEMPTS_ALLOWED)
  <2>1. told[c] # Response(FALSE, MAX_ATTEMPTS_ALLOWED)
    BY <1>0 DEF Honest
  <2>. QED
    BY <1>1, <2>1, NoResponseNoRefusal
<1>. QED
  BY <1>0, <1>2, <1>3 DEF Honest, NoResponse

LEMMA HonestNext == Inv /\ (\A d \in Conns : Honest(d)) /\ [Next]_vars => \A d \in Conns : Honest(d)'
<1>. SUFFICES ASSUME Inv, \A d \in Conns : Honest(d), [Next]_vars, NEW d \in Conns PROVE Honest(d)'
  OBVIOUS
<1>1. CASE initDB \/ AcceptorFails \/ UNCHANGED vars
  BY <1>1 DEF initDB, AcceptorFails, vars, entryVars, socketVars, Honest
<1>2. ASSUME NEW c \in Conns, AcceptConnection(c) PROVE Honest(d)'
  BY <1>2 DEF AcceptConnection, OpenSocket, Honest, Inv, TypeOK
<1>3. CASE PurgeDone
  <2>1. CASE state[d] = "DONE" /\ owner[d] = "incoming"
    <3>1. told'[d] = Nothing /\ state'[d] # "LOGIN_FAILED"
      BY <1>3, <2>1 DEF PurgeDone, EraseDone, DoneWithSocket, DestroySockets
    <3>2. NoResponse(told'[d])
      BY <3>1, ResponsesDiffer
    <3>3. told'[d] # Response(FALSE, MAX_ATTEMPTS_ALLOWED)
      BY <3>2, NoResponseNoRefusal
    <3>. QED
      BY <3>1, <3>2, <3>3 DEF Honest, NoResponse
  <2>2. CASE ~(state[d] = "DONE" /\ owner[d] = "incoming")
    <3>1. /\ told'[d] = told[d] /\ owner'[d] = owner[d] /\ link'[d] = link[d]
          /\ state'[d] = state[d] \/ (state[d] = "DONE" /\ state'[d] = "ABSENT")
          /\ state[d] # "DONE" => attempts'[d] = attempts[d]
      BY <1>3, <2>2 DEF PurgeDone, EraseDone, DoneWithSocket, DestroySockets, Inv, TypeOK
    <3>. QED
      BY <2>2, <3>1 DEF Honest
  <2>. QED
    BY <2>1, <2>2
<1>4. ASSUME NEW c \in Conns, processConnection(c) PROVE Honest(d)'
  <2>1. CASE c = d
    BY <1>4, <2>1, ConnectionHonest
  <2>2. CASE c # d
    <3>1. /\ state'[d] = state[d] /\ owner'[d] = owner[d] /\ attempts'[d] = attempts[d]
          /\ told'[d] = told[d] /\ link'[d] = link[d]
      BY <1>4, <2>2, OneEntry
    <3>. QED
      BY <3>1 DEF Honest
  <2>. QED
    BY <2>1, <2>2
<1>5. ASSUME NEW c \in Conns, processSession(c) PROVE Honest(d)'
  <2>1. CASE c = d
    BY <1>5, <2>1, SessionHonest
  <2>2. CASE c # d
    <3>1. UNCHANGED <<state, attempts>> /\ owner'[d] = owner[d] /\ told'[d] = told[d] /\ link'[d] = link[d]
      BY <1>5, <2>2, OneSession
    <3>. QED
      BY <3>1 DEF Honest
  <2>. QED
    BY <2>1, <2>2
<1>6. ASSUME NEW c \in Conns, Peer(c) PROVE Honest(d)'
  BY <1>6 DEF Peer, PeerSends, PeerReads, PeerCloses, entryVars, Honest, Inv, TypeOK
<1>. QED
  BY <1>1, <1>2, <1>3, <1>4, <1>5, <1>6 DEF Next, ServerNext, run, processIncoming, processConnected

\* The number of attempts a peer was told of is the one it has, one that was told of
\* none is finished with, and one that was told of success has a session.
THEOREM VerdictHonestCorrect == Spec => []VerdictHonest
<1>1. Init => \A d \in Conns : Honest(d)
  BY ResponsesDiffer DEF Init, InitState, InitSockets, Honest, NoResponse, Nothing, Response, MAX_ATTEMPTS_ALLOWED
<1>2. (\A d \in Conns : Honest(d)) <=> VerdictHonest
  BY DEF Honest, VerdictHonest
<1>3. Inv /\ VerdictHonest /\ [Next]_vars => (Inv /\ VerdictHonest)'
  BY NextInv, HonestNext DEF Honest, VerdictHonest
<1>4. Init => Inv /\ VerdictHonest
  BY <1>1, <1>2, InitInv
<1>. QED
  BY <1>3, <1>4, PTL DEF Spec

-----------------------------------------------------------------------------
(* The contract. *)

RefinementInv == Inv /\ SessionInv /\ HandshakeInv /\ RegistryInv

-----------------------------------------------------------------------------
(* The mapping. *)

LEMMA StandingCases ==
    \A entry :
        /\ StandingOf("session", entry) = "player"
        /\ StandingOf("mapServer", entry) = "host"
        /\ StandingOf("none", entry) = "absent"
        /\ entry # "DONE" => StandingOf("incoming", entry) = "guest"
        /\ StandingOf("incoming", "DONE") = "out"
BY DEF StandingOf

LEMMA StandingPrime ==
    /\ Standing = [c \in Conns |-> StandingOf(owner[c], state[c])]
    /\ Standing' = [c \in Conns |-> StandingOf(owner'[c], state'[c])]
    /\ Counted = [c \in Conns |-> IF Standing[c] = "guest" THEN attempts[c] ELSE 0]
    /\ Counted' = [c \in Conns |-> IF Standing'[c] = "guest" THEN attempts'[c] ELSE 0]
BY DEF Standing, Counted

LEMMA HostsKept == UNCHANGED registryVars => Hosts' = Hosts
BY DEF registryVars, Hosts, HasServer

\* A step that leaves the mapped variables alone is none of the contract's.
LEMMA Stutter ==
    ASSUME UNCHANGED <<players, owner, user, character, attempts, registryVars>>,
           \A c \in Conns : state'[c] = state[c]
                  \/ (owner[c] = "incoming" /\ state[c] # "DONE" /\ state'[c] # "DONE")
    PROVE  UNCHANGED Contract!contractVars
<1>1. \A c \in Conns : Standing'[c] = Standing[c]
  BY StandingCases, StandingPrime
<1>2. Standing' = Standing /\ Counted' = Counted
  BY <1>1, StandingPrime
<1>. QED
  BY <1>2, HostsKept DEF Contract!contractVars

LEMMA ContractInit == Init => Contract!Init
<1>. SUFFICES ASSUME Init PROVE Contract!Init
  OBVIOUS
<1>1. Standing = [c \in Conns |-> "absent"] /\ Counted = [c \in Conns |-> 0]
  BY StandingCases, StandingPrime DEF Init, InitState
<1>2. Hosts = [m \in Maps |-> None]
  BY DEF Init, InitState, Hosts, HasServer, NoServer
<1>3. players \subseteq Names
  BY ConstantsAssumption DEF Init, InitState
<1>. QED
  BY <1>1, <1>2, <1>3 DEF Contract!Init, Init, InitState

-----------------------------------------------------------------------------
(* The moves. *)

\* A step of one visitor.
LEMMA OneVisitor ==
    ASSUME NEW c \in Conns,
           \A d \in Conns \ {c} :
               owner'[d] = owner[d] /\ state'[d] = state[d] /\ attempts'[d] = attempts[d]
    PROVE  /\ Standing' = [Standing EXCEPT ![c] = StandingOf(owner'[c], state'[c])]
           /\ Counted' = [Counted EXCEPT ![c] = IF Standing'[c] = "guest" THEN attempts'[c] ELSE 0]
<1>1. Standing' = [Standing EXCEPT ![c] = StandingOf(owner'[c], state'[c])]
  BY StandingPrime
<1>2. \A d \in Conns \ {c} : Standing'[d] = Standing[d]
  BY <1>1, StandingPrime
<1>3. \A d \in Conns \ {c} : Counted'[d] = Counted[d]
  BY <1>2, StandingPrime
<1>. QED
  BY <1>1, <1>3, StandingPrime

LEMMA FirstAccount == ASSUME Inv, initDB PROVE [Contract!Next]_Contract!contractVars
<1>1. /\ UNCHANGED <<owner, user, character, attempts, state, registryVars>>
      /\ players' = IF players = {} THEN {SuperUser} ELSE players
  BY DEF initDB, entryVars, sessionVars
<1>2. Standing' = Standing /\ Counted' = Counted /\ Hosts' = Hosts
  BY <1>1, HostsKept DEF Standing, Counted
<1>3. CASE players = {}
  <2>1. SuperUser \in Names \ Locked /\ players' = {SuperUser}
    BY <1>1, <1>3, ConstantsAssumption
  <2>2. Contract!Found
    BY <1>1, <1>2, <1>3, <2>1 DEF Contract!Found
  <2>. QED
    BY <2>2 DEF Contract!Next
<1>4. CASE players # {}
  BY <1>1, <1>2, <1>4 DEF Contract!contractVars
<1>. QED
  BY <1>3, <1>4

LEMMA Arrival ==
    ASSUME Inv, NEW c \in Conns, AcceptConnection(c) PROVE Contract!Arrive(c)
<1>1. /\ UNCHANGED <<players, user, character, attempts, registryVars>>
      /\ owner' = [owner EXCEPT ![c] = "incoming"] /\ state' = [state EXCEPT ![c] = "FRESH"]
      /\ owner[c] = "none" /\ attempts[c] = 0
  BY DEF AcceptConnection, sessionVars, processVars, Inv, AttemptBudget
<1>2. /\ owner'[c] = "incoming" /\ state'[c] = "FRESH"
      /\ \A d \in Conns \ {c} :
            owner'[d] = owner[d] /\ state'[d] = state[d] /\ attempts'[d] = attempts[d]
  BY <1>1 DEF Inv, TypeOK
<1>3. Standing[c] = "absent" /\ Standing' = [Standing EXCEPT ![c] = "guest"]
  <2>1. Standing[c] = "absent" /\ StandingOf(owner'[c], state'[c]) = "guest"
    BY <1>1, <1>2, StandingCases, StandingPrime
  <2>2. Standing' = [Standing EXCEPT ![c] = StandingOf(owner'[c], state'[c])]
    BY <1>2, OneVisitor
  <2>. QED
    BY <2>1, <2>2
<1>4. Counted' = Counted
  <2>1. Counted[c] = 0 /\ Counted'[c] = 0
    BY <1>1, <1>3, StandingPrime
  <2>. QED
    BY <1>2, <2>1, OneVisitor, StandingPrime
<1>. QED
  BY <1>1, <1>3, <1>4, HostsKept DEF Contract!Arrive, Contract!Become

LEMMA Clearing == ASSUME Inv, PurgeDone PROVE Contract!Clear
<1>1. /\ UNCHANGED <<players, user, character, registryVars>>
      /\ \A d \in Conns :
            IF state[d] = "DONE"
            THEN /\ state'[d] = "ABSENT"
                 /\ owner'[d] = IF owner[d] = "incoming" THEN "none" ELSE owner[d]
            ELSE state'[d] = state[d] /\ owner'[d] = owner[d] /\ attempts'[d] = attempts[d]
  BY DEF PurgeDone, EraseDone, DoneWithSocket, sessionVars, processVars, Inv, TypeOK
<1>2. \A d \in Conns : owner[d] \in {"none", "incoming", "session", "mapServer"}
  BY DEF Inv, TypeOK, Owners
<1>3. \A d \in Conns : Standing'[d] = IF Standing[d] = "out" THEN "absent" ELSE Standing[d]
  BY <1>1, <1>2, StandingCases, StandingPrime
<1>4. \A d \in Conns : Standing'[d] = "guest" => Standing[d] = "guest" /\ state[d] # "DONE"
  BY <1>1, <1>2, <1>3, StandingCases, StandingPrime
<1>5. \A d \in Conns : Standing[d] = "guest" => Standing'[d] = "guest"
  BY <1>3
<1>6. Counted' = Counted
  BY <1>1, <1>4, <1>5, StandingPrime
<1>7. Standing' = [d \in Conns |-> IF Standing[d] = "out" THEN "absent" ELSE Standing[d]]
  BY <1>3, StandingPrime
<1>. QED
  BY <1>1, <1>6, <1>7, HostsKept DEF Contract!Clear

-----------------------------------------------------------------------------
(* The incoming thread. *)

\* What a handler that neither opens a session nor registers a server does not touch.
Shared == <<players, owner, user, character, registryVars>>

LEMMA InHand ==
    ASSUME Inv, NEW c \in Conns, state[c] \notin {"ABSENT", "DONE"}
    PROVE  owner[c] = "incoming" /\ Standing[c] = "guest" /\ Counted[c] = attempts[c]
<1>1. owner[c] = "incoming"
  BY DEF Inv, SocketPresent
<1>. QED
  BY <1>1, StandingCases, StandingPrime

LEMMA ShownOut ==
    ASSUME Inv, NEW c \in Conns, state[c] \notin {"ABSENT", "DONE"}, UNCHANGED Shared,
           state' = [state EXCEPT ![c] = "DONE"],
           \A d \in Conns \ {c} : attempts'[d] = attempts[d]
    PROVE  Contract!ShowOut(c)
<1>1. /\ owner'[c] = "incoming" /\ state'[c] = "DONE" /\ Standing[c] = "guest"
      /\ \A d \in Conns \ {c} :
            owner'[d] = owner[d] /\ state'[d] = state[d] /\ attempts'[d] = attempts[d]
  BY InHand DEF Inv, TypeOK, Shared
<1>2. StandingOf(owner'[c], state'[c]) = "out"
  BY <1>1, StandingCases
<1>3. /\ Standing' = [Standing EXCEPT ![c] = StandingOf(owner'[c], state'[c])]
      /\ Counted' = [Counted EXCEPT ![c] = IF Standing'[c] = "guest" THEN attempts'[c] ELSE 0]
  BY <1>1, OneVisitor
<1>4. Standing' = [Standing EXCEPT ![c] = "out"]
  BY <1>2, <1>3
<1>5. Standing'[c] = "out"
  BY <1>4, StandingPrime
<1>6. Counted' = [Counted EXCEPT ![c] = 0]
  BY <1>3, <1>5
<1>. QED
  BY <1>1, <1>4, <1>6, HostsKept DEF Contract!ShowOut, Contract!Become, Shared

LEMMA Struck ==
    ASSUME Inv, NEW c \in Conns, state[c] \notin {"ABSENT", "DONE"}, UNCHANGED Shared,
           state' = [state EXCEPT ![c] = "LOGIN_FAILED"],
           attempts' = [attempts EXCEPT ![c] = @ + 1], attempts'[c] # MAX_ATTEMPTS_ALLOWED
    PROVE  Contract!Strike(c)
<1>0. Standing[c] = "guest" /\ Counted[c] = attempts[c] /\ owner[c] = "incoming"
  BY InHand
<1>1. /\ owner'[c] = "incoming" /\ state'[c] = "LOGIN_FAILED"
      /\ attempts'[c] = attempts[c] + 1 /\ attempts[c] + 1 < MAX_ATTEMPTS_ALLOWED
  <2>1. owner'[c] = "incoming" /\ state'[c] = "LOGIN_FAILED"
    BY <1>0 DEF Inv, TypeOK, Shared
  <2>2. attempts \in [Conns -> 0..3] /\ attempts[c] # 3
    BY DEF Inv, TypeOK, AttemptBudget, MAX_ATTEMPTS_ALLOWED
  <2>3. attempts'[c] = attempts[c] + 1 /\ attempts[c] + 1 # 3
    BY <2>2 DEF MAX_ATTEMPTS_ALLOWED
  <2>. QED
    BY <2>1, <2>2, <2>3 DEF MAX_ATTEMPTS_ALLOWED
<1>2. \A d \in Conns \ {c} :
          owner'[d] = owner[d] /\ state'[d] = state[d] /\ attempts'[d] = attempts[d]
  BY DEF Inv, TypeOK, Shared
<1>3. StandingOf(owner'[c], state'[c]) = "guest"
  BY <1>1, StandingCases
<1>4. /\ Standing' = [Standing EXCEPT ![c] = StandingOf(owner'[c], state'[c])]
      /\ Counted' = [Counted EXCEPT ![c] = IF Standing'[c] = "guest" THEN attempts'[c] ELSE 0]
  BY <1>2, OneVisitor
<1>5. Standing' = Standing
  BY <1>0, <1>3, <1>4, StandingPrime
<1>6. Counted' = [Counted EXCEPT ![c] = Counted[c] + 1]
  BY <1>0, <1>1, <1>4, <1>5
<1>. QED
  BY <1>0, <1>1, <1>5, <1>6, HostsKept DEF Contract!Strike, Shared

LEMMA Unmoved ==
    ASSUME Inv, NEW c \in Conns, state[c] \notin {"ABSENT", "DONE"}, UNCHANGED Shared,
           NEW s, s # "DONE", state' = [state EXCEPT ![c] = s], UNCHANGED attempts
    PROVE  UNCHANGED Contract!contractVars
<1>1. \A d \in Conns : state'[d] = state[d]
                \/ (owner[d] = "incoming" /\ state[d] # "DONE" /\ state'[d] # "DONE")
  BY InHand DEF Inv, TypeOK
<1>. QED
  BY <1>1, Stutter DEF Shared

LEMMA Admission ==
    ASSUME Inv, NEW c \in Conns, NEW n \in Names, Opens(c, n) PROVE Contract!Admit(c, n)
<1>1. /\ UNCHANGED <<players, character, registryVars>> /\ user' = [user EXCEPT ![c] = n]
      /\ owner'[c] = "session" /\ n \in players \ Locked
      /\ Standing[c] = "guest" /\ Counted[c] = attempts[c]
      /\ \A d \in Conns \ {c} :
            owner'[d] = owner[d] /\ state'[d] = state[d] /\ attempts'[d] = attempts[d]
  BY InHand DEF Opens, OpenSession, SetState, Inv, TypeOK
<1>2. StandingOf(owner'[c], state'[c]) = "player"
  BY <1>1, StandingCases
<1>3. /\ Standing' = [Standing EXCEPT ![c] = StandingOf(owner'[c], state'[c])]
      /\ Counted' = [Counted EXCEPT ![c] = IF Standing'[c] = "guest" THEN attempts'[c] ELSE 0]
  BY <1>1, OneVisitor
<1>4. Standing' = [Standing EXCEPT ![c] = "player"]
  BY <1>2, <1>3
<1>5. Standing'[c] = "player"
  BY <1>4, StandingPrime
<1>6. Counted' = [Counted EXCEPT ![c] = 0]
  BY <1>3, <1>5
<1>. QED
  BY <1>1, <1>4, <1>6, HostsKept DEF Contract!Admit, Contract!Become

\* The maps that nobody has go to the newcomer, who is the last of the list.
LEMMA Hosting ==
    ASSUME RefinementInv, NEW c \in Conns, Registers(c)
    PROVE  \E S \in (SUBSET Maps) \ {{}} : Contract!TakeMaps(c, S)
<1>. USE DEF RefinementInv
<1>1. /\ UNCHANGED <<players, character, user, attempts>>
      /\ owner'[c] = "mapServer" /\ state[c] = "MAP_WAIT_ACK"
      /\ \A d \in Conns \ {c} :
            owner'[d] = owner[d] /\ state'[d] = state[d] /\ attempts'[d] = attempts[d]
  BY DEF Registers, SetState, Inv, TypeOK, sessionVars, processVars
<1>2. Standing[c] = "guest" /\ Counted[c] = 0 /\ attempts[c] = 0
  BY <1>1, InHand DEF Inv, AttemptBudget
<1>3. StandingOf(owner'[c], state'[c]) = "host"
  BY <1>1, StandingCases
<1>4. /\ Standing' = [Standing EXCEPT ![c] = StandingOf(owner'[c], state'[c])]
      /\ Counted' = [Counted EXCEPT ![c] = IF Standing'[c] = "guest" THEN attempts'[c] ELSE 0]
  BY <1>1, OneVisitor
<1>5. Standing' = [Standing EXCEPT ![c] = "host"]
  BY <1>3, <1>4
<1>6. Counted' = Counted
  <2>1. Counted'[c] = Counted[c]
    BY <1>1, <1>2, <1>4, StandingPrime
  <2>. QED
    BY <1>4, <2>1, StandingPrime
<1>7. maps[c] \in (SUBSET Maps) \ {{}}
  <2>1. maps[c] \in SUBSET Maps
    BY DEF Inv, TypeOK
  <2>2. maps[c] # {}
    BY <1>1 DEF HandshakeInv
  <2>. QED
    BY <2>1, <2>2
<1>8. Hosts' = [m \in Maps |-> IF m \in maps[c] /\ Hosts[m] = None THEN c ELSE Hosts[m]]
  <2>1. /\ Hosts = [m \in Maps |-> IF HasServer(m) THEN mapServers[directory[m].slot].connection ELSE None]
        /\ Hosts' = [m \in Maps |->
              IF directory'[m].slot # 0 THEN mapServers'[directory'[m].slot].connection ELSE None]
    <3>1. Hosts = [m \in Maps |-> IF HasServer(m) THEN mapServers[directory[m].slot].connection ELSE None]
      BY DEF Hosts
    <3>2. Hosts' = [m \in Maps |->
              IF directory'[m].slot # 0 THEN mapServers'[directory'[m].slot].connection ELSE None]
      BY DEF Hosts, HasServer
    <3>. QED
      BY <3>1, <3>2
  <2>2. SUFFICES ASSUME NEW m \in Maps
                 PROVE  Hosts'[m] = IF m \in maps[c] /\ Hosts[m] = None THEN c ELSE Hosts[m]
    BY <2>1
  <2>3. CASE HasServer(m)
    <3>1. directory[m].slot \in 1..Len(mapServers) /\ directory'[m] = directory[m]
      BY <2>3, RegistersList DEF RegistryInv, DirectorySound
    <3>2. mapServers'[directory[m].slot] = mapServers[directory[m].slot]
      BY <3>1, RegistersList
    <3>3. mapServers[directory[m].slot].connection \in Conns
      <4>1. mapServers[directory[m].slot] \in MapServerConnection
        BY <3>1, ElementOfSeq DEF Inv, TypeOK
      <4>. QED
        BY <4>1 DEF MapServerConnection
    <3>4. Hosts[m] # None /\ Hosts'[m] = Hosts[m]
      BY <2>1, <2>3, <3>1, <3>2, <3>3, NoneIsNobody DEF HasServer
    <3>. QED
      BY <3>4
  <2>4. CASE ~HasServer(m) /\ m \in maps[c]
    <3>1. directory'[m] = [slot |-> Len(mapServers'), block |-> block']
      BY <2>4, RegistersList
    <3>2. Len(mapServers') # 0
      <4>1. Len(mapServers) \in Nat /\ Len(mapServers') = Len(mapServers) + 1
        BY RegistersList
      <4>. QED
        BY <4>1
    <3>3. mapServers'[Len(mapServers')] = [connection |-> c, maps |-> maps[c]]
      BY RegistersList
    <3>4. Hosts'[m] = c
      BY <2>1, <3>1, <3>2, <3>3
    <3>5. Hosts[m] = None
      BY <2>1, <2>4
    <3>. QED
      BY <2>4, <3>4, <3>5
  <2>5. CASE ~HasServer(m) /\ m \notin maps[c]
    <3>1. directory'[m] = directory[m]
      BY <2>5, RegistersList
    <3>. QED
      BY <2>1, <2>5, <3>1 DEF HasServer
  <2>. QED
    BY <2>3, <2>4, <2>5
<1>9. Contract!TakeMaps(c, maps[c])
  BY <1>1, <1>2, <1>5, <1>6, <1>8 DEF Contract!TakeMaps, Contract!Become
<1>. QED
  BY <1>7, <1>9

LEMMA AttemptMoves ==
    ASSUME Inv, NEW c \in Conns, state[c] \in {"CHALLENGE_SENT", "LOGIN_FAILED"},
           Readable(c), UNCHANGED processVars,
           FailAttempt(c) \/ (Received(c).kind = "identity" /\ processLoginAttempt(c, Received(c)))
    PROVE  [Contract!Next]_Contract!contractVars
<1>1. CASE FailAttempt(c)
  <2>1. UNCHANGED Shared /\ attempts' = [attempts EXCEPT ![c] = @ + 1]
        /\ state' = [state EXCEPT ![c] =
              IF attempts'[c] = MAX_ATTEMPTS_ALLOWED THEN "DONE" ELSE "LOGIN_FAILED"]
    BY <1>1 DEF FailAttempt, SetState, Shared, sessionVars, processVars
  <2>2. Contract!ShowOut(c) \/ Contract!Strike(c)
    BY <2>1, ShownOut, Struck DEF Inv, TypeOK
  <2>. QED
    BY <2>2 DEF Contract!Next, Contract!Visit
<1>2. CASE RefuseLocked(c)
  <2>1. UNCHANGED Shared /\ UNCHANGED attempts /\ state' = [state EXCEPT ![c] = "DONE"]
    BY <1>2 DEF RefuseLocked, SetState, Shared, sessionVars, processVars
  <2>2. Contract!ShowOut(c)
    BY <2>1, ShownOut
  <2>. QED
    BY <2>2 DEF Contract!Next, Contract!Visit
<1>3. ASSUME NEW n \in Names, Opens(c, n) PROVE [Contract!Next]_Contract!contractVars
  BY <1>3, Admission DEF Contract!Next, Contract!Visit
<1>4. CASE Received(c).kind = "identity" /\ processLoginAttempt(c, Received(c))
  <2>1. Received(c).user \in Names
    BY <1>4, ReceivedType DEF Inv
  <2>2. FailAttempt(c) \/ RefuseLocked(c) \/ Opens(c, Received(c).user)
    BY <1>4 DEF processLoginAttempt, Opens, processVars
  <2>. QED
    BY <1>1, <1>2, <1>3, <2>1, <2>2
<1>. QED
  BY <1>1, <1>4

\* What is left of the incoming thread ends a visit or goes on with it.
LEMMA OtherMoves ==
    ASSUME Inv, NEW c \in Conns, state[c] \notin {"ABSENT", "DONE"},
           UNCHANGED <<Shared, attempts>>, NEW s, state' = [state EXCEPT ![c] = s]
    PROVE  [Contract!Next]_Contract!contractVars
<1>1. CASE s = "DONE"
  BY <1>1, ShownOut DEF Contract!Next, Contract!Visit
<1>2. CASE s # "DONE"
  BY <1>2, Unmoved
<1>. QED
  BY <1>1, <1>2

LEMMA IncomingMoves ==
    ASSUME RefinementInv, NEW c \in Conns, processConnection(c)
    PROVE  [Contract!Next]_Contract!contractVars
<1>. USE DEF RefinementInv
<1>0. state[c] \notin {"ABSENT", "DONE"}
  BY DoneIdle
<1>. DEFINE Plain == UNCHANGED <<Shared, attempts>> /\ \E s : state' = [state EXCEPT ![c] = s]
<1>1. Plain => [Contract!Next]_Contract!contractVars
  BY <1>0, OtherMoves
<1>. HIDE DEF Plain
<1>2. ASSUME NothingRead(c), UNCHANGED processVars PROVE Plain
  BY <1>2 DEF Plain, NothingRead, SetState, Shared, sessionVars, processVars
<1>3. CASE DropFaulty(c)
  BY <1>1, <1>3 DEF Plain, DropFaulty, SetState, Shared, sessionVars, processVars
<1>4. CASE processFreshSocket(c)
  <2>1. Plain
    BY <1>4 DEF Plain, processFreshSocket, SetState, Shared, sessionVars, processVars
  <2>. QED
    BY <1>1, <2>1
<1>5. CASE processChallengeSentSocket(c)
  <2>1. state[c] = "CHALLENGE_SENT" /\ UNCHANGED processVars
    BY <1>5 DEF processChallengeSentSocket, Visits
  <2>2. \/ NothingRead(c) \/ VersionMismatch(c) \/ RegisterMapServer(c)
        \/ /\ Readable(c)
           /\ FailAttempt(c) \/ (Received(c).kind = "identity" /\ processLoginAttempt(c, Received(c)))
    BY <1>5 DEF processChallengeSentSocket
  <2>3. ASSUME VersionMismatch(c) \/ RegisterMapServer(c) PROVE Plain
    BY <2>1, <2>3 DEF Plain, VersionMismatch, RegisterMapServer, processMapAuthenticationRequest,
       SetState, Shared, sessionVars, processVars
  <2>. QED
    BY <1>1, <1>2, <2>1, <2>2, <2>3, AttemptMoves
<1>6. CASE processLoginFailedSocket(c)
  <2>1. state[c] = "LOGIN_FAILED" /\ UNCHANGED processVars
    BY <1>6 DEF processLoginFailedSocket, Visits
  <2>2. \/ NothingRead(c)
        \/ /\ Readable(c)
           /\ FailAttempt(c) \/ (Received(c).kind = "identity" /\ processLoginAttempt(c, Received(c)))
    BY <1>6 DEF processLoginFailedSocket
  <2>. QED
    BY <1>1, <1>2, <2>1, <2>2, AttemptMoves
<1>7. CASE processMapListSocket(c)
  <2>1. ASSUME ~NothingRead(c) PROVE Plain
    BY <1>7, <2>1 DEF Plain, processMapListSocket, NotAList, NotNeeded, RequireMaps, SetState, Shared,
       sessionVars, processVars
  <2>2. UNCHANGED processVars
    BY <1>7 DEF processMapListSocket
  <2>. QED
    BY <1>1, <1>2, <2>1, <2>2
<1>8. CASE processMapWaitAckSocket(c)
  <2>1. NothingRead(c) \/ Registers(c)
    BY <1>8 DEF processMapWaitAckSocket, Visits, Registers
  <2>2. UNCHANGED processVars
    BY <1>8 DEF processMapWaitAckSocket
  <2>3. Registers(c) => [Contract!Next]_Contract!contractVars
    BY Hosting DEF Contract!Next, Contract!Visit
  <2>. QED
    BY <1>1, <1>2, <2>1, <2>2, <2>3
<1>. QED
  BY <1>3, <1>4, <1>5, <1>6, <1>7, <1>8 DEF processConnection

-----------------------------------------------------------------------------
(* The connected thread. *)

LEMMA Parting == ASSUME Inv, NEW c \in Conns, ReapSession(c) PROVE Contract!Part(c)
<1>1. /\ UNCHANGED <<players, attempts, registryVars>>
      /\ user' = [user EXCEPT ![c] = None] /\ character' = [character EXCEPT ![c] = None]
      /\ owner[c] = "session" /\ owner'[c] = "none"
      /\ \A d \in Conns \ {c} :
            owner'[d] = owner[d] /\ state'[d] = state[d] /\ attempts'[d] = attempts[d]
  BY DEF ReapSession, HasSession, entryVars, processVars, Inv, TypeOK
<1>2. Standing[c] = "player" /\ StandingOf(owner'[c], state'[c]) = "absent"
  BY <1>1, StandingCases, StandingPrime
<1>3. /\ Standing' = [Standing EXCEPT ![c] = StandingOf(owner'[c], state'[c])]
      /\ Counted' = [Counted EXCEPT ![c] = IF Standing'[c] = "guest" THEN attempts'[c] ELSE 0]
  BY <1>1, OneVisitor
<1>4. Standing' = [Standing EXCEPT ![c] = "absent"]
  BY <1>2, <1>3
<1>5. Counted' = Counted
  <2>1. Counted[c] = 0 /\ Counted'[c] = 0
    BY <1>2, <1>4, StandingPrime
  <2>. QED
    BY <1>3, <2>1, StandingPrime
<1>. QED
  BY <1>1, <1>2, <1>4, <1>5, HostsKept DEF Contract!Part, Contract!Become

LEMMA Seating ==
    ASSUME RefinementInv, NEW c \in Conns, NEW ch \in Characters, Places(c, ch),
           UNCHANGED <<players, entryVars>>
    PROVE  [Contract!Next]_Contract!contractVars
<1>. USE DEF RefinementInv
<1>1. /\ owner[c] = "session" /\ CharacterOwner[ch] = user[c]
      /\ CharacterMap[ch] \in Maps /\ HasServer(CharacterMap[ch])
      /\ UNCHANGED <<players, owner, user, attempts, state, registryVars>>
      /\ character' = character \/ character' = [character EXCEPT ![c] = ch]
  BY DEF Places, HasSession, SendToMapServer, Owned, entryVars
<1>2. Standing[c] = "player" /\ Standing' = Standing /\ Counted' = Counted /\ Hosts' = Hosts
  BY <1>1, StandingCases, StandingPrime, HostsKept
<1>3. Hosts[CharacterMap[ch]] # None
  <2>. DEFINE m == CharacterMap[ch]
  <2>1. directory[m].slot \in 1..Len(mapServers)
    BY <1>1 DEF RegistryInv, DirectorySound
  <2>2. mapServers[directory[m].slot] \in MapServerConnection
    BY <2>1, ElementOfSeq DEF Inv, TypeOK
  <2>3. mapServers[directory[m].slot].connection \in Conns
    BY <2>2 DEF MapServerConnection
  <2>. QED
    BY <1>1, <2>3, NoneIsNobody DEF Hosts
<1>4. CASE character' = [character EXCEPT ![c] = ch]
  <2>1. Contract!Seat(c, ch)
    BY <1>1, <1>2, <1>3, <1>4 DEF Contract!Seat
  <2>. QED
    BY <2>1 DEF Contract!Next, Contract!Visit
<1>5. CASE character' = character
  BY <1>1, <1>2, <1>5 DEF Contract!contractVars
<1>. QED
  BY <1>1, <1>4, <1>5

LEMMA ConnectedMoves ==
    ASSUME RefinementInv, NEW c \in Conns, processSession(c)
    PROVE  [Contract!Next]_Contract!contractVars
<1>. USE DEF RefinementInv
<1>1. CASE ReapSession(c)
  BY <1>1, Parting DEF Contract!Next, Contract!Visit
<1>2. CASE OpcodeMissing(c) \/ DisconnectNoticed(c) \/ UnhandledOpcode(c) \/ OpcodeCutShort(c) \/ OpcodeOutOfStep(c)
        \/ processCharacterRequest(c)
  <2>1. UNCHANGED <<players, owner, user, character, attempts, state, registryVars>>
    BY <1>2 DEF OpcodeMissing, DisconnectNoticed, SetError, UnhandledOpcode, OpcodeCutShort, OpcodeOutOfStep, processCharacterRequest,
       entryVars, sessionVars, processVars
  <2>. QED
    BY <2>1, Stutter
<1>3. CASE processCharacterSelect(c)
  <2>. DEFINE ch == Received(c).character
  <2>1. /\ UNCHANGED <<owner, entryVars, user, index, registryVars, players>> /\ HasSession(c)
        /\ \/ MalformedSelection(c) \/ ForeignCharacter(c) \/ MapUnavailable(c, ch)
           \/ SendToMapServer(c, ch) \/ ReadFreedServer(c, ch)
    BY <1>3 DEF processCharacterSelect, Requests, Serves
  <2>2. CASE UNCHANGED character
    BY <2>1, <2>2, Stutter DEF entryVars
  <2>3. CASE SendToMapServer(c, ch)
    <3>1. ch \in Characters /\ Places(c, ch)
      BY <2>1, <2>3 DEF SendToMapServer, Owned, Places
    <3>. QED
      BY <2>1, <3>1, Seating
  <2>. QED
    BY <2>1, <2>2, <2>3 DEF MalformedSelection, ForeignCharacter, MapUnavailable, ReadFreedServer
<1>. QED
  BY <1>1, <1>2, <1>3 DEF processSession

-----------------------------------------------------------------------------

LEMMA ContractNext == RefinementInv /\ [Next]_vars => [Contract!Next]_Contract!contractVars
<1>. SUFFICES ASSUME RefinementInv, [Next]_vars PROVE [Contract!Next]_Contract!contractVars
  OBVIOUS
<1>. USE DEF RefinementInv
<1>1. CASE initDB
  BY <1>1, FirstAccount
<1>2. CASE AcceptorFails \/ (\E c \in Conns : Peer(c)) \/ UNCHANGED vars
  <2>1. UNCHANGED <<players, owner, user, character, attempts, state, registryVars>>
    BY <1>2 DEF AcceptorFails, Peer, vars, entryVars, sessionVars, processVars
  <2>. QED
    BY <2>1, Stutter
<1>3. ASSUME NEW c \in Conns, AcceptConnection(c) PROVE Contract!Next
  BY <1>3, Arrival DEF Contract!Next, Contract!Visit
<1>4. CASE PurgeDone
  BY <1>4, Clearing DEF Contract!Next
<1>. QED
  BY <1>1, <1>2, <1>3, <1>4, IncomingMoves, ConnectedMoves
  DEF Next, ServerNext, run, processIncoming, processConnected

\* The login server keeps its contract: whoever its visitors are and whatever they send,
\* a guest is admitted, hosts maps or is shown out, once and for all.
THEOREM KeepsContractCorrect == Spec => KeepsContract
<1>1. Init => Contract!Init /\ RefinementInv
  BY ContractInit, InitInv, SessionInit, HandshakeInit, RegistryInit DEF RefinementInv
<1>2. RefinementInv /\ [Next]_vars => RefinementInv'
  BY NextInv, SessionNext, HandshakeNext, RegistryNext DEF RefinementInv
<1>. QED
  BY <1>1, <1>2, ContractNext, PTL DEF Spec, KeepsContract, Contract!Spec

=============================================================================
