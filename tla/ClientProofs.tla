---------------------------- MODULE ClientProofs ----------------------------
(***************************************************************************)
(* What a client makes of its conversation with the login server, for any  *)
(* number of clients.  The invariant follows each client along its line:   *)
(* what it waits for, what of its requests is unread, what answers are on  *)
(* their way, and what the session holds of it.                            *)
(***************************************************************************)
EXTENDS WorldProofs

-----------------------------------------------------------------------------
(* The conversation of a client, from its login to the map server it is    *)
(* sent to.  It asks one thing at a time once it is logged in, and waits   *)
(* for the answer; only in the login may answers come late.                *)

Asking(m) == m.kind \in {"requestCharacters", "characterSelect"}

\* Of what waits to be read nothing is asked of the session, or only the last.
Quiet(c) == \A i \in 1..Len(toServer[c]) : ~Asking(toServer[c][i])
Asked(c, m) ==
    LET n == Len(toServer[c]) IN
    n > 0 /\ toServer[c][n] = m /\ \A i \in 1..(n - 1) : ~Asking(toServer[c][i])

Unanswered(c, m) == toPeer[c] = <<>> /\ Asked(c, m)
Answered(c, r) == toPeer[c] = <<r>> /\ Quiet(c)

Selection(u) == [kind |-> "characterSelect", character |-> currentCharacter[u]]

\* How far client u is over connection c, which is up.
InLogin(u, c) ==
    /\ gameState[u] = "LOGIN" /\ Quiet(c)
    /\ \A i \in 1..Len(toPeer[c]) : toPeer[c][i].kind \in {"challenge", "response"}

InSelect(u, c) ==
    /\ gameState[u] = "CHARACTER_SELECT" /\ wait[u] = "none"
    /\ Quiet(c) /\ toPeer[c] = <<>>

\* The request is lost when it goes with an odd byte before it.
InList(u, c) ==
    /\ gameState[u] = "CHARACTER_SELECT" /\ wait[u] = "characters"
    /\ \/ Unanswered(c, Plain("requestCharacters"))
       \/ Quiet(c) /\ toPeer[c] = <<>>
       \/ Answered(c, [kind |-> "characters", characters |-> CharactersOf(c)])

\* The process may die of the freed address of a map server before it answers.
InSent(u, c) ==
    /\ gameState[u] = "MAP_SERVER_CONNECT"
    /\ \/ Unanswered(c, Selection(u))
       \/ Quiet(c) /\ toPeer[c] = <<>>
       \/ \E r : Answered(c, r) /\ (r.kind = "instructions" => character[c] = currentCharacter[u])

InPlay(u, c) ==
    /\ gameState[u] = "PLAYING" /\ Quiet(c)
    /\ character[c] = currentCharacter[u]

Conversing(u, c) ==
    /\ InLogin(u, c) \/ InSelect(u, c) \/ InList(u, c) \/ InSent(u, c) \/ InPlay(u, c)
    /\ currentCharacter[u] # None => Owned(c, currentCharacter[u])

\* The first that a client is told is the challenge.
Unchallenged(c) ==
    \/ toPeer[c] = <<>> /\ told[c] = Nothing /\ state[c] = "FRESH" /\ link[c] = "up"
    \/ toPeer[c] # <<>> /\ Head(toPeer[c]).kind = "challenge"

TalkOn(u, c) ==
    /\ link[c] # "closed"
    /\ link[c] = "disconnected" => owner[c] = "incoming" /\ state[c] = "DONE"
    /\ link[c] = "up" => Conversing(u, c)
    /\ ~crypto[u] => Unchallenged(c)

Progress(u) ==
    /\ gameState[u] = "LOGIN" => currentCharacter[u] = None
    /\ Past(u) => crypto[u]

TalkInv ==
    /\ \A u \in Clients : Progress(u)
    /\ \A u \in Clients, c \in Conns : line[u] = c => TalkOn(u, c)

-----------------------------------------------------------------------------
(* What a step leaves alone besides. *)

DataKept(c) == told'[c] = told[c] /\ user'[c] = user[c] /\ character'[c] = character[c]

LEMMA ConnectionData ==
    ASSUME Inv, NEW c \in Conns, NEW d \in Conns \ {c}, processConnection(c)
    PROVE  DataKept(d)
<1>1. told'[d] = told[d]
  BY OneEntry
<1>2. ASSUME NEW m, processLoginAttempt(c, m) PROVE user'[d] = user[d] /\ UNCHANGED character
  BY <1>2 DEF processLoginAttempt, FailAttempt, RefuseLocked, OpenSession, sessionVars, Inv, TypeOK
<1>3. ASSUME FailAttempt(c) \/ NothingRead(c) \/ VersionMismatch(c) \/ RegisterMapServer(c) PROVE UNCHANGED sessionVars
  BY <1>3 DEF FailAttempt, NothingRead, VersionMismatch, RegisterMapServer
<1>. QED
  BY <1>1, <1>2, <1>3 DEF DataKept, processConnection, DropFaulty, processFreshSocket, processChallengeSentSocket,
     processLoginFailedSocket, processMapListSocket, processMapWaitAckSocket, sessionVars

LEMMA SessionData ==
    ASSUME Inv, NEW c \in Conns, NEW d \in Conns \ {c}, processSession(c)
    PROVE  DataKept(d)
<1>. USE DEF Inv, TypeOK, sessionVars
<1>1. told'[d] = told[d]
  BY OneSession
<1>2. CASE ReapSession(c)
  BY <1>1, <1>2 DEF ReapSession, DataKept
<1>3. CASE OpcodeMissing(c) \/ DisconnectNoticed(c) \/ UnhandledOpcode(c) \/ OpcodeCutShort(c) \/ OpcodeOutOfStep(c)
        \/ processCharacterRequest(c)
  BY <1>1, <1>3 DEF OpcodeMissing, DisconnectNoticed, SetError, UnhandledOpcode, OpcodeCutShort, OpcodeOutOfStep,
     processCharacterRequest, DataKept
<1>4. CASE processCharacterSelect(c)
  BY <1>1, <1>4 DEF processCharacterSelect, MalformedSelection, ForeignCharacter, MapUnavailable,
     SendToMapServer, ReadFreedServer, DataKept
<1>. QED
  BY <1>2, <1>3, <1>4 DEF processSession

LEMMA PurgeData ==
    ASSUME Inv, NEW d \in Conns, PurgeDone
    PROVE  /\ user'[d] = user[d] /\ character'[d] = character[d]
           /\ owner[d] # "incoming" \/ state[d] # "DONE" => told'[d] = told[d]
BY DEF PurgeDone, EraseDone, DoneWithSocket, DestroySockets, sessionVars, Inv, TypeOK

LEMMA ProgramData ==
    ASSUME NEW x \in Programs, ProgramStep(x)
    PROVE  UNCHANGED <<told, user, character>>
<1>1. ASSUME UNCHANGED <<told, serverVars>> PROVE UNCHANGED <<told, user, character>>
  BY <1>1 DEF serverVars, sessionVars
<1>2. CASE Dial(x)
  BY <1>2 DEF Dial, AcceptConnection, OpenSocket, sessionVars
<1>. QED
  BY <1>1, <1>2 DEF ProgramStep, Speaks, Listens, Rests, HangUp, Tell, Silent

\* The conversation of a client that does nothing on a connection that is left alone.
ClientStill(u) ==
    /\ gameState'[u] = gameState[u] /\ wait'[u] = wait[u] /\ crypto'[u] = crypto[u]
    /\ currentCharacter'[u] = currentCharacter[u]

LEMMA TalkKept ==
    ASSUME NEW u \in Clients, NEW c \in Conns, TalkOn(u, c), ConnKept(c), DataKept(c), ClientStill(u)
    PROVE  TalkOn(u, c)'
<1>. USE DEF ConnKept, DataKept, ClientStill
<1>1. ASSUME Conversing(u, c) PROVE Conversing(u, c)'
  BY <1>1 DEF Conversing, InLogin, InSelect, InList, InSent, InPlay, Quiet, Asked, Unanswered, Answered,
     Selection, CharactersOf, Owned
<1>2. Unchallenged(c) => Unchallenged(c)'
  BY DEF Unchallenged
<1>. QED
  BY <1>1, <1>2 DEF TalkOn

-----------------------------------------------------------------------------
(* What waits to be read, as the session takes it. *)

LEMMA ReadsHead ==
    ASSUME Inv, NEW c \in Conns, toServer[c] # <<>>
    PROVE  /\ Received(c) = toServer[c][1] /\ Len(toServer[c]) \in Nat \ {0}
           /\ Tail(toServer[c]) \in Seq(Messages) /\ Len(Tail(toServer[c])) = Len(toServer[c]) - 1
           /\ \A i \in 1..(Len(toServer[c]) - 1) : Tail(toServer[c])[i] = toServer[c][i + 1]
<1>1. toServer[c] \in Seq(Messages)
  BY DEF Inv, TypeOK
<1>. QED
  BY <1>1, HeadTailProperties DEF Received

\* rest is s without its first k messages, and s has a request at its end and no other.
EndOf(s, rest, k) ==
    /\ Len(s) > 0 /\ \A i \in 1..(Len(s) - 1) : ~Asking(s[i])
    /\ Len(rest) = Len(s) - k /\ \A i \in 1..Len(rest) : rest[i] = s[i + k]

NoneAsks(r) == \A i \in 1..Len(r) : ~Asking(r[i])
LastAsks(r, m) == Len(r) > 0 /\ r[Len(r)] = m /\ \A i \in 1..(Len(r) - 1) : ~Asking(r[i])

\* Of a sequence that ends in a request, with none before it, k messages have been replaced
\* by others that are none.
LEMMA RequestLast ==
    ASSUME NEW s \in Seq(Messages), NEW left \in Seq(Messages), NEW rest \in Seq(Messages), NEW k \in 1..2,
           EndOf(s, rest, k), NoneAsks(left)
    PROVE  NoneAsks(left \o rest) \/ LastAsks(left \o rest, s[Len(s)])
<1>. DEFINE r == left \o rest
<1>. USE DEF EndOf, NoneAsks, LastAsks
<1>. DEFINE n == Len(s)  l == Len(left)  h == Len(rest)
<1>1. Len(r) = l + h /\ \A i \in 1..(l + h) : r[i] = IF i =< l THEN left[i] ELSE rest[i - l]
  BY ConcatProperties
<1>2. n \in Nat /\ l \in Nat /\ h \in Nat /\ h = n - k
  OBVIOUS
<1>. HIDE DEF n, l, h, r
<1>3. \A i \in 1..(l + h) : (i =< l /\ i \in 1..l) \/ (~(i =< l) /\ i - l \in 1..h)
  BY <1>2
<1>4. \A i \in 1..(h - 1) : i \in 1..h /\ i + k \in 1..(n - 1)
  BY <1>2
<1>5. \A i \in 1..(h - 1) : ~Asking(rest[i])
  BY <1>4 DEF n, h
<1>6. CASE h = 0
  <2>1. \A i \in 1..(l + h) : i =< l /\ i \in 1..l
    BY <1>2, <1>6
  <2>2. \A i \in 1..(l + h) : ~Asking(r[i])
    BY <1>1, <2>1 DEF l
  <2>. QED
    BY <1>1, <2>2 DEF r
<1>7. CASE h # 0
  <2>1. l + h \in 1..(l + h) /\ ~(l + h =< l) /\ (l + h) - l = h /\ h \in 1..h /\ h + k = n /\ l + h > 0
    BY <1>2, <1>7
  <2>2. r[l + h] = s[n]
    BY <1>1, <2>1 DEF n, h
  <2>3. ASSUME NEW i \in 1..((l + h) - 1) PROVE ~Asking(r[i])
    <3>1. i \in 1..(l + h) /\ ((i =< l /\ i \in 1..l) \/ (~(i =< l) /\ i - l \in 1..(h - 1)))
      BY <1>2, <2>3
    <3>. QED
      BY <1>1, <1>5, <3>1 DEF l
  <2>. QED
    BY <1>1, <2>1, <2>2, <2>3 DEF n, r
<1>. QED
  BY <1>6, <1>7

\* A session reads whatever else waits before it comes to what it is asked, unless that goes
\* with the odd byte before it.
LEMMA OpcodeTaken ==
    ASSUME Inv, NEW c \in Conns, UnhandledOpcode(c) \/ OpcodeCutShort(c) \/ OpcodeOutOfStep(c)
    PROVE  /\ Quiet(c) => Quiet(c)'
           /\ \A m : Asking(m) /\ Asked(c, m) => Asked(c, m)' \/ Quiet(c)'
<1>. DEFINE S == {m \in Messages : ~Asking(m)}  s == toServer[c]
<1>0. Garbage \in S /\ OddByte \in S
  BY DEF Garbage, OddByte, Messages, PlainRequests, Asking
<1>1. s \in Seq(Messages)
  BY DEF Inv, TypeOK
<1>2. ASSUME Quiet(c) PROVE Quiet(c)'
  <2>1. s \in Seq(S)
    <3>1. \A i \in 1..Len(s) : s[i] \in S
      BY <1>1, <1>2 DEF Quiet
    <3>. QED
      BY <1>1, <3>1
  <2>2. toServer'[c] \in Seq(S)
    <3>. HIDE DEF S
    <3>. QED
      BY <1>0, <2>1, OpcodeReads
  <2>. QED
    BY <2>2 DEF Quiet
<1>3. \A left \in {<<>>, <<Garbage>>, <<OddByte>>} : left \in Seq(Messages) /\ \A i \in 1..Len(left) : ~Asking(left[i])
  <2>1. <<>> \in Seq(Messages) /\ Len(<<>>) = 0 /\ 1..0 = {}
    OBVIOUS
  <2>2. ASSUME NEW m \in S PROVE <<m>> \in Seq(Messages) /\ \A i \in 1..Len(<<m>>) : ~Asking(<<m>>[i])
    <3>1. Len(<<m>>) = 1 /\ <<m>>[1] = m /\ \A i \in 1..1 : i = 1
      OBVIOUS
    <3>. QED
      BY <3>1
  <2>. QED
    BY <1>0, <2>1, <2>2
<1>4. ASSUME NEW m, Asking(m), Asked(c, m) PROVE Asked(c, m)' \/ Quiet(c)'
  <2>1. Len(s) > 0 /\ s[Len(s)] = m /\ (\A i \in 1..(Len(s) - 1) : ~Asking(s[i])) /\ s # <<>>
    <3>1. Len(s) > 0 => s # <<>>
      BY EmptySeq
    <3>. QED
      BY <1>4, <3>1 DEF Asked
  <2>2. Tail(s) \in Seq(Messages) /\ Len(Tail(s)) = Len(s) - 1 /\ \A i \in 1..Len(Tail(s)) : Tail(s)[i] = s[i + 1]
    BY <1>1, <2>1, HeadTailProperties
  <2>3. CASE UnhandledOpcode(c)
    <3>1. PICK left \in {<<>>, <<Garbage>>, <<OddByte>>} : toServer'[c] = left \o Tail(s)
      BY <2>3 DEF UnhandledOpcode, LeftOf, Inv, TypeOK
    <3>2. left \in Seq(Messages) /\ \A i \in 1..Len(left) : ~Asking(left[i])
      BY <1>3
    <3>. HIDE DEF s, S
    <3>. DEFINE r == left \o Tail(s)
    <3>3. NoneAsks(r) \/ LastAsks(r, s[Len(s)])
      <4>1. EndOf(s, Tail(s), 1) /\ NoneAsks(left) /\ 1 \in 1..2
        BY <2>1, <2>2, <3>2 DEF EndOf, NoneAsks
      <4>. QED
        BY <1>1, <2>2, <3>2, <4>1, RequestLast, Zenon
    <3>4. toServer'[c] = r
      BY <3>1
    <3>. HIDE DEF r
    <3>. QED
      BY <2>1, <3>3, <3>4 DEF Asked, Quiet, NoneAsks, LastAsks
  <2>4. CASE OpcodeOutOfStep(c)
    <3>1. PICK left \in {<<>>, <<Garbage>>, <<OddByte>>} : toServer'[c] = left \o Tail(Tail(s))
      BY <2>4 DEF OpcodeOutOfStep, OddRest, Inv, TypeOK
    <3>2. left \in Seq(Messages) /\ \A i \in 1..Len(left) : ~Asking(left[i])
      BY <1>3
    <3>3. Len(s) > 1 /\ Len(s) \in Nat
      BY <1>1, <2>4 DEF OpcodeOutOfStep
    <3>. HIDE DEF s, S
    <3>. DEFINE t == Tail(s)  w == Tail(t)
    <3>4. t # <<>>
      <4>1. \A n, k \in Nat : n > 1 /\ k = n - 1 => k # 0
        OBVIOUS
      <4>2. Len(t) \in Nat
        BY <2>2
      <4>3. Len(t) # 0
        BY <2>2, <3>3, <4>1, <4>2, Zenon
      <4>. QED
        BY <4>3, EmptySeq
    <3>5. w \in Seq(Messages) /\ Len(w) = Len(t) - 1 /\ \A i \in 1..Len(w) : w[i] = t[i + 1]
      BY <2>2, <3>4, HeadTailProperties
    <3>6. Len(t) = Len(s) - 1 /\ \A i \in 1..Len(t) : t[i] = s[i + 1]
      BY <2>2
    <3>. HIDE DEF t, w
    <3>7. Len(w) = Len(s) - 2 /\ \A i \in 1..Len(w) : i + 1 \in 1..Len(t) /\ (i + 1) + 1 = i + 2
      BY <3>3, <3>5, <3>6
    <3>8. \A i \in 1..Len(w) : w[i] = s[i + 2]
      BY <3>5, <3>6, <3>7
    <3>. DEFINE r == left \o w
    <3>9. NoneAsks(r) \/ LastAsks(r, s[Len(s)])
      <4>1. EndOf(s, w, 2) /\ NoneAsks(left) /\ 2 \in 1..2
        BY <2>1, <3>2, <3>7, <3>8 DEF EndOf, NoneAsks
      <4>. QED
        BY <1>1, <3>2, <3>5, <4>1, RequestLast, Zenon
    <3>10. toServer'[c] = r
      BY <3>1 DEF t, w
    <3>. HIDE DEF r
    <3>. QED
      BY <2>1, <3>9, <3>10 DEF Asked, Quiet, NoneAsks, LastAsks
  <2>5. CASE OpcodeCutShort(c)
    <3>1. s = <<OddByte>>
      BY <2>5 DEF OpcodeCutShort
    <3>2. m = OddByte
      BY <2>1, <3>1
    <3>. QED
      BY <1>0, <1>4, <3>2
  <2>. QED
    BY <2>3, <2>4, <2>5
<1>. QED
  BY <1>2, <1>4

\* When the session comes to what it is asked, that is the last.
LEMMA AskedHead ==
    ASSUME Inv, NEW c \in Conns, toServer[c] # <<>>, Asking(Received(c)), RecvOne(c)
    PROVE  /\ ~Quiet(c)
           /\ \A m : Asked(c, m) => Received(c) = m /\ Quiet(c)'
<1>. DEFINE n == Len(toServer[c])
<1>1. Received(c) = toServer[c][1] /\ n \in Nat \ {0} /\ Len(Tail(toServer[c])) = n - 1
  BY ReadsHead
<1>2. ~Quiet(c)
  BY <1>1 DEF Quiet
<1>3. toServer'[c] = Tail(toServer[c])
  BY DEF RecvOne, Inv, TypeOK
<1>4. ASSUME NEW m, Asked(c, m) PROVE Received(c) = m /\ Quiet(c)'
  <2>0. \A k \in Nat \ {0} : k # 1 => 1 \in 1..(k - 1)
    OBVIOUS
  <2>1. n = 1
    BY <1>1, <1>4, <2>0 DEF Asked
  <2>2. toServer[c][1] = m
    BY <1>4, <2>1 DEF Asked
  <2>3. Quiet(c)'
    BY <1>1, <1>3, <2>1 DEF Quiet
  <2>. QED
    BY <1>1, <2>2, <2>3
<1>. QED
  BY <1>2, <1>4

-----------------------------------------------------------------------------
(* A step of the login server, seen along the line of a client. *)

LEMMA SaidLast ==
    ASSUME Inv, NEW c \in Conns, Quiet(c), NEW m, toServer'[c] = Append(toServer[c], m)
    PROVE  Asked(c, m)' /\ (~Asking(m) => Quiet(c)')
<1>. DEFINE s == toServer[c]  n == Len(s)
<1>1. s \in Seq(Messages) /\ n \in Nat
  BY DEF Inv, TypeOK
<1>2. Len(Append(s, m)) = n + 1 /\ Append(s, m)[n + 1] = m /\ \A i \in 1..n : Append(s, m)[i] = s[i]
  BY <1>1
<1>. HIDE DEF s
<1>3. n + 1 > 0 /\ (n + 1) - 1 = n /\ \A i \in 1..(n + 1) : i = n + 1 \/ i \in 1..n
  BY <1>1
<1>4. \A i \in 1..n : ~Asking(Append(s, m)[i])
  BY <1>2 DEF Quiet, s
<1>5. toServer'[c] = Append(s, m)
  BY DEF s
<1>. QED
  BY <1>2, <1>3, <1>4, <1>5 DEF Asked, Quiet

LEMMA ToldMore ==
    ASSUME Inv, NEW c \in Conns, toPeer[c] # <<>>, NEW r,
           toPeer'[c] = toPeer[c] \/ toPeer'[c] = Append(toPeer[c], r)
    PROVE  toPeer'[c] # <<>> /\ Head(toPeer'[c]) = Head(toPeer[c])
<1>1. toPeer[c] \in Seq(Replies)
  BY DEF Inv, TypeOK
<1>. QED
  BY <1>1

LEMMA IncomingTalk ==
    ASSUME Inv, FaultsDown, NEW u \in Clients, NEW c \in Conns, ClientOn(u, c), TalkOn(u, c), Progress(u),
           ClientStill(u), processConnection(c)
    PROVE  TalkOn(u, c)'
<1>1. /\ owner[c] = "incoming" /\ owner'[c] \in {"incoming", "session"}
      /\ link'[c] = link[c] \/ (link'[c] = "disconnected" /\ owner'[c] = "incoming" /\ state'[c] = "DONE")
      /\ toServer'[c] \in {toServer[c], <<>>}
      /\ Replied(c)
  BY ServedLogin DEF ClientOn, NoRegistration
<1>2. PICK r : r.kind \in {"challenge", "response"} /\ (toPeer'[c] = toPeer[c] \/ toPeer'[c] = Append(toPeer[c], r))
  BY <1>1 DEF Replied
<1>3. ASSUME link[c] = "up" PROVE InLogin(u, c) /\ currentCharacter[u] = None
  BY <1>1, <1>3 DEF ClientOn, TalkOn, Conversing, Past, InLogin, InSelect, InList, InSent, InPlay, Progress
<1>4. ASSUME link[c] = "up" PROVE Conversing(u, c)'
  <2>1. InLogin(u, c) /\ currentCharacter[u] = None
    BY <1>3, <1>4
  <2>2. Quiet(c)'
    BY <1>1, <2>1 DEF InLogin, Quiet
  <2>3. \A i \in 1..Len(toPeer'[c]) : toPeer'[c][i].kind \in {"challenge", "response"}
    <3>1. toPeer[c] \in Seq(Replies)
      BY DEF Inv, TypeOK
    <3>2. CASE toPeer'[c] = toPeer[c]
      BY <2>1, <3>2 DEF InLogin
    <3>3. CASE toPeer'[c] = Append(toPeer[c], r)
      <4>1. /\ Len(Append(toPeer[c], r)) = Len(toPeer[c]) + 1 /\ Append(toPeer[c], r)[Len(toPeer[c]) + 1] = r
            /\ \A i \in 1..Len(toPeer[c]) : Append(toPeer[c], r)[i] = toPeer[c][i]
        BY <3>1
      <4>2. \A i \in 1..(Len(toPeer[c]) + 1) : i = Len(toPeer[c]) + 1 \/ i \in 1..Len(toPeer[c])
        BY <3>1
      <4>. QED
        BY <1>2, <2>1, <3>3, <4>1, <4>2 DEF InLogin
    <3>. QED
      BY <1>2, <3>2, <3>3
  <2>. QED
    BY <2>1, <2>2, <2>3 DEF Conversing, InLogin, ClientStill
<1>5. ASSUME ~crypto[u] PROVE Unchallenged(c)'
  <2>1. CASE toPeer[c] = <<>> /\ state[c] = "FRESH" /\ link[c] = "up"
    <3>1. toPeer'[c] = Append(<<>>, Plain("challenge"))
      BY <1>1, <2>1, ServedFresh DEF FaultsDown, Unfaulty
    <3>2. toPeer'[c] = <<Plain("challenge")>>
      BY <3>1, AppendOne
    <3>. QED
      BY <3>2, HeadOfOne DEF Unchallenged, Plain
  <2>2. CASE toPeer[c] # <<>> /\ Head(toPeer[c]).kind = "challenge"
    BY <1>2, <2>2, ToldMore DEF Unchallenged
  <2>. QED
    BY <1>5, <2>1, <2>2 DEF TalkOn, Unchallenged
<1>6. link[c] \notin {"closed", "disconnected"}
  BY DoneIdle DEF TalkOn
<1>. QED
  BY <1>1, <1>4, <1>5, <1>6 DEF TalkOn, ClientStill

LEMMA SessionTalk ==
    ASSUME Inv, FaultsDown, WorldTypeOK, NEW u \in Clients, NEW c \in Conns, TalkOn(u, c), Progress(u),
           ClientStill(u), processSession(c)
    PROVE  TalkOn(u, c)'
<1>0. owner[c] = "session" /\ link[c] = "up" /\ state[c] # "FRESH"
  BY OneSession DEF TalkOn, Inv, TypeOK, SocketPresent, Links
<1>1. Conversing(u, c)
  BY <1>0 DEF TalkOn
<1>a. Asking(Plain("requestCharacters")) /\ Asking(Selection(u)) /\ Plain("requestCharacters") # Selection(u)
      /\ Plain("requestCharacters").kind = "requestCharacters" /\ Selection(u).kind = "characterSelect"
      /\ Selection(u).character = currentCharacter[u] /\ Selection(u)' = Selection(u)
  BY DEF Asking, Plain, Selection, ClientStill
<1>2. ASSUME Conversing(u, c)', link'[c] = "up", NEW r, toPeer'[c] = toPeer[c] \/ toPeer'[c] = Append(toPeer[c], r)
      PROVE  TalkOn(u, c)'
  <2>1. ~crypto[u] => toPeer[c] # <<>> /\ Head(toPeer[c]).kind = "challenge"
    BY <1>0 DEF TalkOn, Unchallenged
  <2>2. ~crypto[u] => Unchallenged(c)'
    BY <1>2, <2>1, ToldMore DEF Unchallenged
  <2>. QED
    BY <1>2, <2>2 DEF TalkOn, ClientStill
<1>3. CASE UnhandledOpcode(c) \/ OpcodeCutShort(c) \/ OpcodeOutOfStep(c)
  <2>1. UNCHANGED <<link, toPeer, user, character>>
    BY <1>3 DEF UnhandledOpcode, OpcodeCutShort, OpcodeOutOfStep, sessionVars
  <2>2. (Quiet(c) => Quiet(c)') /\ \A m : Asking(m) /\ Asked(c, m) => Asked(c, m)' \/ Quiet(c)'
    BY <1>3, OpcodeTaken
  <2>3. (InLogin(u, c) => InLogin(u, c)') /\ (InSelect(u, c) => InSelect(u, c)') /\ (InPlay(u, c) => InPlay(u, c)')
    BY <2>1, <2>2 DEF InLogin, InSelect, InPlay, ClientStill
  <2>4. InList(u, c) => InList(u, c)'
    BY <1>a, <2>1, <2>2 DEF InList, Unanswered, Answered, ClientStill, CharactersOf, Owned
  <2>5. InSent(u, c) => InSent(u, c)'
    BY <1>a, <2>1, <2>2 DEF InSent, Unanswered, Answered, ClientStill
  <2>6. Conversing(u, c)'
    BY <1>1, <2>1, <2>3, <2>4, <2>5 DEF Conversing, Owned, ClientStill
  <2>. QED
    BY <1>0, <1>2, <2>1, <2>6
<1>4. ASSUME RecvOne(c), NEW k \in {"requestCharacters", "characterSelect"}, Requests(c, k)
      PROVE  \/ /\ InList(u, c) /\ k = "requestCharacters"
             \/ /\ InSent(u, c) /\ k = "characterSelect" /\ Received(c) = Selection(u)
  <2>1. toServer[c] # <<>> /\ Asking(Received(c)) /\ Received(c).kind = k
    BY <1>4 DEF Requests, Readable, Asking
  <2>2. ~Quiet(c) /\ \A m : Asked(c, m) => Received(c) = m
    BY <1>4, <2>1, AskedHead
  <2>. QED
    BY <1>1, <1>a, <2>1, <2>2 DEF Conversing, InLogin, InSelect, InList, InSent, InPlay, Unanswered, Answered
<1>5. ASSUME RecvOne(c), NEW k \in {"requestCharacters", "characterSelect"}, Requests(c, k)
      PROVE  toPeer[c] = <<>> /\ Quiet(c)'
  <2>1. toServer[c] # <<>> /\ Asking(Received(c))
    BY <1>5 DEF Requests, Readable, Asking
  <2>2. ~Quiet(c) /\ \A m : Asked(c, m) => Quiet(c)'
    BY <1>5, <2>1, AskedHead
  <2>. QED
    BY <1>1, <2>2 DEF Conversing, InLogin, InSelect, InList, InSent, InPlay, Unanswered, Answered
<1>6. CASE processCharacterRequest(c)
  <2>. DEFINE r == [kind |-> "characters", characters |-> CharactersOf(c)]
  <2>1. InList(u, c) /\ toPeer[c] = <<>> /\ Quiet(c)'
    BY <1>4, <1>5, <1>6 DEF processCharacterRequest
  <2>2. Send(c, r, TRUE) /\ UNCHANGED <<link, user, character>>
    BY <1>0, <1>6 DEF processCharacterRequest, sessionVars
  <2>3. toPeer'[c] = Append(toPeer[c], r) /\ toPeer'[c] = <<r>>
    <3>1. toPeer'[c] = Append(toPeer[c], r)
      BY <1>0, <2>2, Delivered
    <3>. QED
      BY <2>1, <3>1, AppendOne
  <2>4. r' = r
    BY <2>2 DEF CharactersOf, Owned
  <2>5. InList(u, c)'
    BY <2>1, <2>3, <2>4 DEF InList, Answered, ClientStill
  <2>6. Conversing(u, c)'
    BY <1>1, <2>2, <2>5 DEF Conversing, Owned, ClientStill
  <2>. QED
    BY <1>0, <1>2, <2>2, <2>3, <2>6
<1>7. CASE processCharacterSelect(c)
  <2>. DEFINE ch == Received(c).character
  <2>1. InSent(u, c) /\ toPeer[c] = <<>> /\ Quiet(c)' /\ Received(c) = Selection(u)
    BY <1>4, <1>5, <1>7 DEF processCharacterSelect
  <2>2. ch = currentCharacter[u]
    BY <1>a, <2>1
  <2>3. UNCHANGED user
    BY <1>7 DEF processCharacterSelect
  <2>4. gameState'[u] = "MAP_SERVER_CONNECT" /\ (currentCharacter[u] # None => Owned(c, currentCharacter[u])')
    BY <1>1, <2>1, <2>3 DEF InSent, Conversing, ClientStill, Owned
  <2>5. ASSUME NEW r, toPeer'[c] = Append(toPeer[c], r), link' = link,
               r.kind = "instructions" => character'[c] = currentCharacter[u]
        PROVE  TalkOn(u, c)'
    <3>1. toPeer'[c] = <<r>>
      BY <2>1, <2>5, AppendOne
    <3>2. InSent(u, c)'
      BY <2>1, <2>4, <2>5, <3>1 DEF InSent, Answered, ClientStill
    <3>3. Conversing(u, c)'
      BY <2>4, <3>2 DEF Conversing, ClientStill
    <3>. QED
      BY <1>0, <1>2, <2>5, <3>3
  <2>6. CASE MalformedSelection(c)
    <3>1. toPeer'[c] = Append(toPeer[c], Plain("malformed")) /\ link' = link
      BY <1>0, <2>6, Delivered DEF MalformedSelection, SendAnyhow, Plain
    <3>2. Plain("malformed").kind # "instructions"
      BY DEF Plain
    <3>. QED
      BY <2>5, <3>1, <3>2
  <2>7. CASE ForeignCharacter(c)
    BY <1>1, <2>2, <2>7 DEF ForeignCharacter, Conversing
  <2>8. CASE MapUnavailable(c, ch)
    <3>1. toPeer'[c] = Append(toPeer[c], Plain("noMapServer")) /\ link' = link
      BY <1>0, <2>8, Delivered DEF MapUnavailable, SendAnyhow, Plain
    <3>2. Plain("noMapServer").kind # "instructions"
      BY DEF Plain
    <3>. QED
      BY <2>5, <3>1, <3>2
  <2>9. CASE SendToMapServer(c, ch)
    <3>1. PICK ok \in BOOLEAN, server \in Conns :
             /\ Send(c, [kind |-> "instructions", server |-> server], ok)
             /\ character' = IF ok THEN [character EXCEPT ![c] = ch] ELSE character
      BY <2>9 DEF SendToMapServer
    <3>2. ok /\ toPeer'[c] = Append(toPeer[c], [kind |-> "instructions", server |-> server])
      BY <1>0, <3>1, Delivered
    <3>3. character'[c] = currentCharacter[u]
      BY <2>2, <3>1, <3>2 DEF Inv, TypeOK
    <3>4. link' = link
      BY <2>9 DEF SendToMapServer
    <3>. QED
      BY <2>5, <3>2, <3>3, <3>4
  <2>10. CASE ReadFreedServer(c, ch)
    <3>1. UNCHANGED <<link, toPeer>>
      BY <2>10 DEF ReadFreedServer
    <3>2. InSent(u, c)'
      BY <2>1, <2>4, <3>1 DEF InSent
    <3>3. Conversing(u, c)'
      BY <2>4, <3>2 DEF Conversing, ClientStill
    <3>. QED
      BY <1>0, <1>2, <3>1, <3>3
  <2>. QED
    BY <1>7, <2>6, <2>7, <2>8, <2>9, <2>10 DEF processCharacterSelect
<1>8. ~OpcodeMissing(c) /\ ~DisconnectNoticed(c)
  BY <1>0 DEF OpcodeMissing, Serves, HasActivity, DisconnectNoticed
<1>9. CASE ReapSession(c)
  <2>1. link'[c] = "none" /\ UNCHANGED toPeer
    BY <1>9 DEF ReapSession, DestroySockets
  <2>2. ~crypto[u] => toPeer[c] # <<>> /\ Head(toPeer[c]).kind = "challenge"
    BY <1>0 DEF TalkOn, Unchallenged
  <2>. QED
    BY <2>1, <2>2 DEF TalkOn, Unchallenged, ClientStill
<1>. QED
  BY <1>3, <1>6, <1>7, <1>8, <1>9 DEF processSession

LEMMA StepOnTalk ==
    ASSUME WorldInv, NEW u \in Clients, NEW c \in Conns, line[u] = c, TalkOn(u, c), Progress(u), LoginServerStep
    PROVE  TalkOn(u, c)'
<1>. USE DEF WorldInv
<1>0. ClientStill(u)
  BY DEF LoginServerStep, programVars, clientVars, ClientStill
<1>1. CASE initDB \/ AcceptorFails
  <2>1. ConnKept(c) /\ DataKept(c)
    BY <1>1 DEF initDB, AcceptorFails, ConnKept, DataKept, socketVars, entryVars, sessionVars
  <2>. QED
    BY <1>0, <2>1, TalkKept
<1>2. CASE PurgeDone
  <2>1. CASE state[c] # "DONE"
    <3>1. ConnKept(c) /\ DataKept(c)
      BY <1>2, <2>1, PurgeKeeps, PurgeData DEF DataKept
    <3>. QED
      BY <1>0, <3>1, TalkKept
  <2>2. CASE state[c] = "DONE" /\ owner[c] = "incoming"
    <3>1. link'[c] = "none" /\ toPeer'[c] = toPeer[c]
      BY <1>2, <2>2, PurgeKeeps
    <3>. QED
      BY <1>0, <2>2, <3>1 DEF TalkOn, Unchallenged, ClientStill
  <2>3. CASE state[c] = "DONE" /\ owner[c] # "incoming"
    <3>1. /\ link'[c] = link[c] /\ toServer'[c] = toServer[c] /\ toPeer'[c] = toPeer[c]
          /\ DataKept(c)
      BY <1>2, <2>3, PurgeKeeps, PurgeData DEF DataKept
    <3>2. Conversing(u, c) => Conversing(u, c)'
      BY <1>0, <3>1 DEF Conversing, InLogin, InSelect, InList, InSent, InPlay, Quiet, Asked, Unanswered, Answered,
         Selection, CharactersOf, Owned, DataKept, ClientStill
    <3>. QED
      BY <1>0, <2>3, <3>1, <3>2 DEF TalkOn, Unchallenged, ClientStill
  <2>. QED
    BY <2>1, <2>2, <2>3
<1>3. ASSUME NEW d \in Conns, processConnection(d) PROVE TalkOn(u, c)'
  BY <1>0, <1>3, ConnectionKeeps, ConnectionData, TalkKept, IncomingTalk
<1>4. ASSUME NEW d \in Conns, processSession(d) PROVE TalkOn(u, c)'
  BY <1>0, <1>4, SessionKeeps, SessionData, TalkKept, SessionTalk
<1>. QED
  BY <1>1, <1>2, <1>3, <1>4 DEF LoginServerStep, processIncoming, processConnected

-----------------------------------------------------------------------------
(* A step of a client. *)

\* Of its connection a client changes what waits at either end, no more.
LineKept(u, c) == line[u] = c /\ UNCHANGED <<link, owner, state, told, user, character>>

LEMMA SilentOn ==
    ASSUME NEW u \in Clients, NEW c \in Conns, line[u] = c, Silent
    PROVE  LineKept(u, c) /\ UNCHANGED toServer
BY DEF Silent, serverVars, entryVars, sessionVars, LineKept

LEMMA TellOn ==
    ASSUME Inv, NEW u \in Clients, NEW c \in Conns, line[u] = c, NEW m, Tell(u, m)
    PROVE  LineKept(u, c) /\ (link[c] = "up" => toServer'[c] = Append(toServer[c], m))
BY DEF Tell, serverVars, entryVars, sessionVars, LineKept, Inv, TypeOK

LEMMA IdentityOn ==
    ASSUME Inv, NEW u \in Clients, NEW c \in Conns, line[u] = c, SendIdentity(u)
    PROVE  LineKept(u, c) /\ (link[c] = "up" /\ Quiet(c) => Quiet(c)')
<1>. DEFINE m == [kind |-> "identity", user |-> username[u], right |-> username[u] \in PasswordTesta]
<1>1. LineKept(u, c) /\ (link[c] = "up" => toServer'[c] = Append(toServer[c], m))
  BY TellOn DEF SendIdentity
<1>2. ~Asking(m)
  BY DEF Asking
<1>. QED
  BY <1>1, <1>2, SaidLast

LEMMA TakenOn ==
    ASSUME Inv, NEW u \in Clients, NEW c \in Conns, line[u] = c, TakeAll(u)
    PROVE  toPeer'[c] = <<>>
BY DEF TakeAll, Inv, TypeOK

\* Once the client has the key, only the phases are left to show.
LEMMA TalkGoesOn ==
    ASSUME NEW u \in Clients, NEW c \in Conns, TalkOn(u, c), LineKept(u, c), crypto'[u],
           link[c] = "up" => Conversing(u, c)'
    PROVE  TalkOn(u, c)'
BY DEF TalkOn, LineKept

LEMMA LoginTalk ==
    ASSUME WorldInv, NEW u \in Clients, NEW c \in Conns, line[u] = c, line'[u] = c, TalkOn(u, c), Progress(u),
           doLogin(u)
    PROVE  TalkOn(u, c)'
<1>. USE DEF WorldInv
<1>0. /\ line \in [Programs -> Conns \cup {None}] /\ u \in Programs /\ None \notin Conns
      /\ gameState \in [Clients -> GameState \cup {"CRASHED", "CLOSED"}] /\ crypto \in [Clients -> BOOLEAN]
      /\ wait \in [Clients -> {"none", "challenge", "answer", "characters"}]
  BY ClientsAssumption, NoneIsNobody DEF WorldTypeOK
<1>1. gameState[u] = "LOGIN" /\ currentCharacter[u] = None /\ UNCHANGED currentCharacter
  BY DEF doLogin, Connect, LoginAgain, GiveUpWaiting, ClientChallenge, ReceiveAnswer, Idle, WorldTypeOK, Progress
<1>2. ASSUME link[c] = "up"
      PROVE  Quiet(c) /\ \A i \in 1..Len(toPeer[c]) : toPeer[c][i].kind \in {"challenge", "response"}
  BY <1>1, <1>2 DEF TalkOn, Conversing, InLogin, InSelect, InList, InSent, InPlay
<1>3. ASSUME gameState'[u] = "LOGIN", link[c] = "up" => Quiet(c)', toPeer'[c] \in {toPeer[c], <<>>}
      PROVE  link[c] = "up" => Conversing(u, c)'
  BY <1>1, <1>2, <1>3 DEF Conversing, InLogin
<1>4. ~HangUp(u) /\ (MayNoticeEnd(u) => UNCHANGED line)
  BY <1>0 DEF HangUp, MayNoticeEnd
<1>5. CASE Connect(u)
  BY <1>0, <1>5 DEF Connect, Linked
<1>6. CASE LoginAgain(u)
  <2>1. crypto[u] /\ SendIdentity(u) /\ UNCHANGED <<toPeer, gameState, crypto>>
    BY <1>4, <1>6 DEF LoginAgain
  <2>2. LineKept(u, c) /\ (link[c] = "up" => Quiet(c)')
    BY <1>2, <2>1, IdentityOn
  <2>3. link[c] = "up" => Conversing(u, c)'
    BY <1>1, <1>3, <2>1, <2>2
  <2>. QED
    BY <2>1, <2>2, <2>3, TalkGoesOn
<1>7. CASE GiveUpWaiting(u)
  <2>1. Silent /\ UNCHANGED <<toPeer, gameState, crypto>>
    BY <1>7 DEF GiveUpWaiting
  <2>2. LineKept(u, c) /\ UNCHANGED toServer
    BY <2>1, SilentOn
  <2>3. link[c] = "up" => Conversing(u, c)'
    BY <1>1, <1>2, <1>3, <2>1, <2>2 DEF Quiet
  <2>4. Unchallenged(c) => Unchallenged(c)'
    BY <2>1, <2>2 DEF Unchallenged, LineKept
  <2>. QED
    BY <2>1, <2>2, <2>3, <2>4 DEF TalkOn, LineKept
<1>8. CASE ClientChallenge(u)
  <2>1. TakeAll(u) /\ UNCHANGED gameState /\ toPeer[c] # <<>> /\ First(u) = Head(toPeer[c])
    BY <1>8 DEF ClientChallenge, Heard, First
  <2>2. toPeer'[c] = <<>>
    BY <2>1, TakenOn
  <2>3. LineKept(u, c) /\ (link[c] = "up" => Quiet(c)')
    <3>1. CASE Silent
      BY <1>2, <3>1, SilentOn DEF Quiet
    <3>2. CASE SendIdentity(u)
      BY <1>2, <3>2, IdentityOn
    <3>3. CASE Tell(u, Plain("versionMismatch"))
      <4>1. ~Asking(Plain("versionMismatch"))
        BY DEF Asking, Plain
      <4>. QED
        BY <1>2, <3>3, <4>1, TellOn, SaidLast
    <3>. QED
      BY <1>8, <3>1, <3>2, <3>3 DEF ClientChallenge, AnswerChallenge, Plain
  <2>4. crypto'[u]
    <3>1. CASE crypto[u]
      <4>1. UNCHANGED crypto \/ crypto' = [crypto EXCEPT ![u] = TRUE]
        BY <1>8 DEF ClientChallenge
      <4>. QED
        BY <1>0, <3>1, <4>1
    <3>2. CASE ~crypto[u]
      <4>1. First(u).kind = "challenge"
        BY <2>1, <3>2 DEF TalkOn, Unchallenged
      <4>2. crypto' = [crypto EXCEPT ![u] = TRUE]
        BY <1>8, <4>1 DEF ClientChallenge
      <4>. QED
        BY <1>0, <4>2
    <3>. QED
      BY <3>1, <3>2
  <2>5. link[c] = "up" => Conversing(u, c)'
    BY <1>1, <1>3, <2>1, <2>2, <2>3
  <2>. QED
    BY <2>3, <2>4, <2>5, TalkGoesOn
<1>9. CASE ReceiveAnswer(u)
  <2>1. TakeAll(u) /\ Silent /\ UNCHANGED crypto /\ crypto[u] /\ Await(u, "none")
    BY <1>4, <1>9 DEF ReceiveAnswer, WorldTypeOK
  <2>2. toPeer'[c] = <<>> /\ LineKept(u, c) /\ UNCHANGED toServer
    BY <2>1, TakenOn, SilentOn
  <2>3. ASSUME link[c] = "up" PROVE Quiet(c)'
    BY <1>2, <2>2, <2>3 DEF Quiet
  <2>4. CASE UNCHANGED gameState
    <3>1. link[c] = "up" => Conversing(u, c)'
      BY <1>1, <1>3, <2>2, <2>3, <2>4
    <3>. QED
      BY <2>1, <2>2, <3>1, TalkGoesOn
  <2>5. CASE Move(u, "CHARACTER_SELECT")
    <3>1. gameState'[u] = "CHARACTER_SELECT" /\ wait'[u] = "none"
      BY <1>0, <2>1, <2>5 DEF Move, Await
    <3>2. link[c] = "up" => Conversing(u, c)'
      BY <1>1, <2>2, <2>3, <3>1 DEF Conversing, InSelect
    <3>. QED
      BY <2>1, <2>2, <3>2, TalkGoesOn
  <2>. QED
    BY <1>9, <2>4, <2>5 DEF ReceiveAnswer
<1>. QED
  BY <1>5, <1>6, <1>7, <1>8, <1>9 DEF doLogin

LEMMA CharacterTalk ==
    ASSUME WorldInv, NEW u \in Clients, NEW c \in Conns, line[u] = c, line'[u] = c, TalkOn(u, c), Progress(u),
           RequestCharacters(u) \/ CharactersMissing(u) \/ ReceiveCharacters(u) \/ ReceiveInstructions(u)
    PROVE  TalkOn(u, c)'
<1>. USE DEF WorldInv
<1>0. /\ gameState \in [Clients -> GameState \cup {"CRASHED", "CLOSED"}]
      /\ wait \in [Clients -> {"none", "challenge", "answer", "characters"}]
      /\ currentCharacter \in [Clients -> Characters \cup {None}]
  BY DEF WorldTypeOK
<1>1. gameState[u] \in {"CHARACTER_SELECT", "MAP_SERVER_CONNECT"} /\ crypto'[u]
  BY DEF RequestCharacters, CharactersMissing, ReceiveCharacters, ReceiveInstructions, Idle, WorldTypeOK,
     Progress, Past
<1>2. ASSUME link[c] = "up" PROVE Conversing(u, c)
  BY <1>2 DEF TalkOn
<1>3. CASE RequestCharacters(u)
  <2>1. /\ gameState[u] = "CHARACTER_SELECT" /\ wait[u] = "none" /\ Tell(u, Plain("requestCharacters"))
        /\ UNCHANGED <<toPeer, gameState, currentCharacter>> /\ wait'[u] = "characters"
    <3>1. Linked(u)
      BY NoneIsNobody DEF Linked
    <3>. QED
      BY <1>0, <1>3, <3>1 DEF RequestCharacters, Idle, Plain, Await
  <2>2. LineKept(u, c) /\ (link[c] = "up" => toServer'[c] = Append(toServer[c], Plain("requestCharacters")))
    BY <2>1, TellOn
  <2>3. ASSUME link[c] = "up" PROVE Conversing(u, c)'
    <3>1. InSelect(u, c)
      BY <1>2, <2>1, <2>3 DEF Conversing, InLogin, InSelect, InList, InSent, InPlay
    <3>2. Asked(c, Plain("requestCharacters"))'
      BY <2>2, <2>3, <3>1, SaidLast DEF InSelect
    <3>3. InList(u, c)'
      BY <2>1, <3>1, <3>2 DEF InSelect, InList, Unanswered
    <3>. QED
      BY <1>2, <2>1, <2>2, <2>3, <3>3 DEF Conversing, LineKept, Owned
  <2>. QED
    BY <1>1, <2>2, <2>3, TalkGoesOn
<1>4. CASE CharactersMissing(u)
  <2>1. Silent /\ link[c] # "up"
    BY <1>4 DEF CharactersMissing, Ended
  <2>. QED
    BY <1>1, <2>1, SilentOn, TalkGoesOn
<1>5. CASE ReceiveCharacters(u)
  <2>. DEFINE m == First(u)
  <2>1. wait[u] = "characters" /\ toPeer[c] # <<>> /\ m = Head(toPeer[c]) /\ TakeAll(u) /\ wait'[u] = "none"
        /\ gameState[u] = "CHARACTER_SELECT"
    BY <1>0, <1>5 DEF ReceiveCharacters, Heard, First, Await, WorldTypeOK
  <2>2. toPeer'[c] = <<>>
    BY <2>1, TakenOn
  <2>3. ASSUME link[c] = "up" PROVE Quiet(c) /\ m = [kind |-> "characters", characters |-> CharactersOf(c)]
    BY <1>2, <2>1, <2>3, HeadOfOne DEF Conversing, InLogin, InSelect, InList, InSent, InPlay, Unanswered, Answered
  <2>4. CASE m.kind = "characters" /\ SelectCharacter(u)
    <3>1. PICK ch \in m.characters :
             /\ currentCharacter' = [currentCharacter EXCEPT ![u] = ch]
             /\ Tell(u, [kind |-> "characterSelect", character |-> ch])
             /\ Move(u, "MAP_SERVER_CONNECT")
      BY <2>4 DEF SelectCharacter
    <3>. DEFINE sel == [kind |-> "characterSelect", character |-> ch]
    <3>2. currentCharacter'[u] = ch /\ gameState'[u] = "MAP_SERVER_CONNECT" /\ Selection(u)' = sel
      BY <1>0, <3>1 DEF Move, Selection
    <3>3. LineKept(u, c) /\ (link[c] = "up" => toServer'[c] = Append(toServer[c], sel))
      BY <3>1, TellOn
    <3>. HIDE DEF sel
    <3>4. ASSUME link[c] = "up" PROVE Conversing(u, c)'
      <4>1. Asked(c, sel)'
        BY <2>3, <3>3, <3>4, SaidLast
      <4>2. InSent(u, c)'
        BY <2>2, <3>2, <4>1 DEF InSent, Unanswered, Asked
      <4>3. Owned(c, ch)
        BY <2>3, <3>1, <3>4 DEF CharactersOf
      <4>. QED
        BY <3>2, <3>3, <4>2, <4>3 DEF Conversing, Owned, LineKept
    <3>. QED
      BY <1>1, <3>3, <3>4, TalkGoesOn
  <2>5. CASE Silent /\ UNCHANGED <<gameState, currentCharacter>>
    <3>1. LineKept(u, c) /\ UNCHANGED toServer
      BY <2>5, SilentOn
    <3>2. ASSUME link[c] = "up" PROVE Conversing(u, c)'
      BY <1>2, <2>1, <2>2, <2>3, <2>5, <3>1, <3>2 DEF Conversing, InSelect, Quiet, LineKept, Owned
    <3>. QED
      BY <1>1, <3>1, <3>2, TalkGoesOn
  <2>. QED
    BY <1>5, <2>4, <2>5 DEF ReceiveCharacters
<1>6. CASE ReceiveInstructions(u)
  <2>1. /\ gameState[u] = "MAP_SERVER_CONNECT" /\ wait[u] = "none" /\ toPeer[c] # <<>> /\ TakeAll(u) /\ Silent
        /\ UNCHANGED <<wait, currentCharacter>>
        /\ gameState'[u] = IF Head(toPeer[c]).kind = "instructions" THEN "PLAYING" ELSE "CHARACTER_SELECT"
    BY <1>0, <1>6 DEF ReceiveInstructions, Heard, First, Instructed, Move, WorldTypeOK
  <2>2. toPeer'[c] = <<>> /\ LineKept(u, c) /\ UNCHANGED toServer
    BY <2>1, TakenOn, SilentOn
  <2>3. ASSUME link[c] = "up" PROVE Conversing(u, c)'
    <3>1. Quiet(c) /\ (Head(toPeer[c]).kind = "instructions" => character[c] = currentCharacter[u])
      BY <1>2, <2>1, <2>3, HeadOfOne DEF Conversing, InLogin, InSelect, InList, InSent, InPlay, Unanswered, Answered
    <3>2. Quiet(c)'
      BY <2>2, <3>1 DEF Quiet
    <3>3. InPlay(u, c)' \/ InSelect(u, c)'
      BY <2>1, <2>2, <3>1, <3>2 DEF InPlay, InSelect, LineKept
    <3>. QED
      BY <1>2, <2>1, <2>2, <2>3, <3>3 DEF Conversing, Owned, LineKept
  <2>. QED
    BY <1>1, <2>2, <2>3, TalkGoesOn
<1>. QED
  BY <1>3, <1>4, <1>5, <1>6

LEMMA ClientTalk ==
    ASSUME WorldInv, NEW u \in Clients, NEW c \in Conns, line[u] = c => TalkOn(u, c), Progress(u),
           render(u), line'[u] = c
    PROVE  TalkOn(u, c)'
<1>. USE DEF WorldInv
<1>0. /\ line \in [Programs -> Conns \cup {None}] /\ u \in Programs /\ None \notin Conns
      /\ gameState \in [Clients -> GameState \cup {"CRASHED", "CLOSED"}]
  BY ClientsAssumption, NoneIsNobody DEF WorldTypeOK
<1>1. CASE Connect(u)
  <2>1. AcceptConnection(c) /\ gameState[u] = "LOGIN" /\ UNCHANGED <<gameState, currentCharacter>>
    BY <1>0, <1>1 DEF Connect, Dial, Idle
  <2>2. toServer[c] = <<>> /\ told[c] = Nothing
    BY <2>1 DEF AcceptConnection, Inv, SocketPresent, NothingLeft
  <2>3. /\ link'[c] = "up" /\ toServer'[c] = <<>> /\ toPeer'[c] = <<>> /\ told'[c] = Nothing
        /\ state'[c] = "FRESH"
    BY <2>1, <2>2 DEF AcceptConnection, OpenSocket, Inv, TypeOK
  <2>4. Conversing(u, c)' /\ Unchallenged(c)'
    BY <2>1, <2>3 DEF Conversing, InLogin, Quiet, Unchallenged, Progress
  <2>. QED
    BY <2>3, <2>4 DEF TalkOn
<1>2. CASE PressOne(u)
  <2>1. UNCHANGED <<line, toPeer, gameState, wait, crypto, currentCharacter>> /\ Silent
    BY <1>2 DEF PressOne
  <2>2. ConnKept(c) /\ DataKept(c) /\ ClientStill(u)
    BY <2>1 DEF Silent, serverVars, entryVars, sessionVars, ConnKept, DataKept, ClientStill
  <2>. QED
    BY <2>1, <2>2, TalkKept
<1>3. CASE Quit(u)
  BY <1>0, <1>3 DEF Quit, HangUp, Linked
<1>4. CASE ~Connect(u) /\ ~PressOne(u) /\ ~Quit(u)
  <2>1. line[u] = c
    BY <1>0, <1>4 DEF render, doLogin, LoginAgain, GiveUpWaiting, ClientChallenge, ReceiveAnswer, RequestCharacters,
       CharactersMissing, ReceiveCharacters, ReceiveInstructions, MayNoticeEnd, HangUp
  <2>. QED
    BY <1>4, <2>1, LoginTalk, CharacterTalk DEF render
<1>. QED
  BY <1>1, <1>2, <1>3, <1>4

\* Nobody is past the login without the key, or has selected a character before.
LEMMA ClientProgress ==
    ASSUME WorldTypeOK, NEW u \in Clients, Progress(u), render(u)
    PROVE  Progress(u)'
<1>. USE DEF WorldTypeOK, Progress, Past, GameState
<1>1. CASE PressOne(u) \/ Connect(u) \/ GiveUpWaiting(u) \/ RequestCharacters(u) \/ CharactersMissing(u)
  BY <1>1 DEF PressOne, Connect, GiveUpWaiting, RequestCharacters, CharactersMissing
<1>2. CASE LoginAgain(u)
  BY <1>2 DEF LoginAgain, Move, Idle
<1>3. CASE ClientChallenge(u)
  <2>1. gameState[u] = "LOGIN" /\ UNCHANGED <<gameState, currentCharacter>>
    BY <1>3 DEF ClientChallenge
  <2>. QED
    BY <2>1
<1>4. CASE ReceiveAnswer(u)
  <2>1. crypto[u] /\ UNCHANGED <<crypto, currentCharacter>> /\ (UNCHANGED gameState \/ Move(u, "CHARACTER_SELECT"))
    BY <1>4 DEF ReceiveAnswer
  <2>. QED
    BY <2>1 DEF Move
<1>5. CASE ReceiveCharacters(u)
  <2>1. crypto[u] /\ UNCHANGED crypto /\ (UNCHANGED <<gameState, currentCharacter>> \/ Move(u, "MAP_SERVER_CONNECT"))
    BY <1>5 DEF ReceiveCharacters, SelectCharacter
  <2>. QED
    BY <2>1 DEF Move
<1>6. CASE ReceiveInstructions(u)
  BY <1>6 DEF ReceiveInstructions, Move, Instructed
<1>7. CASE Quit(u)
  BY <1>7 DEF Quit, Move
<1>. QED
  BY <1>1, <1>2, <1>3, <1>4, <1>5, <1>6, <1>7 DEF render, doLogin

LEMMA ClientsStill ==
    ASSUME WorldTypeOK, NEW u \in Clients, NEW v \in Clients \ {u}, render(u)
    PROVE  ClientStill(v)
<1>1. UNCHANGED gameState \/ \E s : Move(u, s)
  BY DEF render, doLogin, PressOne, Connect, LoginAgain, GiveUpWaiting, ClientChallenge, ReceiveAnswer,
     RequestCharacters, CharactersMissing, ReceiveCharacters, SelectCharacter, ReceiveInstructions, Quit
<1>2. UNCHANGED wait \/ \E w : Await(u, w)
  BY DEF render, doLogin, PressOne, Connect, LoginAgain, GiveUpWaiting, ClientChallenge, AnswerChallenge,
     ReceiveAnswer, RequestCharacters, CharactersMissing, ReceiveCharacters, ReceiveInstructions, Quit
<1>3. UNCHANGED crypto \/ crypto' = [crypto EXCEPT ![u] = TRUE]
  BY DEF render, doLogin, PressOne, Connect, LoginAgain, GiveUpWaiting, ClientChallenge,
     ReceiveAnswer, RequestCharacters, CharactersMissing, ReceiveCharacters, ReceiveInstructions, Quit
<1>4. UNCHANGED currentCharacter \/ \E ch : currentCharacter' = [currentCharacter EXCEPT ![u] = ch]
  BY DEF render, doLogin, PressOne, Connect, LoginAgain, GiveUpWaiting, ClientChallenge,
     ReceiveAnswer, RequestCharacters, CharactersMissing, ReceiveCharacters, SelectCharacter,
     ReceiveInstructions, Quit
<1>5. gameState'[v] = gameState[v] /\ wait'[v] = wait[v] /\ currentCharacter'[v] = currentCharacter[v]
  BY <1>1, <1>2, <1>4 DEF Move, Await, WorldTypeOK
<1>6. crypto'[v] = crypto[v]
  <2>1. crypto \in [Clients -> BOOLEAN]
    BY DEF WorldTypeOK
  <2>. QED
    BY <1>3, <2>1, Zenon
<1>. QED
  BY <1>5, <1>6 DEF ClientStill

-----------------------------------------------------------------------------

LEMMA TalkStart == WorldInit => TalkInv
<1>. SUFFICES ASSUME WorldInit PROVE TalkInv
  OBVIOUS
<1>. USE DEF WorldInit, InitPeers, InitClients
<1>1. \A u \in Clients : Progress(u) /\ line[u] = None
  BY ClientsAssumption DEF Progress, Past
<1>. QED
  BY <1>1, NoneIsNobody DEF TalkInv

LEMMA TalkStepKeeps == WorldInv /\ TalkInv /\ [WorldNext]_worldVars => TalkInv'
<1>. SUFFICES ASSUME WorldInv, TalkInv, [WorldNext]_worldVars PROVE TalkInv'
  OBVIOUS
<1>. USE DEF TalkInv
<1>0. Lines /\ Inv /\ WorldTypeOK /\ MapServers \subseteq Programs /\ Clients \subseteq Programs
      /\ MapServers \cap Clients = {}
  BY LinesTyped, MapServersAssumption, ClientsAssumption, WorldAssumption DEF WorldInv
<1>1. CASE LoginServerStep
  <2>1. UNCHANGED programVars
    BY <1>1 DEF LoginServerStep
  <2>2. \A u \in Clients : Progress(u)'
    BY <2>1 DEF programVars, clientVars, Progress, Past
  <2>3. \A u \in Clients, c \in Conns : (line[u] = c => TalkOn(u, c))'
    BY <1>1, <2>1, StepOnTalk DEF programVars
  <2>. QED
    BY <2>2, <2>3
<1>2. ASSUME NEW u \in Clients, ClientStill(u), NEW x \in Programs \ {u}, ProgramStep(x)
      PROVE  Progress(u)' /\ \A c \in Conns : (line[u] = c => TalkOn(u, c))'
  <2>1. Progress(u)'
    BY <1>2 DEF ClientStill, Progress, Past
  <2>2. ASSUME NEW c \in Conns, line'[u] = c PROVE TalkOn(u, c)'
    <3>1. line[u] = c /\ ConnKept(c)
      BY <1>0, <1>2, <2>2, ProgramStepKeeps, NoneIsNobody DEF Linked
    <3>2. DataKept(c)
      BY <1>2, ProgramData DEF DataKept
    <3>. QED
      BY <1>2, <3>1, <3>2, TalkKept
  <2>. QED
    BY <2>1, <2>2
<1>3. ASSUME NEW p \in MapServers, RunMapServer(p), UNCHANGED <<build, clientVars>> PROVE TalkInv'
  <2>1. ProgramStep(p)
    BY <1>0, <1>3, MapServerProgram DEF WorldInv
  <2>2. \A u \in Clients : ClientStill(u) /\ p \in Programs \ {u}
    BY <1>0, <1>3 DEF ClientStill, clientVars
  <2>. QED
    BY <1>2, <2>1, <2>2
<1>4. ASSUME NEW u \in Clients, render(u) PROVE TalkInv'
  <2>1. ProgramStep(u)
    BY <1>0, <1>4, ClientProgram DEF WorldInv
  <2>2. \A v \in Clients \ {u} : Progress(v)' /\ \A c \in Conns : (line[v] = c => TalkOn(v, c))'
    BY <1>0, <1>2, <1>4, <2>1, ClientsStill
  <2>3. Progress(u)' /\ \A c \in Conns : (line[u] = c => TalkOn(u, c))'
    BY <1>0, <1>4, ClientProgress, ClientTalk
  <2>. QED
    BY <2>2, <2>3
<1>5. CASE UNCHANGED worldVars
  <2>1. UNCHANGED <<line, gameState, wait, crypto, currentCharacter, vars>>
    BY <1>5 DEF worldVars, programVars, clientVars
  <2>2. \A u \in Clients, c \in Conns : ConnKept(c) /\ DataKept(c) /\ ClientStill(u)
    BY <2>1 DEF vars, socketVars, entryVars, sessionVars, ConnKept, DataKept, ClientStill
  <2>3. \A u \in Clients : Progress(u)'
    BY <2>1 DEF Progress, Past
  <2>. QED
    BY <2>1, <2>2, <2>3, TalkKept
<1>. QED
  BY <1>1, <1>3, <1>4, <1>5 DEF WorldNext, MapServerStep, ClientStep

LEMMA TalkInvCorrect == WorldSpec => [](WorldInv /\ TalkInv)
<1>1. WorldInit => WorldInv /\ TalkInv
  BY WorldStart, TalkStart
<1>2. WorldInv /\ TalkInv /\ [WorldNext]_worldVars => (WorldInv /\ TalkInv)'
  BY WorldStepKeeps, TalkStepKeeps
<1>. QED
  BY <1>1, <1>2, PTL DEF WorldSpec

\* What a client has that has a session.
LEMMA InSession ==
    ASSUME WorldInv, TalkInv, NEW u \in Clients, Linked(u), owner[line[u]] = "session"
    PROVE  line[u] \in Conns /\ link[line[u]] = "up" /\ Conversing(u, line[u])
<1>1. line[u] \in Conns
  BY LinesTyped, LineOfProgram, ClientsAssumption DEF WorldInv
<1>2. link[line[u]] = "up"
  BY <1>1 DEF TalkInv, TalkOn, WorldInv, Inv, TypeOK, Links, SocketPresent
<1>. QED
  BY <1>1, <1>2 DEF TalkInv, TalkOn

\* A client only ever selects a character of the user its session belongs to, whatever
\* names it sent before and however late it is answered; it is never dropped for it.
THEOREM ChoosesOwnCorrect == WorldSpec => []ChoosesOwn
<1>1. WorldInv /\ TalkInv => ChoosesOwn
  BY InSession DEF ChoosesOwn, Conversing, Owned
<1>. QED
  BY <1>1, TalkInvCorrect, PTL

\* A client that plays does so with the character that the login server has recorded for
\* its session: no reply to anything else is taken for its instructions.
THEOREM PlayingAgreedCorrect == WorldSpec => []PlayingAgreed
<1>1. WorldInv /\ TalkInv => PlayingAgreed
  BY InSession DEF PlayingAgreed, Conversing, InLogin, InSelect, InList, InSent, InPlay
<1>. QED
  BY <1>1, TalkInvCorrect, PTL

\* The client dies of a missing key only where the challenge has not been read: nothing
\* that comes before or after it can be taken in its place.
THEOREM CrashUnchallengedCorrect == WorldSpec => CrashUnchallenged
<1>1. ASSUME WorldInv, TalkInv, [WorldNext]_worldVars, NEW u \in Clients,
             gameState[u] # "CRASHED", gameState'[u] = "CRASHED"
      PROVE  IF Heard(u) THEN First(u).kind = "challenge" ELSE told[line[u]] = Nothing
  <2>1. PICK v \in Clients : render(v)
    BY <1>1 DEF WorldNext, LoginServerStep, MapServerStep, ClientStep, programVars, clientVars, worldVars
  <2>2. WorldTypeOK /\ v = u
    BY <1>1, <2>1, ClientsStill DEF WorldInv, ClientStill
  <2>3. LoginAgain(u) /\ ~crypto[u] /\ Linked(u)
    BY <1>1, <2>1, <2>2 DEF render, doLogin, PressOne, Connect, LoginAgain, GiveUpWaiting, ClientChallenge,
       ReceiveAnswer, RequestCharacters, CharactersMissing, ReceiveCharacters, SelectCharacter,
       ReceiveInstructions, Instructed, Quit, Move, WorldTypeOK
  <2>4. line[u] \in Conns
    BY <2>2, <2>3, LinesTyped, LineOfProgram, ClientsAssumption
  <2>5. Unchallenged(line[u])
    BY <1>1, <2>3, <2>4 DEF TalkInv, TalkOn
  <2>. QED
    BY <2>3, <2>5 DEF Unchallenged, Heard, First
<1>2. WorldInv /\ TalkInv /\ [WorldNext]_worldVars =>
        \A u \in Clients : gameState[u] # "CRASHED" /\ gameState'[u] = "CRASHED" =>
            IF Heard(u) THEN First(u).kind = "challenge" ELSE told[line[u]] = Nothing
  BY <1>1
<1>. QED
  BY <1>2, TalkInvCorrect, PTL DEF WorldSpec, CrashUnchallenged

-----------------------------------------------------------------------------
(* What the login server takes for the acknowledgement of a map server.    *)

AckFirst(c) == state[c] = "MAP_WAIT_ACK" /\ toServer[c] # <<>> => Received(c).kind = "ack"

LEMMA AwaitsNothing ==
    ASSUME Inv, NEW c \in Conns, processConnection(c), state'[c] = "MAP_WAIT_ACK"
    PROVE  toServer'[c] = <<>>
<1>. USE DEF Inv, TypeOK, SetState
<1>1. ASSUME NEW m, processLoginAttempt(c, m) PROVE state'[c] # "MAP_WAIT_ACK"
  BY <1>1 DEF processLoginAttempt, FailAttempt, RefuseLocked, OpenSession
<1>2. state[c] = "MAP_LIST"
  BY <1>1 DEF processConnection, DropFaulty, processFreshSocket, processChallengeSentSocket,
     processLoginFailedSocket, processMapListSocket, processMapWaitAckSocket, Visits, NothingRead, FailAttempt,
     VersionMismatch, RegisterMapServer, processMapAuthenticationRequest
<1>3. processMapListSocket(c) \/ DropFaulty(c)
  BY <1>2 DEF processConnection, processFreshSocket, processChallengeSentSocket, processLoginFailedSocket,
     processMapWaitAckSocket, Visits
<1>. QED
  BY <1>3 DEF DropFaulty, processMapListSocket, NothingRead, RecvAll

\* Only on its own line does a program send anything.
LEMMA UnheardElsewhere ==
    ASSUME Inv, Lines, NEW x \in Programs, ProgramStep(x), NEW c \in Conns, line'[x] # c
    PROVE  state'[c] = state[c] /\ toServer'[c] = toServer[c]
<1>. USE DEF Inv, TypeOK, serverVars, entryVars
<1>1. CASE Dial(x)
  BY <1>1 DEF Dial, AcceptConnection, OpenSocket, Lines
<1>2. CASE Speaks(x)
  BY <1>2 DEF Speaks, Tell
<1>3. CASE Listens(x) \/ HangUp(x) \/ Rests
  BY <1>3 DEF Listens, HangUp, Rests, Silent
<1>. QED
  BY <1>1, <1>2, <1>3 DEF ProgramStep

LEMMA AckStart == WorldInit => \A c \in Conns : AckFirst(c)
BY DEF WorldInit, InitPeers, Init, InitState, InitSockets, AckFirst

LEMMA AckNext ==
    ASSUME WorldInv, WorldInv', \A c \in Conns : AckFirst(c), [WorldNext]_worldVars, NEW c \in Conns
    PROVE  AckFirst(c)'
<1>0. Lines /\ Inv /\ MapServers \subseteq Programs /\ Clients \subseteq Programs
  BY LinesTyped, MapServersAssumption, ClientsAssumption DEF WorldInv
<1>1. ASSUME state'[c] = state[c], toServer'[c] = toServer[c] PROVE AckFirst(c)'
  BY <1>1 DEF AckFirst, Received
<1>2. CASE LoginServerStep
  <2>1. CASE initDB \/ AcceptorFails
    BY <1>1, <2>1 DEF initDB, AcceptorFails, socketVars, entryVars
  <2>2. CASE PurgeDone
    BY <1>0, <1>1, <2>2, PurgeKeeps DEF ConnKept, AckFirst
  <2>3. ASSUME NEW d \in Conns, processConnection(d) PROVE AckFirst(c)'
    BY <1>0, <1>1, <2>3, ConnectionKeeps, AwaitsNothing DEF ConnKept, AckFirst
  <2>4. ASSUME NEW d \in Conns, processSession(d) PROVE AckFirst(c)'
    BY <1>0, <1>1, <2>4, SessionKeeps, OneSession DEF ConnKept, AckFirst, Inv, SocketPresent
  <2>. QED
    BY <1>2, <2>1, <2>2, <2>3, <2>4 DEF LoginServerStep, processIncoming, processConnected
<1>3. ASSUME NEW p \in MapServers, RunMapServer(p) PROVE AckFirst(c)'
  <2>1. ProgramStep(p)
    BY <1>0, <1>3, MapServerProgram DEF WorldInv
  <2>2. CASE line'[p] = c
    <3>1. ServerOn(p, c)' /\ (state'[c] = "MAP_WAIT_ACK" => owner'[c] = "incoming" /\ link'[c] # "none")
      BY <2>2 DEF WorldInv, Inv, SocketPresent
    <3>2. state'[c] = "MAP_WAIT_ACK" => toServer'[c] = <<>> \/ toServer'[c] = <<Plain("ack")>>
      BY <3>1 DEF ServerOn, Registering, InChallenge, InRegistered, InRequired, InAccepting, InLeaving, At
    <3>. QED
      BY <3>2, HeadOfOne DEF AckFirst, Received, Plain
  <2>. QED
    BY <1>0, <1>1, <2>1, <2>2, UnheardElsewhere
<1>4. ASSUME NEW u \in Clients, render(u) PROVE AckFirst(c)'
  <2>1. ProgramStep(u)
    BY <1>0, <1>4, ClientProgram DEF WorldInv
  <2>2. CASE line'[u] = c
    BY <2>2 DEF WorldInv, ClientOn, AckFirst
  <2>. QED
    BY <1>0, <1>1, <2>1, <2>2, UnheardElsewhere
<1>5. CASE UNCHANGED worldVars
  BY <1>1, <1>5 DEF worldVars, vars, socketVars, entryVars
<1>. QED
  BY <1>2, <1>3, <1>4, <1>5 DEF WorldNext, MapServerStep, ClientStep

\* A server is registered by whatever it sends, but only if it sends something.
LEMMA RegisteredRead ==
    ASSUME Inv, [Next]_vars, NEW c \in Conns, owner[c] = "incoming", owner'[c] = "mapServer"
    PROVE  state[c] = "MAP_WAIT_ACK" /\ Readable(c)
<1>. USE DEF Inv, TypeOK
<1>1. \E d \in Conns : processConnection(d)
  BY OneSession DEF Next, ServerNext, run, initDB, AcceptConnection, AcceptorFails, processIncoming, PurgeDone,
     EraseDone, processConnected, Peer, vars
<1>2. processConnection(c)
  BY <1>1, OneEntry
<1>3. ASSUME NEW m, processLoginAttempt(c, m) PROVE owner'[c] # "mapServer"
  BY <1>3 DEF processLoginAttempt, FailAttempt, RefuseLocked, OpenSession
<1>4. processMapWaitAckSocket(c)
  BY <1>2, <1>3 DEF processConnection, DropFaulty, processFreshSocket, processChallengeSentSocket,
     processLoginFailedSocket, processMapListSocket, NothingRead, FailAttempt, VersionMismatch, RegisterMapServer
<1>. QED
  BY <1>4 DEF processMapWaitAckSocket, Visits, NothingRead

\* The login server registers a map server on anything it sends, and no map server
\* program ever sends anything there but its acknowledgement.
THEOREM RegisteredOnAckCorrect == WorldSpec => RegisteredOnAck
<1>. DEFINE AllAck == \A c \in Conns : AckFirst(c)
<1>1. WorldInit => AllAck
  BY AckStart
<1>2. WorldInv /\ WorldInv' /\ AllAck /\ [WorldNext]_worldVars => AllAck'
  BY AckNext
<1>3. ASSUME WorldInv, AllAck, [WorldNext]_worldVars,
             NEW c \in Conns, owner[c] = "incoming", owner'[c] = "mapServer"
      PROVE  Received(c).kind = "ack"
  BY <1>3, WorldStepIsSpec, RegisteredRead DEF AckFirst, Readable, WorldInv
<1>4. WorldInv /\ AllAck /\ [WorldNext]_worldVars =>
        [\A c \in Conns : owner[c] = "incoming" /\ owner'[c] = "mapServer" => Received(c).kind = "ack"]_vars
  BY <1>3
<1>. HIDE DEF AllAck
<1>. QED
  BY <1>1, <1>2, <1>4, WorldInvCorrect, PTL DEF WorldSpec, RegisteredOnAck

=============================================================================
