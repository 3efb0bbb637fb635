------------------------------ MODULE Framing ------------------------------
(***************************************************************************)
(* One direction of one connection as bytes: packets are written to the    *)
(* stream, and one of two readers looks at the socket when any number of   *)
(* them has arrived.  The reader of a handshake takes what has arrived and *)
(* decodes it from the start (processIncoming, the map server, the         *)
(* client); the reader of a session takes two bytes for the opcode and     *)
(* then what the opcode calls for (processConnected).                      *)
(***************************************************************************)
EXTENDS Packets, FiniteSetsExt

CONSTANTS
    HandshakePackets,   \* what is sent to the first reader
    SessionPackets,     \* what is sent to the second
    MaxHandshake,       \* bound: packets written to the first reader
    MaxSession,         \* bound: packets written to the second
    ReadLimit           \* of one recv()

ASSUME FramingAssumption == {MaxHandshake, MaxSession, ReadLimit} \subseteq Nat \ {0}

\* What a session handles: what the client sends from its list of characters.
SessionOpcodes == {"REQUEST_CHARACTERS", "CHARACTER_SELECT"}

\* A session is also sent the identity again, by a client that has given up the answer to
\* the first.  The object of an identity is longer than the number of any request, with
\* nothing but the names of its fields.
IsIdentity(p) ==
    /\ p.opcode = "LOGIN_AUTHENTICATION_IDENTITY"
    /\ \A opcode \in SessionOpcodes : TextLength(ToJSON(p)) > OpcodeNumber(opcode)

ASSUME SentAssumption ==
    /\ \A p \in HandshakePackets : IsPacket(p) /\ p.opcode \notin SessionOpcodes
    /\ \A p \in SessionPackets : IsPacket(p) /\ (p.opcode \in SessionOpcodes \/ IsIdentity(p))

VARIABLES
    inSession,  \* which reader the connection has
    sent,       \* the packets written so far
    stream,     \* the cells written and not read
    handled,    \* what the reader has decoded
    faulty,     \* whether the session's socket has been set to an error
    cut         \* whether a read has ended inside of what it was to take, or has taken more

vars == <<inSession, sent, stream, handled, faulty, cut>>

Init ==
    /\ inSession \in BOOLEAN
    /\ sent = <<>> /\ stream = <<>>
    /\ handled = <<>> /\ faulty = FALSE /\ cut = FALSE

Write ==
    /\ Len(sent) < IF inSession THEN MaxSession ELSE MaxHandshake
    /\ \E p \in IF inSession THEN SessionPackets ELSE HandshakePackets :
          /\ sent' = Append(sent, p)
          /\ stream' = stream \o Written(p)
    /\ UNCHANGED <<inSession, handled, faulty, cut>>

Take(n) == stream' = Rest(stream, n)

\* Where packets end in the stream, counted from what has not been read, while the reader
\* is in step: the packets that have not been handled yet, one behind the other.
EndOfNext == Len(Written(sent[Len(handled) + 1]))

\* What one recv() puts into the buffer is decoded from its start, and the rest is dropped.
ReadHandshake(arrived) ==
    LET n == Min({arrived, ReadLimit}) IN
    /\ handled' = Append(handled, Read(SubSeq(stream, 1, n)))
    /\ Take(n)
    /\ cut' = (cut \/ n # EndOfNext)
    /\ UNCHANGED faulty

\* recv(2) of less than two bytes.
OpcodeCutShort(arrived) ==
    /\ arrived = 1
    /\ Take(1)
    /\ faulty' = TRUE /\ cut' = TRUE
    /\ UNCHANGED handled

\* getShort.  With a character of a JSON text, none of which is below 32, two bytes are no
\* request.
Asks(opcode) == HasNumber(stream, 2) /\ Number(SubSeq(stream, 1, 2)) = OpcodeNumber(opcode)

RequestCharacters(arrived) ==
    /\ arrived >= 2 /\ Asks("REQUEST_CHARACTERS")
    /\ Take(2)
    /\ handled' = Append(handled, [opcode |-> "REQUEST_CHARACTERS"])
    /\ UNCHANGED <<faulty, cut>>

\* MUTANT: half of the id is asked for.
IdLengthHalf == LongLength \div 2

IdLength == LongLength

\* getLong, of the number that was sent or of eight other bytes, some of them of a text.
Selection(id) ==
    IF HasNumber(id, IdLength) THEN [opcode |-> "CHARACTER_SELECT", characterID |-> Number(id)]
    ELSE [opcode |-> "CHARACTER_SELECT", pieces |-> id]

\* recv(sizeof(uint64_t)), and MALFORMED_PACKET when it returns less.
CharacterSelected(arrived) ==
    /\ arrived >= 2 /\ Asks("CHARACTER_SELECT")
    /\ LET n == Min({arrived - 2, IdLength}) IN
       /\ Take(2 + n)
       /\ IF n = IdLength
          THEN /\ handled' = Append(handled, Selection(SubSeq(stream, 3, 2 + n)))
               /\ UNCHANGED cut
          ELSE /\ handled' = Append(handled, Garbage)
               /\ cut' = TRUE
    /\ UNCHANGED faulty

\* Two bytes of anything else are dropped.
Unhandled(arrived) ==
    /\ arrived >= 2 /\ \A opcode \in SessionOpcodes : ~Asks(opcode)
    /\ Take(2)
    /\ handled' = Append(handled, Garbage)
    /\ UNCHANGED <<faulty, cut>>

ReadSession(arrived) ==
    /\ ~faulty
    /\ \/ OpcodeCutShort(arrived) \/ RequestCharacters(arrived)
       \/ CharacterSelected(arrived) \/ Unhandled(arrived)

\* Any part of what is on its way may have arrived when the reader looks.
ReadSome ==
    /\ \E arrived \in 1..Len(stream) : IF inSession THEN ReadSession(arrived) ELSE ReadHandshake(arrived)
    /\ UNCHANGED <<inSession, sent>>

Next == Write \/ ReadSome

Spec == Init /\ [][Next]_vars

-----------------------------------------------------------------------------

\* A text that is longer than its length can say.
Outgrown(p) == \E text \in TextsOf(p) : TextLength(text) >= Range16

\* What the receiver knows of a packet: ids of maps, races and places of characters are
\* not part of the texts, and the map server does not read the secret.
AsReceived(p) ==
    CASE p.opcode = "MAP_SERVER_MAP_LIST" -> [p EXCEPT !.mapHashes = [i \in DOMAIN @ |-> [p.mapHashes[i] EXCEPT !.id = 0]]]
      [] p.opcode = "PLAYER_CHARACTERS" ->
            [p EXCEPT !.characters =
                [i \in DOMAIN @ |-> LET c == p.characters[i] IN
                    [c EXCEPT !.raceID = 0, !.locationID = 0, !.currentHP = c.maxHP]]]
      [] p.opcode = "MAP_SERVER_REGISTRATION_RESPONSE" -> [opcode |-> p.opcode]
      [] OTHER -> p

\* A packet that the reader of the connection does not know, so that it reads its opcode
\* and goes on inside of it.
Unknown(p) == inSession /\ p.opcode \notin SessionOpcodes

\* Until a read is cut, the reader handles what was sent, in its order, and as it was sent:
\* the two sides agree on every layout, the names of the fields and the widths.  Nothing
\* marks the end of a packet, so all of it rests on how the bytes arrive; and a session
\* does so only up to the first identity that is sent again.
HandledAsSent ==
    ~cut /\ (\A j \in DOMAIN sent : ~Outgrown(sent[j])) =>
        /\ ~faulty
        /\ \A i \in DOMAIN handled : (\A j \in DOMAIN sent : Unknown(sent[j]) => i < j) =>
               i \in DOMAIN sent /\ handled[i] = AsReceived(sent[i])

\* Whatever is cut or run together, a JSON text that is accepted is one that was sent: a
\* piece of it, or pieces of two, are not taken for another.
TextsNeverForged ==
    \A i \in DOMAIN handled : handled[i].opcode \in Documents =>
        \E j \in DOMAIN sent : handled[i] = AsReceived(sent[j])

\* Bytes that a session skips two at a time and does not come out of in step.
PutsOutOfStep(p) == p.opcode \notin SessionOpcodes /\ (Outgrown(p) \/ Len(Written(p)) % 2 = 1)

\* A selection that arrives in two parts is refused and its second part is read for
\* requests, and so is what comes behind an identity of an odd length: the session is out
\* of step for good, or ends.  Only then does the server act on a request the player has
\* not made, and never on one made of an identity.
RequestsMade ==
    inSession => \A i \in DOMAIN handled :
        \/ handled[i] = Garbage \/ \E j \in DOMAIN sent : sent[j] = handled[i]
        \/ /\ \E j \in 1..i-1 : handled[j] = Garbage
           /\ cut \/ \E j \in DOMAIN sent : PutsOutOfStep(sent[j])

=============================================================================
