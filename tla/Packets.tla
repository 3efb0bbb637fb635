------------------------------ MODULE Packets ------------------------------
(***************************************************************************)
(* How packets become bytes and bytes become packets again: an opcode, and *)
(* then nothing, a number, strings behind their lengths, or a JSON text    *)
(* behind its length.  A text is a sequence of cells, each of which knows  *)
(* its text, so that parsing asks only whether the text is whole: no true  *)
(* prefix of a JSON object is one.  Strings that are not JSON are records  *)
(* with the one field `string`; the empty one has no cells.                *)
(***************************************************************************)
EXTENDS Integers, Sequences

CONSTANTS
    Base,           \* values of a byte; a short is two bytes
    LongLength,     \* bytes of a uint64_t
    IntRange,       \* half of the values of an int
    TextLength(_)   \* of a string or a JSON document

Range16 == Base * Base

ASSUME PacketsAssumption == Base \in Nat /\ Base > 4 /\ LongLength \in Nat \ {0} /\ IntRange \in Nat \ {0}

ClientOpcodes == <<"LOGIN_AUTHENTICATION_IDENTITY", "VERSION_MISMATCH", "REQUEST_CHARACTERS", "CHARACTER_SELECT">>

\* From the top of the range: 0xFFFE and so on.
ServerOpcodes == <<"LOGIN_AUTHENTICATION_CHALLENGE", "LOGIN_AUTHENTICATION_RESPONSE", "MAP_SERVER_REGISTRATION_REQUEST",
                   "MAP_SERVER_REGISTRATION_RESPONSE", "MAP_SERVER_MAP_LIST", "MAP_SERVER_NOT_NEEDED", "MAP_SERVER_ACK",
                   "MAP_SERVER_CONNECTION_INSTRUCTIONS", "PLAYER_CHARACTERS", "NO_MAP_SERVER_ERROR",
                   "SERVER_PUBKEY", "MALFORMED_PACKET">>

OpcodeNames == [n \in {i : i \in DOMAIN ClientOpcodes} \cup {Range16 - 1 - i : i \in DOMAIN ServerOpcodes} |->
                   IF n \in DOMAIN ClientOpcodes THEN ClientOpcodes[n] ELSE ServerOpcodes[Range16 - 1 - n]]

OpcodeNumber(opcode) == CHOOSE n \in DOMAIN OpcodeNames : OpcodeNames[n] = opcode

Garbage == [opcode |-> "GARBAGE"]

EmptyString == [string |-> ""]

-----------------------------------------------------------------------------
(* The classes of packets, of locations and of characters. *)

FieldsOf(opcode) ==
    CASE opcode = "LOGIN_AUTHENTICATION_CHALLENGE" -> {"version", "versionHash", "name", "pubKey"}
      [] opcode = "LOGIN_AUTHENTICATION_IDENTITY" -> {"username", "password"}
      [] opcode = "LOGIN_AUTHENTICATION_RESPONSE" -> {"successful", "attemptsRemaining", "message"}
      [] opcode = "MAP_SERVER_REGISTRATION_REQUEST" -> {"mapServerFriendlyName", "mapServerListenAddress", "port"}
      [] opcode = "MAP_SERVER_REGISTRATION_RESPONSE" -> {"secretRSA"}
      [] opcode = "MAP_SERVER_MAP_LIST" -> {"mapHashes"}
      [] opcode = "MAP_SERVER_CONNECTION_INSTRUCTIONS" -> {"friendlyName", "hostName", "port"}
      [] opcode = "PLAYER_CHARACTERS" -> {"characters"}
      [] opcode = "CHARACTER_SELECT" -> {"characterID"}
      [] opcode = "NO_MAP_SERVER_ERROR" -> {"message"}
      [] OTHER -> {}

HasFields(r, fields) == DOMAIN r = fields /\ r = [f \in fields |-> r[f]]

IsLocation(l) == HasFields(l, {"id", "locationName", "knownFileName", "knownMD5Hash", "version"})

\* The numbers of a character fit their columns, which hold an int (db.sql).
IsCharacter(c) ==
    /\ HasFields(c, {"id", "playerID", "name", "raceID", "locationID", "maxHP", "currentHP", "strength", "intelligence"})
    /\ {c.maxHP, c.strength, c.intelligence} \subseteq -IntRange..(IntRange - 1)

-----------------------------------------------------------------------------
(* JSON documents. *)

\* writer->Int of an int64_t.
asInt(n) == ((n + IntRange) % (2 * IntRange)) - IntRange

LocationToJSON(l) ==
    [name |-> l.locationName, hash |-> l.knownMD5Hash, knownFileName |-> l.knownFileName, version |-> l.version]

\* MUTANT: two strings change places in the call of the constructor.
LocationFromJSONSwapped(object) ==
    [id |-> 0, locationName |-> object.name, knownFileName |-> object.hash,
     knownMD5Hash |-> object.knownFileName, version |-> object.version]

LocationFromJSON(object) ==
    [id |-> 0, locationName |-> object.name, knownFileName |-> object.knownFileName,
     knownMD5Hash |-> object.hash, version |-> object.version]

CharacterToJSON(c) ==
    [id |-> c.id, playerID |-> c.playerID, name |-> c.name, raceID |-> c.raceID,
     maxHP |-> asInt(c.maxHP), strength |-> asInt(c.strength), intelligence |-> asInt(c.intelligence)]

\* The race is sent and not read, the location is not sent, and the health is full.
CharacterFromJSON(object) ==
    [id |-> object.id, playerID |-> object.playerID, name |-> object.name, raceID |-> 0, locationID |-> 0,
     maxHP |-> object.maxHP, currentHP |-> object.maxHP, strength |-> object.strength, intelligence |-> object.intelligence]

Each(Op(_), s) == [i \in DOMAIN s |-> Op(s[i])]

PlainDocuments == {"LOGIN_AUTHENTICATION_CHALLENGE", "LOGIN_AUTHENTICATION_IDENTITY",
                   "LOGIN_AUTHENTICATION_RESPONSE", "MAP_SERVER_CONNECTION_INSTRUCTIONS"}
Documents == PlainDocuments \cup {"MAP_SERVER_MAP_LIST", "PLAYER_CHARACTERS"}

ToJSON(p) ==
    CASE p.opcode = "MAP_SERVER_MAP_LIST" -> [maps |-> Each(LocationToJSON, p.mapHashes)]
      [] p.opcode = "PLAYER_CHARACTERS" -> [characters |-> Each(CharacterToJSON, p.characters)]
      [] p.opcode \in PlainDocuments -> [f \in DOMAIN p \ {"opcode"} |-> p[f]]

FromJSON(opcode, document) ==
    CASE opcode = "MAP_SERVER_MAP_LIST" -> [opcode |-> opcode, mapHashes |-> Each(LocationFromJSON, document.maps)]
      [] opcode = "PLAYER_CHARACTERS" -> [opcode |-> opcode, characters |-> Each(CharacterFromJSON, document.characters)]
      [] opcode \in PlainDocuments ->
            [f \in DOMAIN document \cup {"opcode"} |-> IF f = "opcode" THEN opcode ELSE document[f]]

\* The texts of a packet, each of which goes behind its length.
TextsOf(p) ==
    CASE p.opcode \in Documents -> {ToJSON(p)}
      [] p.opcode = "MAP_SERVER_REGISTRATION_REQUEST" -> {p.mapServerFriendlyName, p.mapServerListenAddress}
      [] p.opcode = "MAP_SERVER_REGISTRATION_RESPONSE" -> {p.secretRSA}
      [] p.opcode = "NO_MAP_SERVER_ERROR" -> {p.message}
      [] OTHER -> {}

-----------------------------------------------------------------------------
(* Writing. *)

\* What is left of a number when its last bytes are written.
Left(n, length) == LET left[i \in 0..length] == IF i = 0 THEN n ELSE left[i - 1] \div Base IN left

Bytes(n, length) == [i \in 1..length |-> <<"byte", Left(n, length)[length - i] % Base>>]

Fits(n, length) == n \in Nat /\ Left(n, length)[length] = 0

putShort(n) == Bytes(n % Range16, 2)
putLong(n) == Bytes(n, LongLength)

putString(text) == [i \in 1..TextLength(text) |-> <<"text", text, i>>]

putText(text) == putShort(TextLength(text)) \o putString(text)

Strings(p) ==
    CASE p.opcode = "MAP_SERVER_REGISTRATION_REQUEST" ->
            putText(p.mapServerFriendlyName) \o putText(p.mapServerListenAddress) \o putShort(p.port)
      [] p.opcode = "MAP_SERVER_REGISTRATION_RESPONSE" -> putText(p.secretRSA)
      [] p.opcode = "NO_MAP_SERVER_ERROR" -> putText(p.message)
      [] p.opcode = "CHARACTER_SELECT" -> putLong(p.characterID)
      [] OTHER -> <<>>

\* Nothing sends the public key in a packet of its own.
IsPacket(p) ==
    /\ p.opcode # "SERVER_PUBKEY"
    /\ \E n \in DOMAIN OpcodeNames : p.opcode = OpcodeNames[n]
    /\ HasFields(p, {"opcode"} \cup FieldsOf(p.opcode))
    /\ p.opcode = "MAP_SERVER_MAP_LIST" => \A i \in DOMAIN p.mapHashes : IsLocation(p.mapHashes[i])
    /\ p.opcode = "PLAYER_CHARACTERS" => \A i \in DOMAIN p.characters : IsCharacter(p.characters[i])
    /\ p.opcode = "MAP_SERVER_REGISTRATION_REQUEST" => p.port \in 0..(Range16 - 1)
    /\ p.opcode = "CHARACTER_SELECT" => Fits(p.characterID, LongLength)
    /\ \A text \in TextsOf(p) : TextLength(text) \in Nat /\ (TextLength(text) = 0 <=> text = EmptyString)

Written(p) ==
    putShort(OpcodeNumber(p.opcode)) \o (IF p.opcode \in Documents THEN putText(ToJSON(p)) ELSE Strings(p))

-----------------------------------------------------------------------------
(* Reading. *)

Number(bytes) ==
    LET value[i \in 0..Len(bytes)] == IF i = 0 THEN 0 ELSE Base * value[i - 1] + bytes[i][2] IN value[Len(bytes)]

\* What is not there, or is a piece of text, is taken for no number.
HasNumber(cells, length) == Len(cells) >= length /\ \A i \in 1..length : cells[i][1] = "byte"

IsWhole(cells) ==
    /\ cells # <<>> /\ \A i \in DOMAIN cells : cells[i][1] = "text"
    /\ \A i \in DOMAIN cells : cells[i][2] = cells[1][2] /\ cells[i][3] = i
    /\ Len(cells) = TextLength(cells[1][2])

Rest(cells, n) == SubSeq(cells, n + 1, Len(cells))

\* MUTANT: the length is taken to count itself.
StringLengthInclusive(cells) == Number(SubSeq(cells, 1, 2)) - 2

StringLength(cells) == Number(SubSeq(cells, 1, 2))

\* getShort and getStringByLength, as much of the string as there is.
HasString(cells) == HasNumber(cells, 2) /\ Len(cells) >= 2 + StringLength(cells)
StringOf(cells) == SubSeq(cells, 3, 2 + StringLength(cells))
AfterString(cells) == Rest(cells, 2 + StringLength(cells))

ReadDocument(opcode, cells) ==
    IF HasString(cells) /\ IsWhole(StringOf(cells)) THEN FromJSON(opcode, StringOf(cells)[1][2]) ELSE Garbage

\* A string that is not JSON is taken as it is: whatever the length names.
Taken(cells) ==
    IF StringOf(cells) = <<>> THEN EmptyString
    ELSE IF IsWhole(StringOf(cells)) THEN StringOf(cells)[1][2] ELSE [pieces |-> StringOf(cells)]

ReadRegistration(cells) ==
    IF /\ HasString(cells) /\ HasString(AfterString(cells)) /\ HasNumber(AfterString(AfterString(cells)), 2)
    THEN [opcode |-> "MAP_SERVER_REGISTRATION_REQUEST",
          mapServerFriendlyName |-> Taken(cells),
          mapServerListenAddress |-> Taken(AfterString(cells)),
          port |-> Number(SubSeq(AfterString(AfterString(cells)), 1, 2))]
    ELSE Garbage

\* A handler reads what it needs of the cells a recv() has put into the buffer.
Read(cells) ==
    IF ~HasNumber(cells, 2) \/ Number(SubSeq(cells, 1, 2)) \notin DOMAIN OpcodeNames THEN Garbage
    ELSE LET opcode == OpcodeNames[Number(SubSeq(cells, 1, 2))]  body == Rest(cells, 2) IN
         CASE opcode \in Documents -> ReadDocument(opcode, body)
           [] opcode = "MAP_SERVER_REGISTRATION_REQUEST" -> ReadRegistration(body)
           [] opcode = "NO_MAP_SERVER_ERROR" -> IF HasString(body) THEN [opcode |-> opcode, message |-> Taken(body)] ELSE Garbage
           [] OTHER -> [opcode |-> opcode]

=============================================================================
