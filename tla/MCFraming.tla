----------------------------- MODULE MCFraming -----------------------------
(* Small instances of Framing: bytes with five values, ids of six bytes.   *)
EXTENDS Framing, FiniteSets

Str(s) == [string |-> s]

\* A text of one cell for every field, and three for a list with one more for each of its
\* entries.  That of an identity is longer, and even or odd by the length of the name.
SmallLength(text) ==
    IF "string" \in DOMAIN text THEN IF text = Str("") THEN 0 ELSE 2
    ELSE IF "maps" \in DOMAIN text THEN 3 + Len(text.maps)
    ELSE IF "characters" \in DOMAIN text THEN 3 + Len(text.characters)
    ELSE IF "username" \in DOMAIN text THEN IF text.username = "u" THEN 5 ELSE 6
    ELSE Cardinality(DOMAIN text)

Zone(id) == [id |-> id, locationName |-> "Zone", knownFileName |-> "a.tmx", knownMD5Hash |-> "h1", version |-> 2]
Room(id) == [Zone(id) EXCEPT !.locationName = "Room", !.knownMD5Hash = "h2"]
Hero == [id |-> 7, playerID |-> 3, name |-> "hero", raceID |-> 1, locationID |-> 2,
         maxHP |-> 5, currentHP |-> 5, strength |-> -1, intelligence |-> 4]

\* A list longer than its length can say, in this range of 25.
LongList == [i \in 1..22 |-> Zone(i)]

SmallHandshakes ==
    {[opcode |-> "LOGIN_AUTHENTICATION_CHALLENGE", version |-> "v", versionHash |-> "git", name |-> "server", pubKey |-> "pem"],
     [opcode |-> "LOGIN_AUTHENTICATION_IDENTITY", username |-> "u", password |-> "p"],
     [opcode |-> "VERSION_MISMATCH"],
     [opcode |-> "LOGIN_AUTHENTICATION_RESPONSE", successful |-> FALSE, attemptsRemaining |-> 0, message |-> "no"],
     [opcode |-> "MAP_SERVER_REGISTRATION_REQUEST", mapServerFriendlyName |-> Str("m"), mapServerListenAddress |-> Str("host"), port |-> 24],
     [opcode |-> "MAP_SERVER_REGISTRATION_REQUEST", mapServerFriendlyName |-> Str(""), mapServerListenAddress |-> Str("host"), port |-> 3],
     [opcode |-> "MAP_SERVER_REGISTRATION_RESPONSE", secretRSA |-> Str("secret")],
     [opcode |-> "MAP_SERVER_MAP_LIST", mapHashes |-> <<Zone(1), Room(2)>>],
     [opcode |-> "MAP_SERVER_MAP_LIST", mapHashes |-> LongList],
     [opcode |-> "MAP_SERVER_NOT_NEEDED"],
     [opcode |-> "MAP_SERVER_ACK"],
     [opcode |-> "MAP_SERVER_CONNECTION_INSTRUCTIONS", friendlyName |-> "m", hostName |-> "host", port |-> 24],
     [opcode |-> "PLAYER_CHARACTERS", characters |-> <<Hero>>],
     [opcode |-> "NO_MAP_SERVER_ERROR", message |-> Str("none")],
     [opcode |-> "MALFORMED_PACKET"]}

\* Ids whose bytes look like opcodes when they are read in the wrong place, and identities
\* of an even and of an odd length.
SmallSelections ==
    {[opcode |-> "CHARACTER_SELECT", characterID |-> id] : id \in {3, 4, 15, 20}} \cup {[opcode |-> "REQUEST_CHARACTERS"]}
        \cup {[opcode |-> "LOGIN_AUTHENTICATION_IDENTITY", username |-> name, password |-> "p"] : name \in {"u", "us"}}

=============================================================================
