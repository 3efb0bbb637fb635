----------------------------- MODULE MapCatalog -----------------------------
(***************************************************************************)
(* LoginServer::processMaps: each run of the login server compares the map *)
(* files of its configuration with the table `locations`, one transaction  *)
(* a file.  The table outlives the runs; between two files the process may *)
(* end, and the files may be edited at any time.                           *)
(***************************************************************************)
EXTENDS Integers, Sequences, SequencesExt, FiniteSets

CONSTANTS
    mapPaths,       \* the configured files, in order
    MapFiles,       \* what a file may hold: [name, version, content]
    Unparsable,     \* a file that Tmx cannot read
    NoName,         \* a file without PPG_NAME
    ColumnLength    \* of knownMD5Hash in the table

HashLength == 32    \* MD5_DIGEST_LENGTH bytes, two digits each

ASSUME CatalogAssumption ==
    /\ mapPaths \in Seq(STRING) /\ Unparsable \notin MapFiles
    /\ \A f \in MapFiles : DOMAIN f = {"name", "version", "content"} /\ f.version \in Nat \cup {-1}
    /\ ColumnLength \in Nat \ {0}

VARIABLES
    files,          \* what each configured file holds now
    strictTable,    \* whether the database refuses a value that is too long, or cuts it
    locations,      \* the rows of the table; a row's id is its place
    running,        \* whether a login server runs
    next,           \* the file it looks at next
    allMaps, mapIDToName,
    complaints      \* of a hash difference or an outdated map that it has logged

server == <<running, next, allMaps, mapIDToName, complaints>>
vars == <<files, strictTable, locations, server>>

Paths == ToSet(mapPaths)
Ids == DOMAIN locations

makeMD5Hash(content) == [digest |-> content, length |-> HashLength]

resolveName(path) == IF files[path].name = NoName THEN path ELSE files[path].name
resolveVersion(path) == IF files[path].version =< -1 THEN 0 ELSE files[path].version

LoadedLocation(path) ==
    [locationName |-> resolveName(path), knownFileName |-> path,
     knownMD5Hash |-> makeMD5Hash(files[path].content), version |-> resolveVersion(path)]

\* What the column keeps of a hash.
Stored(hash) == [hash EXCEPT !.length = IF @ > ColumnLength THEN ColumnLength ELSE @]
Fits(hash) == ~strictTable \/ hash.length =< ColumnLength

NotRunning ==
    /\ running' = FALSE /\ next' = 1
    /\ allMaps' = <<>> /\ mapIDToName' = <<>> /\ complaints' = {}

Init ==
    /\ files \in [Paths -> MapFiles \cup {Unparsable}]
    /\ strictTable \in BOOLEAN
    /\ locations = <<>>
    /\ running = FALSE /\ next = 1 /\ allMaps = <<>> /\ mapIDToName = <<>> /\ complaints = {}

EditFile ==
    /\ \E path \in Paths, f \in MapFiles \cup {Unparsable} : files' = [files EXCEPT ![path] = f]
    /\ UNCHANGED <<strictTable, locations, server>>

Start ==
    /\ ~running
    /\ running' = TRUE
    /\ UNCHANGED <<files, strictTable, locations, next, allMaps, mapIDToName, complaints>>

\* At any moment, which between two files leaves the table half updated.
Stop ==
    /\ running
    /\ NotRunning
    /\ UNCHANGED <<files, strictTable, locations>>

Complain(what, location, row) ==
    complaints' = complaints \cup {[what |-> what, map |-> location, database |-> row]}

\* MUTANT: the id of a map that is known already is not taken from its row.
KnownAsNew(id) == 0

\* The id that the loaded location gets from the row of its name.
Known(id) == id

\* An id that has a name keeps it: emplace.
AddMap(location, id) ==
    /\ next' = next + 1
    /\ allMaps' = Append(allMaps, [location |-> location, id |-> id])
    /\ mapIDToName' = [i \in DOMAIN mapIDToName \cup {id} |->
                          IF i \in DOMAIN mapIDToName THEN mapIDToName[i] ELSE location.locationName]

\* MUTANT: rows are looked up by the file they came from.
RowsByFile(location) == {id \in Ids : locations[id].knownFileName = location.knownFileName}

RowsOf(location) == {id \in Ids : locations[id].locationName = location.locationName}

CannotParse(path) ==
    /\ files[path] = Unparsable
    /\ next' = next + 1
    /\ UNCHANGED <<locations, running, allMaps, mapIDToName, complaints>>

NewMap(location) ==
    /\ RowsOf(location) = {} /\ Fits(location.knownMD5Hash)
    /\ locations' = Append(locations, [location EXCEPT !.knownMD5Hash = Stored(@)])
    /\ AddMap(location, Len(locations) + 1)
    /\ UNCHANGED <<running, complaints>>

MatchingVersion(location, id) ==
    /\ location.version = locations[id].version
    /\ IF locations[id].knownMD5Hash # location.knownMD5Hash
       THEN Complain("hash difference", location, locations[id])
       ELSE UNCHANGED complaints
    /\ AddMap(location, Known(id))
    /\ UNCHANGED <<locations, running>>

\* MUTANT: any other version counts as newer.
OtherVersion(location, row) == location.version # row.version

Newer(location, row) == location.version > row.version

\* MUTANT: the hash is left as it was.
UpdateVersion(location, row) == [row EXCEPT !.version = location.version]

\* The name of the file is left as it was.
Update(location, row) ==
    [row EXCEPT !.version = location.version, !.knownMD5Hash = Stored(location.knownMD5Hash)]

NewerVersion(location, id) ==
    /\ Newer(location, locations[id]) /\ Fits(location.knownMD5Hash)
    /\ locations' = [locations EXCEPT ![id] = Update(location, @)]
    /\ AddMap(location, Known(id))
    /\ UNCHANGED <<running, complaints>>

\* "There's nothing sensible to really do here": the map is used all the same.
OutdatedVersion(location, id) ==
    /\ location.version # locations[id].version /\ ~Newer(location, locations[id])
    /\ Complain("outdated", location, locations[id])
    /\ AddMap(location, Known(id))
    /\ UNCHANGED <<locations, running>>

\* The exception of a refused value ends the process.
TableRefuses(location) ==
    /\ ~Fits(location.knownMD5Hash)
    /\ RowsOf(location) = {} \/ \E id \in RowsOf(location) : Newer(location, locations[id])
    /\ NotRunning
    /\ UNCHANGED locations

processMap ==
    /\ running /\ next =< Len(mapPaths)
    /\ LET path == mapPaths[next]
           location == LoadedLocation(path)
       IN \/ CannotParse(path)
          \/ /\ files[path] # Unparsable
             /\ \/ NewMap(location)
                \/ TableRefuses(location)
                \/ \E id \in RowsOf(location) : \/ MatchingVersion(location, id)
                                                \/ NewerVersion(location, id)
                                                \/ OutdatedVersion(location, id)
    /\ UNCHANGED <<files, strictTable>>

Next == EditFile \/ Start \/ Stop \/ processMap

Spec == Init /\ [][Next]_vars

-----------------------------------------------------------------------------

\* One row for each name, whatever files carried the name in whatever run: the runs end
\* between any two transactions and files are edited, renamed and swapped between them.
OneRowPerName ==
    \A i, j \in Ids : locations[i].locationName = locations[j].locationName => i = j

\* No run takes a map back to an older version, and the row changes its hash only
\* together with its version.
CatalogueForward ==
    [][\A id \in Ids :
          /\ id \in DOMAIN locations'
          /\ locations'[id].locationName = locations[id].locationName
          /\ locations'[id].version >= locations[id].version
          /\ locations'[id].version = locations[id].version => locations'[id] = locations[id]]_vars

\* Every map the server goes on to use is accounted for by the table: the row its id leads
\* to has its name and its version and hash, unless the server complained or a later file
\* of the configuration has the same name and a newer version.
MapsAccountedFor ==
    \A n \in DOMAIN allMaps : LET map == allMaps[n].location  id == allMaps[n].id IN
        /\ id \in Ids /\ locations[id].locationName = map.locationName
        /\ mapIDToName[id] = map.locationName
        /\ \/ locations[id].version = map.version /\ locations[id].knownMD5Hash = Stored(map.knownMD5Hash)
           \/ \E c \in complaints : c.map = map
           \/ \E m \in DOMAIN allMaps : m > n /\ allMaps[m].id = id /\ allMaps[m].location.version > map.version

\* "As implemented, this is incredibly unlikely because changing the version number will
\* change the hash." (LoginServer.cpp:169): a hash difference despite matching versions is
\* reported when someone changed a map and not its version.
HashDifferenceReal ==
    \A c \in complaints : c.what = "hash difference" =>
        c.database.knownMD5Hash.digest # c.map.knownMD5Hash.digest

=============================================================================
