--------------------------- MODULE CatalogProofs ---------------------------
(***************************************************************************)
(* The catalogue of maps for any configuration, any files and any column.  *)
(* The invariant adds to what the runs check that no row keeps more of a   *)
(* hash than its column holds, which makes an equal hash a stored one, and *)
(* that the server's names of ids are those of the rows.                   *)
(***************************************************************************)
EXTENDS MapCatalog, TLAPS

Names  == {f.name : f \in MapFiles} \cup Paths
Hashes == [digest : {f.content : f \in MapFiles}, length : Nat]
Rows   == [locationName : Names, knownFileName : Paths, knownMD5Hash : Hashes, version : Nat]

CatalogTypes ==
    /\ files \in [Paths -> MapFiles \cup {Unparsable}]
    /\ locations \in Seq(Rows)
    /\ next \in Nat \ {0}
    /\ allMaps \in Seq([location : Rows, id : Nat])

HashesCut == \A id \in Ids : locations[id].knownMD5Hash.length =< ColumnLength

NamesOfRows ==
    /\ \A id \in DOMAIN mapIDToName : id \in Ids /\ mapIDToName[id] = locations[id].locationName
    /\ \A n \in DOMAIN allMaps : allMaps[n].id \in DOMAIN mapIDToName

CatalogInv ==
    /\ CatalogTypes
    /\ HashesCut
    /\ NamesOfRows
    /\ OneRowPerName
    /\ MapsAccountedFor

\* What may become of the table: rows stay where they are and keep their names, and with
\* their version all else.
Forward ==
    \A id \in Ids :
        /\ id \in DOMAIN locations'
        /\ locations'[id].locationName = locations[id].locationName
        /\ locations'[id].version >= locations[id].version
        /\ locations'[id].version = locations[id].version => locations'[id] = locations[id]

-----------------------------------------------------------------------------
LEMMA CatalogInit == Init => CatalogInv
BY DEF Init, CatalogInv, CatalogTypes, HashesCut, NamesOfRows, OneRowPerName, MapsAccountedFor, Ids

\* What is loaded of a file fits the table, up to the length of its hash.
LEMMA LoadedTypes ==
    ASSUME CatalogTypes, NEW path \in Paths, files[path] # Unparsable
    PROVE  /\ LoadedLocation(path) \in Rows
           /\ LoadedLocation(path).knownMD5Hash.length = HashLength
<1> DEFINE f == files[path]
<1>1. f \in MapFiles
  BY DEF CatalogTypes
<1>2. resolveName(path) \in Names
  BY <1>1 DEF resolveName, Names
<1>3. f.version \in Nat \cup {-1}
  BY <1>1, CatalogAssumption
<1>4. resolveVersion(path) \in Nat
  BY <1>3 DEF resolveVersion
<1>5. makeMD5Hash(f.content) \in Hashes /\ makeMD5Hash(f.content).length = HashLength
  BY <1>1 DEF makeMD5Hash, Hashes, HashLength
<1> QED
  BY <1>2, <1>4, <1>5 DEF LoadedLocation, Rows

\* The column cuts a hash, and changes none that it can hold.
LEMMA StoredCut ==
    ASSUME NEW hash \in Hashes
    PROVE  /\ Stored(hash) \in Hashes
           /\ Stored(hash).length =< ColumnLength
           /\ hash.length =< ColumnLength => Stored(hash) = hash
BY CatalogAssumption DEF Stored, Hashes

\* The next configured file is one of the paths.
LEMMA NextPath == CatalogTypes /\ next =< Len(mapPaths) => mapPaths[next] \in Paths
BY CatalogAssumption DEF CatalogTypes, Paths, ToSet

LEMMA RowTypes == CatalogTypes => \A id \in Ids : id \in Nat /\ locations[id] \in Rows /\ locations[id].version \in Nat
<1> SUFFICES ASSUME CatalogTypes, NEW id \in Ids PROVE id \in Nat /\ locations[id] \in Rows /\ locations[id].version \in Nat
  OBVIOUS
<1>1. id \in Nat /\ locations[id] \in Rows
  BY DEF CatalogTypes, Ids
<1> QED
  BY <1>1 DEF Rows

\* The login server notes what it complains of.
LEMMA Complained ==
    ASSUME NEW what, NEW location, NEW row, Complain(what, location, row)
    PROVE  complaints \subseteq complaints' /\ \E c \in complaints' : c.map = location
<1> DEFINE c == [what |-> what, map |-> location, database |-> row]
<1>1. complaints \subseteq complaints' /\ c \in complaints' /\ c.map = location
  BY DEF Complain
<1> QED
  BY <1>1

\* A run that ends, by itself or otherwise, forgets its maps and leaves the table.
LEMMA EndKeeps == CatalogInv /\ NotRunning /\ UNCHANGED <<files, locations>> => CatalogInv' /\ Forward
<1> SUFFICES ASSUME CatalogInv, NotRunning, UNCHANGED <<files, locations>> PROVE CatalogInv' /\ Forward
  OBVIOUS
<1>1. CatalogTypes' /\ HashesCut' /\ OneRowPerName'
  BY DEF CatalogInv, CatalogTypes, HashesCut, OneRowPerName, Ids, NotRunning
<1>2. NamesOfRows' /\ MapsAccountedFor'
  BY DEF NotRunning, NamesOfRows, MapsAccountedFor
<1>3. Forward
  BY RowTypes DEF CatalogInv, Forward, Ids
<1> QED
  BY <1>1, <1>2, <1>3 DEF CatalogInv

-----------------------------------------------------------------------------
\* What a new row, an updated one and one that is left alone have in common: a map is added
\* under the id of a row of its name, which says of it what it should or is complained of.
\* A row that changes gets a newer version than the maps added under it so far.
Adds(location, id) ==
    /\ AddMap(location, id) /\ UNCHANGED files
    /\ locations' \in Seq(Rows) /\ HashesCut' /\ OneRowPerName'
    /\ id \in DOMAIN locations' /\ locations'[id].locationName = location.locationName
    /\ \A i \in Ids :
          /\ i \in DOMAIN locations' /\ locations'[i].locationName = locations[i].locationName
          /\ locations'[i] = locations[i] \/ (i = id /\ location.version > locations[i].version)
    /\ complaints \subseteq complaints'
    /\ \/ /\ locations'[id].version = location.version
          /\ locations'[id].knownMD5Hash = Stored(location.knownMD5Hash)
       \/ \E c \in complaints' : c.map = location

LEMMA AddKeeps ==
    ASSUME CatalogInv, NEW location \in Rows, NEW id, Adds(location, id)
    PROVE  CatalogInv'
<1> DEFINE new == [location |-> location, id |-> id]  k == Len(allMaps) + 1
<1>1. id \in Nat
  BY DEF Adds
<1>2. CatalogTypes'
  BY <1>1 DEF CatalogInv, CatalogTypes, Adds, AddMap
<1>3. /\ DOMAIN allMaps = 1..Len(allMaps) /\ Len(allMaps) \in Nat
      /\ DOMAIN allMaps' = 1..k
      /\ \A n \in DOMAIN allMaps : allMaps'[n] = allMaps[n]
      /\ allMaps'[k] = new
  BY <1>1 DEF CatalogInv, CatalogTypes, Adds, AddMap
<1>4. NamesOfRows'
  <2>1. /\ DOMAIN mapIDToName' = DOMAIN mapIDToName \cup {id}
        /\ \A i \in DOMAIN mapIDToName : mapIDToName'[i] = mapIDToName[i]
        /\ id \notin DOMAIN mapIDToName => mapIDToName'[id] = location.locationName
    BY DEF Adds, AddMap
  <2>2. \A i \in DOMAIN mapIDToName' : i \in Ids' /\ mapIDToName'[i] = locations'[i].locationName
    BY <2>1 DEF CatalogInv, NamesOfRows, Ids, Adds
  <2>3. \A n \in DOMAIN allMaps' : allMaps'[n].id \in DOMAIN mapIDToName'
    BY <2>1, <1>3 DEF CatalogInv, NamesOfRows
  <2> QED
    BY <2>2, <2>3 DEF NamesOfRows
<1>5. MapsAccountedFor'
  <2> SUFFICES ASSUME NEW n \in DOMAIN allMaps'
               PROVE  LET map == allMaps'[n].location  i == allMaps'[n].id IN
                      /\ i \in DOMAIN locations' /\ locations'[i].locationName = map.locationName
                      /\ mapIDToName'[i] = map.locationName
                      /\ \/ /\ locations'[i].version = map.version
                            /\ locations'[i].knownMD5Hash = Stored(map.knownMD5Hash)
                         \/ \E c \in complaints' : c.map = map
                         \/ \E m \in DOMAIN allMaps' : /\ m > n /\ allMaps'[m].id = i
                                                      /\ allMaps'[m].location.version > map.version
    BY DEF MapsAccountedFor, Ids
  <2> DEFINE map == allMaps'[n].location  i == allMaps'[n].id
  <2>1. i \in DOMAIN mapIDToName' /\ mapIDToName'[i] = locations'[i].locationName
    BY <1>4 DEF NamesOfRows
  <2>2. CASE n = k
    BY <2>2, <2>1, <1>3 DEF Adds
  <2>3. CASE n # k
    <3>1. n \in DOMAIN allMaps /\ allMaps'[n] = allMaps[n] /\ n < k
      BY <2>3, <1>3
    <3>2. /\ i \in Ids /\ locations[i].locationName = map.locationName
          /\ \/ locations[i].version = map.version /\ locations[i].knownMD5Hash = Stored(map.knownMD5Hash)
             \/ \E c \in complaints : c.map = map
             \/ \E m \in DOMAIN allMaps : m > n /\ allMaps[m].id = i /\ allMaps[m].location.version > map.version
      BY <3>1 DEF CatalogInv, MapsAccountedFor
    <3>3. i \in DOMAIN locations' /\ locations'[i].locationName = map.locationName
      BY <3>2 DEF Adds
    <3>4. CASE locations[i].version = map.version /\ locations[i].knownMD5Hash = Stored(map.knownMD5Hash)
      <4>1. CASE locations'[i] = locations[i]
        BY <4>1, <3>4, <3>3, <2>1
      <4>2. CASE i = id /\ location.version > locations[i].version
        <5>1. k \in DOMAIN allMaps' /\ k > n /\ allMaps'[k].id = i /\ allMaps'[k].location.version > map.version
          BY <4>2, <3>4, <3>1, <1>3
        <5> QED
          BY <5>1, <3>3, <2>1
      <4> QED
        BY <4>1, <4>2, <3>2 DEF Adds
    <3>5. CASE \E c \in complaints : c.map = map
      BY <3>5, <3>3, <2>1 DEF Adds
    <3>6. CASE \E m \in DOMAIN allMaps : m > n /\ allMaps[m].id = i /\ allMaps[m].location.version > map.version
      BY <3>6, <3>3, <2>1, <1>3
    <3> QED
      BY <3>2, <3>4, <3>5, <3>6
  <2> QED
    BY <2>2, <2>3
<1> QED
  BY <1>2, <1>4, <1>5 DEF CatalogInv, Adds

-----------------------------------------------------------------------------
\* The ways a file is dealt with.
LEMMA NewMapKeeps ==
    ASSUME CatalogInv, NEW location \in Rows, NewMap(location), UNCHANGED files
    PROVE  CatalogInv' /\ Forward
<1> DEFINE k == Len(locations) + 1
<1> DEFINE row == [location EXCEPT !.knownMD5Hash = Stored(@)]
<1>1. /\ row \in Rows /\ row.knownMD5Hash = Stored(location.knownMD5Hash)
      /\ row.locationName = location.locationName /\ row.version = location.version
      /\ row.knownMD5Hash.length =< ColumnLength
  BY StoredCut DEF Rows
<1>2. locations \in Seq(Rows) /\ locations' = Append(locations, row) /\ AddMap(location, k) /\ complaints' = complaints
  BY DEF NewMap, CatalogInv, CatalogTypes
<1>3. /\ Ids = 1..Len(locations) /\ Ids' = 1..k /\ k \in Nat /\ k \notin Ids /\ Ids' = Ids \cup {k}
      /\ \A i \in Ids : locations'[i] = locations[i]
      /\ locations'[k] = row /\ locations' \in Seq(Rows)
  BY <1>1, <1>2 DEF Ids
<1>4. HashesCut'
  BY <1>1, <1>3 DEF CatalogInv, HashesCut
<1>5. OneRowPerName'
  <2>1. \A i \in Ids : locations[i].locationName # location.locationName
    BY DEF NewMap, RowsOf
  <2>2. \A i \in Ids : locations'[i].locationName # locations'[k].locationName
    BY <2>1, <1>1, <1>3
  <2>3. \A i, j \in Ids : locations'[i].locationName = locations'[j].locationName => i = j
    BY <1>3 DEF CatalogInv, OneRowPerName
  <2> QED
    BY <2>2, <2>3, <1>3 DEF OneRowPerName
<1>6. CatalogInv'
  <2>1. Adds(location, k)
    BY <1>1, <1>2, <1>3, <1>4, <1>5 DEF Adds, Ids
  <2> QED
    BY <2>1, AddKeeps
<1>7. Forward
  BY <1>3, RowTypes DEF Forward, CatalogInv, Ids
<1> QED
  BY <1>6, <1>7

LEMMA MatchingVersionKeeps ==
    ASSUME CatalogInv, NEW location \in Rows, location.knownMD5Hash.length = HashLength,
           NEW id \in RowsOf(location), MatchingVersion(location, id), UNCHANGED files
    PROVE  CatalogInv' /\ Forward
<1>1. id \in Ids /\ locations[id].locationName = location.locationName /\ UNCHANGED locations /\ AddMap(location, id)
  BY DEF RowsOf, MatchingVersion, Known
<1>2. \/ /\ locations'[id].version = location.version
         /\ locations'[id].knownMD5Hash = Stored(location.knownMD5Hash)
         /\ complaints' = complaints
      \/ /\ complaints \subseteq complaints'
         /\ \E c \in complaints' : c.map = location
  <2>1. CASE locations[id].knownMD5Hash = location.knownMD5Hash
    <3>1. location.knownMD5Hash \in Hashes /\ location.knownMD5Hash.length =< ColumnLength
      BY <2>1, <1>1 DEF CatalogInv, HashesCut, Rows
    <3> QED
      BY <2>1, <1>1, <3>1, StoredCut DEF MatchingVersion
  <2>2. CASE locations[id].knownMD5Hash # location.knownMD5Hash
    BY <2>2, Complained DEF MatchingVersion
  <2> QED
    BY <2>1, <2>2
<1>3. locations' \in Seq(Rows) /\ HashesCut' /\ OneRowPerName'
  BY <1>1 DEF CatalogInv, CatalogTypes, HashesCut, OneRowPerName, Ids
<1>4. CatalogInv'
  <2>1. Adds(location, id)
    BY <1>1, <1>2, <1>3 DEF Adds, Ids
  <2> QED
    BY <2>1, AddKeeps
<1>5. Forward
  BY <1>1, RowTypes DEF Forward, CatalogInv, Ids
<1> QED
  BY <1>4, <1>5

LEMMA NewerVersionKeeps ==
    ASSUME CatalogInv, NEW location \in Rows, NEW id \in RowsOf(location), NewerVersion(location, id), UNCHANGED files
    PROVE  CatalogInv' /\ Forward
<1> DEFINE row == Update(location, locations[id])
<1>1. id \in Ids /\ locations[id].locationName = location.locationName /\ AddMap(location, id) /\ complaints' = complaints
  BY DEF RowsOf, NewerVersion, Known
<1>2. locations[id] \in Rows /\ location.version > locations[id].version /\ locations[id].version \in Nat
  BY <1>1, RowTypes DEF NewerVersion, Newer, CatalogInv
<1>3. /\ row \in Rows /\ row.knownMD5Hash = Stored(location.knownMD5Hash)
      /\ row.locationName = location.locationName /\ row.version = location.version
      /\ row.knownMD5Hash.length =< ColumnLength
  BY <1>1, <1>2, StoredCut DEF Update, Rows
<1>4. locations \in Seq(Rows) /\ locations' = [locations EXCEPT ![id] = row]
  BY DEF NewerVersion, CatalogInv, CatalogTypes
<1>5. /\ Ids' = Ids /\ locations' \in Seq(Rows) /\ locations'[id] = row
      /\ \A i \in Ids : i # id => locations'[i] = locations[i]
  BY <1>1, <1>3, <1>4 DEF Ids
<1>6. HashesCut' /\ OneRowPerName'
  BY <1>1, <1>3, <1>5 DEF CatalogInv, HashesCut, OneRowPerName
<1>7. CatalogInv'
  <2>1. Adds(location, id)
    BY <1>1, <1>2, <1>3, <1>5, <1>6 DEF Adds, Ids
  <2> QED
    BY <2>1, AddKeeps
<1>8. Forward
  BY <1>1, <1>2, <1>3, <1>5, RowTypes DEF Forward, CatalogInv, Ids, Rows
<1> QED
  BY <1>7, <1>8

LEMMA OutdatedVersionKeeps ==
    ASSUME CatalogInv, NEW location \in Rows, NEW id \in RowsOf(location), OutdatedVersion(location, id), UNCHANGED files
    PROVE  CatalogInv' /\ Forward
<1>1. id \in Ids /\ locations[id].locationName = location.locationName /\ UNCHANGED locations /\ AddMap(location, id)
  BY DEF RowsOf, OutdatedVersion, Known
<1>2. complaints \subseteq complaints' /\ \E c \in complaints' : c.map = location
  BY Complained DEF OutdatedVersion
<1>3. locations' \in Seq(Rows) /\ HashesCut' /\ OneRowPerName'
  BY <1>1 DEF CatalogInv, CatalogTypes, HashesCut, OneRowPerName, Ids
<1>4. CatalogInv'
  <2>1. Adds(location, id)
    BY <1>1, <1>2, <1>3 DEF Adds, Ids
  <2> QED
    BY <2>1, AddKeeps
<1>5. Forward
  BY <1>1, RowTypes DEF Forward, CatalogInv, Ids
<1> QED
  BY <1>4, <1>5

LEMMA ProcessMapKeeps == CatalogInv /\ processMap => CatalogInv' /\ Forward
<1> SUFFICES ASSUME CatalogInv, processMap PROVE CatalogInv' /\ Forward
  OBVIOUS
<1> DEFINE path == mapPaths[next]  location == LoadedLocation(path)
<1>1. path \in Paths /\ UNCHANGED files
  BY NextPath DEF CatalogInv, processMap
<1>2. CASE CannotParse(path)
  <2>1. CatalogTypes' /\ HashesCut' /\ OneRowPerName'
    BY <1>1, <1>2 DEF CannotParse, CatalogInv, CatalogTypes, HashesCut, OneRowPerName, Ids
  <2>2. NamesOfRows' /\ MapsAccountedFor'
    BY <1>2 DEF CannotParse, CatalogInv, NamesOfRows, MapsAccountedFor, Ids
  <2>3. Forward
    BY <1>2, RowTypes DEF CannotParse, CatalogInv, Forward, Ids
  <2> QED
    BY <2>1, <2>2, <2>3 DEF CatalogInv
<1>3. CASE files[path] # Unparsable
  <2> HIDE DEF path, location
  <2>1. location \in Rows /\ location.knownMD5Hash.length = HashLength
    BY <1>1, <1>3, LoadedTypes DEF CatalogInv, location
  <2>2. CASE NewMap(location)
    BY <1>1, <2>1, <2>2, NewMapKeeps
  <2>3. CASE TableRefuses(location)
    BY <1>1, <2>3, EndKeeps DEF TableRefuses
  <2>4. ASSUME NEW id \in RowsOf(location), MatchingVersion(location, id) PROVE CatalogInv' /\ Forward
    BY <1>1, <2>1, <2>4, MatchingVersionKeeps
  <2>5. ASSUME NEW id \in RowsOf(location), NewerVersion(location, id) PROVE CatalogInv' /\ Forward
    BY <1>1, <2>1, <2>5, NewerVersionKeeps
  <2>6. ASSUME NEW id \in RowsOf(location), OutdatedVersion(location, id) PROVE CatalogInv' /\ Forward
    BY <1>1, <2>1, <2>6, OutdatedVersionKeeps
  <2>7. \/ CannotParse(path) \/ NewMap(location) \/ TableRefuses(location)
        \/ \E id \in RowsOf(location) :
              MatchingVersion(location, id) \/ NewerVersion(location, id) \/ OutdatedVersion(location, id)
    BY DEF processMap, path, location
  <2> QED
    BY <1>2, <2>2, <2>3, <2>4, <2>5, <2>6, <2>7
<1> QED
  BY <1>2, <1>3 DEF processMap

LEMMA CatalogNext == CatalogInv /\ [Next]_vars => CatalogInv' /\ (UNCHANGED locations \/ Forward)
<1> SUFFICES ASSUME CatalogInv, [Next]_vars PROVE CatalogInv' /\ (UNCHANGED locations \/ Forward)
  OBVIOUS
<1>1. ASSUME UNCHANGED <<locations, next, allMaps, mapIDToName, complaints>>, files' \in [Paths -> MapFiles \cup {Unparsable}]
      PROVE  CatalogInv' /\ UNCHANGED locations
  <2>1. CatalogTypes' /\ HashesCut' /\ OneRowPerName'
    BY <1>1 DEF CatalogInv, CatalogTypes, HashesCut, OneRowPerName, Ids
  <2>2. NamesOfRows' /\ MapsAccountedFor'
    BY <1>1 DEF CatalogInv, NamesOfRows, MapsAccountedFor, Ids
  <2> QED
    BY <1>1, <2>1, <2>2 DEF CatalogInv
<1>2. CASE EditFile
  BY <1>1, <1>2 DEF EditFile, server, CatalogInv, CatalogTypes
<1>3. CASE Start \/ UNCHANGED vars
  BY <1>1, <1>3 DEF Start, vars, server, CatalogInv, CatalogTypes
<1>4. CASE Stop
  BY <1>4, EndKeeps DEF Stop
<1>5. CASE processMap
  BY <1>5, ProcessMapKeeps
<1> QED
  BY <1>2, <1>3, <1>4, <1>5 DEF Next

\* Every transaction keeps names to one row, rows to their newest version, and the results of
\* the run to the rows and complaints that account for them.
THEOREM CatalogInvariant == Spec => []CatalogInv
<1>1. CatalogInv /\ [Next]_vars => CatalogInv'
  BY CatalogNext
<1> QED
  BY CatalogInit, <1>1, PTL DEF Spec

\* The lookup by name before an insert keeps a name to one row, for any configuration and
\* any edits between the transactions, in the runs that end between two of them too.
THEOREM OneRowPerNameCorrect == Spec => []OneRowPerName
<1>1. CatalogInv => OneRowPerName
  BY DEF CatalogInv
<1> QED
  BY CatalogInvariant, <1>1, PTL

\* What processMaps goes on to use is what the table says, or a complaint or a later file
\* of the configuration tells why not, whatever the column cuts of a hash.
THEOREM MapsAccountedForCorrect == Spec => []MapsAccountedFor
<1>1. CatalogInv => MapsAccountedFor
  BY DEF CatalogInv
<1> QED
  BY CatalogInvariant, <1>1, PTL

\* No transaction of any run takes a row back to an older version, or changes its hash and
\* not its version.
THEOREM CatalogueForwardCorrect == Spec => CatalogueForward
<1>1. CatalogInv /\ [Next]_vars =>
        [\A id \in Ids :
          /\ id \in DOMAIN locations'
          /\ locations'[id].locationName = locations[id].locationName
          /\ locations'[id].version >= locations[id].version
          /\ locations'[id].version = locations[id].version => locations'[id] = locations[id]]_vars
  <2> SUFFICES ASSUME CatalogInv, Next PROVE Forward
    BY DEF Forward
  <2>1. CASE UNCHANGED locations
    BY <2>1, RowTypes DEF CatalogInv, Forward, Ids
  <2> QED
    BY <2>1, CatalogNext
<1> QED
  BY CatalogInvariant, <1>1, PTL DEF Spec, CatalogueForward

=============================================================================
