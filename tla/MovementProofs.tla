--------------------------- MODULE MovementProofs ---------------------------
(***************************************************************************)
(* Proofs about the maps and the player's moves.  parseTiles fills the     *)
(* vector in the order in which resolveTileLoc indexes it, for maps of any *)
(* size; so a tile that is read inside of the map is the tile of its       *)
(* place, and what follows of the player follows from that.                *)
(***************************************************************************)
EXTENDS Movement, TLAPS

\* Where parseTiles stands: the vector has as many tiles as places were visited.
ParsingTypes ==
    /\ layers \in Seq(Layer)
    /\ x \in 0..Width-1 /\ y \in 0..Height /\ (y = Height => x = 0)
    /\ tiles \in Seq([isSolid : BOOLEAN, isInteresting : BOOLEAN, isSpawn : BOOLEAN])
    /\ Len(tiles) = x + Width * y
    /\ spawnPoint \in Grid \cup {Unset}

ParsingInv == ParsingTypes /\ TilesInPlace

Positions == Int \X Int

\* Before the game has begun there is no player; then the maps are parsed, and stay.
GameInv ==
    /\ indoorSpawn \in Grid
    /\ moves_ \in Seq({Keys[i] : i \in DOMAIN Keys})
    /\ phase = "init" => p = Unset /\ ~indoor /\ ~readOutside
    /\ phase # "init" => Finished /\ p \in Positions /\ spawnPoint \in Grid

\* WallsKeepInside says nothing of a player who is not there yet; this does.
WalledMap ==
    /\ phase # "init"
    /\ \A q \in WalledIn : SolidAt(layers, q[1], q[2])
    /\ spawnPoint \notin WalledIn /\ indoorSpawn \notin WalledIn

KeptInside == WalledMap => ~readOutside /\ p \in Grid \ WalledIn

MovementInv == ParsingInv /\ GameInv /\ StandsFree /\ KeptInside

-----------------------------------------------------------------------------
(* How coordinates are counted. *)

\* The places before <<a, b>>, row by row, are counted below it.
LEMMA RowsBefore ==
    ASSUME NEW w \in Nat, NEW a \in Int, NEW b \in Int, NEW c \in Int, NEW d \in Int,
           0 =< a, a < w, 0 =< c, b < d
    PROVE  a + w * b < c + w * d
<1>1. w * (d - b) >= w
  <2>. DEFINE k == d - b - 1
  <2>1. k \in Nat /\ d - b = k + 1
    OBVIOUS
  <2>2. w * (k + 1) = w * k + w /\ w * k >= 0
    BY <2>1
  <2>. QED
    BY <2>1, <2>2
<1>2. w * (d - b) = w * d - w * b
  OBVIOUS
<1>3. w * d \in Int /\ w * b \in Int
  OBVIOUS
<1>. QED
  BY <1>1, <1>2, <1>3

\* The index of a place on the map does not wrap, and the vector has it.
LEMMA TileLocOnMap ==
    ASSUME NEW a \in 0..Width-1, NEW b \in 0..Height-1
    PROVE  TileLoc(a, b) = a + Width * b /\ TileLoc(a, b) \in Indexes
<1>1. Width \in Nat /\ Height \in Nat /\ IndexRange \in Nat /\ Width * Height =< IndexRange
  BY GridAssumption
<1>2. a + Width * b < 0 + Width * Height
  BY <1>1, RowsBefore
<1>3. Width * b \in Nat
  BY <1>1
<1>4. a + Width * b \in 0..IndexRange-1 /\ Width * Height \in Nat
  BY <1>1, <1>2, <1>3
<1>5. (a + Width * b) % IndexRange = a + Width * b
  BY <1>1, <1>4
<1>. QED
  BY <1>1, <1>2, <1>3, <1>4, <1>5 DEF TileLoc, Indexes

LEMMA GridPlace ==
    ASSUME NEW q \in Grid
    PROVE  q[1] \in 0..Width-1 /\ q[2] \in 0..Height-1 /\ q = <<q[1], q[2]>>
BY DEF Grid

-----------------------------------------------------------------------------
(* parseTiles. *)

LEMMA ParsingInit == InitParsing => ParsingInv
<1>. SUFFICES ASSUME InitParsing PROVE ParsingInv
  OBVIOUS
<1>1. Width \in Nat \ {0} /\ Height \in Nat \ {0}
  BY GridAssumption
<1>2. ParsingTypes
  BY <1>1, MapFilesAssumption DEF InitParsing, ParsingTypes
<1>3. \A q \in Grid : ~Parsed(q)
  BY <1>1, GridPlace DEF InitParsing, Parsed
<1>. QED
  BY <1>2, <1>3 DEF ParsingInv, TilesInPlace

LEMMA ParseTileTypes ==
    ASSUME ParsingTypes, parseTile
    PROVE  /\ ParsingTypes'
           /\ Len(tiles') = Len(tiles) + 1
           /\ tiles'[Len(tiles) + 1] = ResolveTile
           /\ \A i \in 1..Len(tiles) : tiles'[i] = tiles[i]
<1>1. Width \in Nat \ {0} /\ Height \in Nat \ {0} /\ x \in Nat /\ y \in Nat
  BY GridAssumption DEF ParsingTypes
<1>2. ResolveTile \in [isSolid : BOOLEAN, isInteresting : BOOLEAN, isSpawn : BOOLEAN]
  BY DEF ResolveTile, SolidAt, InterestingAt
<1>3. /\ Len(tiles') = Len(tiles) + 1
      /\ tiles'[Len(tiles) + 1] = ResolveTile
      /\ \A i \in 1..Len(tiles) : tiles'[i] = tiles[i]
      /\ tiles' \in Seq([isSolid : BOOLEAN, isInteresting : BOOLEAN, isSpawn : BOOLEAN])
  BY <1>2 DEF parseTile, ParsingTypes
<1>4. x' \in 0..Width-1 /\ y' \in 0..Height /\ (y' = Height => x' = 0)
  BY <1>1 DEF parseTile, ParsingTypes
<1>5. x' + Width * y' = x + Width * y + 1
  <2>1. CASE x + 1 < Width
    BY <1>1, <2>1 DEF parseTile
  <2>2. CASE ~(x + 1 < Width)
    <3>1. x + 1 = Width /\ x' = 0 /\ y' = y + 1
      BY <1>1, <2>2 DEF parseTile, ParsingTypes
    <3>2. Width * (y + 1) = Width * y + Width /\ Width * y \in Nat
      BY <1>1
    <3>. QED
      BY <1>1, <3>1, <3>2
  <2>. QED
    BY <2>1, <2>2
<1>6. spawnPoint' \in Grid \cup {Unset}
  BY <1>1 DEF parseTile, FindSpawn, ParsingTypes, Grid
<1>. QED
  BY <1>3, <1>4, <1>5, <1>6 DEF ParsingTypes, parseTile

\* A place that has been visited was visited before, or is the one that is looked at now.
LEMMA ParsedNext ==
    ASSUME ParsingTypes, parseTile, NEW q \in Grid, Parsed(q)'
    PROVE  Parsed(q) \/ q = <<x, y>>
<1>1. Width \in Nat \ {0} /\ x \in Nat /\ y \in Nat /\ x =< Width - 1
  BY GridAssumption DEF ParsingTypes
<1>2. q[1] \in Nat /\ q[1] =< Width - 1 /\ q[2] \in Nat /\ q = <<q[1], q[2]>>
  BY <1>1, GridPlace
<1>. QED
  BY <1>1, <1>2 DEF Parsed, parseTile

LEMMA ParsedIndex ==
    ASSUME ParsingTypes, NEW q \in Grid, Parsed(q)
    PROVE  TileLoc(q[1], q[2]) \in Nat /\ TileLoc(q[1], q[2]) < Len(tiles)
<1>1. Width \in Nat \ {0} /\ x \in Nat /\ y \in Nat /\ Len(tiles) = x + Width * y
  BY GridAssumption DEF ParsingTypes
<1>2. /\ q[1] \in 0..Width-1 /\ q[2] \in 0..Height-1
      /\ TileLoc(q[1], q[2]) = q[1] + Width * q[2] /\ TileLoc(q[1], q[2]) \in Indexes
  BY GridPlace, TileLocOnMap
<1>3. CASE q[2] < y
  <2>1. Width \in Nat /\ q[1] \in Int /\ q[2] \in Int /\ 0 =< q[1] /\ q[1] < Width /\ 0 =< x /\ y \in Int
    BY <1>1, <1>2
  <2>2. q[1] + Width * q[2] < x + Width * y
    BY <1>1, <1>3, <2>1, RowsBefore
  <2>. QED
    BY <1>1, <1>2, <2>2 DEF Indexes
<1>4. CASE q[2] = y /\ q[1] < x
  BY <1>1, <1>2, <1>4 DEF Indexes
<1>. QED
  BY <1>3, <1>4 DEF Parsed

LEMMA ParsingNext == ASSUME ParsingInv, parseTile PROVE ParsingInv'
<1>. USE DEF ParsingInv
<1>1. ParsingTypes'
  BY ParseTileTypes
<1>2. ASSUME NEW q \in Grid, Parsed(q)'
      PROVE  /\ TileLoc(q[1], q[2]) < Len(tiles')
             /\ tiles'[TileLoc(q[1], q[2]) + 1].isSolid <=> SolidAt(layers', q[1], q[2])
             /\ tiles'[TileLoc(q[1], q[2]) + 1].isInteresting <=> InterestingAt(layers', q[1], q[2])
  <2>1. layers' = layers /\ Len(tiles) \in Nat
    BY DEF parseTile, ParsingTypes
  <2>2. CASE Parsed(q)
    <3>1. TileLoc(q[1], q[2]) \in Nat /\ TileLoc(q[1], q[2]) < Len(tiles)
      BY <2>2, ParsedIndex
    <3>2. tiles'[TileLoc(q[1], q[2]) + 1] = tiles[TileLoc(q[1], q[2]) + 1] /\ Len(tiles') = Len(tiles) + 1
      BY <2>1, <3>1, ParseTileTypes
    <3>3. /\ tiles[TileLoc(q[1], q[2]) + 1].isSolid <=> SolidAt(layers, q[1], q[2])
          /\ tiles[TileLoc(q[1], q[2]) + 1].isInteresting <=> InterestingAt(layers, q[1], q[2])
      BY <2>2 DEF TilesInPlace
    <3>. QED
      BY <2>1, <3>1, <3>2, <3>3
  <2>3. CASE q = <<x, y>>
    <3>1. q[1] = x /\ q[2] = y
      BY <2>3
    <3>2. TileLoc(q[1], q[2]) = Len(tiles)
      BY <3>1, GridPlace, TileLocOnMap DEF ParsingTypes
    <3>3. tiles'[TileLoc(q[1], q[2]) + 1] = ResolveTile /\ Len(tiles') = Len(tiles) + 1
      BY <3>2, ParseTileTypes
    <3>4. /\ ResolveTile.isSolid <=> SolidAt(layers, q[1], q[2])
          /\ ResolveTile.isInteresting <=> InterestingAt(layers, q[1], q[2])
      BY <3>1 DEF ResolveTile
    <3>. QED
      BY <2>1, <3>2, <3>3, <3>4
  <2>. QED
    BY <1>2, <2>2, <2>3, ParsedNext
<1>. QED
  BY <1>1, <1>2 DEF TilesInPlace

\* Once all is parsed, the tile that is read at a place of the map is that place's.
LEMMA TileOfPlace ==
    ASSUME ParsingInv, Finished, NEW q \in Grid
    PROVE  /\ TileIndexes(q) = {TileLoc(q[1], q[2])}
           /\ TileLoc(q[1], q[2]) \in Indexes
           /\ \A solid \in IsSolid(TileLoc(q[1], q[2])) : solid <=> SolidAt(layers, q[1], q[2])
<1>1. q[1] \in 0..Width-1 /\ q[2] \in 0..Height-1 /\ TileLoc(q[1], q[2]) \in Indexes
  BY GridPlace, TileLocOnMap
<1>2. Unsigned(q[1]) = {q[1]} /\ Unsigned(q[2]) = {q[2]}
  BY <1>1, GridAssumption DEF Unsigned
<1>3. Parsed(q)
  BY <1>1, GridAssumption DEF Parsed, Finished
<1>. QED
  BY <1>1, <1>2, <1>3 DEF TileIndexes, IsSolid, ParsingInv, TilesInPlace

-----------------------------------------------------------------------------
(* The game. *)

LEMMA KeyOffsets ==
    \A move \in {Keys[i] : i \in DOMAIN Keys} :
        move[1] \in -1..1 /\ move[2] \in -1..1 /\ move = <<move[1], move[2]>>
<1>1. Keys \in Seq((-1..1) \X (-1..1))
  BY DEF Keys
<1>. QED
  BY <1>1

\* One of the keys that are pressed is asked for first.
LEMMA FirstPlace ==
    ASSUME NEW places \in SUBSET (1..8), places # {}
    PROVE  \E i \in places : \A j \in places : i =< j
<1>. DEFINE IsFirst(n) == n \in places /\ \A j \in places : n =< j
<1>1. \A j \in places : j \in {1, 2, 3, 4, 5, 6, 7, 8}
  OBVIOUS
<1>2. CASE {1, 2, 3, 4} \cap places # {}
  <2>1. IsFirst(1) \/ IsFirst(2) \/ IsFirst(3) \/ IsFirst(4)
    BY <1>1, <1>2
  <2>. QED
    BY <2>1
<1>3. CASE {1, 2, 3, 4} \cap places = {}
  <2>1. \A j \in places : j \in {5, 6, 7, 8}
    BY <1>1, <1>3
  <2>2. 5 \in places \/ 6 \in places \/ 7 \in places \/ 8 \in places
    BY <2>1
  <2>3. IsFirst(5) \/ IsFirst(6) \/ IsFirst(7) \/ IsFirst(8)
    BY <2>1, <2>2
  <2>. QED
    BY <2>3
<1>. QED
  BY <1>2, <1>3

LEMMA MovementInit == Init => MovementInv
<1>. SUFFICES ASSUME Init PROVE MovementInv
  OBVIOUS
<1>1. ParsingInv
  BY ParsingInit DEF Init
<1>2. GameInv
  BY IndoorAssumption DEF Init, GameInv
<1>3. StandsFree /\ KeptInside
  BY DEF Init, StandsFree, KeptInside, WalledMap
<1>. QED
  BY <1>1, <1>2, <1>3 DEF MovementInv

\* Steps that leave the maps alone leave all that is known of them.
LEMMA MapsStay ==
    ASSUME ParsingInv, UNCHANGED <<parsingVars, indoorSpawn>>
    PROVE  /\ ParsingInv'
           /\ Finished' <=> Finished
           /\ (\A q \in WalledIn : SolidAt(layers, q[1], q[2]))' <=> \A q \in WalledIn : SolidAt(layers, q[1], q[2])
           /\ (spawnPoint \notin WalledIn /\ indoorSpawn \notin WalledIn)'
                  <=> (spawnPoint \notin WalledIn /\ indoorSpawn \notin WalledIn)
BY DEF ParsingInv, ParsingTypes, TilesInPlace, Parsed, Finished, parsingVars

\* A world is entered at its spawn point.
LEMMA ChangeKeeps ==
    ASSUME MovementInv, phase # "init", phase' # "init", changeToWorld,
           UNCHANGED <<parsingVars, indoorSpawn, moves_, readOutside>>
    PROVE  MovementInv'
<1>1. ParsingInv' /\ (Finished' <=> Finished)
  BY MapsStay DEF MovementInv
<1>2. p' \in {indoorSpawn, spawnPoint} /\ p' = Spawn'
  BY DEF changeToWorld, Spawn, parsingVars
<1>3. {indoorSpawn, spawnPoint} \subseteq Grid /\ Grid \subseteq Positions
  BY DEF MovementInv, GameInv, Grid, Positions
<1>4. GameInv'
  BY <1>1, <1>2, <1>3 DEF MovementInv, GameInv, parsingVars
<1>5. StandsFree'
  BY <1>2 DEF StandsFree
<1>6. WalledMap' => WalledMap /\ {indoorSpawn, spawnPoint} \subseteq Grid \ WalledIn
  BY <1>3, MapsStay DEF WalledMap, MovementInv
<1>7. KeptInside'
  BY <1>2, <1>6 DEF KeptInside, MovementInv
<1>. QED
  BY <1>1, <1>4, <1>5, <1>7 DEF MovementInv

\* A move onto the map is made exactly when the place is free; one off the map may be made.
LEMMA ApplyMoveCases ==
    ASSUME MovementInv, applyMove
    PROVE  LET destination == <<p[1] + Head(moves_)[1], p[2] + Head(moves_)[2]>> IN
           /\ destination \in Positions
           /\ p' \in {p, destination}
           /\ destination \in Grid =>
                 /\ readOutside' => readOutside
                 /\ p' = destination => ~SolidAt(layers, destination[1], destination[2]) \/ destination = p
<1>. DEFINE move == Head(moves_)
            destination == <<p[1] + move[1], p[2] + move[2]>>
<1>1. move[1] \in Int /\ move[2] \in Int
  BY KeyOffsets DEF applyMove, MovementInv, GameInv
<1>2. p \in Positions /\ ParsingInv /\ Finished
  BY DEF applyMove, MovementInv, GameInv
<1>3. destination \in Positions
  BY <1>1, <1>2 DEF Positions
<1>4. PICK i \in TileIndexes(destination) : \E solid \in IsSolid(i) :
              /\ p' = IF solid THEN p ELSE destination
              /\ readOutside' = (readOutside \/ i \notin Indexes)
  BY DEF applyMove, Checked
<1>5. PICK solid \in IsSolid(i) :
              /\ p' = IF solid THEN p ELSE destination
              /\ readOutside' = (readOutside \/ i \notin Indexes)
  BY <1>4
<1>6. ASSUME destination \in Grid
      PROVE  /\ readOutside' => readOutside
             /\ p' = destination => ~SolidAt(layers, destination[1], destination[2]) \/ destination = p
  <2>1. i \in Indexes /\ (solid <=> SolidAt(layers, destination[1], destination[2]))
    BY <1>2, <1>4, <1>5, <1>6, TileOfPlace
  <2>. QED
    BY <1>5, <2>1
<1>7. p' \in {p, destination}
  BY <1>5
<1>. QED
  BY <1>3, <1>6, <1>7

\* The step on foot: who is inside of the walls is stopped by them.
LEMMA ApplyMoveKeeps == ASSUME MovementInv, applyMove PROVE MovementInv'
<1>. DEFINE destination == <<p[1] + Head(moves_)[1], p[2] + Head(moves_)[2]>>
<1>1. /\ destination \in Positions
      /\ p' \in {p, destination}
      /\ destination \in Grid =>
            /\ readOutside' => readOutside
            /\ p' = destination => ~SolidAt(layers, destination[1], destination[2]) \/ destination = p
  BY ApplyMoveCases
<1>2. ParsingInv' /\ (Finished' <=> Finished) /\ UNCHANGED <<parsingVars, indoorSpawn, indoor, phase>>
  BY MapsStay DEF MovementInv, applyMove
<1>3. p \in Positions /\ phase = "movement" /\ moves_ # <<>>
  BY DEF MovementInv, GameInv, applyMove
<1>4. GameInv'
  <2>1. moves_' \in Seq({Keys[i] : i \in DOMAIN Keys})
    BY DEF applyMove, MovementInv, GameInv
  <2>. QED
    BY <1>1, <1>2, <1>3, <2>1 DEF MovementInv, GameInv, parsingVars
<1>5. StandsFree'
  <2>. SUFFICES ASSUME p' # Unset, p' \in Grid, SolidAt(layers, p'[1], p'[2])
                PROVE  p' = Spawn
    BY <1>2 DEF StandsFree, Spawn, parsingVars
  <2>1. p' = p
    BY <1>1
  <2>. QED
    BY <2>1 DEF MovementInv, StandsFree
<1>6. KeptInside'
  <2>. SUFFICES ASSUME WalledMap'
                PROVE  ~readOutside' /\ p' \in Grid \ WalledIn
    BY DEF KeptInside
  <2>1. WalledMap
    BY <1>2, MapsStay DEF WalledMap, MovementInv
  <2>2. ~readOutside /\ p \in Grid \ WalledIn
    BY <2>1 DEF MovementInv, KeptInside
  <2>3. destination \in Grid
    <3>1. p[1] \in 1..Width-2 /\ p[2] \in 1..Height-2
      BY <2>2, GridAssumption DEF WalledIn, Grid
    <3>2. Head(moves_)[1] \in -1..1 /\ Head(moves_)[2] \in -1..1
      BY <1>3, KeyOffsets DEF MovementInv, GameInv
    <3>3. destination[1] \in 0..Width-1 /\ destination[2] \in 0..Height-1
      BY <3>1, <3>2, GridAssumption
    <3>. QED
      BY <3>3 DEF Grid
  <2>4. p' = destination => destination \notin WalledIn
    BY <1>1, <2>1, <2>2, <2>3 DEF WalledMap
  <2>. QED
    BY <1>1, <2>2, <2>3, <2>4
<1>. QED
  BY <1>2, <1>4, <1>5, <1>6 DEF MovementInv

LEMMA MovementNext == MovementInv /\ [Next]_vars => MovementInv'
<1>. SUFFICES ASSUME MovementInv, [Next]_vars PROVE MovementInv'
  OBVIOUS
<1>1. ASSUME UNCHANGED <<parsingVars, indoorSpawn, indoor, p, readOutside>>,
             phase # "init", phase' # "init", moves_' \in Seq({Keys[i] : i \in DOMAIN Keys})
      PROVE  MovementInv'
  <2>1. ParsingInv' /\ (Finished' <=> Finished)
    BY <1>1, MapsStay DEF MovementInv
  <2>2. GameInv'
    BY <1>1, <2>1 DEF MovementInv, GameInv, parsingVars
  <2>3. StandsFree'
    BY <1>1 DEF MovementInv, StandsFree, Spawn, parsingVars
  <2>4. KeptInside'
    BY <1>1 DEF MovementInv, KeptInside, WalledMap, parsingVars
  <2>. QED
    BY <2>1, <2>2, <2>3, <2>4 DEF MovementInv
<1>2. CASE init
  <2>1. phase = "init" /\ p = Unset /\ ~indoor /\ ~readOutside /\ indoorSpawn' = indoorSpawn
    BY <1>2 DEF init, MovementInv, GameInv
  <2>2. CASE parseTile /\ UNCHANGED <<p, phase>>
    <3>1. ParsingInv'
      BY <2>2, ParsingNext DEF MovementInv
    <3>2. GameInv' /\ StandsFree' /\ KeptInside'
      BY <1>2, <2>1, <2>2 DEF init, MovementInv, GameInv, StandsFree, KeptInside, WalledMap
    <3>. QED
      BY <3>1, <3>2 DEF MovementInv
  <2>3. CASE /\ Finished /\ spawnPoint # Unset
             /\ p' = spawnPoint /\ phase' = "render"
             /\ UNCHANGED parsingVars
    <3>1. spawnPoint \in Grid
      BY <2>3 DEF MovementInv, ParsingInv, ParsingTypes
    <3>2. ParsingInv' /\ Finished'
      BY <2>1, <2>3, MapsStay DEF MovementInv
    <3>3. Grid \subseteq Positions /\ UNCHANGED <<indoorSpawn, indoor, moves_, readOutside>>
      BY <1>2 DEF Grid, Positions, init
    <3>4. GameInv'
      BY <2>3, <3>1, <3>2, <3>3 DEF MovementInv, GameInv, parsingVars
    <3>5. StandsFree' /\ KeptInside'
      BY <2>1, <2>3, <3>1, <3>3 DEF StandsFree, KeptInside, WalledMap, Spawn, parsingVars
    <3>. QED
      BY <3>2, <3>4, <3>5 DEF MovementInv
  <2>. QED
    BY <1>2, <2>2, <2>3 DEF init
<1>3. CASE render
  BY <1>1, <1>3, ChangeKeeps DEF render, MovementInv, GameInv
<1>4. CASE processEntity
  <2>1. \A pressed \in SUBSET {Keys[i] : i \in DOMAIN Keys} :
            MovesOf(pressed) \in Seq({Keys[i] : i \in DOMAIN Keys})
    <3>. SUFFICES ASSUME NEW pressed \in SUBSET {Keys[i] : i \in DOMAIN Keys}
                  PROVE  MovesOf(pressed) \in Seq({Keys[i] : i \in DOMAIN Keys})
      OBVIOUS
    <3>. DEFINE places == {i \in DOMAIN Keys : Keys[i] \in pressed}
                first == CHOOSE i \in places : \A j \in places : i =< j
    <3>1. places \in SUBSET (1..8)
      BY DEF Keys
    <3>2. places # {} => first \in places
      BY <3>1, FirstPlace
    <3>3. places # {} => Keys[first] \in {Keys[i] : i \in DOMAIN Keys}
      BY <3>2
    <3>4. MovesOf(pressed) = IF places = {} THEN <<>> ELSE <<Keys[first]>>
      BY DEF MovesOf
    <3>5. \A S : <<>> \in Seq(S) /\ \A e \in S : <<e>> \in Seq(S)
      OBVIOUS
    <3>. HIDE DEF places, first
    <3>. QED
      BY <3>3, <3>4, <3>5, Zenon
  <2>2. moves_' \in Seq({Keys[i] : i \in DOMAIN Keys})
    BY <1>4, <2>1 DEF processEntity, MovementInv, GameInv
  <2>. QED
    BY <1>1, <1>4, <2>2 DEF processEntity
<1>5. CASE applyMove
  BY <1>5, ApplyMoveKeeps
<1>6. CASE updated
  BY <1>1, <1>6 DEF updated, MovementInv, GameInv
<1>7. CASE UNCHANGED vars
  BY <1>7 DEF vars, worldVars, parsingVars, MovementInv, ParsingInv, ParsingTypes, TilesInPlace, Parsed,
     GameInv, Finished, StandsFree, Spawn, KeptInside, WalledMap
<1>. QED
  BY <1>2, <1>3, <1>4, <1>5, <1>6, <1>7 DEF Next

LEMMA MovementCorrect == Spec => []MovementInv
BY MovementInit, MovementNext, PTL DEF Spec

\* What getTile finds at a coordinate is what the layers have there, for every shape of map
\* and every number of layers, at every moment of parseTiles.
THEOREM TilesInPlaceCorrect == Spec => []TilesInPlace
BY MovementCorrect, PTL DEF MovementInv, ParsingInv

\* Nobody walks onto a solid tile of the map, from whatever side and however many moves
\* are queued; who stands on one was put there with the change of the world.
THEOREM StandsFreeCorrect == Spec => []StandsFree
BY MovementCorrect, PTL DEF MovementInv

\* Walls all around keep the player inside and every index in the vector, whatever the
\* size of the map and however long she walks.
THEOREM WallsKeepInsideCorrect == Spec => []WallsKeepInside
<1>1. MovementInv => WallsKeepInside
  BY DEF MovementInv, GameInv, KeptInside, WalledMap, WallsKeepInside
<1>. QED
  BY <1>1, MovementCorrect, PTL

=============================================================================
