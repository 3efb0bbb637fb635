------------------------------ MODULE Movement ------------------------------
(***************************************************************************)
(* The player in the world: one frame of PlayPG::render in PLAYING, which  *)
(* may change the world, then queues a move (InputSystem) and then applies *)
(* the queued moves (MovementSystem).  The map that is parsed is           *)
(* mapOutdoor, which every system was given; of mapIndoor only the spawn   *)
(* point matters.  Positions are counted in tiles: every coordinate is a   *)
(* multiple of the tile's size.                                            *)
(***************************************************************************)
EXTENDS MapParsing

CONSTANT IndoorSpawns    \* the spawn points mapIndoor may have

ASSUME IndoorAssumption == IndoorSpawns \subseteq Grid

VARIABLES
    indoorSpawn,
    indoor,         \* which world is shown
    p,              \* the player's Position
    moves_,         \* the moves queued in the MovementSystem
    phase,          \* which part of the frame comes next
    readOutside     \* whether a tile was read that the vector does not have

worldVars == <<indoorSpawn, indoor, p, moves_, phase, readOutside>>
vars == <<parsingVars, worldVars>>

\* The keys in the order the InputSystem asks for them: W, A, S, D, 7, 9, 1, 3.
Keys == <<<<0, -1>>, <<-1, 0>>, <<0, 1>>, <<1, 0>>, <<-1, -1>>, <<1, -1>>, <<-1, 1>>, <<1, 1>>>>

Init ==
    /\ InitParsing
    /\ indoorSpawn \in IndoorSpawns
    /\ indoor = FALSE /\ p = Unset
    /\ moves_ = <<>> /\ phase = "init" /\ readOutside = FALSE

changeToWorld ==
    /\ indoor' = ~indoor
    /\ p' = IF indoor' THEN indoorSpawn ELSE spawnPoint

\* The maps are parsed, and the game begins outdoors.  What a map without a spawn point does
\* is left out.
init ==
    /\ phase = "init"
    /\ \/ parseTile /\ UNCHANGED <<p, phase>>
       \/ /\ Finished /\ spawnPoint # Unset
          /\ p' = spawnPoint /\ phase' = "render"
          /\ UNCHANGED parsingVars
    /\ UNCHANGED <<indoorSpawn, indoor, moves_, readOutside>>

\* RETURN changes the world before the systems are updated.
render ==
    /\ phase = "render" /\ phase' = "input"
    /\ changeToWorld \/ UNCHANGED <<indoor, p>>
    /\ UNCHANGED <<parsingVars, indoorSpawn, moves_, readOutside>>

\* A chain of else-ifs: the first key that was pressed counts, and the others do not.
MovesOf(pressed) ==
    LET places == {i \in DOMAIN Keys : Keys[i] \in pressed}
    IN IF places = {} THEN <<>> ELSE <<Keys[CHOOSE i \in places : \A j \in places : i =< j]>>

processEntity ==
    /\ phase = "input" /\ phase' = "movement"
    /\ \E pressed \in SUBSET {Keys[i] : i \in DOMAIN Keys} : moves_' = moves_ \o MovesOf(pressed)
    /\ UNCHANGED <<parsingVars, indoorSpawn, indoor, p, readOutside>>

\* What a coordinate may become on the way from float to uint32_t, which is undefined when
\* it is negative: x86 wraps it, ARM makes it zero.
Unsigned(n) == IF n < 0 THEN {n % IndexRange, 0} ELSE {n}

TileIndexes(q) == {TileLoc(ux, uy) : ux \in Unsigned(q[1]), uy \in Unsigned(q[2])}

\* What isSolidAtCoord may answer of the tile read at an index of the outdoor map, which is
\* asked whichever world is shown: outside the vector it is anything.
IsSolid(i) == IF i \in Indexes THEN {tiles[i + 1].isSolid} ELSE BOOLEAN

\* MUTANT: the tile the player stands on is looked at.
CheckedOrigin(move) == p

Checked(move) == <<p[1] + move[1], p[2] + move[2]>>

\* One turn of the loop in update.
applyMove ==
    /\ phase = "movement" /\ moves_ # <<>>
    /\ LET move == Head(moves_)
           destination == <<p[1] + move[1], p[2] + move[2]>>
       IN \E i \in TileIndexes(Checked(move)) : \E solid \in IsSolid(i) :
              /\ p' = IF solid THEN p ELSE destination
              /\ readOutside' = (readOutside \/ i \notin Indexes)
    /\ moves_' = Tail(moves_)
    /\ UNCHANGED <<parsingVars, indoorSpawn, indoor, phase>>

updated ==
    /\ phase = "movement" /\ moves_ = <<>> /\ phase' = "render"
    /\ UNCHANGED <<parsingVars, indoorSpawn, indoor, p, moves_, readOutside>>

Next == init \/ render \/ processEntity \/ applyMove \/ updated

Spec == Init /\ [][Next]_vars

-----------------------------------------------------------------------------

WalledIn == {q \in Grid : q[1] \in {0, Width - 1} \/ q[2] \in {0, Height - 1}}

Spawn == IF indoor THEN indoorSpawn ELSE spawnPoint

\* The player stands on a tile that is solid outdoors only where changeToWorld has put her,
\* which the room's spawn point may be: MovementSystem keeps the outdoor map in either world.
StandsFree == p # Unset /\ p \in Grid /\ SolidAt(layers, p[1], p[2]) => p = Spawn

\* A map with walls all around keeps the index in the vector, and the player in the map,
\* through any number of moves and changes of the world, diagonal moves included.  Nothing
\* else does: getTile compares neither coordinate with the map, and one that is too large
\* may even be found in the next row.  The spawn points must lie inside of the walls.
WallsKeepInside ==
    /\ p # Unset
    /\ \A q \in WalledIn : SolidAt(layers, q[1], q[2])
    /\ spawnPoint \notin WalledIn /\ indoorSpawn \notin WalledIn
    => ~readOutside /\ p \in Grid \ WalledIn

=============================================================================
