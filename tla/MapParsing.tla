----------------------------- MODULE MapParsing -----------------------------
(***************************************************************************)
(* Map::parseTiles: the layers of a map file become one vector of tiles,   *)
(* one tile a step.                                                        *)
(***************************************************************************)
EXTENDS TileGrid

CONSTANTS
    MapFiles,   \* the map files, each a sequence of layers
    Unset       \* the spawn point before any is found: glm leaves it uninitialised

ASSUME MapFilesAssumption == MapFiles \subseteq Seq(Layer)

VARIABLES
    layers,     \* of the file
    tiles,      \* the vector
    x, y,       \* the tile that is looked at next
    spawnPoint

parsingVars == <<layers, tiles, x, y, spawnPoint>>

InitParsing ==
    /\ layers \in MapFiles
    /\ tiles = <<>>
    /\ x = 0 /\ y = 0
    /\ spawnPoint = Unset

\* MUTANT: the last layer that has a tile here decides.
ResolveTileLast ==
    LET here == {i \in DOMAIN layers : <<x, y>> \in layers[i].laid} IN
    [isSolid |-> here # {} /\ layers[CHOOSE i \in here : \A j \in here : j =< i].solid,
     isInteresting |-> InterestingAt(layers, x, y),
     isSpawn |-> FALSE]

\* `spawn` is passed on as it was initialised.
ResolveTile ==
    [isSolid |-> SolidAt(layers, x, y), isInteresting |-> InterestingAt(layers, x, y), isSpawn |-> FALSE]

\* The last spawn point that is found counts.
FindSpawn == spawnPoint' = IF SpawnLaid(layers, x, y) THEN <<x, y>> ELSE spawnPoint

parseTile ==
    /\ y < Height
    /\ tiles' = Append(tiles, ResolveTile)
    /\ FindSpawn
    /\ IF x + 1 < Width THEN x' = x + 1 /\ y' = y ELSE x' = 0 /\ y' = y + 1
    /\ UNCHANGED layers

Finished == y = Height

-----------------------------------------------------------------------------

Parsed(p) == p[2] < y \/ (p[2] = y /\ p[1] < x)

\* The vector is filled in the order in which getTile indexes it: whatever the shape of
\* the map, the tile found at a coordinate is what the layers have there, for a layer
\* under others as well.
TilesInPlace ==
    \A p \in Grid : Parsed(p) =>
        /\ TileLoc(p[1], p[2]) < Len(tiles)
        /\ LET tile == tiles[TileLoc(p[1], p[2]) + 1] IN
           /\ tile.isSolid <=> SolidAt(layers, p[1], p[2])
           /\ tile.isInteresting <=> InterestingAt(layers, p[1], p[2])

=============================================================================
