------------------------------ MODULE TileGrid ------------------------------
(***************************************************************************)
(* The tiles of a map: what Map.hpp says of a tile, and how getTile finds  *)
(* it in the vector of tiles.  A map file is a sequence of layers, of      *)
(* which the coordinates with a tile laid on them matter, and the layer's  *)
(* name and properties.                                                    *)
(***************************************************************************)
EXTENDS Integers, Sequences

CONSTANTS
    Width, Height,  \* of every map, in tiles
    IndexRange      \* uint32_t counts modulo this

ASSUME GridAssumption ==
    /\ Width \in Nat \ {0} /\ Height \in Nat \ {0}
    /\ IndexRange \in Nat /\ Width * Height =< IndexRange

Grid == (0..Width-1) \X (0..Height-1)

Layer == [laid : SUBSET Grid, solid : BOOLEAN, marksSpawn : BOOLEAN, interesting : SUBSET Grid]

MapTile == [isSolid : BOOLEAN, isInteresting : BOOLEAN, isSpawn : BOOLEAN]

\* MUTANT: the other dimension.
TileLocByHeight(x, y) == (x + Height * y) % IndexRange

\* resolveTileLoc: unsigned, so it wraps, and is not compared with anything.
TileLoc(x, y) == (x + Width * y) % IndexRange

\* The indexes of the vector; reading any other is undefined.
Indexes == 0..(Width * Height - 1)

\* A tile is solid when any solid layer has something on it.
SolidAt(layers, x, y) ==
    \E i \in DOMAIN layers : layers[i].solid /\ <<x, y>> \in layers[i].laid

InterestingAt(layers, x, y) ==
    \E i \in DOMAIN layers : <<x, y>> \in layers[i].laid \cap layers[i].interesting

SpawnLaid(layers, x, y) ==
    \E i \in DOMAIN layers : layers[i].marksSpawn /\ <<x, y>> \in layers[i].laid

=============================================================================
