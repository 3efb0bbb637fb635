SPECIFICATION Spec
CONSTANTS
    Width = 4
    Height = 5
    IndexRange = 64
    Unset = Unset
    MapFiles <- SmallMaps
    IndoorSpawns <- SmallIndoorSpawns
CONSTRAINT NearTheMap
INVARIANTS
    TilesInPlace
    StandsFree
    WallsKeepInside
CHECK_DEADLOCK FALSE
