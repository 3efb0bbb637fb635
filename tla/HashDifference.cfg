SPECIFICATION Spec
CONSTANTS
    mapPaths <- TwoPaths
    MapFiles <- SmallFiles
    Unparsable = Unparsable
    NoName = NoName
    ColumnLength = 25
INVARIANTS
    HashDifferenceReal
