\* Two records at a time, three rotations; a gallery of two chunks or of one.
CONSTANTS
    CODE_COLS = 3
    RowGroups = 2
    MaxRotation = 1
    ChunkSize = 2
    Block = 2
    Random <- MCRandom
    Keystream <- MCKeystream
    Queries <- MCQueries
    Galleries <- MCGalleries
SPECIFICATION Spec
INVARIANTS DistanceIsPlain Replicated RebuiltIsSame DotsAgree
