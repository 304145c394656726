SPECIFICATION Spec
CONSTANTS
    Slots = {1, 2, 3, 4, 5, 6, 7}
    Handles = {h1}
    Requests = {}
    ChunkSize = 2
    MaxDirect = 1
    MaxIndex = 1
    MaxCache = 2
    WriteThrough = 1
    IdsPerByte = 1
    HeadRoom = 4
    WriteLengths = {1, 2, 3}
    MaxSize = 10
    MaxWrites = 4
INVARIANTS
    TypeOK
    ReadsSeeWrites
    FlushedIsOnDisk
    NoSlotFreedTwice
    DirtyBounded
