SPECIFICATION Spec
CONSTANTS
    Slots = {1, 2, 3, 4}
    Handles = {h1}
    Requests = {"truncate", "closed size", "unlink"}
    ChunkSize = 2
    MaxDirect = 3
    MaxIndex = 1
    MaxCache = 2
    WriteThrough = 1
    IdsPerByte = 1
    HeadRoom = 4
    WriteLengths = {1, 2, 4}
    MaxSize = 8
    MaxWrites = 3
INVARIANTS
    ReadsSeeWrites
    FlushedIsOnDisk
    NoSlotFreedTwice
    NoSlotLeaked
