SPECIFICATION Spec
CONSTANTS
    Slots = {1, 2, 3, 4, 5}
    Handles = {h1}
    Requests = {"unlink open"}
    ChunkSize = 2
    MaxDirect = 3
    MaxIndex = 1
    MaxCache = 2
    WriteThrough = 1
    IdsPerByte = 1
    HeadRoom = 6
    WriteLengths = {2, 4}
    MaxSize = 6
    MaxWrites = 3
INVARIANTS
    NoSlotLeaked
