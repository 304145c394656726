SPECIFICATION Spec
CONSTANTS
    Slots = {1, 2, 3, 4, 5, 6}
    Handles = {h1}
    Requests = {"seek", "truncate", "closed size"}
    ChunkSize = 2
    MaxDirect = 1
    MaxIndex = 1
    MaxCache = 2
    WriteThrough = 1
    IdsPerByte = 1
    HeadRoom = 2
    WriteLengths = {1, 2}
    MaxSize = 6
    MaxWrites = 3
INVARIANTS
    NoSlotLeaked
