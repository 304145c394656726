SPECIFICATION Spec
CONSTANTS
    Slots = {1, 2, 3, 4}
    Handles = {h1}
    Requests = {"seek"}
    ChunkSize = 2
    MaxDirect = 3
    MaxIndex = 1
    MaxCache = 2
    WriteThrough = 1
    IdsPerByte = 1
    HeadRoom = 6
    WriteLengths = {2}
    MaxSize = 6
    MaxWrites = 3
INVARIANTS
    MapIsRebuilt
