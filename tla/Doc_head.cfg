SPECIFICATION Spec
CONSTANTS
    Slots = {1, 2, 3, 4, 5, 6}
    Handles = {h1}
    Requests = {}
    ChunkSize = 2
    MaxDirect = 3
    MaxIndex = 1
    MaxCache = 2
    WriteThrough = 1
    IdsPerByte = 1
    HeadRoom = 3
    WriteLengths = {2, 4}
    MaxSize = 8
    MaxWrites = 4
INVARIANTS
    NoRequestFails
