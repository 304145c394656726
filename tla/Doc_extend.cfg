SPECIFICATION Spec
CONSTANTS
    Slots = {1, 2, 3}
    Handles = {h1}
    Requests = {"extend"}
    ChunkSize = 2
    MaxDirect = 3
    MaxIndex = 1
    MaxCache = 2
    WriteThrough = 1
    IdsPerByte = 1
    HeadRoom = 6
    WriteLengths = {1, 2}
    MaxSize = 4
    MaxWrites = 3
INVARIANTS
    ReadsSeeWrites
