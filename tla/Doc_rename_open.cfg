SPECIFICATION Spec
CONSTANTS
    Slots = {1, 2, 3, 4}
    Root = 1
    Names = {a, b, c}
    Handles = {h1}
    Requests = {"over open"}
    MaxEntries = 2
    MaxInodes = 4
INVARIANTS
    FreeIsNoise
