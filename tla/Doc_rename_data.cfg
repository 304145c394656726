SPECIFICATION Spec
CONSTANTS
    Slots = {1, 2, 3, 4}
    Root = 1
    Names = {a, b}
    Handles = {h1}
    Requests = {"over data"}
    MaxEntries = 2
    MaxInodes = 3
INVARIANTS
    NoSlotLeaked
