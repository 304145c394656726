SPECIFICATION Spec
CONSTANTS
    Slots = {1, 2, 3, 4}
    Root = 1
    Names = {a, b, c}
    Handles = {h1}
    Requests = {"over file"}
    MaxEntries = 2
    MaxInodes = 4
INVARIANTS
    NoSlotLeaked
