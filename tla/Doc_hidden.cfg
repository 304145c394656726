SPECIFICATION Spec
CONSTANTS
    Passwords = {owner, hidden}
    Keys = {alice, bob}
    Owner = owner
    HiddenPassword = hidden
    Nobody = nobody
    MaxSlots = 2
    Shapes = {"hidden"}
    Handles = {h1}
    Faults = {}
    NoiseCounts = {0, 1, 2}
    MaxOperations = 0
INVARIANTS
    HiddenReads
CHECK_DEADLOCK FALSE
