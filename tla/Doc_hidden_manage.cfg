SPECIFICATION Spec
CONSTANTS
    Passwords = {owner, hidden}
    Keys = {alice, bob}
    Owner = owner
    HiddenPassword = hidden
    Nobody = nobody
    MaxSlots = 2
    Shapes = {"hidden"}
    Handles = {h1}
    Faults = {"hidden manage"}
    NoiseCounts = {0, 1, 2}
    MaxOperations = 2
INVARIANTS
    GrantedOpens
CHECK_DEADLOCK FALSE
