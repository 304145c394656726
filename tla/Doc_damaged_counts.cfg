SPECIFICATION Spec
CONSTANTS
    Passwords = {owner, hidden}
    Keys = {alice, bob}
    Owner = owner
    HiddenPassword = hidden
    Nobody = nobody
    MaxSlots = 2
    Shapes = {"plain"}
    Handles = {h1}
    Faults = {"bytes"}
    NoiseCounts = {0, 1, 2}
    MaxOperations = 1
INVARIANTS
    DamageIsRecovered
CHECK_DEADLOCK FALSE
