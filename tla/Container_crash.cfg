SPECIFICATION Spec
CONSTANTS
    Passwords = {owner, hidden}
    Keys = {alice, bob, carol}
    Owner = owner
    HiddenPassword = hidden
    Nobody = nobody
    MaxSlots = 3
    Shapes = {"plain", "keys only", "hidden", "hidden long"}
    Handles = {h1, h2}
    Faults = {"crash", "sector", "bytes"}
    NoiseCounts = {3}
    MaxOperations = 4
SYMMETRY Symmetry
INVARIANTS
    TypeOK
    GrantedOpens
    OwnerOpens
    RevokedStaysOut
    HiddenStays
CHECK_DEADLOCK FALSE
