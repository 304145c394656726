SPECIFICATION Spec
CONSTANTS
    Containers = {work, home}
    Processes = {p1, p2}
    Faults = {"crash", "write"}
    MaxGeneration = 3
INVARIANTS
    TypeOK
    NoFalseRefusal
CHECK_DEADLOCK FALSE
