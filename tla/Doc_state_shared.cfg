SPECIFICATION Spec
CONSTANTS
    Containers = {work, home}
    Processes = {p1, p2}
    Faults = {}
    MaxGeneration = 3
INVARIANTS
    OlderRefused
