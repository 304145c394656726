SPECIFICATION Spec
CONSTANTS
    Containers = {work, home}
    Processes = {p1}
    Faults = {"write"}
    MaxGeneration = 3
INVARIANTS
    OlderRefused
