SPECIFICATION Spec
CONSTANTS
    Slots = {1, 2, 3, 4}
    Root = 1
    Names = {a, b, c}
    Handles = {h1}
    Requests = {"unlink open", "over file", "over data", "over tree", "no room"}
    MaxEntries = 2
    MaxInodes = 3
SYMMETRY Symmetry
INVARIANTS
    TypeOK
    TreeIsSound
    HandlesOnFiles
    InodesNamed
    FreeIsNoise
PROPERTIES
    IsNameTree
    FailuresKeepNames
