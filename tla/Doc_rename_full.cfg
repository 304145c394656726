\* The name that a failed rename takes away.  The name that it leaves on a slot
\* it has freed: INVARIANTS NamesAreTaken in place of PROPERTIES.
SPECIFICATION Spec
CONSTANTS
    Slots = {1, 2, 3, 4}
    Root = 1
    Names = {a, b}
    Handles = {h1}
    Requests = {"over file", "no room"}
    MaxEntries = 2
    MaxInodes = 4
PROPERTIES
    FailuresChangeNothing
