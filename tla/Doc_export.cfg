SPECIFICATION Spec
CONSTANTS
    Keys = {1, 2}
    OtherNames = {3}
    PublicNames = {4}
    Destinations = {4}
INVARIANTS
    ActsOnWhatIsShown
