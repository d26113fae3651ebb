SPECIFICATION FairSpec
CONSTANTS
    Shapes <- MCShapes
    Remote = {r1}
    Serves <- MCServes
    Denies <- MCDenies
    MaxEdits = 3
INVARIANTS
    TypeOK
    ServableInService
    InServiceWhenQuiet
    FailsClosed
PROPERTIES
    ReloadConverges
