SPECIFICATION Spec
CONSTANTS
    b1 = b1
    b2 = b2
    b3 = b3
    Ids <- MCIds
    NoId = NoId
    Capacities = {0, 1, 2, 3}
    Sizes = {1, 2}
    Hotnesses = {1, 4}
    MaxBytes = 2
    MaxOps = 6
PROPERTY VictimIsLeastRecent
