SPECIFICATION Spec
CONSTANTS
    MaxKey = 3
    MaxId = 3
    MaxRestarts = 1
INVARIANT ServingDisjoint
