CONSTANTS
    Limit = 3
    Stores = {1, 2}
    MaxAppends = 8

SPECIFICATION Spec

INVARIANTS
    SnapshotIsNewest
