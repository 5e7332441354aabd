SPECIFICATION Spec
CONSTANTS
    BlockSizes <- OneAndThree
    MemorySize = 24
    ControlSize = 2
    SlotSize = 1
    Word = 2
    Link = Link
    None = None
INVARIANTS PoolConsistent
PROPERTIES ImplementsZones
