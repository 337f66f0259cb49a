SPECIFICATION Spec
CONSTANTS
    TransferIds <- MCIds
    Sizes <- MCSizes
    PartitionSize = 3
    MaxChunk = 2
    ProgressUnits = 2
    Handles <- MCHandles
INVARIANT BootImageIsWhole
INVARIANT IntervalSettles
INVARIANT LinkIsKnown
PROPERTY Reachable
