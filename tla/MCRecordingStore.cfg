SPECIFICATION Spec
CONSTANTS
    Name = {n1, n2}
    NoName = NoName
    Packet <- MCPacket
    Size <- MCSize
    LaceMax = 4
    MaxSegments = 3
    MaxPayload = 8
    PacketsPerPage = 2
    SyncEveryPages = 2
    PreSkip = 1
    FrameSamples = 960
    SampleRate = 16000
    MaxAccepted = 5
INVARIANT FinalFilesComplete
INVARIANT GranulesExact
INVARIANT BoundedLoss
PROPERTY AudioIsKept
PROPERTY LogSpec
