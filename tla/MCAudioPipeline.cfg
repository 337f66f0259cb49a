SPECIFICATION FairSpec
CONSTANTS
    QueueDepth = 2
    SplitAfter = 2
    SplitForce = 3
    SilenceMin = 1
    LossBound = 1
    MaxSessions = 2
    MaxFrames = 4
    MaxFiles = 5
INVARIANT SavedIsAPrefix
INVARIANT NoSilentLoss
INVARIANT StopTellsTheTruth
 
PROPERTY SessionsEnd
