CONSTANTS i1 = i1 i2 = i2 i3 = i3 i4 = i4 i5 = i5 d1 = d1
Id = {i1, i2, i3, i4, i5}
Data = {d1}
NoFile = NoFile
InFlash = {i4, i5}
Networks = 3
MaxCandidates = 2
SPECIFICATION FairSpec
INVARIANT ResultHonest
INVARIANT FirstNetworkIsFound
PROPERTY OnlyAckedIsDeleted
PROPERTY SyncEnds
