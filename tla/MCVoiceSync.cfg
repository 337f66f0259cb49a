CONSTANTS i1 = i1 i2 = i2 speech = speech silence = silence
r1 = r1 r2 = r2
Id = {i1}
Data = {speech, silence}
Silent = {silence}
NoFile = NoFile
InFlash = {}
Networks = 1
MaxCandidates = 1
Torn = Torn
Nothing = Nothing
Request = {r1}
PowerLoss = FALSE
MaxSends = 3
MaxCrashes = 2
LateRequests = FALSE
MaxResets = 1
SPECIFICATION Spec
INVARIANT NothingLost
INVARIANT NotedOnce
