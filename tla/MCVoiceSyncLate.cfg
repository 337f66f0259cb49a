CONSTANTS i1 = i1 i2 = i2 speech = speech silence = silence
r1 = r1 r2 = r2
Id = {i1}
Data = {speech}
Silent = {}
NoFile = NoFile
InFlash = {}
Networks = 1
MaxCandidates = 1
Torn = Torn
Nothing = Nothing
Request = {r1, r2}
PowerLoss = FALSE
MaxSends = 2
MaxCrashes = 2
LateRequests = TRUE
MaxResets = 0
SPECIFICATION Spec
INVARIANT SafeOnTheMac
