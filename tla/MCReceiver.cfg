CONSTANTS i1 = i1 speech = speech silence = silence
r1 = r1 r2 = r2
Id = {i1}
Data = {speech, silence}
Silent = {silence}
Torn = Torn
Nothing = Nothing
Request = {r1, r2}
PowerLoss = TRUE
MaxSends = 3
MaxCrashes = 2
SPECIFICATION FairSpec
INVARIANT AcceptedIsTracked
INVARIANT DoneMeansNoted
INVARIANT NotesAreVerbatim
PROPERTY AcceptedIsProcessed
CHECK_DEADLOCK FALSE
