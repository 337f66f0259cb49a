CONSTANTS
Memo = {1, 2}
Kind = {"plain", "blank"}
MaxUpsets = 1
SPECIFICATION FairMemoSpec
INVARIANT NoMemoLost
INVARIANT RetryIsScheduled
PROPERTY SavedIsNoted
