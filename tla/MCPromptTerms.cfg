SPECIFICATION PromptSpec
CONSTANTS
    Length <- MCLength
    Indexes <- MCIndexes
    Dictionaries <- MCDictionaries
    AllowedKinds <- MCKinds
    MinMentions = 2
    Cutoff = 5
    EntityMaxTerms = 2
    EntityMaxChars = 7
    PromptMaxTerms = 3
    PromptMaxChars = 9
    RefreshMinutes = 7
    MaxNow = 10
INVARIANT PromptIsLongestPrefix
INVARIANT VocabularyIsTheBest
INVARIANT VocabularyIsFresh
