SPECIFICATION Spec
CONSTANTS
    Step = 4
    Vocab = {1, 2, 3}
    MaxDraftTokens = 3
    MaxSuffixLen = 2
    MinConfidence = 60
    NgramSize = 2
    MinMatches = 2
    MaxPrompt = 3
    MaxSeq = 8
    Configs <- MCConfigs
INVARIANTS IndexExact DraftDirect StepsAccounted
