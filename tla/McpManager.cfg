CONSTANTS
    Servers <- MCServers
    RawConfigs <- MCRawConfigs
    Offers <- MCOffers
    Calls <- MCCalls
    MaxParallel = 2
    Preambles <- MCPreambles
    ReplyEvents <- MCReplyEvents
    Answers <- MCAnswers
    HighRiskParts <- MCHighRisk
    AllowedTools <- MCAllowed
SPECIFICATION FairSpec
INVARIANTS TypeOK OnlyGatedCallsReach OutcomesFaithful ServersAccounted
PROPERTIES InterruptStops
CHECK_DEADLOCK FALSE
