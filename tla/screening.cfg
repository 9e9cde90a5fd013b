CONSTANTS
    NaN = NaN
    Null = Null
    Other = Other
    FieldNames <- MCFieldNames
    MinFound = 3
    Texts <- MCTexts
    NumberOf <- MCNumberOf
    Normal <- MCNormal
    Within <- MCWithin
    NoValue = Null
    NotText = Other
    NotANumber = NaN
    Responses <- MCResponses
    Configs <- MCConfigs
    MAX_RETRIES = 2
    Budget = 2
    MaxCrashes = 1
    MaxErrors = 1
SPECIFICATION FairSpec
INVARIANTS
    TypeOK
    RunsAreWhole
    ThresholdDecides
    ScoredWhatWasExtracted
    MetOnEvidence
    ScoreIsNearest
    GapsLowerConfidence
PROPERTIES
    JobSettles
\* One job: when it is settled nothing is left to do.
CHECK_DEADLOCK FALSE
