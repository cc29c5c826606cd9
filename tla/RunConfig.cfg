\* Every configuration of MCRunConfig from its file or request to its gate.
SPECIFICATION Spec
CONSTANTS
    Unit = 5
    Stopwords <- MCStopwords
    Lower <- MCLower
    Keyless = {"anthropic"}
    Configs <- MCConfigs
    Texts <- MCTexts
    Replies <- MCReplies
INVARIANTS
    TypeOK
    PreflightComplete
    ScoresMeanWhatTheySay
\* A run ends: rejected, aborted or concluded.
CHECK_DEADLOCK FALSE
