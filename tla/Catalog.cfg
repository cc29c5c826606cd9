CONSTANTS
    Clients     <- MCClients
    Workloads   <- MCWorkloads
    Stock       <- MCStock
    Configured  = {"openai", "ollama"}
    CrashProne  = {"c1", "c2"}
SPECIFICATION Spec
INVARIANTS
    TypeOK
    OneOwnerAllOrNothing
    PromotionFaithful
    ReadsMatchAnswers
    CalibrationHonest
