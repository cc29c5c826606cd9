\* Three pairs without repeats, two of them needed to block, one for an interval, at
\* tolerated changes of 0 and 1/3 (one failed run in three meets it exactly);
\* two cases with two repeats; and two cases scored on a finer
\* scale, at tolerated drops below and above MinScoreDrop.
CONSTANTS
    Scale = 3
    MinPairsToBlock = 2
    MinPairsForCI = 1
    MinScoreDrop = 1
    GroundednessNames = {"groundedness_strict"}
    FullScore = 2
    Plans <- MCPlans
SPECIFICATION Spec
INVARIANTS TypeOK EveryKeyOnce BlockHasWitness UniformRegressionBlocks
INVARIANTS EvidenceMatchesMetric WorseNeverHides
INVARIANTS FindingsAccountForLoss RepresentativeRegressed RefreshMatchesResponse
