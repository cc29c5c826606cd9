\* The report cannot be written (a full disk, a directory that does not exist).
CONSTANTS
    JsonTargets = {"file"}
    Faults = {"write"}
SPECIFICATION Spec
INVARIANT ExitOneMeansBlock
