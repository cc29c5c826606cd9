\* Every fault around the evaluation, every way to call the command.
CONSTANTS
    JsonTargets = {"none", "stdout", "file"}
    Faults = {"prepare", "write", "kill", "upload", "summary"}
SPECIFICATION Spec
INVARIANTS TypeOK GreenMeansPass SectionIsDecision
