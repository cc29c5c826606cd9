\* The soft time limit fires once in the task.
CONSTANTS
    Jobs = {j1}
    Tasks = {t1}
    Syncs = {}
    Exps = {e1}
    NRows = 1
    None = None
    PublishOutcomes = {"ok"}
    Interruptible = {t1}
    CrashProne = {}
SPECIFICATION Spec
INVARIANT SoftLimitFailsJob
