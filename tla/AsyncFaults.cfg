\* Every fault: lost replies, duplicated messages, outside exceptions, kills. Two experiments.
CONSTANTS
    Jobs = {j1}
    Tasks = {t1, t2}
    Syncs = {s1}
    Exps = {e1, e2}
    NRows = 2
    None = None
    PublishOutcomes = {"ok", "refused", "reply_lost", "duplicated"}
    Interruptible = {j1, t1, t2, s1}
    CrashProne = {j1, t1, t2, s1}
SPECIFICATION Spec
SYMMETRY Symmetry
INVARIANTS TypeOK AllOrNothing NoWaitChain CompletedLinksOwnResult AnsweredIsUncontested
PROPERTY ResultsImmutable
