\* The broker takes a message exactly when .delay() returns; processes may
\* still be killed or hit by an outside exception. Two jobs and a request for
\* one experiment.
CONSTANTS
    Jobs = {j1, j2}
    Tasks = {t1, t2}
    Syncs = {s1}
    Exps = {e1}
    NRows = 2
    None = None
    PublishOutcomes = {"ok", "refused"}
    Interruptible = {j1, j2, t1, t2, s1}
    CrashProne = {j1, j2, t1, t2, s1}
SPECIFICATION FairSpec
INVARIANTS RowsLoadable EvaluatedOnce AnswerMatchesDispatch FailedStoresNothing
PROPERTIES RefinesLifecycle JobEnds AnsweredIsStored
