\* The broker is down and another request takes the last connection; the
\* database itself works.
CONSTANTS
    AsyncRuns = {a1}
    SyncRuns = {s1}
    Reads = {}
    Capacities = {2}
    DatabaseFails = FALSE
SPECIFICATION Spec
INVARIANT DispatchFailureRecorded
