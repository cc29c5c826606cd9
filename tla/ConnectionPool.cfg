\* Two run-async requests, a synchronous run and a read. Two connections: the
\* run-async requests can wait for each other; three: one more than they are;
\* six: room for everyone.
CONSTANTS
    AsyncRuns = {a1, a2}
    SyncRuns = {s1}
    Reads = {g1}
    Capacities = {2, 3, 6}
    DatabaseFails = TRUE
SPECIFICATION FairSpec
INVARIANTS TypeOK NothingLeaks NoCircularWait
PROPERTY EveryoneAnswered
