\* A run that imports what is due, a run forced by hand, the process of an import
\* job and an importer without a lock over one scope; processes get two units old,
\* locks are stale after one, one process is killed.
SPECIFICATION FairSpec
CONSTANTS
    Cron = {c1}
    Manual = {m1}
    Jobs = {j1}
    Bare = {b1}
    OtherJob = other
    None = none
    Scopes = 1
    Stall = 1
    MaxAge = 2
    MaxCrashes = 1
INVARIANT OneImportPerScope
PROPERTY AbandonedLocksAreReclaimed
