CONSTANT Threads = {t1, t2, t3}
SPECIFICATION FairSpec
INVARIANT TypeOK
INVARIANT MutualExclusion
INVARIANT WordIsExact
INVARIANT NoLostWakeup
PROPERTY Progress
PROPERTY ImplementsLock
