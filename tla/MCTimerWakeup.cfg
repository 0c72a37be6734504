\* One user, two waiters, two timeouts: the waiters wake up in time.  No symmetry (liveness).
CONSTANTS
    t1 = t1  t2 = t2  u1 = u1  u2 = u2  v1 = v1  v2 = v2
    Timers = {t1, t2}
    Recurring = {}
    Users = {u1}
    Waiters = {v1, v2}
    NoTimer = NoTimer  NoThread = NoThread
    Durations = {0, 1}
    MaxTick = 1
    Hour = 1
    SetBacks = 0
SPECIFICATION FairSpec
INVARIANTS FrontIsCovered
PROPERTIES DueTimersFire
