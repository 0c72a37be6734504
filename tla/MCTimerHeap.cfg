\* A one-shot and a recurring timer, two users and one waiter; the clock may be set back.
CONSTANTS
    t1 = t1  t2 = t2  u1 = u1  u2 = u2  v1 = v1  v2 = v2
    Timers = {t1, t2}
    Recurring = {t2}
    Users = {u1, u2}
    Waiters = {v1}
    NoTimer = NoTimer  NoThread = NoThread
    Durations = {0}
    MaxTick = 1
    Hour = 0
    SetBacks = 1
SPECIFICATION Spec
SYMMETRY Symmetry
INVARIANTS TypeOK HeapOrdered NoTimerLost OneShotOnce
