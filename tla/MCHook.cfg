\* Two fibers, one descriptor: its calls, timeouts and a close().
CONSTANTS
    f1 = f1  f2 = f2  d1 = d1
    Fibers = {f1, f2}
    Fds = {d1}
    NoFd = NoFd  NoFiber = NoFiber
    MaxCalls = 2
    MaxArrivals = 1
    MaxCloses = 1
SPECIFICATION FairSpec
CHECK_DEADLOCK FALSE
INVARIANTS TypeOK WakeOnce NoTimerLeft
PROPERTIES ReadyReturns
