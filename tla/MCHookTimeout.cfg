\* The timeout of a call that waits.
CONSTANTS
    f1 = f1  f2 = f2  d1 = d1
    Fibers = {f1, f2}
    Fds = {d1}
    NoFd = NoFd  NoFiber = NoFiber
    MaxCalls = 2
    MaxArrivals = 1
    MaxCloses = 0
SPECIFICATION Spec
CHECK_DEADLOCK FALSE
INVARIANTS TimeoutArmed
