\* What is left when all workers have left run()?
CONSTANTS
    w1 = w1  r = r  d1 = d1  f1 = f1  f2 = f2
    Spawned = {w1}
    Root = r
    Fds = {d1}
    Fibers = {f1, f2}
    NoFd = NoFd  NoFiber = NoFiber  NoThread = NoThread
    TwoWay = TRUE
    MaxArrivals = 2
    MaxCalls = 3
SPECIFICATION Spec
SYMMETRY Symmetry
CHECK_DEADLOCK FALSE
INVARIANTS NothingLeftBehind
