\* A spawned thread and the root share two fibers; a third fiber is resumed directly.
CONSTANTS
    w1 = w1  f1 = f1  f2 = f2  d1 = d1
    Spawned = {w1}
    Main = Main  SchedulerFiber = SchedulerFiber
    Tasks = {f1, f2}
    Direct = {d1}
    NoFiber = NoFiber  NoThread = NoThread
    MaxYields = 2  MaxQueued = 1  MaxResets = 1
SPECIFICATION Spec
SYMMETRY Symmetry
INVARIANTS TypeOK ThisIsRunning ContextsIntact NoUseAfterFree
PROPERTIES ImplementsCoroutine
CHECK_DEADLOCK FALSE
