\* Two spawned workers and the root worker share two fibers.  No symmetry (liveness).
CONSTANTS
    w1 = w1  w2 = w2  f1 = f1  f2 = f2
    Spawned = {w1, w2}
    Fibers = {f1, f2}
    Main = Main  Closer = Closer
    StopThreads = {Closer}
    AnyThread = AnyThread  NoFiber = NoFiber  NoThread = NoThread
    MaxPosts = 2
SPECIFICATION FairSpec
INVARIANTS TypeOK OneThreadPerFiber ResumeAssertion CountersExact NoWorkAfterExit DestructorAssertion
PROPERTIES StoppingIsStable ImplementsTaskPool StopReturns TasksAreTaken
