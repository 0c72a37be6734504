\* Two hooked threads and one without hooks; two descriptors beyond the first table.
CONSTANTS
    t1 = t1  t2 = t2  t3 = t3
    Threads = {t1, t2, t3}
    Unhooked = {t3}
    Fds = {2, 3}
    InitialSize = 2
    Timeouts = {0}
    NoFd = NoFd  NoTimeout = NoTimeout
    MaxOpenings = 3
SPECIFICATION Spec
SYMMETRY Symmetry
INVARIANTS TypeOK OwnContext SettingsAreOwn BlocksOnlyByFionbio NoStrayContext
CHECK_DEADLOCK FALSE
