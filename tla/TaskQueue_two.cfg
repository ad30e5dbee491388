SPECIFICATION FairSpec
CONSTANTS
    Task = {t1, t2, t3}
    Producer = {p1}
    Worker = {w1, w2}
INVARIANTS TypeOK NoLostWakeup EachTaskOnce
PROPERTIES RunsOnce EveryTaskSettles WorkersStop ImplementsMailbox
CHECK_DEADLOCK FALSE
