\* n_workers = 0: the scheduler thread executes the tasks itself; a plugin may
\* destroy its request; two sockets.
SPECIFICATION FairSpec
CONSTANTS
    Workers = {}
    Main = Main
    Sched = Sched
    Task = {t1, t2, t3}
    NoTask = NoTask
    Socks = {5, 6}
    EventSets <- NoEvents
    Detach = TRUE
    MaxAccepts = 2
    MaxHops = 1
PROPERTIES
    NoDisplacement
    EveryRequestEnds
