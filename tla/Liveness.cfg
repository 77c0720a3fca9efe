\* Two workers, one connection whose handlers return tasks that wait or are always on.
SPECIFICATION FairSpec
CONSTANTS
    Workers = {w1, w2}
    Main = Main
    Sched = Sched
    Task = {t1, t2}
    NoTask = NoTask
    Socks = {5}
    EventSets <- WaitEvents
    Detach = FALSE
    MaxAccepts = 1
    MaxHops = 1
INVARIANTS
    CallsAreSafe
    OneFinisher
PROPERTIES
    EveryRequestEnds
    StopCompletes
