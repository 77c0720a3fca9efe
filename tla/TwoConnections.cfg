\* Two workers, two connections at a time, no task made by a handler.
SPECIFICATION Spec
CONSTANTS
    Workers = {w1, w2}
    Main = Main
    Sched = Sched
    Task = {t1, t2, t3, t4}
    NoTask = NoTask
    Socks = {5, 6}
    EventSets <- PollEvents
    Detach = FALSE
    MaxAccepts = 2
    MaxHops = 0
SYMMETRY Symmetry
INVARIANTS
    TypeOK
    WorkersNotStranded
    SchedNotStranded
    PendingExact
    EachTaskInOnePlace
PROPERTIES
    ServesRequests
