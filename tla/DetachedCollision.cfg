\* Enough detached requests for an allocated id to equal a socket.
SPECIFICATION Spec
CONSTANTS
    Workers = {w1}
    Main = Main
    Sched = Sched
    Task = {t1, t2, t3}
    NoTask = NoTask
    Socks = {5}
    EventSets <- NoEvents
    Detach = TRUE
    MaxAccepts = 6
    MaxHops = 0
SYMMETRY Symmetry
PROPERTIES
    NoDisplacement
