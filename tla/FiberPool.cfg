\* Three threads of the pool and the constructing one, two tasks.
SPECIFICATION FairSpec
CONSTANTS
    Pool = {p1, p2, p3}
    Main = main
    Tasks = {t1, t2}
INVARIANTS
    StartTogether
PROPERTIES
    ThreadsEnd
    TasksRun
CHECK_DEADLOCK FALSE
