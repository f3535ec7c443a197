SPECIFICATION Spec
CONSTANTS
    t1 = t1
    t2 = t2
    noon = noon
    night = night
    res1 = res1
    res2 = res2
    Times = {noon}
    Results = {res1}
    CountsFor <- Starts
    Tasks = {t1, t2}
    MaxBusy = 2
    MaxBegun = 2
    MaxRooms = 1
    QueueCap = 1
    MaxFailures = 0
    MaxRestarts = 0
INVARIANTS
    OutcomeOnlyWhenFinished
\* The system may stop: no user has to do anything.
CHECK_DEADLOCK FALSE
