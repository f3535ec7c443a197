SPECIFICATION FairSpec
CONSTANTS
    t1 = t1
    t2 = t2
    noon = noon
    night = night
    res1 = res1
    res2 = res2
    Times = {noon, night}
    Results = {res1, res2}
    CountsFor <- Starts
    Tasks = {t1}
    MaxBusy = 1
    MaxBegun = 3
    MaxRooms = 4
    QueueCap = 1
    MaxFailures = 1
    MaxRestarts = 1
INVARIANTS
    FinishedHasResult
    OneRoom
    AnnouncedIsRecorded
    SignupIsForTheScheduledTime
    PostedIsRecorded
PROPERTIES
    ImplementsContract
    PlayedRaceIsFinished
\* The system may stop: no user has to do anything.
CHECK_DEADLOCK FALSE
