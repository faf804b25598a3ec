CONSTANTS
    Names = {1, 2, 3}
    MaxWitnesses = 2
    MaxVoted = 1
    MaxVotes = 2
    Lap = 7
SPECIFICATION FairSpec
INVARIANTS VirtualTimeInLap ScheduleCanBeFilled
PROPERTY TakesTurns
