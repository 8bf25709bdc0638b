\* Two tasks, a command and a prune, with one old record and one new one.
SPECIFICATION FairSpec
CONSTANTS
    Writer = {t1, t2, c}
    Task = {t1, t2}
    Command = {c}
    Minutes = {0, 60}
    Before = 2
    Old = {1}
    MaxRecords = 3
    EventCap = 1
INVARIANTS
    TypeOK
    LostOnlyToPrune
    ButtonComesBack
    ShownIsSaved
    ConsentFirst
PROPERTIES
    AutoStops
    WatchGoesOn
CHECK_DEADLOCK FALSE
