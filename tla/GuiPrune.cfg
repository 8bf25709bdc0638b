\* A record appended while a prune asks its question is gone: violated.
SPECIFICATION Spec
CONSTANTS
    Writer = {t1, t2, c}
    Task = {t1, t2}
    Command = {c}
    Minutes = {0, 60}
    Before = 2
    Old = {1}
    MaxRecords = 3
    EventCap = 1
INVARIANT RecentKept
CHECK_DEADLOCK FALSE
