\* Two appends at once, or one that is cut, break a line: violated.
SPECIFICATION Spec
CONSTANTS
    Writer = {t1, t2, c}
    Task = {t1, t2}
    Command = {c}
    Minutes = {0, 60}
    Before = 2
    Old = {1}
    MaxRecords = 4
    EventCap = 1
INVARIANT OneRecordPerLine
CHECK_DEADLOCK FALSE
