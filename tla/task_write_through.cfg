SPECIFICATION TasksSpec
CONSTANTS
    Todo = {t1}
    MaxChange = 3
    MaxLaneFaults = 1
INVARIANT TaskWrittenThrough
CHECK_DEADLOCK FALSE
