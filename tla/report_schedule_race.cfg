SPECIFICATION ScheduleSpec
CONSTANTS
    Save = {v1, v2}
    MaxFiles = 0
    KeepSettings = {0}
    ScheduleRegimes = {{"saves", "overlap"}}
INVARIANTS ScheduleTakesEffect
CHECK_DEADLOCK FALSE
