SPECIFICATION MigrationSpec
CONSTANTS
    Processes = {q1, q2}
    MaxStarts = 2
    Crashes = TRUE
    Unread = TRUE
INVARIANT TablesThere
CHECK_DEADLOCK FALSE
