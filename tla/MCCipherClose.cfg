SPECIFICATION FairSpec
CONSTANTS
    Size = 2
    MaxRecord = 2
    Threshold = 2
    RekeyInterval = 2
    Capacity = 1
    Deadline = FALSE
    Timer = {1, 2}
    MaxBytes = 3
    MaxReplays = 0
PROPERTIES CloseInterruptsWrite
CHECK_DEADLOCK FALSE
