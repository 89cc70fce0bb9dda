SPECIFICATION ReadSpec
CONSTANTS
    Size = 2
    MaxRecord = 2
    Threshold = 2
    RekeyInterval = 2
    Capacity = 1
    Deadline = TRUE
    Timer = {1, 2}
    MaxBytes = 3
    MaxReplays = 1
INVARIANTS NonceUsedOnce NothingRefusedInVain BufferedHasTimer
PROPERTIES IsReliableStream WrittenArrives
CHECK_DEADLOCK FALSE
