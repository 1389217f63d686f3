CONSTANTS
    FrameLengths = {60, 63, 64, 65, 1514, 1999, 2000, 2001, 2027, 2028, 4000, 4096}
    MaxSendErrors = 2
SPECIFICATION FpgaSpec
INVARIANT ChunksAddressed
CHECK_DEADLOCK FALSE
