SPECIFICATION RdSpec
CONSTANTS
    Radix = 3
    RdMax = 6
    RdValues = {1}
INVARIANT AllKeysIterated
CHECK_DEADLOCK FALSE
