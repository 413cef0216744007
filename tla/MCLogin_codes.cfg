\* Every client and every fault: two requests at a time, two codes.
CONSTANTS
    Platforms <- AllPlatforms
    Calls = {c1, c2}
    Faults <- AllFaults
    MaxAttempts = 2
    MaxCodes = 2
    MaxFaults = 1
SPECIFICATION Spec
CHECK_DEADLOCK FALSE
SYMMETRY Symmetry
INVARIANTS TypeOK GuessesBounded OneSessionPerCode OneCodeAMinute NewestCodeSignsIn SessionsAccounted
PROPERTIES ImplementsOneTimeCode
