SPECIFICATION Spec
CONSTANTS
    SignBit = 4
    MaxBlockRange = 1
    Numbers = {1, 2}
    MaxRounds = 2
CHECK_DEADLOCK FALSE
INVARIANTS NoTagIsForwarded NumbersArePublished RangeIsBounded
