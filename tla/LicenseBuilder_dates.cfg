SPECIFICATION Spec
CONSTANTS
    Keys = {alice, bob, content, other}
    NoKey = none
    ContentKey = content
    OtherKey = other
    UsizeMax = 65535
    Lengths = {0, 15, 16}
    Sizes = {0, 8, 16, 24, 48, 64}
    MaxCalls = 3
CHECK_DEADLOCK FALSE
INVARIANT GenuineVerifies
