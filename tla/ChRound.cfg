\* Up to two misread bytes and one flipped bit in a round, in any combination.
SPECIFICATION TestSpec
CONSTANTS
    SampleCount = 2
    LaneCount = 2
    ByteSize = 4
    WordSize = 1024
    WordBits = 10
    BitXor <- MCXor
    k_fnv_basis = 293
    k_fnv_prime = 71
    k_fnv_prime_inverse = 375
    Streams <- MCStreams
    Leftovers <- MCLeftovers
    MaxMisreads = 2
    MaxFlips = 1
    InnerSample = 1
    OtherByte = 1
    FirstByte = 0
    SecondByte = 3
    Pattern = 3
INVARIANTS
    TypeOK
    NoFalseAlarm
    SingleFaultIsDetected
    SingleMisreadIsExplained
    BuffersAreThisRounds
    FlipLeavesItsBit
    SelfTestIsFair
    ChLaneIsTested
