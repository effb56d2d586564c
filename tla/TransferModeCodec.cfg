SPECIFICATION Spec
CONSTANTS
    Eof = 4
    Radix = 2
    Blank = 2
    FileBytes <- SomeBytes
    MaxLength = 7
    TrailingBytes <- Trailing
INVARIANTS
    RoundTrip
    DamageIsNoticed
    BlocksAreNotCompressed
CHECK_DEADLOCK FALSE
