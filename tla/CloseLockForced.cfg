SPECIFICATION Spec
CONSTANTS
    main = main
    risk = risk
    sentinel = sentinel
    Readers <- MCReaders
    Writers <- MCWriters
    Sentinel = sentinel
    Timeout = 2
    NoStamp = NoStamp
PROPERTY ForcedOnlyWhenTimedOut
