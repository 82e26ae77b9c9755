SPECIFICATION Spec
CONSTANTS
    Cycles <- MCCycles
    ClockLoop = 2
    MaxClockLoop = 3
INVARIANTS
    TypeOK
    HeldForOwnCycles
    LoopNeverDies
PROPERTIES
    DelayInputsStable
    ShutdownCompletes
    ImplementsRendezvous
