SPECIFICATION SimSpec
CONSTANTS
    Addr <- MCAddr
    ZeroPage <- MCZeroPage
    Circuit <- MCCircuit
    Imm = Imm
    Acia = 1
    Values <- MCValues
    Cycles <- MCCycles
    ClockLoop = 1
    MaxClockLoop = 1
INVARIANTS
    SentAsStored
PROPERTIES
    ImplementsBus
    ImplementsClock
