SPECIFICATION HSpec
CONSTANTS
    Roms <- MCRoms
    CodeSpace <- MCCodeSpace
    StackSpace <- MCStackSpace
    NoAddr = NoAddr
    MaxPushed = 9
INVARIANTS
    TypeOK
    PushedOnStack
PROPERTIES
    Advances
    BusFollowsDocs
    WritesReachBus
    FlagsKept
    FlagsFollowRegisters
    ReturnsToCaller
CHECK_DEADLOCK FALSE
