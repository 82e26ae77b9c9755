SPECIFICATION HSpec
CONSTANTS
    Roms <- MCRoms
    CodeSpace <- MCCodeSpace
    StackSpace <- MCStackSpace
    NoAddr = NoAddr
    MaxPushed = 9
PROPERTY BitFiveIsOne
CHECK_DEADLOCK FALSE
