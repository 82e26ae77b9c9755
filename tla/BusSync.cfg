SPECIFICATION Spec
CONSTANTS
    Addr <- MCAddr
    ZeroPage <- MCZeroPage
    Circuit <- MCCircuit
    Imm = Imm
INVARIANTS
    TypeOK
    ChipExclusion
    OnePassPerRequest
    ServedExactly
    OwnCell
    QuietShutdown
PROPERTIES
    PassSeesOneAccess
    InstructionsRetire
    ShutdownCompletes
    ImplementsRendezvous
