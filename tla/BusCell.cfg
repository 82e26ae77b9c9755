SPECIFICATION Spec
CONSTANTS
    Addr <- MCAddr
    ZeroPage <- MCZeroPage
    Circuit <- MCCircuit
    Imm = Imm
INVARIANT CellAsDecoded
