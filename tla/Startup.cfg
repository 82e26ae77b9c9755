SPECIFICATION Spec
CONSTANTS
    MaxTokens = 24
    Unassigned = Unassigned
    Inputs <- MCInputs
INVARIANTS
    TypeOK
    TokensOfTree
    TokensAreTree
    ChipsAsDeclared
    StaysInTokens
    ThreadsMeetReadySim
PROPERTY StartupEnds
