SPECIFICATION Spec
INVARIANTS
    AdcAdds
    AdcAddsDecimal
    SbcSubtracts
    SbcSubtractsDecimal
    CompareIsSbc
    RotationsInvert
CHECK_DEADLOCK FALSE
