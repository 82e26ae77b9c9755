SPECIFICATION Spec
INVARIANT AdcZeroAsBinary
CHECK_DEADLOCK FALSE
