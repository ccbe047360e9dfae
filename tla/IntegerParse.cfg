SPECIFICATION Spec
CONSTANT Base = 10
CONSTANT Max = 127
CONSTANT MaxLength = 4
INVARIANT ExactUpToMax
PROPERTY GoesWrongAtTheTop
CHECK_DEADLOCK FALSE
