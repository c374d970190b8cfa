CONSTANTS
    MaxDay = 2
    MaxSuffix = 2
    MaxLines = 6
    Rotate = 2
    Retention = 1
    OpenMayFail = TRUE
SPECIFICATION Spec
INVARIANT SerialInOrder
INVARIANT SerialBounded
INVARIANT ClosedHoldsNoFile
PROPERTY WritesToDisk
