SPECIFICATION Spec
CONSTANTS
    Algorithms <- MCAlgorithms
    Bytes <- MCBytes
    MaxBytes = 3
    Damages <- MCDamages
INVARIANTS
    RegisterIsRemainder
    DamageSeen
CHECK_DEADLOCK FALSE
