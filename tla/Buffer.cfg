SPECIFICATION Spec
CONSTANTS
    CheapPrepend = 2
    InitialSize = 2
    ExtraBuf = 3
    MaxLen = 3
    MaxBytes = 6
INVARIANTS
    TypeOK
    BufferAssertsHold
PROPERTIES
    BufferSpec
