CONSTANTS
    MsgIovMax = 2
    MaxLines = 3
SPECIFICATION Spec
INVARIANTS ErrorsInCode
CHECK_DEADLOCK FALSE
