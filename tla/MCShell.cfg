SPECIFICATION Spec
CONSTANTS
    NULL = NULL
    NUL = NUL
    Word = 256
    Room = 16
    BufSize = 16
    LineMax = 14
    MaxArgs = 4
    RowBytes = 16
    MaxLines = 3
    Lines <- MCLines
    LaterLines <- MCLaterLines
    Calls <- MCCalls
    RawCalls <- MCRawCalls
INVARIANTS StaysInBuffer FormatsAsReference AnswersItsLine
CHECK_DEADLOCK FALSE
