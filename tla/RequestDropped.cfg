SPECIFICATION Spec
CONSTANTS
    ToolRole = FALSE
    Context = 28
    MaxTokens = 9
    ReserveLeast = 2
    ReserveMost = 16
    LongResult = 3
    NoteSize = 2
    Schemas = 2
    Markers = 1
    SystemSize = 2
    RequestSizes = {1, 6}
    CallSize = 1
    ResultSizes = {1, 8}
    AnswerSize = 2
    MaxMessages = 8
INVARIANT RequestStays
CHECK_DEADLOCK FALSE
