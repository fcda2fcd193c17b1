SPECIFICATION UploadsSpec
CONSTANTS
    Requests = {r1}
    Files = {pdf, table, text}
    Texts = {text}
    Tables = {table}
    MaxBatch = 2
INVARIANTS
    RowsMatchObjects
    DeletedIsForgotten
    AnswerIsTrue
CHECK_DEADLOCK FALSE
