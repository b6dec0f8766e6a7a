SPECIFICATION FairSpec
CONSTANTS
    edit = edit
    write = write
    astEdit = astEdit
    applyAst = applyAst
    Calls = {edit, write, astEdit, applyAst}
    NoCall = NoCall
    Files = {1, 2}
    FilesOf <- Pairs
    Abortable = {write, applyAst}
    MayHang = {edit}
INVARIANTS ExclusiveUntilAbort NoOvertaking EntriesAreLive
PROPERTIES AbortAnswers QueuesDrain
CHECK_DEADLOCK FALSE
