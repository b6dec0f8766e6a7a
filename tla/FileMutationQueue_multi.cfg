SPECIFICATION Spec
CONSTANTS
    edit = edit
    write = write
    astEdit = astEdit
    applyAst = applyAst
    Calls = {edit, astEdit}
    NoCall = NoCall
    Files = {1, 2}
    FilesOf <- Pairs
    Abortable = {}
    MayHang = {}
INVARIANT LocksHeldWhileWorking
CHECK_DEADLOCK FALSE
