SPECIFICATION Spec
CONSTANTS
    Names = {1, 2}
    Times = {1, 2}
    Statuses = {"active", "error"}
    SyncTypes = {"full", "incremental"}
    Versions = {1, 2, 3}
    MaxInteger = 2
    MaxCalls = 4
INVARIANTS ReadsAgree AnswersAgree
CHECK_DEADLOCK FALSE
