SPECIFICATION FairSpec
CONSTANTS
    Callers = {t1, t2}
    Args = {a1, a2}
    MaxCalls = 3
INVARIANTS OwnResponse NothingLeftBehind NothingForgotten
PROPERTIES ImplementsCalls AnsweredWhileUp
CHECK_DEADLOCK FALSE
