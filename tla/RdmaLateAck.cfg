CONSTANT AcksFirst = FALSE
SPECIFICATION Spec
CHECK_DEADLOCK FALSE
INVARIANT MrIsSentOnce
