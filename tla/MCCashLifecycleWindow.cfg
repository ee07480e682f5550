CONSTANT MAX_RESTART_CLICKS = 2
SPECIFICATION Spec
CHECK_DEADLOCK FALSE
INVARIANT WindowHiddenAfterShutdownRequest
