SPECIFICATION Spec
INVARIANT ApplicationStarts
CHECK_DEADLOCK FALSE
