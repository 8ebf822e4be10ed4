SPECIFICATION Spec
INVARIANT TargetOnlyKeepsNode
CHECK_DEADLOCK FALSE
