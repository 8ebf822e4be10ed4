SPECIFICATION Spec
INVARIANTS PlannedModeSafe ResultsTell LiveApplyAllOrNothing
PROPERTIES AppliesGoForward VolumesKeepData
CHECK_DEADLOCK FALSE
