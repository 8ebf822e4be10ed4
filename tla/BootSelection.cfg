SPECIFICATION LiveSpec
CONSTANTS
  MaxGen = 2
  MaxFaults = 2
  MaxRequests = 2
INVARIANTS PointersBootable AcknowledgedIsNext OneAutomaticReboot RecordedBootIsRunning
PROPERTIES ArmedTrialDecided
\* The bounds on faults and requests stop every behaviour in the end.
CHECK_DEADLOCK FALSE
