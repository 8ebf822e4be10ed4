SPECIFICATION MCSpec
CONSTANTS
  w1 = w1
  w2 = w2
  Writers = {w1, w2}
  Candidates <- MCCandidates
  Existing <- MCExisting
  Legacy = {"g0"}
  Activatable = {"g0", "g2"}
  Selection <- MCSelection
  StatusChanges = {"good"}
  MaxCrashes = 1
  MaxRemovals = 2
SYMMETRY Symmetry
INVARIANTS UnitsInOrder 
 
CHECK_DEADLOCK FALSE
