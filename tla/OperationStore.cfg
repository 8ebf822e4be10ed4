CONSTANTS
  Procs = {p1, p2}
  NoProc = NoProc
  MaxSeq = 3
  MaxPhase = 0
SPECIFICATION Spec
INVARIANTS
  JournalLinear
  AckDurable
  ReadFresh
PROPERTIES
  TerminalIsFinal
  ImplementsOperationLog
