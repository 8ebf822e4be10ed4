---------------------------- MODULE OperationLog ----------------------------
(***************************************************************************)
(* What the operation store promises its callers, with no files, locks or  *)
(* processes: one operation is a log of records that grows by legal        *)
(* transitions.  A prefix of the log is acknowledged; a power loss may     *)
(* take back records nobody was told about, never an acknowledged one.     *)
(***************************************************************************)
EXTENDS OperationRecords, Sequences

CONSTANT MaxSeq      \* bound: the number of journal events of an operation

VARIABLES log,       \* the records of the operation, oldest first
          acked      \* how many of them have been acknowledged to a caller

vars == <<log, acked>>

Init == log = <<>> /\ acked = 0

Create == log = <<>> /\ log' = <<NewRecord>> /\ UNCHANGED acked

Append1 ==
  /\ log # <<>>
  /\ \E r \in Record :
       /\ ValidateTransition(log[Len(log)], r)
       /\ log' = Append(log, r)
  /\ UNCHANGED acked

Acknowledge ==
  /\ \E n \in (acked + 1)..Len(log) : acked' = n
  /\ UNCHANGED log

Lose ==
  /\ \E n \in acked..(Len(log) - 1) : log' = SubSeq(log, 1, n)
  /\ UNCHANGED acked

Next == Create \/ Append1 \/ Acknowledge \/ Lose

Spec == Init /\ [][Next]_vars
=============================================================================
