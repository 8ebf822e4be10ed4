-------------------------- MODULE OperationRecords --------------------------
(***************************************************************************)
(* The operation record as internal/installer/operation keeps it, cut down *)
(* to the fields that decide whether one record may follow another: the    *)
(* phase index, the evidence of external mutation (externalMutationStarted,*)
(* mutatingToolRan, markers and scopes, which the code only ever grows) and *)
(* the terminal flag.  Request bodies and expected* fields never change in  *)
(* a legal transition and are left out.                                    *)
(***************************************************************************)
EXTENDS Naturals

CONSTANT MaxPhase    \* bound: the last phase index of an operation plan

ASSUME MaxPhaseAssumption == MaxPhase \in Nat

Record == [phaseIndex: 0..MaxPhase, marked: BOOLEAN, terminal: BOOLEAN]

\* The record an operation is accepted with: phase "accepted", nothing run.
NewRecord == [phaseIndex |-> 0, marked |-> FALSE, terminal |-> FALSE]

\* M: forgets that a terminal record is immutable.
ValidateTransitionReopens(previous, next) ==
  /\ next.phaseIndex >= previous.phaseIndex
  /\ previous.marked => next.marked

\* May `next` follow `previous` in one journal?
ValidateTransition(previous, next) ==
  /\ ~previous.terminal
  /\ next.phaseIndex >= previous.phaseIndex
  /\ previous.marked => next.marked
=============================================================================
