------------------------------ MODULE MCAgent -------------------------------
(* Instances of the node agent: submissions, dispatch and startup audit of    *)
(* any operation, and the operation that makes a node part of a cluster.      *)
EXTENDS AgentOperations, TLC

CONSTANTS c1, c2, q1, q2

(* Only one of the two runs in a behaviour: part says which.  The other one   *)
(* stays as it is before anything happens, or is not used at all.             *)
VARIABLES
  part, kind, records, ex, process, bootId, run, disk, cand, default, starts,
  succeeded, failures

Bootstrap == INSTANCE BootstrapOperation WITH
  Kinds <- {"init", "join-worker", "join-control-plane", "external-worker"},
  Credentials <- {1, 2}, MaxOps <- 3, MaxFaults <- 3,
  FaultKinds <- {"crash", "reboot", "store", "tool"},
  ops <- records, agent <- process, boot <- bootId, faults <- failures

bootstrapVars == <<kind, records, ex, process, bootId, run, disk, cand, default,
                   starts, succeeded, failures>>

NotUsed ==
  /\ kind = "" /\ records = "" /\ ex = "" /\ process = "" /\ bootId = "" /\ run = ""
  /\ disk = "" /\ cand = "" /\ default = "" /\ starts = "" /\ succeeded = "" /\ failures = ""

MCInit ==
  /\ Init
  /\ \/ part = "agent" /\ NotUsed
     \/ part = "bootstrap" /\ Bootstrap!Init

MCNext ==
  \/ part = "agent" /\ Next /\ UNCHANGED <<part, bootstrapVars>>
  \/ part = "bootstrap" /\ Bootstrap!Next /\ UNCHANGED <<part, vars>>

MCSpec == MCInit /\ [][MCNext]_<<part, vars, bootstrapVars>>

-----------------------------------------------------------------------------
(* Properties; those of submissions are stated in AgentOperations.         *)

(* Whatever died in between, two attempts never both start kubeadm or an      *)
(* external worker's kubelet; private keys outlive an operation only when     *)
(* they could not be removed, and then its record asks for it; the temporary  *)
(* join path is gone when an operation records that its tool succeeded (one   *)
(* that failed may leave it); interrupting a credential refresh never strands *)
(* the enrollment.  The loader's default becomes a candidate only when the    *)
(* tool of its own chain of receipts succeeded, and an operation that         *)
(* succeeded is what the node boots next.                                     *)
BootstrapAttemptsSafe ==
  part = "bootstrap" =>
    /\ Bootstrap!ToolStartedOnce /\ Bootstrap!StagedIdentityGone
    /\ Bootstrap!JoinPathRemoved /\ Bootstrap!RefreshNeverStrands
    /\ Bootstrap!PromotionOwned /\ Bootstrap!SuccessIsDefault
=============================================================================
