---------------------------- MODULE MCKubernetes ----------------------------
(* Instances of the operations on a running cluster: the upgrade of a node,   *)
(* rollouts over the etcd members and the removal of one, and a changed       *)
(* kubeadm configuration.                                                     *)
EXTENDS KubeadmUpgrade, Sequences, FiniteSets, TLC

CONSTANTS c1

(* Anything may fail, or the record is always written and the kubelet lives.  *)
Anything == {"tool", "voters", "crash", "reboot", "store", "kubelet"}
StoreWorks == {"tool", "voters", "crash", "reboot"}
Profiles == {Anything, StoreWorks}

(* Configurations as sets of fields: the new one lacks a field.             *)
Old == {"a", "b"}
Two == {Old, {"a"}}

-----------------------------------------------------------------------------
(* The other components have variables of their own; a name two of them use   *)
(* is one variable.  Only one component runs in a behaviour: part says which. *)
(* The others stay as they are, or have no value at all.                      *)
VARIABLES
  part, etcd, gen, op, prep, client, wipe, writes, failures, want, live, hosts,
  ops, ex, cl, cni, applies

Rollout == INSTANCE EtcdChanges WITH
  N <- 3, Clients <- {11}, Sizes <- {1, 2, 3}, MaxWrites <- 1,
  Images <- {"source", "target"},
  MaxFaults <- 1, MaxTries <- 1, Removals <- FALSE, faults <- failures
Rollouts == INSTANCE EtcdChanges WITH
  N <- 3, Clients <- {11, 12}, Sizes <- {3}, MaxWrites <- 0,
  Images <- {"source"},
  MaxFaults <- 1, MaxTries <- 0, Removals <- FALSE, faults <- failures
Removal == INSTANCE EtcdChanges WITH
  N <- 4, Clients <- {}, Sizes <- {2, 3, 4}, MaxWrites <- 0,
  Images <- {"source"},
  MaxFaults <- 1, MaxTries <- 1, Removals <- TRUE, faults <- failures
Config == INSTANCE KubeadmConfigOperation WITH
  Nodes <- {1, 2}, ControlPlanes <- {1, 2}, Coordinators <- {2},
  Clients <- {c1}, Configs <- Two, Components <- {"control-plane"},
  Selections <- {{1, 2}},
  CNI <- FALSE, MaxApplies <- 3, MaxFaults <- 2, h <- hosts, faults <- failures
SelectedConfig == INSTANCE KubeadmConfigOperation WITH
  Nodes <- {1, 2}, ControlPlanes <- {1, 2}, Coordinators <- {2},
  Clients <- {c1}, Configs <- Two, Components <- {"control-plane"},
  Selections <- {{1, 2}, {1}, {2}},
  CNI <- FALSE, MaxApplies <- 2, MaxFaults <- 2, h <- hosts, faults <- failures
KubeletConfig == INSTANCE KubeadmConfigOperation WITH
  Nodes <- {1, 2}, ControlPlanes <- {1}, Coordinators <- {1},
  Clients <- {c1}, Configs <- Two, Components <- {"kubelet", "kube-proxy"},
  Selections <- {{1, 2}},
  CNI <- TRUE, MaxApplies <- 3, MaxFaults <- 2, h <- hosts, faults <- failures
SelectedKubelet == INSTANCE KubeadmConfigOperation WITH
  Nodes <- {1, 2}, ControlPlanes <- {1}, Coordinators <- {1},
  Clients <- {c1}, Configs <- Two, Components <- {"kubelet"},
  Selections <- {{1, 2}, {1}, {2}},
  CNI <- FALSE, MaxApplies <- 3, MaxFaults <- 1, h <- hosts, faults <- failures

etcdVars == <<etcd, gen, op, prep, client, wipe, writes>>
configVars == <<want, live, hosts, ops, ex, cl, cni, applies>>

Off == "not used"
NoEtcd ==
  /\ etcd = Off /\ gen = Off /\ op = Off /\ prep = Off /\ client = Off
  /\ wipe = Off /\ writes = Off
NoConfig ==
  /\ want = Off /\ live = Off /\ hosts = Off /\ ops = Off /\ ex = Off
  /\ cl = Off /\ cni = Off /\ applies = Off
NoUpgrade == req = [role |-> "worker", peers |-> FALSE, managed |-> FALSE, prepared |-> "none"]
             /\ kinds = StoreWorks

MCInit ==
  /\ Init
  /\ \/ part = "upgrade" /\ NoEtcd /\ NoConfig /\ failures = Off
     \/ /\ NoUpgrade /\ NoConfig
        /\ \/ part = "rollout" /\ Rollout!Init
           \/ part = "two rollouts" /\ Rollouts!Init
           \/ part = "removal" /\ Removal!Init
     \/ /\ NoUpgrade /\ NoEtcd
        /\ \/ part = "control-plane config" /\ Config!Init
           \/ part = "selected control planes" /\ SelectedConfig!Init
           \/ part = "kubelet config" /\ KubeletConfig!Init
           \/ part = "selected kubelets" /\ SelectedKubelet!Init

MCNext ==
  \/ part = "upgrade" /\ Next /\ UNCHANGED <<part, etcdVars, configVars, failures>>
  \/ part = "rollout" /\ Rollout!Next /\ UNCHANGED <<part, vars, configVars>>
  \/ part = "two rollouts" /\ Rollouts!Next /\ UNCHANGED <<part, vars, configVars>>
  \/ part = "removal" /\ Removal!Next /\ UNCHANGED <<part, vars, configVars>>
  \/ part = "control-plane config" /\ Config!Next /\ UNCHANGED <<part, vars, etcdVars>>
  \/ part = "selected control planes" /\ SelectedConfig!Next /\ UNCHANGED <<part, vars, etcdVars>>
  \/ part = "kubelet config" /\ KubeletConfig!Next /\ UNCHANGED <<part, vars, etcdVars>>
  \/ part = "selected kubelets" /\ SelectedKubelet!Next /\ UNCHANGED <<part, vars, etcdVars>>

allVars == <<part, vars, etcdVars, configVars, failures>>

MCSpec == MCInit /\ [][MCNext]_allVars

-----------------------------------------------------------------------------
(* Properties; those of an upgrade are stated in KubeadmUpgrade.           *)

(* A rollout restarts an etcd member only where the others keep the quorum    *)
(* and hold what was committed before the check, after a snapshot of what     *)
(* the preparation observed, and commits a member that came back; a removal   *)
(* keeps the quorum, spares the leader, and is reported done only when        *)
(* exactly that member is gone.                                               *)
EtcdChangesSafe ==
  [][/\ part = "rollout" => /\ Rollout!RestartKeepsQuorum /\ Rollout!SurvivorsHaveEarlierWrites
                            /\ Rollout!CommittedMemberReturned
                            /\ Rollout!SnapshotHoldsObservedWrites'
     /\ part = "removal" => /\ Removal!RemovalKeepsQuorum /\ Removal!RemovalSparesLeader
                            /\ Removal!SucceededRemovalIsSeen]_allVars

(* Although locks are per node, two rollouts at the same time never have two  *)
(* voters restarting, and one client's applies that are interrupted and run   *)
(* again never have two nodes changing that both applies selected.            *)
OneNodeAtATime ==
  /\ part = "two rollouts" => Rollouts!OneVoterRestarting
  /\ part = "control-plane config" => Config!OneMutatingNode
  /\ part = "selected control planes" => SelectedConfig!OneMutatingNode

(* The shared configuration is uploaded only after every control plane of     *)
(* the apply has its manifests, a failed manifest is never reported           *)
(* unchanged; a kubelet operation that succeeds leaves a kubelet that was     *)
(* started from its file, and the desired file if the apply selected a        *)
(* control plane.  Where --node is used and the client interrupted, a later   *)
(* apply may have changed what the earlier one left.                          *)
ConfigReachesNodes ==
  [][/\ part = "control-plane config" =>
          /\ Config!UploadFollowsManifests /\ Config!NoFailedManifestPasses
          /\ Config!FirstSuccessRunsManifest
     /\ part = "selected control planes" =>
          /\ SelectedConfig!UploadFollowsManifests /\ SelectedConfig!NoFailedManifestPasses
          /\ SelectedConfig!FirstSuccessRunsManifest
     /\ part = "selected kubelets" =>
          /\ SelectedKubelet!KubeletRunsItsFile /\ SelectedKubelet!KubeletFileIsDesired
     /\ part = "kubelet config" =>
          /\ KubeletConfig!KubeletRunsItsFile /\ KubeletConfig!KubeletFileIsDesired
          /\ KubeletConfig!ExceptionNotReopened]_allVars
=============================================================================
