------------------------- MODULE KubeadmUpgradeProofs -------------------------
(* The kubeadm-upgrade operation of a node, for every role, any kinds and any *)
(* number of failures: the target kubelet waits for kubeadm, the address is   *)
(* withdrawn meanwhile, a failure before the marker is undone, and a commit   *)
(* or a repair leaves what it says.                                           *)
EXTENDS KubeadmUpgrade, TLAPS

(* The executor's steps, in the order of executeKubeadmUpgrade.               *)
Switched == {"restart", "health", "rejoin", "resume", "ungate", "promote", "record-healthy"}
Activating == {"token", "stop", "refresh"} \cup Switched
KubeadmDone == {"kubeadm-complete", "record-stop"} \cup Activating
Committing == {"mark", "kubeadm"} \cup KubeadmDone
Draining == {"drain-start", "drain", "drained"}
Prepared == {"gate", "staged", "plan", "plan-complete", "pause"} \cup Draining \cup Committing
Running == {"resolve", "prepared", "stage", "mount", "etcd"} \cup Prepared
Steps == Running \cup {"fail", "return", "done", "dead"}

Requests == [role : {"apply", "control-plane", "worker", "external"}, peers : BOOLEAN,
             managed : BOOLEAN, prepared : {"none", "match", "stale"}]

Locals == [paused : BOOLEAN, retain : BOOLEAN, post : BOOLEAN, spoilt : BOOLEAN]
Records == [marked : BOOLEAN, gateUnit : BOOLEAN, act : {"pending", "activating", "failed"},
            before : BOOLEAN, after : BOOLEAN, terminal : BOOLEAN,
            result : {"", "succeeded", "failed", "failed-needs-repair"}, rollback : BOOLEAN,
            unrestored : BOOLEAN]
Hosts == [cand : {"none", "candidate", "abandoned", "committed"},
          sysext : {"source", "target", "none"}, kubelet : {"source", "target", "down"},
          gate : BOOLEAN, token : BOOLEAN, handoff : BOOLEAN,
          endpoint : {"advertised", "withdrawn"}, tools : BOOLEAN, kubeadmRan : BOOLEAN,
          etcdImage : {"source", "target"}]

Types ==
  /\ req \in Requests /\ (~ControlPlane => ~req.managed) /\ pc \in Steps
  /\ local \in Locals /\ rec \in Records /\ h \in Hosts
  /\ voters \in BOOLEAN /\ faults \in 0..MaxFaults

Ran == h.kubeadmRan \/ req.role = "external"

(* Nothing of the target runs or is linked before kubeadm has run, and the    *)
(* marker is written before.                                                  *)
GateInv ==
  /\ h.kubelet = "target" => Ran
  /\ h.sysext = "target" \/ h.cand = "committed" => Ran /\ rec.marked
  /\ pc \in KubeadmDone => Ran
  /\ pc \in Activating \cup {"kubeadm", "kubeadm-complete"} => rec.marked
  /\ pc = "record-stop" /\ req.role # "external" => rec.marked
  /\ local.post => rec.marked
  /\ rec.act # "pending" => rec.marked \/ pc \notin Running \cup {"fail"}
  /\ h.sysext = "none" => rec.unrestored

(* The address: who withdrew it remembers to resume it.                       *)
AddressInv ==
  /\ ~req.managed => h.endpoint = "advertised"
  /\ ControlPlane /\ req.managed /\ pc \in Draining \cup (Committing \ {"ungate", "promote", "record-healthy"})
       => h.endpoint = "withdrawn" /\ local.paused
  /\ pc \in {"ungate", "promote", "record-healthy"} => h.endpoint = "advertised"

(* What the steps before a commit have established.                           *)
SwitchInv ==
  /\ pc \in Switched => h.sysext = "target"
  /\ pc \in {"promote", "record-healthy"} => ~h.gate
  /\ ControlPlane =>
       /\ pc \in Prepared => rec.before
       /\ pc \in KubeadmDone => h.etcdImage = "target"
       /\ pc \in {"resume", "ungate", "promote", "record-healthy"} => rec.after

(* Tools stay mounted for a repair, and what a failed record promises of the  *)
(* way back.                                                                  *)
RepairInv ==
  /\ pc \in Running \cup {"fail"} => rec.result = "" /\ ~rec.unrestored /\ ~local.spoilt
  /\ pc \in Prepared \cup {"etcd"} => h.tools
  /\ pc \in Committing => local.retain
  /\ rec.marked /\ pc \notin {"done", "dead"} => local.retain /\ h.tools
  /\ pc = "return" => ~local.spoilt
  /\ pc = "return" /\ rec.result = "failed-needs-repair" /\ rec.marked =>
       IF ControlPlane THEN ~rec.rollback
       ELSE /\ rec.rollback
            /\ "store" \notin kinds /\ ~rec.unrestored => h.sysext = "source" /\ ~h.gate

(* With a record that can be written, a kubelet that lives and undoing        *)
(* commands that succeed, the source kubelet runs until the marker and the    *)
(* failure path runs to its end.                                              *)
RestoreInv ==
  UndoHeld =>
    /\ ~rec.marked => h.kubelet = "source"
    /\ pc = "return" => rec.terminal
    /\ pc = "return" /\ ~rec.marked =>
         ~h.gate /\ (rec.result = "failed" => h.cand # "candidate")
    /\ pc = "done" /\ rec.result = "failed" /\ ~rec.marked =>
         ~h.gate /\ ~h.handoff /\ h.cand # "candidate"

IInv == Types /\ GateInv /\ AddressInv /\ SwitchInv /\ RepairInv /\ RestoreInv

-----------------------------------------------------------------------------
(* A step that fails                                                          *)

(* The executor enters failKubeadmUpgrade with a host on which nothing of the *)
(* target is linked or runs early; after the marker the tools are kept.       *)
LEMMA FailKeeps ==
  ASSUME IInv, pc \in Running, NEW k, Fault(k) \/ UNCHANGED faults, NEW post \in BOOLEAN, Fail(post),
         UNCHANGED <<req, kinds, rec, voters>>, post => rec.marked, h' \in Hosts, h'.sysext # "none",
         h'.kubelet = "target" => h'.kubeadmRan \/ req.role = "external",
         h'.sysext = "target" \/ h'.cand = "committed" =>
            (h'.kubeadmRan \/ req.role = "external") /\ rec.marked,
         ~req.managed => h'.endpoint = "advertised",
         rec.marked => h'.tools,
         kinds \cap {"store", "kubelet"} = {} /\ ~rec.marked => h'.kubelet = "source"
  PROVE  IInv'
<1> USE DEF Steps, Running, Prepared, Committing, Draining, KubeadmDone, Activating, Switched
<1>1. /\ pc' = "fail" /\ local' = [local EXCEPT !.post = post] /\ local \in Locals
      /\ rec' = rec /\ req' = req /\ kinds' = kinds /\ voters' = voters
      /\ rec.result = "" /\ (rec.marked => local.retain) /\ ~rec.unrestored /\ ~local.spoilt
  BY DEF Fail, IInv, Types, RepairInv
<1>2. faults' \in 0..MaxFaults
  BY UpgradeAssumption DEF IInv, Types, Fault
<1>3. local' \in Locals /\ local'.retain = local.retain /\ local'.post = post /\ local'.spoilt = local.spoilt
  BY <1>1 DEF Locals
<1>4. Types'
  BY <1>1, <1>2, <1>3 DEF IInv, Types, ControlPlane
<1>5. GateInv'
  BY <1>1, <1>3 DEF IInv, GateInv, Ran
<1>6. AddressInv' /\ SwitchInv'
  BY <1>1 DEF AddressInv, SwitchInv, ControlPlane
<1>7. RepairInv'
  BY <1>1, <1>3 DEF RepairInv
<1>8. RestoreInv'
  BY <1>1 DEF RestoreInv, UndoHeld, RepairInv
<1> QED
  BY <1>4, <1>5, <1>6, <1>7, <1>8 DEF IInv

(* A failed step that has not touched the host.                               *)
LEMMA FailUntouchedKeeps ==
  ASSUME IInv, pc \in Running, NEW k, Fault(k) \/ UNCHANGED faults, NEW post \in BOOLEAN, Fail(post),
         UNCHANGED <<req, kinds, rec, h, voters>>, post => rec.marked
  PROVE  IInv'
<1>1. /\ h' = h /\ h \in Hosts /\ h.sysext # "none"
      /\ h.kubelet = "target" => h.kubeadmRan \/ req.role = "external"
      /\ h.sysext = "target" \/ h.cand = "committed" =>
            (h.kubeadmRan \/ req.role = "external") /\ rec.marked
      /\ ~req.managed => h.endpoint = "advertised"
  BY DEF IInv, Types, GateInv, Ran, AddressInv, RepairInv
<1>2. rec.marked => h.tools
  BY DEF IInv, RepairInv, Running, Prepared, Committing, Draining, KubeadmDone, Activating, Switched
<1>3. kinds \cap {"store", "kubelet"} = {} /\ ~rec.marked => h.kubelet = "source"
  BY DEF IInv, RestoreInv, UndoHeld, RepairInv
<1> QED
  BY <1>1, <1>2, <1>3, FailKeeps

(* A record that cannot be written: the executor returns at once.             *)
LEMMA StoreFaultKeeps ==
  ASSUME IInv, pc \in Running, Fault("store"), pc' = "return",
         UNCHANGED <<req, kinds, local, rec, h, voters>>
  PROVE  IInv'
<1> USE DEF Steps, Running, Prepared, Committing, Draining, KubeadmDone, Activating, Switched
<1>1. /\ req' = req /\ kinds' = kinds /\ local' = local /\ rec' = rec /\ h' = h /\ voters' = voters
      /\ "store" \in kinds
  BY DEF Fault
<1>2. faults' \in 0..MaxFaults
  BY UpgradeAssumption DEF IInv, Types, Fault
<1>3. Types'
  BY <1>1, <1>2 DEF IInv, Types, ControlPlane
<1>4. GateInv'
  BY <1>1 DEF IInv, GateInv, Ran
<1>5. AddressInv' /\ SwitchInv'
  BY <1>1 DEF IInv, AddressInv, SwitchInv, ControlPlane
<1>6. RepairInv'
  BY <1>1 DEF IInv, RepairInv
<1>7. RestoreInv'
  BY <1>1 DEF RestoreInv, UndoHeld, RepairInv
<1> QED
  BY <1>3, <1>4, <1>5, <1>6, <1>7 DEF IInv

-----------------------------------------------------------------------------
(* The commands and record updates                                            *)

LEMMA StageKeeps == ASSUME IInv, Stage PROVE IInv'
<1> USE DEF Steps, Running, Prepared, Committing, Draining, KubeadmDone, Activating, Switched
<1>1. pc = "stage" /\ h \in Hosts /\ local \in Locals /\ UNCHANGED <<req, kinds, rec, voters>>
  BY DEF IInv, Types, Stage, Command
<1>2. CASE h' = stageKubernetesCandidate(h) /\ Enter("mount") /\ UNCHANGED faults
  <2>1. /\ pc' = "mount" /\ local' = local /\ h' = [h EXCEPT !.cand = "candidate"]
        /\ UNCHANGED <<req, kinds, rec, voters, faults>>
    BY <1>1, <1>2 DEF Enter, stageKubernetesCandidate, Locals
  <2>2. Types'
    BY <1>1, <2>1 DEF IInv, Types, ControlPlane, Hosts
  <2>3. GateInv'
    BY <1>1, <2>1 DEF IInv, GateInv, Ran, Hosts
  <2>4. AddressInv'
    BY <1>1, <2>1 DEF IInv, AddressInv, ControlPlane, Hosts
  <2>5. SwitchInv'
    BY <1>1, <2>1 DEF IInv, SwitchInv, ControlPlane, Hosts
  <2>6. RepairInv'
    BY <1>1, <2>1 DEF IInv, RepairInv, ControlPlane, Hosts
  <2>7. RestoreInv'
    BY <1>1, <2>1 DEF IInv, RestoreInv, UndoHeld, RepairInv, GateInv, Hosts
  <2> QED
    BY <2>2, <2>3, <2>4, <2>5, <2>6, <2>7 DEF IInv
<1>3. CASE Fault("tool") /\ h' \in {h, stageKubernetesCandidate(h)} /\ Fail(FALSE)
  <2>1. FALSE => rec.marked
    BY <1>1 DEF IInv, GateInv
  <2>2. CASE h' = h
    BY <1>1, <1>3, <2>1, <2>2, FailUntouchedKeeps
  <2>3. CASE h' = [h EXCEPT !.cand = "candidate"]
    <3>1. /\ h' \in Hosts /\ h'.sysext # "none"
          /\ h'.kubelet = "target" => h'.kubeadmRan \/ req.role = "external"
          /\ h'.sysext = "target" \/ h'.cand = "committed" =>
               (h'.kubeadmRan \/ req.role = "external") /\ rec.marked
      BY <1>1, <2>3 DEF IInv, GateInv, Ran, Hosts, RepairInv
    <3>2. (~req.managed => h'.endpoint = "advertised") /\ (rec.marked => h'.tools)
      BY <1>1, <2>3 DEF IInv, AddressInv, RepairInv, Hosts
    <3>3. kinds \cap {"store", "kubelet"} = {} /\ ~rec.marked => h'.kubelet = "source"
      BY <1>1, <2>3 DEF IInv, RestoreInv, UndoHeld, RepairInv, GateInv, Hosts
    <3> QED
      BY <1>1, <1>3, <2>1, <3>1, <3>2, <3>3, FailKeeps
  <2> QED
    BY <1>3, <2>2, <2>3 DEF stageKubernetesCandidate
<1> QED
  BY <1>2, <1>3 DEF Stage, Command

LEMMA GateKeeps == ASSUME IInv, Gate PROVE IInv'
<1> USE DEF Steps, Running, Prepared, Committing, Draining, KubeadmDone, Activating, Switched
<1>1. pc = "gate" /\ h \in Hosts /\ local \in Locals /\ UNCHANGED <<req, kinds, rec, voters>>
  BY DEF IInv, Types, Gate, Command
<1>2. CASE h' = installKubeletGate(h) /\ Enter("staged") /\ UNCHANGED faults
  <2>1. /\ pc' = "staged" /\ local' = local /\ h' = [h EXCEPT !.gate = TRUE]
        /\ UNCHANGED <<req, kinds, rec, voters, faults>>
    BY <1>1, <1>2 DEF Enter, installKubeletGate, Locals
  <2>2. Types'
    BY <1>1, <2>1 DEF IInv, Types, ControlPlane, Hosts
  <2>3. GateInv'
    BY <1>1, <2>1 DEF IInv, GateInv, Ran, Hosts
  <2>4. AddressInv'
    BY <1>1, <2>1 DEF IInv, AddressInv, ControlPlane, Hosts
  <2>5. SwitchInv'
    BY <1>1, <2>1 DEF IInv, SwitchInv, ControlPlane, Hosts
  <2>6. RepairInv'
    BY <1>1, <2>1 DEF IInv, RepairInv, ControlPlane, Hosts
  <2>7. RestoreInv'
    BY <1>1, <2>1 DEF IInv, RestoreInv, UndoHeld, RepairInv, GateInv, Hosts
  <2> QED
    BY <2>2, <2>3, <2>4, <2>5, <2>6, <2>7 DEF IInv
<1>3. CASE Fault("tool") /\ h' \in {h, installKubeletGate(h)} /\ Fail(FALSE)
  <2>1. FALSE => rec.marked
    BY <1>1 DEF IInv, GateInv
  <2>2. CASE h' = h
    BY <1>1, <1>3, <2>1, <2>2, FailUntouchedKeeps
  <2>3. CASE h' = [h EXCEPT !.gate = TRUE]
    <3>1. /\ h' \in Hosts /\ h'.sysext # "none"
          /\ h'.kubelet = "target" => h'.kubeadmRan \/ req.role = "external"
          /\ h'.sysext = "target" \/ h'.cand = "committed" =>
               (h'.kubeadmRan \/ req.role = "external") /\ rec.marked
      BY <1>1, <2>3 DEF IInv, GateInv, Ran, Hosts, RepairInv
    <3>2. (~req.managed => h'.endpoint = "advertised") /\ (rec.marked => h'.tools)
      BY <1>1, <2>3 DEF IInv, AddressInv, RepairInv, Hosts
    <3>3. kinds \cap {"store", "kubelet"} = {} /\ ~rec.marked => h'.kubelet = "source"
      BY <1>1, <2>3 DEF IInv, RestoreInv, UndoHeld, RepairInv, GateInv, Hosts
    <3> QED
      BY <1>1, <1>3, <2>1, <3>1, <3>2, <3>3, FailKeeps
  <2> QED
    BY <1>3, <2>2, <2>3 DEF installKubeletGate
<1> QED
  BY <1>2, <1>3 DEF Gate, Command

LEMMA kubeadmUpgradePlanKeeps == ASSUME IInv, kubeadmUpgradePlan PROVE IInv'
<1> USE DEF Steps, Running, Prepared, Committing, Draining, KubeadmDone, Activating, Switched
<1>1. pc = "plan" /\ h \in Hosts /\ local \in Locals /\ UNCHANGED <<req, kinds, rec, voters>>
  BY DEF IInv, Types, kubeadmUpgradePlan, Command
<1>2. CASE h' = Unchanged(h) /\ Enter("plan-complete") /\ UNCHANGED faults
  <2>1. /\ pc' = "plan-complete" /\ local' = local /\ h' = h
        /\ UNCHANGED <<req, kinds, rec, voters, faults>>
    BY <1>1, <1>2 DEF Enter, Unchanged, Locals
  <2>2. Types'
    BY <1>1, <2>1 DEF IInv, Types, ControlPlane
  <2>3. GateInv'
    BY <1>1, <2>1 DEF IInv, GateInv, Ran
  <2>4. AddressInv'
    BY <1>1, <2>1 DEF IInv, AddressInv, ControlPlane
  <2>5. SwitchInv'
    BY <1>1, <2>1 DEF IInv, SwitchInv, ControlPlane
  <2>6. RepairInv'
    BY <1>1, <2>1 DEF IInv, RepairInv, ControlPlane
  <2>7. RestoreInv'
    BY <1>1, <2>1 DEF IInv, RestoreInv, UndoHeld, RepairInv, GateInv
  <2> QED
    BY <2>2, <2>3, <2>4, <2>5, <2>6, <2>7 DEF IInv
<1>3. CASE Fault("tool") /\ h' \in {h, Unchanged(h)} /\ Fail(FALSE)
  <2>1. h' = h
    BY <1>3 DEF Unchanged
  <2>2. FALSE => rec.marked
    BY <1>1 DEF IInv, GateInv
  <2> QED
    BY <1>1, <1>3, <2>1, <2>2, FailUntouchedKeeps
<1> QED
  BY <1>2, <1>3 DEF kubeadmUpgradePlan, Command

LEMMA PlanCompleteKeeps == ASSUME IInv, PlanComplete PROVE IInv'
<1> USE DEF Steps, Running, Prepared, Committing, Draining, KubeadmDone, Activating, Switched
<1>1. pc = "plan-complete" /\ rec \in Records /\ local \in Locals /\ req \in Requests /\ UNCHANGED <<req, kinds, h, voters>>
  BY DEF IInv, Types, PlanComplete, Update
<1>2. CASE rec' = Unchanged(rec) /\ Enter("pause") /\ UNCHANGED faults
  <2>1. /\ pc' = "pause" /\ local' = local /\ rec' = rec
        /\ UNCHANGED <<req, kinds, h, voters, faults>>
    BY <1>1, <1>2 DEF Enter, Unchanged, Locals, Requests
  <2>2. Types'
    BY <1>1, <2>1 DEF IInv, Types, ControlPlane
  <2>3. GateInv'
    BY <1>1, <2>1 DEF IInv, GateInv, Ran
  <2>4. AddressInv'
    BY <1>1, <2>1 DEF IInv, AddressInv, ControlPlane
  <2>5. SwitchInv'
    BY <1>1, <2>1 DEF IInv, SwitchInv, ControlPlane
  <2>6. RepairInv'
    BY <1>1, <2>1 DEF IInv, RepairInv, ControlPlane
  <2>7. RestoreInv'
    BY <1>1, <2>1 DEF IInv, RestoreInv, UndoHeld, RepairInv, GateInv
  <2> QED
    BY <2>2, <2>3, <2>4, <2>5, <2>6, <2>7 DEF IInv
<1>3. CASE Fault("store") /\ pc' = "return" /\ UNCHANGED <<rec, local>>
  BY <1>1, <1>3, StoreFaultKeeps
<1> QED
  BY <1>2, <1>3 DEF PlanComplete, Update

LEMMA RecordDrainKeeps == ASSUME IInv, RecordDrain PROVE IInv'
<1> USE DEF Steps, Running, Prepared, Committing, Draining, KubeadmDone, Activating, Switched
<1>1. pc = "drain-start" /\ rec \in Records /\ local \in Locals /\ req \in Requests /\ UNCHANGED <<req, kinds, h, voters>>
  BY DEF IInv, Types, RecordDrain, Update
<1>2. CASE rec' = Unchanged(rec) /\ Enter("drain") /\ UNCHANGED faults
  <2>1. /\ pc' = "drain" /\ local' = local /\ rec' = rec
        /\ UNCHANGED <<req, kinds, h, voters, faults>>
    BY <1>1, <1>2 DEF Enter, Unchanged, Locals, Requests
  <2>2. Types'
    BY <1>1, <2>1 DEF IInv, Types, ControlPlane
  <2>3. GateInv'
    BY <1>1, <2>1 DEF IInv, GateInv, Ran
  <2>4. AddressInv'
    BY <1>1, <2>1 DEF IInv, AddressInv, ControlPlane
  <2>5. SwitchInv'
    BY <1>1, <2>1 DEF IInv, SwitchInv, ControlPlane
  <2>6. RepairInv'
    BY <1>1, <2>1 DEF IInv, RepairInv, ControlPlane
  <2>7. RestoreInv'
    BY <1>1, <2>1 DEF IInv, RestoreInv, UndoHeld, RepairInv, GateInv
  <2> QED
    BY <2>2, <2>3, <2>4, <2>5, <2>6, <2>7 DEF IInv
<1>3. CASE Fault("store") /\ pc' = "return" /\ UNCHANGED <<rec, local>>
  BY <1>1, <1>3, StoreFaultKeeps
<1> QED
  BY <1>2, <1>3 DEF RecordDrain, Update

LEMMA completeKubeAPIServerDrainKeeps == ASSUME IInv, completeKubeAPIServerDrain PROVE IInv'
<1> USE DEF Steps, Running, Prepared, Committing, Draining, KubeadmDone, Activating, Switched
<1>1. pc = "drained" /\ rec \in Records /\ local \in Locals /\ req \in Requests /\ UNCHANGED <<req, kinds, h, voters>>
  BY DEF IInv, Types, completeKubeAPIServerDrain, Update
<1>2. CASE rec' = Unchanged(rec) /\ Enter("mark") /\ UNCHANGED faults
  <2>1. /\ pc' = "mark" /\ local' = [local EXCEPT !.retain = TRUE] /\ rec' = rec
        /\ UNCHANGED <<req, kinds, h, voters, faults>>
    BY <1>1, <1>2 DEF Enter, Unchanged, Locals, Requests
  <2>2. Types'
    BY <1>1, <2>1 DEF IInv, Types, ControlPlane, Locals
  <2>3. GateInv'
    BY <1>1, <2>1 DEF IInv, GateInv, Ran, Locals
  <2>4. AddressInv'
    BY <1>1, <2>1 DEF IInv, AddressInv, ControlPlane, Locals
  <2>5. SwitchInv'
    BY <1>1, <2>1 DEF IInv, SwitchInv, ControlPlane, Locals
  <2>6. RepairInv'
    BY <1>1, <2>1 DEF IInv, RepairInv, ControlPlane, Locals
  <2>7. RestoreInv'
    BY <1>1, <2>1 DEF IInv, RestoreInv, UndoHeld, RepairInv, GateInv, Locals
  <2> QED
    BY <2>2, <2>3, <2>4, <2>5, <2>6, <2>7 DEF IInv
<1>3. CASE Fault("store") /\ pc' = "return" /\ UNCHANGED <<rec, local>>
  BY <1>1, <1>3, StoreFaultKeeps
<1> QED
  BY <1>2, <1>3 DEF completeKubeAPIServerDrain, Update

LEMMA KubeadmCompleteKeeps == ASSUME IInv, KubeadmComplete PROVE IInv'
<1> USE DEF Steps, Running, Prepared, Committing, Draining, KubeadmDone, Activating, Switched
<1>1. pc = "kubeadm-complete" /\ rec \in Records /\ local \in Locals /\ req \in Requests /\ UNCHANGED <<req, kinds, h, voters>>
  BY DEF IInv, Types, KubeadmComplete, Update
<1>2. CASE rec' = Unchanged(rec) /\ Enter("record-stop") /\ UNCHANGED faults
  <2>1. /\ pc' = "record-stop" /\ local' = [local EXCEPT !.retain = TRUE] /\ rec' = rec
        /\ UNCHANGED <<req, kinds, h, voters, faults>>
    BY <1>1, <1>2 DEF Enter, Unchanged, Locals, Requests
  <2>2. Types'
    BY <1>1, <2>1 DEF IInv, Types, ControlPlane, Locals
  <2>3. GateInv'
    BY <1>1, <2>1 DEF IInv, GateInv, Ran, Locals
  <2>4. AddressInv'
    BY <1>1, <2>1 DEF IInv, AddressInv, ControlPlane, Locals
  <2>5. SwitchInv'
    BY <1>1, <2>1 DEF IInv, SwitchInv, ControlPlane, Locals
  <2>6. RepairInv'
    BY <1>1, <2>1 DEF IInv, RepairInv, ControlPlane, Locals
  <2>7. RestoreInv'
    BY <1>1, <2>1 DEF IInv, RestoreInv, UndoHeld, RepairInv, GateInv, Locals
  <2> QED
    BY <2>2, <2>3, <2>4, <2>5, <2>6, <2>7 DEF IInv
<1>3. CASE Fault("store") /\ pc' = "return" /\ UNCHANGED <<rec, local>>
  BY <1>1, <1>3, StoreFaultKeeps
<1> QED
  BY <1>2, <1>3 DEF KubeadmComplete, Update

LEMMA RecordStopKeeps == ASSUME IInv, RecordStop PROVE IInv'
<1> USE DEF Steps, Running, Prepared, Committing, Draining, KubeadmDone, Activating, Switched
<1>1. pc = "record-stop" /\ rec \in Records /\ local \in Locals /\ req \in Requests /\ UNCHANGED <<req, kinds, h, voters>>
  BY DEF IInv, Types, RecordStop, Update
<1>2. CASE rec' = ActivatingRecord(rec) /\ Enter("token") /\ UNCHANGED faults
  <2>1. /\ pc' = "token" /\ local' = local /\ rec' = [rec EXCEPT !.act = "activating", !.marked = @ \/ req.role = "external"]
        /\ UNCHANGED <<req, kinds, h, voters, faults>>
    BY <1>1, <1>2 DEF Enter, ActivatingRecord, Locals, Requests
  <2>2. Types'
    BY <1>1, <2>1 DEF IInv, Types, ControlPlane, Records
  <2>3. GateInv'
    BY <1>1, <2>1 DEF IInv, GateInv, Ran, Records
  <2>4. AddressInv'
    BY <1>1, <2>1 DEF IInv, AddressInv, ControlPlane, Records
  <2>5. SwitchInv'
    BY <1>1, <2>1 DEF IInv, SwitchInv, ControlPlane, Records
  <2>6. RepairInv'
    BY <1>1, <2>1 DEF IInv, RepairInv, ControlPlane, Records
  <2>7. RestoreInv'
    BY <1>1, <2>1 DEF IInv, RestoreInv, UndoHeld, RepairInv, GateInv, Records
  <2> QED
    BY <2>2, <2>3, <2>4, <2>5, <2>6, <2>7 DEF IInv
<1>3. CASE Fault("store") /\ pc' = "return" /\ UNCHANGED <<rec, local>>
  BY <1>1, <1>3, StoreFaultKeeps
<1> QED
  BY <1>2, <1>3 DEF RecordStop, Update

LEMMA releaseKubeletGateKeeps == ASSUME IInv, releaseKubeletGate PROVE IInv'
<1> USE DEF Steps, Running, Prepared, Committing, Draining, KubeadmDone, Activating, Switched
<1>1. pc = "token" /\ h \in Hosts /\ local \in Locals /\ UNCHANGED <<req, kinds, rec, voters>>
  BY DEF IInv, Types, releaseKubeletGate, Command
<1>2. CASE h' = ReleaseGate(h) /\ Enter("stop") /\ UNCHANGED faults
  <2>1. /\ pc' = "stop" /\ local' = local /\ h' = [h EXCEPT !.token = TRUE, !.handoff = FALSE]
        /\ UNCHANGED <<req, kinds, rec, voters, faults>>
    BY <1>1, <1>2 DEF Enter, ReleaseGate, Locals
  <2>2. Types'
    BY <1>1, <2>1 DEF IInv, Types, ControlPlane, Hosts
  <2>3. GateInv'
    BY <1>1, <2>1 DEF IInv, GateInv, Ran, Hosts
  <2>4. AddressInv'
    BY <1>1, <2>1 DEF IInv, AddressInv, ControlPlane, Hosts
  <2>5. SwitchInv'
    BY <1>1, <2>1 DEF IInv, SwitchInv, ControlPlane, Hosts
  <2>6. RepairInv'
    BY <1>1, <2>1 DEF IInv, RepairInv, ControlPlane, Hosts
  <2>7. RestoreInv'
    BY <1>1, <2>1 DEF IInv, RestoreInv, UndoHeld, RepairInv, GateInv, Hosts
  <2> QED
    BY <2>2, <2>3, <2>4, <2>5, <2>6, <2>7 DEF IInv
<1>3. CASE Fault("tool") /\ h' \in {h, ReleaseGate(h)} /\ Fail(TRUE)
  <2>1. TRUE => rec.marked
    BY <1>1 DEF IInv, GateInv
  <2>2. CASE h' = h
    BY <1>1, <1>3, <2>1, <2>2, FailUntouchedKeeps
  <2>3. CASE h' = [h EXCEPT !.token = TRUE, !.handoff = FALSE]
    <3>1. /\ h' \in Hosts /\ h'.sysext # "none"
          /\ h'.kubelet = "target" => h'.kubeadmRan \/ req.role = "external"
          /\ h'.sysext = "target" \/ h'.cand = "committed" =>
               (h'.kubeadmRan \/ req.role = "external") /\ rec.marked
      BY <1>1, <2>3 DEF IInv, GateInv, Ran, Hosts, RepairInv
    <3>2. (~req.managed => h'.endpoint = "advertised") /\ (rec.marked => h'.tools)
      BY <1>1, <2>3 DEF IInv, AddressInv, RepairInv, Hosts
    <3>3. kinds \cap {"store", "kubelet"} = {} /\ ~rec.marked => h'.kubelet = "source"
      BY <1>1, <2>3 DEF IInv, RestoreInv, UndoHeld, RepairInv, GateInv, Hosts
    <3> QED
      BY <1>1, <1>3, <2>1, <3>1, <3>2, <3>3, FailKeeps
  <2> QED
    BY <1>3, <2>2, <2>3 DEF ReleaseGate
<1> QED
  BY <1>2, <1>3 DEF releaseKubeletGate, Command

LEMMA stopSourceKubeletKeeps == ASSUME IInv, stopSourceKubelet PROVE IInv'
<1> USE DEF Steps, Running, Prepared, Committing, Draining, KubeadmDone, Activating, Switched
<1>1. pc = "stop" /\ h \in Hosts /\ local \in Locals /\ UNCHANGED <<req, kinds, rec, voters>>
  BY DEF IInv, Types, stopSourceKubelet, Command
<1>2. CASE h' = StopKubelet(h) /\ Enter("refresh") /\ UNCHANGED faults
  <2>1. /\ pc' = "refresh" /\ local' = local /\ h' = [h EXCEPT !.kubelet = "down"]
        /\ UNCHANGED <<req, kinds, rec, voters, faults>>
    BY <1>1, <1>2 DEF Enter, StopKubelet, Locals
  <2>2. Types'
    BY <1>1, <2>1 DEF IInv, Types, ControlPlane, Hosts
  <2>3. GateInv'
    BY <1>1, <2>1 DEF IInv, GateInv, Ran, Hosts
  <2>4. AddressInv'
    BY <1>1, <2>1 DEF IInv, AddressInv, ControlPlane, Hosts
  <2>5. SwitchInv'
    BY <1>1, <2>1 DEF IInv, SwitchInv, ControlPlane, Hosts
  <2>6. RepairInv'
    BY <1>1, <2>1 DEF IInv, RepairInv, ControlPlane, Hosts
  <2>7. RestoreInv'
    BY <1>1, <2>1 DEF IInv, RestoreInv, UndoHeld, RepairInv, GateInv, Hosts
  <2> QED
    BY <2>2, <2>3, <2>4, <2>5, <2>6, <2>7 DEF IInv
<1>3. CASE Fault("tool") /\ h' \in {h, StopKubelet(h)} /\ Fail(TRUE)
  <2>1. TRUE => rec.marked
    BY <1>1 DEF IInv, GateInv
  <2>2. CASE h' = h
    BY <1>1, <1>3, <2>1, <2>2, FailUntouchedKeeps
  <2>3. CASE h' = [h EXCEPT !.kubelet = "down"]
    <3>1. /\ h' \in Hosts /\ h'.sysext # "none"
          /\ h'.kubelet = "target" => h'.kubeadmRan \/ req.role = "external"
          /\ h'.sysext = "target" \/ h'.cand = "committed" =>
               (h'.kubeadmRan \/ req.role = "external") /\ rec.marked
      BY <1>1, <2>3 DEF IInv, GateInv, Ran, Hosts, RepairInv
    <3>2. (~req.managed => h'.endpoint = "advertised") /\ (rec.marked => h'.tools)
      BY <1>1, <2>3 DEF IInv, AddressInv, RepairInv, Hosts
    <3>3. kinds \cap {"store", "kubelet"} = {} /\ ~rec.marked => h'.kubelet = "source"
      BY <1>1, <2>3 DEF IInv, RestoreInv, UndoHeld, RepairInv, GateInv, Hosts
    <3> QED
      BY <1>1, <1>3, <2>1, <3>1, <3>2, <3>3, FailKeeps
  <2> QED
    BY <1>3, <2>2, <2>3 DEF StopKubelet
<1> QED
  BY <1>2, <1>3 DEF stopSourceKubelet, Command

LEMMA activateKubernetesCandidateKeeps == ASSUME IInv, activateKubernetesCandidate PROVE IInv'
<1> USE DEF Steps, Running, Prepared, Committing, Draining, KubeadmDone, Activating, Switched
<1>1. pc = "refresh" /\ h \in Hosts /\ local \in Locals /\ UNCHANGED <<req, kinds, rec, voters>>
  BY DEF IInv, Types, activateKubernetesCandidate, Command
<1>2. CASE h' = LinkTarget(h) /\ Enter("restart") /\ UNCHANGED faults
  <2>1. /\ pc' = "restart" /\ local' = local /\ h' = [h EXCEPT !.sysext = "target"]
        /\ UNCHANGED <<req, kinds, rec, voters, faults>>
    BY <1>1, <1>2 DEF Enter, LinkTarget, Locals
  <2>2. Types'
    BY <1>1, <2>1 DEF IInv, Types, ControlPlane, Hosts
  <2>3. GateInv'
    BY <1>1, <2>1 DEF IInv, GateInv, Ran, Hosts
  <2>4. AddressInv'
    BY <1>1, <2>1 DEF IInv, AddressInv, ControlPlane, Hosts
  <2>5. SwitchInv'
    BY <1>1, <2>1 DEF IInv, SwitchInv, ControlPlane, Hosts
  <2>6. RepairInv'
    BY <1>1, <2>1 DEF IInv, RepairInv, ControlPlane, Hosts
  <2>7. RestoreInv'
    BY <1>1, <2>1 DEF IInv, RestoreInv, UndoHeld, RepairInv, GateInv, Hosts
  <2> QED
    BY <2>2, <2>3, <2>4, <2>5, <2>6, <2>7 DEF IInv
<1>3. CASE Fault("tool") /\ h' \in {h, LinkTarget(h)} /\ Fail(TRUE)
  <2>1. TRUE => rec.marked
    BY <1>1 DEF IInv, GateInv
  <2>2. CASE h' = h
    BY <1>1, <1>3, <2>1, <2>2, FailUntouchedKeeps
  <2>3. CASE h' = [h EXCEPT !.sysext = "target"]
    <3>1. /\ h' \in Hosts /\ h'.sysext # "none"
          /\ h'.kubelet = "target" => h'.kubeadmRan \/ req.role = "external"
          /\ h'.sysext = "target" \/ h'.cand = "committed" =>
               (h'.kubeadmRan \/ req.role = "external") /\ rec.marked
      BY <1>1, <2>3 DEF IInv, GateInv, Ran, Hosts, RepairInv
    <3>2. (~req.managed => h'.endpoint = "advertised") /\ (rec.marked => h'.tools)
      BY <1>1, <2>3 DEF IInv, AddressInv, RepairInv, Hosts
    <3>3. kinds \cap {"store", "kubelet"} = {} /\ ~rec.marked => h'.kubelet = "source"
      BY <1>1, <2>3 DEF IInv, RestoreInv, UndoHeld, RepairInv, GateInv, Hosts
    <3> QED
      BY <1>1, <1>3, <2>1, <3>1, <3>2, <3>3, FailKeeps
  <2> QED
    BY <1>3, <2>2, <2>3 DEF LinkTarget
<1> QED
  BY <1>2, <1>3 DEF activateKubernetesCandidate, Command

LEMMA removeKubeletGateKeeps == ASSUME IInv, removeKubeletGate PROVE IInv'
<1> USE DEF Steps, Running, Prepared, Committing, Draining, KubeadmDone, Activating, Switched
<1>1. pc = "ungate" /\ h \in Hosts /\ local \in Locals /\ UNCHANGED <<req, kinds, rec, voters>>
  BY DEF IInv, Types, removeKubeletGate, Command
<1>2. CASE h' = Ungate(h) /\ Enter("promote") /\ UNCHANGED faults
  <2>1. /\ pc' = "promote" /\ local' = local /\ h' = [h EXCEPT !.gate = FALSE]
        /\ UNCHANGED <<req, kinds, rec, voters, faults>>
    BY <1>1, <1>2 DEF Enter, Ungate, Locals
  <2>2. Types'
    BY <1>1, <2>1 DEF IInv, Types, ControlPlane, Hosts
  <2>3. GateInv'
    BY <1>1, <2>1 DEF IInv, GateInv, Ran, Hosts
  <2>4. AddressInv'
    BY <1>1, <2>1 DEF IInv, AddressInv, ControlPlane, Hosts
  <2>5. SwitchInv'
    BY <1>1, <2>1 DEF IInv, SwitchInv, ControlPlane, Hosts
  <2>6. RepairInv'
    BY <1>1, <2>1 DEF IInv, RepairInv, ControlPlane, Hosts
  <2>7. RestoreInv'
    BY <1>1, <2>1 DEF IInv, RestoreInv, UndoHeld, RepairInv, GateInv, Hosts
  <2> QED
    BY <2>2, <2>3, <2>4, <2>5, <2>6, <2>7 DEF IInv
<1>3. CASE Fault("tool") /\ h' \in {h, Ungate(h)} /\ Fail(TRUE)
  <2>1. TRUE => rec.marked
    BY <1>1 DEF IInv, GateInv
  <2>2. CASE h' = h
    BY <1>1, <1>3, <2>1, <2>2, FailUntouchedKeeps
  <2>3. CASE h' = [h EXCEPT !.gate = FALSE]
    <3>1. /\ h' \in Hosts /\ h'.sysext # "none"
          /\ h'.kubelet = "target" => h'.kubeadmRan \/ req.role = "external"
          /\ h'.sysext = "target" \/ h'.cand = "committed" =>
               (h'.kubeadmRan \/ req.role = "external") /\ rec.marked
      BY <1>1, <2>3 DEF IInv, GateInv, Ran, Hosts, RepairInv
    <3>2. (~req.managed => h'.endpoint = "advertised") /\ (rec.marked => h'.tools)
      BY <1>1, <2>3 DEF IInv, AddressInv, RepairInv, Hosts
    <3>3. kinds \cap {"store", "kubelet"} = {} /\ ~rec.marked => h'.kubelet = "source"
      BY <1>1, <2>3 DEF IInv, RestoreInv, UndoHeld, RepairInv, GateInv, Hosts
    <3> QED
      BY <1>1, <1>3, <2>1, <3>1, <3>2, <3>3, FailKeeps
  <2> QED
    BY <1>3, <2>2, <2>3 DEF Ungate
<1> QED
  BY <1>2, <1>3 DEF removeKubeletGate, Command

LEMMA promoteLiveGenerationKeeps == ASSUME IInv, promoteLiveGeneration PROVE IInv'
<1> USE DEF Steps, Running, Prepared, Committing, Draining, KubeadmDone, Activating, Switched
<1>1. pc = "promote" /\ h \in Hosts /\ local \in Locals /\ UNCHANGED <<req, kinds, rec, voters>>
  BY DEF IInv, Types, promoteLiveGeneration, Command
<1>2. CASE h' = Commit(h) /\ Enter("record-healthy") /\ UNCHANGED faults
  <2>1. /\ pc' = "record-healthy" /\ local' = local /\ h' = [h EXCEPT !.cand = "committed"]
        /\ UNCHANGED <<req, kinds, rec, voters, faults>>
    BY <1>1, <1>2 DEF Enter, Commit, Locals
  <2>2. Types'
    BY <1>1, <2>1 DEF IInv, Types, ControlPlane, Hosts
  <2>3. GateInv'
    BY <1>1, <2>1 DEF IInv, GateInv, Ran, Hosts
  <2>4. AddressInv'
    BY <1>1, <2>1 DEF IInv, AddressInv, ControlPlane, Hosts
  <2>5. SwitchInv'
    BY <1>1, <2>1 DEF IInv, SwitchInv, ControlPlane, Hosts
  <2>6. RepairInv'
    BY <1>1, <2>1 DEF IInv, RepairInv, ControlPlane, Hosts
  <2>7. RestoreInv'
    BY <1>1, <2>1 DEF IInv, RestoreInv, UndoHeld, RepairInv, GateInv, Hosts
  <2> QED
    BY <2>2, <2>3, <2>4, <2>5, <2>6, <2>7 DEF IInv
<1>3. CASE Fault("tool") /\ h' \in {h, Commit(h)} /\ Fail(TRUE)
  <2>1. TRUE => rec.marked
    BY <1>1 DEF IInv, GateInv
  <2>2. CASE h' = h
    BY <1>1, <1>3, <2>1, <2>2, FailUntouchedKeeps
  <2>3. CASE h' = [h EXCEPT !.cand = "committed"]
    <3>1. /\ h' \in Hosts /\ h'.sysext # "none"
          /\ h'.kubelet = "target" => h'.kubeadmRan \/ req.role = "external"
          /\ h'.sysext = "target" \/ h'.cand = "committed" =>
               (h'.kubeadmRan \/ req.role = "external") /\ rec.marked
      BY <1>1, <2>3 DEF IInv, GateInv, Ran, Hosts, RepairInv
    <3>2. (~req.managed => h'.endpoint = "advertised") /\ (rec.marked => h'.tools)
      BY <1>1, <2>3 DEF IInv, AddressInv, RepairInv, Hosts
    <3>3. kinds \cap {"store", "kubelet"} = {} /\ ~rec.marked => h'.kubelet = "source"
      BY <1>1, <2>3 DEF IInv, RestoreInv, UndoHeld, RepairInv, GateInv, Hosts
    <3> QED
      BY <1>1, <1>3, <2>1, <3>1, <3>2, <3>3, FailKeeps
  <2> QED
    BY <1>3, <2>2, <2>3 DEF Commit
<1> QED
  BY <1>2, <1>3 DEF promoteLiveGeneration, Command

LEMMA resolveKubernetesUpgradePayloadKeeps == ASSUME IInv, resolveKubernetesUpgradePayload PROVE IInv'
<1> USE DEF Steps, Running, Prepared, Committing, Draining, KubeadmDone, Activating, Switched
<1>1. pc = "resolve" /\ h \in Hosts /\ local \in Locals /\ UNCHANGED <<req, kinds, rec, voters>>
  BY DEF IInv, Types, resolveKubernetesUpgradePayload, Command
<1>2. CASE h' = Unchanged(h) /\ Enter(IF req.prepared # "none" THEN "prepared" ELSE "stage") /\ UNCHANGED faults
  <2>1. /\ pc' \in {"prepared", "stage"} /\ local' = local /\ h' = h
        /\ UNCHANGED <<req, kinds, rec, voters, faults>>
    BY <1>1, <1>2 DEF Enter, Unchanged, Locals
  <2>2. Types'
    BY <1>1, <2>1 DEF IInv, Types, ControlPlane
  <2>3. GateInv'
    BY <1>1, <2>1 DEF IInv, GateInv, Ran
  <2>4. AddressInv'
    BY <1>1, <2>1 DEF IInv, AddressInv, ControlPlane
  <2>5. SwitchInv'
    BY <1>1, <2>1 DEF IInv, SwitchInv, ControlPlane
  <2>6. RepairInv'
    BY <1>1, <2>1 DEF IInv, RepairInv, ControlPlane
  <2>7. RestoreInv'
    BY <1>1, <2>1 DEF IInv, RestoreInv, UndoHeld, RepairInv, GateInv
  <2> QED
    BY <2>2, <2>3, <2>4, <2>5, <2>6, <2>7 DEF IInv
<1>3. CASE Fault("tool") /\ h' \in {h, Unchanged(h)} /\ Fail(FALSE)
  <2>1. h' = h
    BY <1>3 DEF Unchanged
  <2>2. FALSE => rec.marked
    BY <1>1 DEF IInv, GateInv
  <2> QED
    BY <1>1, <1>3, <2>1, <2>2, FailUntouchedKeeps
<1> QED
  BY <1>2, <1>3 DEF resolveKubernetesUpgradePayload, Command

LEMMA MountKeeps == ASSUME IInv, Mount PROVE IInv'
<1> USE DEF Steps, Running, Prepared, Committing, Draining, KubeadmDone, Activating, Switched
<1>1. pc = "mount" /\ h \in Hosts /\ local \in Locals /\ UNCHANGED <<req, kinds, rec, voters>>
  BY DEF IInv, Types, Mount, Command
<1>2. CASE h' = MountTools(h) /\ Enter(IF ControlPlane THEN "etcd" ELSE "gate") /\ UNCHANGED faults
  <2>1. /\ pc' = (IF ControlPlane THEN "etcd" ELSE "gate") /\ local' = local /\ h' = [h EXCEPT !.tools = TRUE]
        /\ UNCHANGED <<req, kinds, rec, voters, faults>>
    BY <1>1, <1>2 DEF Enter, MountTools, Locals
  <2>2. Types'
    BY <1>1, <2>1 DEF IInv, Types, ControlPlane, Hosts
  <2>3. GateInv'
    BY <1>1, <2>1 DEF IInv, GateInv, Ran, Hosts
  <2>4. AddressInv'
    BY <1>1, <2>1 DEF IInv, AddressInv, ControlPlane, Hosts
  <2>5. SwitchInv'
    BY <1>1, <2>1 DEF IInv, SwitchInv, ControlPlane, Hosts
  <2>6. RepairInv'
    BY <1>1, <2>1 DEF IInv, RepairInv, ControlPlane, Hosts
  <2>7. RestoreInv'
    BY <1>1, <2>1 DEF IInv, RestoreInv, UndoHeld, RepairInv, GateInv, Hosts
  <2> QED
    BY <2>2, <2>3, <2>4, <2>5, <2>6, <2>7 DEF IInv
<1>3. CASE Fault("tool") /\ h' \in {h, MountTools(h)} /\ Fail(FALSE)
  <2>1. FALSE => rec.marked
    BY <1>1 DEF IInv, GateInv
  <2>2. CASE h' = h
    BY <1>1, <1>3, <2>1, <2>2, FailUntouchedKeeps
  <2>3. CASE h' = [h EXCEPT !.tools = TRUE]
    <3>1. /\ h' \in Hosts /\ h'.sysext # "none"
          /\ h'.kubelet = "target" => h'.kubeadmRan \/ req.role = "external"
          /\ h'.sysext = "target" \/ h'.cand = "committed" =>
               (h'.kubeadmRan \/ req.role = "external") /\ rec.marked
      BY <1>1, <2>3 DEF IInv, GateInv, Ran, Hosts, RepairInv
    <3>2. (~req.managed => h'.endpoint = "advertised") /\ (rec.marked => h'.tools)
      BY <1>1, <2>3 DEF IInv, AddressInv, RepairInv, Hosts
    <3>3. kinds \cap {"store", "kubelet"} = {} /\ ~rec.marked => h'.kubelet = "source"
      BY <1>1, <2>3 DEF IInv, RestoreInv, UndoHeld, RepairInv, GateInv, Hosts
    <3> QED
      BY <1>1, <1>3, <2>1, <3>1, <3>2, <3>3, FailKeeps
  <2> QED
    BY <1>3, <2>2, <2>3 DEF MountTools
<1> QED
  BY <1>2, <1>3 DEF Mount, Command

LEMMA drainKubeAPIServerConnectionsKeeps == ASSUME IInv, drainKubeAPIServerConnections PROVE IInv'
<1> USE DEF Steps, Running, Prepared, Committing, Draining, KubeadmDone, Activating, Switched
<1>1. pc = "drain" /\ h \in Hosts /\ h.sysext # "none" /\ local \in Locals /\ UNCHANGED <<req, kinds, rec, voters>>
  BY DEF IInv, Types, GateInv, RepairInv, drainKubeAPIServerConnections, Command
<1>2. CASE h' = activateKubeletAPIHandoff(h) /\ Enter("drained") /\ UNCHANGED faults
  <2>1. /\ pc' = "drained" /\ local' = local /\ h' = (IF req.peers THEN [h EXCEPT !.handoff = TRUE, !.kubelet = h.sysext] ELSE h)
        /\ UNCHANGED <<req, kinds, rec, voters, faults>>
    BY <1>1, <1>2 DEF Enter, activateKubeletAPIHandoff, StartKubelet, Startable, Hosts, Locals
  <2>2. Types'
    BY <1>1, <2>1 DEF IInv, Types, ControlPlane, Hosts
  <2>3. GateInv'
    BY <1>1, <2>1 DEF IInv, GateInv, Ran, Hosts
  <2>4. AddressInv'
    BY <1>1, <2>1 DEF IInv, AddressInv, ControlPlane, Hosts
  <2>5. SwitchInv'
    BY <1>1, <2>1 DEF IInv, SwitchInv, ControlPlane, Hosts
  <2>6. RepairInv'
    BY <1>1, <2>1 DEF IInv, RepairInv, ControlPlane, Hosts
  <2>7. RestoreInv'
    BY <1>1, <2>1 DEF IInv, RestoreInv, UndoHeld, RepairInv, GateInv, Hosts
  <2> QED
    BY <2>2, <2>3, <2>4, <2>5, <2>6, <2>7 DEF IInv
<1>3. CASE Fault("tool") /\ h' \in {h, activateKubeletAPIHandoff(h)} /\ Fail(FALSE)
  <2>1. FALSE => rec.marked
    BY <1>1 DEF IInv, GateInv
  <2>2. CASE h' = h
    BY <1>1, <1>3, <2>1, <2>2, FailUntouchedKeeps
  <2>3. CASE h' = (IF req.peers THEN [h EXCEPT !.handoff = TRUE, !.kubelet = h.sysext] ELSE h)
    <3>1. /\ h' \in Hosts /\ h'.sysext # "none"
          /\ h'.kubelet = "target" => h'.kubeadmRan \/ req.role = "external"
          /\ h'.sysext = "target" \/ h'.cand = "committed" =>
               (h'.kubeadmRan \/ req.role = "external") /\ rec.marked
      BY <1>1, <2>3 DEF IInv, GateInv, Ran, Hosts, RepairInv
    <3>2. (~req.managed => h'.endpoint = "advertised") /\ (rec.marked => h'.tools)
      BY <1>1, <2>3 DEF IInv, AddressInv, RepairInv, Hosts
    <3>3. kinds \cap {"store", "kubelet"} = {} /\ ~rec.marked => h'.kubelet = "source"
      BY <1>1, <2>3 DEF IInv, RestoreInv, UndoHeld, RepairInv, GateInv, Hosts
    <3> QED
      BY <1>1, <1>3, <2>1, <3>1, <3>2, <3>3, FailKeeps
  <2> QED
    BY <1>1, <1>3, <2>2, <2>3 DEF activateKubeletAPIHandoff, StartKubelet, Startable, Hosts
<1> QED
  BY <1>2, <1>3 DEF drainKubeAPIServerConnections, Command

LEMMA runKubeadmUpgradeCommandKeeps == ASSUME IInv, runKubeadmUpgradeCommand PROVE IInv'
<1> USE DEF Steps, Running, Prepared, Committing, Draining, KubeadmDone, Activating, Switched
<1>1. pc = "kubeadm" /\ h \in Hosts /\ local \in Locals /\ UNCHANGED <<req, kinds, rec, voters>>
  BY DEF IInv, Types, runKubeadmUpgradeCommand, Command
<1>2. CASE h' = KubeadmUpgradeNode(h) /\ Enter("kubeadm-complete") /\ UNCHANGED faults
  <2>1. /\ pc' = "kubeadm-complete" /\ local' = local /\ h' = [h EXCEPT !.kubeadmRan = TRUE, !.etcdImage = IF ControlPlane THEN "target" ELSE @]
        /\ UNCHANGED <<req, kinds, rec, voters, faults>>
    BY <1>1, <1>2 DEF Enter, KubeadmUpgradeNode, Locals
  <2>2. Types'
    BY <1>1, <2>1 DEF IInv, Types, ControlPlane, Hosts
  <2>3. GateInv'
    BY <1>1, <2>1 DEF IInv, GateInv, Ran, Hosts
  <2>4. AddressInv'
    BY <1>1, <2>1 DEF IInv, AddressInv, ControlPlane, Hosts
  <2>5. SwitchInv'
    BY <1>1, <2>1 DEF IInv, SwitchInv, ControlPlane, Hosts
  <2>6. RepairInv'
    BY <1>1, <2>1 DEF IInv, RepairInv, ControlPlane, Hosts
  <2>7. RestoreInv'
    BY <1>1, <2>1 DEF IInv, RestoreInv, UndoHeld, RepairInv, GateInv, Hosts
  <2> QED
    BY <2>2, <2>3, <2>4, <2>5, <2>6, <2>7 DEF IInv
<1>3. CASE Fault("tool") /\ h' \in {h, KubeadmUpgradeNode(h)} /\ Fail(TRUE)
  <2>1. TRUE => rec.marked
    BY <1>1 DEF IInv, GateInv
  <2>2. CASE h' = h
    BY <1>1, <1>3, <2>1, <2>2, FailUntouchedKeeps
  <2>3. CASE h' = [h EXCEPT !.kubeadmRan = TRUE, !.etcdImage = IF ControlPlane THEN "target" ELSE @]
    <3>1. /\ h' \in Hosts /\ h'.sysext # "none"
          /\ h'.kubelet = "target" => h'.kubeadmRan \/ req.role = "external"
          /\ h'.sysext = "target" \/ h'.cand = "committed" =>
               (h'.kubeadmRan \/ req.role = "external") /\ rec.marked
      BY <1>1, <2>3 DEF IInv, GateInv, Ran, Hosts, RepairInv
    <3>2. (~req.managed => h'.endpoint = "advertised") /\ (rec.marked => h'.tools)
      BY <1>1, <2>3 DEF IInv, AddressInv, RepairInv, Hosts
    <3>3. kinds \cap {"store", "kubelet"} = {} /\ ~rec.marked => h'.kubelet = "source"
      BY <1>1, <2>3 DEF IInv, RestoreInv, UndoHeld, RepairInv, GateInv, Hosts
    <3> QED
      BY <1>1, <1>3, <2>1, <3>1, <3>2, <3>3, FailKeeps
  <2> QED
    BY <1>3, <2>2, <2>3 DEF KubeadmUpgradeNode
<1> QED
  BY <1>2, <1>3 DEF runKubeadmUpgradeCommand, Command

LEMMA restartTargetKubeletKeeps == ASSUME IInv, restartTargetKubelet PROVE IInv'
<1> USE DEF Steps, Running, Prepared, Committing, Draining, KubeadmDone, Activating, Switched
<1>1. pc = "restart" /\ h \in Hosts /\ h.sysext # "none" /\ local \in Locals /\ UNCHANGED <<req, kinds, rec, voters>>
  BY DEF IInv, Types, GateInv, RepairInv, restartTargetKubelet, Command
<1>2. CASE h' = StartKubelet(h) /\ Enter("health") /\ UNCHANGED faults
  <2>1. /\ pc' = "health" /\ local' = local /\ h' = [h EXCEPT !.kubelet = IF h.gate /\ ~h.token /\ ~h.handoff THEN "down" ELSE h.sysext]
        /\ UNCHANGED <<req, kinds, rec, voters, faults>>
    BY <1>1, <1>2 DEF Enter, StartKubelet, Startable, Locals, Hosts
  <2>2. Types'
    BY <1>1, <2>1 DEF IInv, Types, ControlPlane, Hosts
  <2>3. GateInv'
    BY <1>1, <2>1 DEF IInv, GateInv, Ran, Hosts
  <2>4. AddressInv'
    BY <1>1, <2>1 DEF IInv, AddressInv, ControlPlane, Hosts
  <2>5. SwitchInv'
    BY <1>1, <2>1 DEF IInv, SwitchInv, ControlPlane, Hosts
  <2>6. RepairInv'
    BY <1>1, <2>1 DEF IInv, RepairInv, ControlPlane, Hosts
  <2>7. RestoreInv'
    BY <1>1, <2>1 DEF IInv, RestoreInv, UndoHeld, RepairInv, GateInv, Hosts
  <2> QED
    BY <2>2, <2>3, <2>4, <2>5, <2>6, <2>7 DEF IInv
<1>3. CASE Fault("tool") /\ h' \in {h, StartKubelet(h)} /\ Fail(TRUE)
  <2>1. TRUE => rec.marked
    BY <1>1 DEF IInv, GateInv
  <2>2. CASE h' = h
    BY <1>1, <1>3, <2>1, <2>2, FailUntouchedKeeps
  <2>3. CASE h' = [h EXCEPT !.kubelet = IF h.gate /\ ~h.token /\ ~h.handoff THEN "down" ELSE h.sysext]
    <3>1. /\ h' \in Hosts /\ h'.sysext # "none"
          /\ h'.kubelet = "target" => h'.kubeadmRan \/ req.role = "external"
          /\ h'.sysext = "target" \/ h'.cand = "committed" =>
               (h'.kubeadmRan \/ req.role = "external") /\ rec.marked
      BY <1>1, <2>3 DEF IInv, GateInv, Ran, Hosts, RepairInv
    <3>2. (~req.managed => h'.endpoint = "advertised") /\ (rec.marked => h'.tools)
      BY <1>1, <2>3 DEF IInv, AddressInv, RepairInv, Hosts
    <3>3. kinds \cap {"store", "kubelet"} = {} /\ ~rec.marked => h'.kubelet = "source"
      BY <1>1, <2>3 DEF IInv, RestoreInv, UndoHeld, RepairInv, GateInv, Hosts
    <3> QED
      BY <1>1, <1>3, <2>1, <3>1, <3>2, <3>3, FailKeeps
  <2> QED
    BY <1>1, <1>3, <2>2, <2>3 DEF StartKubelet, Startable, Hosts
<1> QED
  BY <1>2, <1>3 DEF restartTargetKubelet, Command

LEMMA recordHealthyKubeadmUpgradeKeeps == ASSUME IInv, recordHealthyKubeadmUpgrade PROVE IInv'
<1> USE DEF Steps, Running, Prepared, Committing, Draining, KubeadmDone, Activating, Switched
<1>1. pc = "record-healthy" /\ rec \in Records /\ local \in Locals /\ req \in Requests /\ UNCHANGED <<req, kinds, h, voters>>
  BY DEF IInv, Types, recordHealthyKubeadmUpgrade, Update
<1>2. CASE rec' = HealthyRecord(rec) /\ Enter("return") /\ UNCHANGED faults
  <2>1. /\ pc' = "return" /\ local' = local /\ rec' = [rec EXCEPT !.terminal = TRUE, !.result = "succeeded"]
        /\ UNCHANGED <<req, kinds, h, voters, faults>>
    BY <1>1, <1>2 DEF Enter, HealthyRecord, Locals, Requests
  <2>2. Types'
    BY <1>1, <2>1 DEF IInv, Types, ControlPlane, Records
  <2>3. GateInv'
    BY <1>1, <2>1 DEF IInv, GateInv, Ran, Records
  <2>4. AddressInv'
    BY <1>1, <2>1 DEF IInv, AddressInv, ControlPlane, Records
  <2>5. SwitchInv'
    BY <1>1, <2>1 DEF IInv, SwitchInv, ControlPlane, Records
  <2>6. RepairInv'
    BY <1>1, <2>1 DEF IInv, RepairInv, ControlPlane, Records
  <2>7. RestoreInv'
    BY <1>1, <2>1 DEF IInv, RestoreInv, UndoHeld, RepairInv, GateInv, Records
  <2> QED
    BY <2>2, <2>3, <2>4, <2>5, <2>6, <2>7 DEF IInv
<1>3. CASE Fault("store") /\ pc' = "return" /\ UNCHANGED <<rec, local>>
  BY <1>1, <1>3, StoreFaultKeeps
<1> QED
  BY <1>2, <1>3 DEF recordHealthyKubeadmUpgrade, Update

LEMMA RecordStagedKeeps == ASSUME IInv, RecordStaged PROVE IInv'
<1> USE DEF Steps, Running, Prepared, Committing, Draining, KubeadmDone, Activating, Switched
<1> DEFINE next == CASE req.role = "apply" -> "plan" [] req.role = "control-plane" -> "pause"
                    [] req.role = "worker" -> "mark" [] req.role = "external" -> "record-stop"
<1>1. pc = "staged" /\ rec \in Records /\ local \in Locals /\ req \in Requests /\ UNCHANGED <<req, kinds, h, voters>>
  BY DEF IInv, Types, RecordStaged, Update
<1>2. CASE rec' = StagedRecord(rec) /\ Enter(next) /\ UNCHANGED faults
  <2>1. /\ \/ req.role = "apply" /\ pc' = "plan"
           \/ req.role = "control-plane" /\ pc' = "pause"
           \/ req.role = "worker" /\ pc' = "mark"
           \/ req.role = "external" /\ pc' = "record-stop"
        /\ rec' = [rec EXCEPT !.gateUnit = TRUE]
        /\ UNCHANGED <<req, kinds, h, voters, faults>>
    BY <1>1, <1>2 DEF Enter, StagedRecord, Requests
  <2>2. /\ local' \in Locals /\ local'.paused = local.paused /\ local'.post = local.post
        /\ (local.retain \/ pc' \in {"mark", "record-stop"}) => local'.retain
        /\ local'.spoilt = local.spoilt
    BY <1>1, <1>2 DEF Enter, Locals
  <2>3. Types'
    BY <1>1, <2>1, <2>2 DEF IInv, Types, ControlPlane, Records
  <2>4. GateInv'
    BY <1>1, <2>1, <2>2 DEF IInv, GateInv, Ran, Records
  <2>5. AddressInv'
    BY <1>1, <2>1, <2>2 DEF IInv, AddressInv, ControlPlane, Records
  <2>6. SwitchInv'
    BY <1>1, <2>1, <2>2 DEF IInv, SwitchInv, ControlPlane, Records
  <2>7. RepairInv'
    BY <1>1, <2>1, <2>2 DEF IInv, RepairInv, ControlPlane, Records
  <2>8. RestoreInv'
    BY <1>1, <2>1, <2>2 DEF IInv, RestoreInv, UndoHeld, RepairInv, GateInv, Records
  <2> QED
    BY <2>3, <2>4, <2>5, <2>6, <2>7, <2>8 DEF IInv
<1>3. CASE Fault("store") /\ pc' = "return" /\ UNCHANGED <<rec, local>>
  BY <1>1, <1>3, StoreFaultKeeps
<1> QED
  BY <1>2, <1>3 DEF RecordStaged, Update

LEMMA usePreparedUpgradeKeeps == ASSUME IInv, usePreparedUpgrade PROVE IInv'
<1> USE DEF Steps, Running, Prepared, Committing, Draining, KubeadmDone, Activating, Switched
<1>1. pc = "prepared" /\ rec \in Records /\ UNCHANGED <<req, kinds, h, voters, faults>>
  BY DEF IInv, Types, usePreparedUpgrade
<1>2. CASE preparationMatches
  <2>1. pc' = "stage" /\ rec' = [rec EXCEPT !.before = TRUE] /\ local' = local
    BY <1>2 DEF usePreparedUpgrade
  <2>2. Types'
    BY <1>1, <2>1 DEF IInv, Types, ControlPlane, Records
  <2>3. GateInv'
    BY <1>1, <2>1 DEF IInv, GateInv, Ran, Records
  <2>4. AddressInv'
    BY <1>1, <2>1 DEF IInv, AddressInv, ControlPlane, Records
  <2>5. SwitchInv'
    BY <1>1, <2>1 DEF IInv, SwitchInv, ControlPlane, Records
  <2>6. RepairInv'
    BY <1>1, <2>1 DEF IInv, RepairInv, ControlPlane, Records
  <2>7. RestoreInv'
    BY <1>1, <2>1 DEF IInv, RestoreInv, UndoHeld, RepairInv, GateInv, Records
  <2> QED
    BY <2>2, <2>3, <2>4, <2>5, <2>6, <2>7 DEF IInv
<1>3. CASE ~preparationMatches
  BY <1>1, <1>3, FailUntouchedKeeps DEF usePreparedUpgrade
<1> QED
  BY <1>2, <1>3

LEMMA prepareUpgradeEtcdKeeps == ASSUME IInv, prepareUpgradeEtcd PROVE IInv'
<1> USE DEF Steps, Running, Prepared, Committing, Draining, KubeadmDone, Activating, Switched
<1>1. pc = "etcd" /\ rec \in Records /\ UNCHANGED <<req, kinds, h, voters>>
  BY DEF IInv, Types, prepareUpgradeEtcd
<1>2. CASE pc' = "gate" /\ rec' = [rec EXCEPT !.before = TRUE] /\ UNCHANGED <<local, faults>>
  <2>1. Types'
    BY <1>1, <1>2 DEF IInv, Types, ControlPlane, Records
  <2>2. GateInv'
    BY <1>1, <1>2 DEF IInv, GateInv, Ran, Records
  <2>3. AddressInv'
    BY <1>1, <1>2 DEF IInv, AddressInv, ControlPlane, Records
  <2>4. SwitchInv'
    BY <1>1, <1>2 DEF IInv, SwitchInv, ControlPlane, Records
  <2>5. RepairInv'
    BY <1>1, <1>2 DEF IInv, RepairInv, ControlPlane, Records
  <2>6. RestoreInv'
    BY <1>1, <1>2 DEF IInv, RestoreInv, UndoHeld, RepairInv, GateInv, Records
  <2> QED
    BY <2>1, <2>2, <2>3, <2>4, <2>5, <2>6 DEF IInv
<1>3. CASE Fail(FALSE) /\ UNCHANGED <<rec, faults>>
  BY <1>1, <1>3, FailUntouchedKeeps
<1>4. CASE Fault("tool") /\ Fail(FALSE) /\ UNCHANGED rec
  BY <1>1, <1>4, FailUntouchedKeeps
<1> QED
  BY <1>2, <1>3, <1>4 DEF prepareUpgradeEtcd

LEMMA PauseKeeps == ASSUME IInv, Pause PROVE IInv'
<1> USE DEF Steps, Running, Prepared, Committing, Draining, KubeadmDone, Activating, Switched
<1>1. pc = "pause" /\ h \in Hosts /\ local \in Locals /\ req \in Requests /\ UNCHANGED <<req, kinds, rec, voters>>
  BY DEF IInv, Types, Pause
<1>2. CASE /\ h' = pauseManagedEndpoint(h) /\ pc' = "drain-start"
           /\ local' = [local EXCEPT !.paused = req.managed] /\ UNCHANGED faults
  <2>1. h' = [h EXCEPT !.endpoint = IF req.managed THEN "withdrawn" ELSE @]
    BY <1>2 DEF pauseManagedEndpoint
  <2>2. /\ h' \in Hosts /\ local' \in Locals /\ (req.managed => h'.endpoint = "withdrawn" /\ local'.paused)
        /\ (~req.managed => h'.endpoint = h.endpoint)
    BY <1>1, <1>2, <2>1 DEF Hosts, Locals, Requests
  <2>3. Types'
    BY <1>1, <1>2, <2>1, <2>2 DEF IInv, Types, ControlPlane
  <2>4. GateInv'
    BY <1>1, <1>2, <2>1, <2>2 DEF IInv, GateInv, Ran, Hosts, Locals
  <2>5. AddressInv'
    BY <1>1, <1>2, <2>1, <2>2 DEF IInv, AddressInv, ControlPlane
  <2>6. SwitchInv'
    BY <1>1, <1>2, <2>1, <2>2 DEF IInv, SwitchInv, ControlPlane, Hosts
  <2>7. RepairInv'
    BY <1>1, <1>2, <2>1, <2>2 DEF IInv, RepairInv, ControlPlane, Hosts, Locals
  <2>8. RestoreInv'
    BY <1>1, <1>2, <2>1, <2>2 DEF IInv, RestoreInv, UndoHeld, RepairInv, GateInv, Hosts
  <2> QED
    BY <2>3, <2>4, <2>5, <2>6, <2>7, <2>8 DEF IInv
<1>3. CASE req.managed /\ Fault("tool") /\ h' \in {h, pauseManagedEndpoint(h)} /\ Fail(FALSE)
  <2>2. CASE h' = h
    BY <1>1, <1>3, <2>2, FailUntouchedKeeps
  <2>3. CASE h' = [h EXCEPT !.endpoint = "withdrawn"]
    <3>1. /\ h' \in Hosts /\ h'.sysext # "none"
          /\ h'.kubelet = "target" => h'.kubeadmRan \/ req.role = "external"
          /\ h'.sysext = "target" \/ h'.cand = "committed" =>
               (h'.kubeadmRan \/ req.role = "external") /\ rec.marked
      BY <1>1, <2>3 DEF IInv, GateInv, Ran, Hosts, RepairInv
    <3>2. rec.marked => h'.tools
      BY <1>1, <2>3 DEF IInv, RepairInv, Hosts
    <3>3. kinds \cap {"store", "kubelet"} = {} /\ ~rec.marked => h'.kubelet = "source"
      BY <1>1, <2>3 DEF IInv, RestoreInv, UndoHeld, RepairInv, Hosts
    <3> QED
      BY <1>1, <1>3, <3>1, <3>2, <3>3, FailKeeps
  <2> QED
    BY <1>3, <2>2, <2>3 DEF pauseManagedEndpoint
<1> QED
  BY <1>2, <1>3 DEF Pause

LEMMA MarkKubeadmKeeps == ASSUME IInv, MarkKubeadm PROVE IInv'
<1> USE DEF Steps, Running, Prepared, Committing, Draining, KubeadmDone, Activating, Switched
<1>1. pc = "mark" /\ rec \in Records /\ UNCHANGED <<req, kinds, h, voters>>
  BY DEF IInv, Types, MarkKubeadm
<1>2. CASE rec' = MarkedRecord(rec) /\ pc' = "kubeadm" /\ UNCHANGED <<local, faults>>
  <2>1. rec' = [rec EXCEPT !.marked = TRUE] /\ pc' = "kubeadm" /\ UNCHANGED <<local, faults>>
    BY <1>2 DEF MarkedRecord
  <2>2. Types'
    BY <1>1, <2>1 DEF IInv, Types, ControlPlane, Records
  <2>3. GateInv'
    BY <1>1, <2>1 DEF IInv, GateInv, Ran, Records
  <2>4. AddressInv'
    BY <1>1, <2>1 DEF IInv, AddressInv, ControlPlane, Records
  <2>5. SwitchInv'
    BY <1>1, <2>1 DEF IInv, SwitchInv, ControlPlane, Records
  <2>6. RepairInv'
    BY <1>1, <2>1 DEF IInv, RepairInv, ControlPlane, Records
  <2>7. RestoreInv'
    BY <1>1, <2>1 DEF IInv, RestoreInv, UndoHeld, RepairInv, GateInv, Records
  <2> QED
    BY <2>2, <2>3, <2>4, <2>5, <2>6, <2>7 DEF IInv
<1>3. CASE Fail(FALSE) /\ UNCHANGED <<rec, faults>>
  BY <1>1, <1>3, FailUntouchedKeeps
<1>4. CASE Fault("store") /\ pc' = "return" /\ UNCHANGED <<rec, local>>
  BY <1>1, <1>4, StoreFaultKeeps
<1> QED
  BY <1>2, <1>3, <1>4 DEF MarkKubeadm

LEMMA checkKubeadmUpgradeHealthKeeps == ASSUME IInv, checkKubeadmUpgradeHealth PROVE IInv'
<1> USE DEF Steps, Running, Prepared, Committing, Draining, KubeadmDone, Activating, Switched
<1>1. pc = "health" /\ rec.marked /\ UNCHANGED <<req, kinds, rec, h, voters>>
  BY DEF IInv, GateInv, checkKubeadmUpgradeHealth
<1>2. CASE pc' = (IF ControlPlane THEN "rejoin" ELSE "resume") /\ UNCHANGED <<local, faults>>
  <2>1. Types'
    BY <1>1, <1>2 DEF IInv, Types, ControlPlane
  <2>2. GateInv'
    BY <1>1, <1>2 DEF IInv, GateInv, Ran
  <2>3. AddressInv'
    BY <1>1, <1>2 DEF IInv, AddressInv, ControlPlane
  <2>4. SwitchInv'
    BY <1>1, <1>2 DEF IInv, SwitchInv, ControlPlane
  <2>5. RepairInv'
    BY <1>1, <1>2 DEF IInv, RepairInv, ControlPlane
  <2>6. RestoreInv'
    BY <1>1, <1>2 DEF IInv, RestoreInv, UndoHeld, RepairInv, GateInv
  <2> QED
    BY <2>1, <2>2, <2>3, <2>4, <2>5, <2>6 DEF IInv
<1>3. CASE Fail(TRUE) /\ UNCHANGED faults
  BY <1>1, <1>3, FailUntouchedKeeps
<1>4. CASE Fault("tool") /\ Fail(TRUE)
  BY <1>1, <1>4, FailUntouchedKeeps
<1> QED
  BY <1>2, <1>3, <1>4 DEF checkKubeadmUpgradeHealth

LEMMA waitUpgradeEtcdKeeps == ASSUME IInv, waitUpgradeEtcd PROVE IInv'
<1> USE DEF Steps, Running, Prepared, Committing, Draining, KubeadmDone, Activating, Switched
<1>1. pc = "rejoin" /\ rec \in Records /\ rec.marked /\ UNCHANGED <<req, kinds, h, voters, faults>>
  BY DEF IInv, Types, GateInv, waitUpgradeEtcd
<1>2. CASE rec' = [rec EXCEPT !.after = TRUE] /\ pc' = "resume" /\ UNCHANGED local
  <2>1. Types'
    BY <1>1, <1>2 DEF IInv, Types, ControlPlane, Records
  <2>2. GateInv'
    BY <1>1, <1>2 DEF IInv, GateInv, Ran, Records
  <2>3. AddressInv'
    BY <1>1, <1>2 DEF IInv, AddressInv, ControlPlane, Records
  <2>4. SwitchInv'
    BY <1>1, <1>2 DEF IInv, SwitchInv, ControlPlane, Records
  <2>5. RepairInv'
    BY <1>1, <1>2 DEF IInv, RepairInv, ControlPlane, Records
  <2>6. RestoreInv'
    BY <1>1, <1>2 DEF IInv, RestoreInv, UndoHeld, RepairInv, GateInv, Records
  <2> QED
    BY <2>1, <2>2, <2>3, <2>4, <2>5, <2>6 DEF IInv
<1>3. CASE Fail(TRUE) /\ UNCHANGED rec
  BY <1>1, <1>3, FailUntouchedKeeps
<1> QED
  BY <1>2, <1>3 DEF waitUpgradeEtcd

LEMMA resumeManagedEndpointKeeps == ASSUME IInv, resumeManagedEndpoint PROVE IInv'
<1> USE DEF Steps, Running, Prepared, Committing, Draining, KubeadmDone, Activating, Switched
<1>1. /\ pc = "resume" /\ h \in Hosts /\ local \in Locals /\ req \in Requests /\ rec.marked
      /\ UNCHANGED <<req, kinds, rec, voters>>
  BY DEF IInv, Types, GateInv, resumeManagedEndpoint
<1>2. CASE /\ h' = IF local.paused THEN Advertise(h) ELSE h
           /\ pc' = "ungate" /\ local' = [local EXCEPT !.paused = FALSE] /\ UNCHANGED faults
  <2>1. h' = IF local.paused THEN [h EXCEPT !.endpoint = "advertised"] ELSE h
    BY <1>2 DEF Advertise
  <2>2. h' \in Hosts /\ local' \in Locals
    BY <1>1, <1>2, <2>1 DEF Hosts, Locals
  <2>3. Types'
    BY <1>1, <1>2, <2>1, <2>2 DEF IInv, Types, ControlPlane
  <2>4. GateInv'
    BY <1>1, <1>2, <2>1, <2>2 DEF IInv, GateInv, Ran, Types, Hosts, Locals, Requests
  <2>5. AddressInv'
    BY <1>1, <1>2, <2>1, <2>2 DEF IInv, AddressInv, ControlPlane, Types, Hosts, Locals, Requests
  <2>6. SwitchInv'
    BY <1>1, <1>2, <2>1, <2>2 DEF IInv, SwitchInv, ControlPlane, Types, Hosts, Locals, Requests
  <2>7. RepairInv'
    BY <1>1, <1>2, <2>1, <2>2 DEF IInv, RepairInv, ControlPlane, Types, Hosts, Locals, Requests
  <2>8. RestoreInv'
    BY <1>1, <1>2, <2>1, <2>2 DEF IInv, RestoreInv, UndoHeld, RepairInv, GateInv, Types, Hosts, Locals, Requests
  <2> QED
    BY <2>3, <2>4, <2>5, <2>6, <2>7, <2>8 DEF IInv
<1>3. CASE local.paused /\ Fault("tool") /\ h' \in {h, Advertise(h)} /\ Fail(TRUE)
  <2>2. CASE h' = h
    BY <1>1, <1>3, <2>2, FailUntouchedKeeps
  <2>3. CASE h' = [h EXCEPT !.endpoint = "advertised"]
    <3>0. h.sysext # "none"
      BY <1>1 DEF IInv, GateInv, RepairInv
    <3>1. /\ h' \in Hosts /\ h'.endpoint = "advertised" /\ h'.sysext # "none"
          /\ h'.kubelet = "target" => h'.kubeadmRan \/ req.role = "external"
          /\ h'.sysext = "target" \/ h'.cand = "committed" =>
               (h'.kubeadmRan \/ req.role = "external") /\ rec.marked
      BY <1>1, <2>3, <3>0 DEF IInv, GateInv, Ran, Hosts
    <3>2. h'.tools
      BY <1>1, <2>3 DEF IInv, RepairInv, Hosts
    <3> QED
      BY <1>1, <1>3, <3>1, <3>2, FailKeeps
  <2> QED
    BY <1>3, <2>2, <2>3 DEF Advertise
<1> QED
  BY <1>2, <1>3 DEF resumeManagedEndpoint

-----------------------------------------------------------------------------
(* Failure and return                                                         *)

(* What a restoration leaves, whether its commands succeed or not.            *)
SameElsewhere(x) ==
  /\ x.cand = h.cand /\ x.endpoint = h.endpoint /\ x.tools = h.tools /\ x.kubeadmRan = h.kubeadmRan

LEMMA StartedIs ==
  ASSUME NEW y \in Hosts, NEW x, x = [y EXCEPT !.kubelet = "source"]
  PROVE  /\ x \in Hosts /\ x.kubelet = "source" /\ x.sysext = y.sysext /\ x.gate = y.gate
         /\ x.cand = y.cand /\ x.endpoint = y.endpoint /\ x.tools = y.tools /\ x.kubeadmRan = y.kubeadmRan
  BY DEF Hosts

LEMMA RestoreSucceeds ==
  ASSUME IInv, NEW x, x = restoreSourceKubernetesAfterFailure(h)
  PROVE  /\ x \in Hosts /\ SameElsewhere(x) /\ x.sysext = "source" /\ x.gate = FALSE
         /\ x.kubelet \in {h.kubelet, "source"}
         /\ rec.act # "activating" => x.kubelet = h.kubelet
<1>0. PICK y : y = [h EXCEPT !.sysext = "source", !.gate = FALSE, !.token = IF rec.gateUnit THEN FALSE ELSE @]
  OBVIOUS
<1>1. h \in Hosts /\ rec \in Records
  BY DEF IInv, Types
<1>2. /\ y \in Hosts /\ SameElsewhere(y) /\ y.kubelet = h.kubelet /\ y.sysext = "source" /\ y.gate = FALSE
  BY <1>0, <1>1 DEF Hosts, Records, SameElsewhere
<1>3. CASE rec.act # "activating"
  <2>1. x = y
    BY <1>0, <1>3 DEF restoreSourceKubernetesAfterFailure
  <2> QED
    BY <1>2, <2>1
<1>4. CASE rec.act = "activating"
  <2>0. x = StartKubelet(y)
    BY <1>0, <1>4 DEF restoreSourceKubernetesAfterFailure
  <2>3. Startable(y)
    BY <1>2 DEF Startable
  <2>1. x = [y EXCEPT !.kubelet = "source"]
    BY <1>2, <2>0, <2>3 DEF StartKubelet
  <2>2. /\ x \in Hosts /\ x.kubelet = "source" /\ x.sysext = y.sysext /\ x.gate = y.gate
        /\ x.cand = y.cand /\ x.endpoint = y.endpoint /\ x.tools = y.tools /\ x.kubeadmRan = y.kubeadmRan
    BY <1>2, <2>1, StartedIs
  <2> QED
    BY <1>2, <1>4, <2>2 DEF SameElsewhere
<1> QED
  BY <1>3, <1>4

(* What abandoning the candidate changes.                                     *)
LEMMA AbandonIs ==
  ASSUME NEW z \in Hosts, NEW drop \in BOOLEAN, NEW x, x = abandonCandidateGeneration(z, drop)
  PROVE  /\ x \in Hosts /\ x.endpoint = z.endpoint /\ x.tools = z.tools /\ x.kubeadmRan = z.kubeadmRan
         /\ x.kubelet = z.kubelet /\ x.sysext = z.sysext /\ x.gate = z.gate
         /\ x.cand \in {z.cand, "abandoned"} /\ (drop /\ ~Mutated => x.cand # "candidate")
<1>1. PICK c : c = IF drop /\ ~Mutated /\ z.cand = "candidate" THEN "abandoned" ELSE z.cand
  OBVIOUS
<1>2. c \in {z.cand, "abandoned"} /\ (drop /\ ~Mutated => c # "candidate")
  BY <1>1
<1>3. x = [z EXCEPT !.cand = c]
  BY <1>1 DEF abandonCandidateGeneration
<1> QED
  BY <1>2, <1>3 DEF Hosts

(* What failKubeadmUpgrade leaves on the host.                                *)
LEMMA UndoIs ==
  ASSUME IInv, pc = "fail", NEW back \in BOOLEAN, NEW drop \in BOOLEAN, Undo(back, drop)
  PROVE  /\ h' \in Hosts /\ h'.endpoint = h.endpoint /\ h'.tools = h.tools /\ h'.kubeadmRan = h.kubeadmRan
         /\ h'.kubelet \in {h.kubelet, "down", "source", h.sysext} /\ (~rec.marked => h'.kubelet = h.kubelet)
         /\ h'.sysext \in {h.sysext, "source", "none"} /\ (h'.sysext = "none" => ~back)
         /\ RestoresSource /\ back => h'.sysext = "source" /\ ~h'.gate
         /\ ~RestoresSource => h'.sysext = h.sysext
         /\ h'.cand \in {h.cand, "abandoned"} /\ (drop /\ ~Mutated => h'.cand # "candidate")
<1>1. h \in Hosts /\ h.sysext # "none"
  BY DEF IInv, Types, GateInv, RepairInv
<1>2. ~rec.marked => rec.act # "activating"
  BY DEF IInv, GateInv
<1>3. CASE ~RestoresSource
  <2>1. PICK x : x = h' /\ x = abandonCandidateGeneration(h, drop)
    BY <1>3 DEF Undo
  <2> QED
    BY <1>1, <1>3, <2>1, AbandonIs
<1>4. CASE RestoresSource /\ back
  <2>1. PICK x : x = h' /\ x = abandonCandidateGeneration(restoreSourceKubernetesAfterFailure(h), drop)
    BY <1>4 DEF Undo
  <2>2. PICK z : z = restoreSourceKubernetesAfterFailure(h)
    OBVIOUS
  <2>3. /\ z \in Hosts /\ SameElsewhere(z) /\ z.sysext = "source" /\ z.gate = FALSE
        /\ z.kubelet \in {h.kubelet, "source"} /\ (rec.act # "activating" => z.kubelet = h.kubelet)
    BY <2>2, RestoreSucceeds
  <2>4. /\ x \in Hosts /\ x.endpoint = z.endpoint /\ x.tools = z.tools /\ x.kubeadmRan = z.kubeadmRan
        /\ x.kubelet = z.kubelet /\ x.sysext = z.sysext /\ x.gate = z.gate
        /\ x.cand \in {z.cand, "abandoned"} /\ (drop /\ ~Mutated => x.cand # "candidate")
    <3>1. x = abandonCandidateGeneration(z, drop)
      BY <2>1, <2>2, Zenon
    <3> QED
      BY <2>3, <3>1, AbandonIs
  <2> QED
    BY <1>2, <1>4, <2>1, <2>3, <2>4 DEF SameElsewhere
<1>5. CASE RestoresSource /\ ~back
  <2>1. PICK s \in {h.sysext, "source", "none"}, g \in {h.gate, FALSE}, t \in {h.token, FALSE},
             k \in IF rec.act = "activating" THEN {h.kubelet, "down", "source", h.sysext} ELSE {h.kubelet} :
               h' = abandonCandidateGeneration(RestoreFails(s, g, t, k), drop)
    BY <1>5, Zenon DEF Undo
  <2>2. PICK z : z = RestoreFails(s, g, t, k)
    OBVIOUS
  <2>3. /\ z \in Hosts /\ SameElsewhere(z) /\ z.sysext \in {h.sysext, "source", "none"}
        /\ z.kubelet \in {h.kubelet, "down", "source", h.sysext}
        /\ rec.act # "activating" => z.kubelet = h.kubelet
    <3>2. z = [h EXCEPT !.sysext = s, !.gate = g, !.token = t, !.kubelet = k]
      BY <2>2 DEF RestoreFails
    <3>3. k \in {h.kubelet, "down", "source", h.sysext} /\ (rec.act # "activating" => k = h.kubelet)
      BY Zenon
    <3>4. s \in {"source", "target", "none"} /\ g \in BOOLEAN /\ t \in BOOLEAN /\ k \in {"source", "target", "down"}
      BY <1>1, <3>3 DEF Hosts
    <3>5. z \in Hosts /\ z.sysext = s /\ z.kubelet = k /\ SameElsewhere(z)
      BY <1>1, <3>2, <3>4 DEF Hosts, SameElsewhere
    <3> QED
      BY <3>3, <3>5
  <2>4. PICK x : x = h' /\ x = abandonCandidateGeneration(z, drop)
    BY <2>1, <2>2, Zenon
  <2>5. /\ x \in Hosts /\ x.endpoint = z.endpoint /\ x.tools = z.tools /\ x.kubeadmRan = z.kubeadmRan
        /\ x.kubelet = z.kubelet /\ x.sysext = z.sysext /\ x.gate = z.gate
        /\ x.cand \in {z.cand, "abandoned"} /\ (drop /\ ~Mutated => x.cand # "candidate")
    BY <2>3, <2>4, AbandonIs
  <2> QED
    BY <1>2, <1>5, <2>3, <2>4, <2>5 DEF SameElsewhere
<1> QED
  BY <1>3, <1>4, <1>5

(* A failure commits nothing and takes nothing from a node it does not        *)
(* restore.                                                                   *)
LEMMA FailureEffect ==
  ASSUME IInv, failKubeadmUpgrade
  PROVE  h'.cand \in {h.cand, "abandoned"} /\ (~RestoresSource => h'.sysext = h.sysext)
<1>2. pc = "fail"
  BY DEF failKubeadmUpgrade
<1>3. h' = h \/ \E back, drop \in BOOLEAN : Undo(back, drop)
  BY Zenon DEF failKubeadmUpgrade
<1> QED
  BY <1>2, <1>3, UndoIs

(* What the record says afterwards.                                           *)
LEMMA FailedRecordIs ==
  ASSUME IInv
  PROVE  \A m, back, drop \in BOOLEAN : \A r :
           r = FailedRecord(rec, m, back, drop) =>
             /\ r \in Records /\ r.marked = rec.marked /\ r.terminal
             /\ r.result = (IF m \/ ~drop THEN "failed-needs-repair" ELSE "failed")
             /\ m => (r.rollback <=> ~ControlPlane)
             /\ r.unrestored <=> ~back
<1> SUFFICES ASSUME NEW m \in BOOLEAN, NEW back \in BOOLEAN, NEW drop \in BOOLEAN, NEW r,
                    r = FailedRecord(rec, m, back, drop)
             PROVE  /\ r \in Records /\ r.marked = rec.marked /\ r.terminal
                    /\ r.result = (IF m \/ ~drop THEN "failed-needs-repair" ELSE "failed")
                    /\ m => (r.rollback <=> ~ControlPlane)
                    /\ r.unrestored <=> ~back
  BY Zenon
<1>1. rec \in Records
  BY DEF IInv, Types
<1> QED
  BY <1>1 DEF FailedRecord, Records

LEMMA failKubeadmUpgradeKeeps == ASSUME IInv, failKubeadmUpgrade PROVE IInv'
<1> USE DEF Steps, Running, Prepared, Committing, Draining, KubeadmDone, Activating, Switched
<1>1. /\ pc = "fail" /\ pc' = "return" /\ UNCHANGED <<req, kinds, local, voters>>
      /\ rec \in Records /\ Mutated = rec.marked /\ ~local.spoilt /\ ~rec.unrestored /\ rec.result = ""
      /\ h \in Hosts /\ h.sysext # "none"
  BY DEF IInv, Types, GateInv, RepairInv, Mutated, Records, Locals, failKubeadmUpgrade
<1>2. RestoresSource <=> (~rec.marked \/ ~ControlPlane)
  BY <1>1 DEF RestoresSource
(* The host and the record after any of the three outcomes. *)
<1>3. rec.marked \in BOOLEAN
  BY <1>1 DEF Records
<1>5. PICK back \in BOOLEAN, drop \in BOOLEAN, m \in BOOLEAN :
        \/ /\ faults' = faults \/ Fault("tool")
           /\ Undo(back, drop) /\ rec' = FailedRecord(rec, m, back, drop) /\ m = rec.marked
        \/ Fault("store") /\ back = TRUE /\ drop = TRUE /\ Undo(back, drop) /\ rec' = rec
        \/ Fault("store") /\ h' = h /\ back = TRUE /\ drop = TRUE /\ m = TRUE /\ rec' = FailedRecord(rec, m, back, drop)
  <2>1. CASE \E back \in IF RestoresSource THEN BOOLEAN ELSE {TRUE},
                drop \in IF ~Mutated /\ h.cand = "candidate" THEN BOOLEAN ELSE {TRUE} :
               /\ IF back /\ drop THEN UNCHANGED faults ELSE Fault("tool")
               /\ Undo(back, drop)
               /\ rec' = FailedRecord(rec, Mutated, back, drop)
    <3>1. PICK back \in BOOLEAN, drop \in BOOLEAN :
               /\ IF back /\ drop THEN UNCHANGED faults ELSE Fault("tool")
               /\ Undo(back, drop)
               /\ rec' = FailedRecord(rec, Mutated, back, drop)
      BY <2>1, Zenon
    <3>2. (faults' = faults \/ Fault("tool")) /\ Undo(back, drop) /\ rec' = FailedRecord(rec, rec.marked, back, drop)
      BY <1>1, <3>1, Zenon
    <3> QED
      BY <1>3, <3>2, Zenon
  <2>2. CASE Fault("store") /\ Undo(TRUE, TRUE) /\ UNCHANGED rec
    BY <2>2, Zenon
  <2>3. CASE Fault("store") /\ UNCHANGED h /\ rec' = FailedRecord(rec, TRUE, TRUE, TRUE)
    BY <2>3, Zenon
  <2> QED
    BY <2>1, <2>2, <2>3, Zenon DEF failKubeadmUpgrade
<1>6. /\ h' \in Hosts /\ h'.endpoint = h.endpoint /\ h'.tools = h.tools /\ h'.kubeadmRan = h.kubeadmRan
      /\ h'.kubelet \in {h.kubelet, "down", "source", h.sysext} /\ (~rec.marked => h'.kubelet = h.kubelet)
      /\ h'.sysext \in {h.sysext, "source", "none"} /\ (h'.sysext = "none" => ~back)
      /\ RestoresSource /\ back /\ "store" \notin kinds => h'.sysext = "source" /\ ~h'.gate
      /\ ~RestoresSource => h'.sysext = h.sysext
      /\ h'.cand \in {h.cand, "abandoned"}
      /\ drop /\ ~rec.marked /\ "store" \notin kinds => h'.cand # "candidate"
  <2>1. CASE Undo(back, drop)
    <3>1. /\ h' \in Hosts /\ h'.endpoint = h.endpoint /\ h'.tools = h.tools /\ h'.kubeadmRan = h.kubeadmRan
          /\ h'.kubelet \in {h.kubelet, "down", "source", h.sysext} /\ (~rec.marked => h'.kubelet = h.kubelet)
          /\ h'.sysext \in {h.sysext, "source", "none"} /\ (h'.sysext = "none" => ~back)
          /\ RestoresSource /\ back => h'.sysext = "source" /\ ~h'.gate
          /\ ~RestoresSource => h'.sysext = h.sysext
          /\ h'.cand \in {h.cand, "abandoned"} /\ (drop /\ ~Mutated => h'.cand # "candidate")
      BY <1>1, <2>1, UndoIs
    <3> QED
      BY <1>1, <3>1
  <2>2. CASE Fault("store") /\ h' = h
    BY <1>1, <2>2 DEF Fault
  <2> QED
    BY <1>5, <2>1, <2>2
<1>7. /\ rec' \in Records /\ rec'.marked = rec.marked
      /\ ~rec'.unrestored => back /\ h'.sysext # "none"
      /\ rec'.result = "failed" => drop
      /\ "store" \notin kinds => rec'.terminal
      /\ rec'.result = "failed-needs-repair" /\ rec'.marked => (rec'.rollback <=> ~ControlPlane)
      /\ rec'.result \in {"", "failed", "failed-needs-repair"}
  <2>1. CASE rec' = FailedRecord(rec, m, back, drop) /\ (rec.marked => m)
    <3>0. PICK r : r = rec'
      OBVIOUS
    <3>1. /\ r \in Records /\ r.marked = rec.marked /\ r.terminal
          /\ r.result = (IF m \/ ~drop THEN "failed-needs-repair" ELSE "failed")
          /\ m => (r.rollback <=> ~ControlPlane)
          /\ r.unrestored <=> ~back
      <4> HIDE DEF Steps, Running, Prepared, Committing, Draining, KubeadmDone, Activating, Switched
      <4>1. r = FailedRecord(rec, m, back, drop)
        BY <2>1, <3>0
      <4> QED
        BY <4>1, FailedRecordIs, Zenon
    <3> QED
      BY <1>1, <1>6, <2>1, <3>0, <3>1
  <2>2. CASE Fault("store") /\ rec' = rec /\ back = TRUE
    BY <1>1, <1>6, <2>2 DEF Fault
  <2> QED
    BY <1>5, <2>1, <2>2
<1>8. faults' \in 0..MaxFaults
  BY <1>5, UpgradeAssumption DEF IInv, Types, Fault
<1>9. Types'
  BY <1>1, <1>6, <1>7, <1>8 DEF IInv, Types, ControlPlane
<1>10. GateInv'
  <2>1. /\ h.kubelet = "target" => Ran
        /\ h.sysext = "target" \/ h.cand = "committed" => Ran /\ rec.marked
        /\ local.post => rec.marked
    BY DEF IInv, GateInv
  <2>2. Ran' = Ran
    BY <1>1, <1>6 DEF Ran
  <2>3. (h'.kubelet = "target" => Ran) /\ (h'.sysext = "target" \/ h'.cand = "committed" => Ran /\ rec'.marked)
    BY <1>6, <1>7, <2>1
  <2>4. h'.sysext = "none" => rec'.unrestored
    BY <1>7
  <2> QED
    BY <1>1, <1>7, <2>1, <2>2, <2>3, <2>4 DEF GateInv
<1>11. AddressInv' /\ SwitchInv'
  BY <1>1, <1>6 DEF IInv, AddressInv, SwitchInv, ControlPlane
<1>12. RepairInv'
  <2>1. (rec.marked => local.retain /\ h.tools) /\ ControlPlane' = ControlPlane
    BY <1>1 DEF IInv, RepairInv, ControlPlane
  <2>2. rec'.marked => local'.retain /\ h'.tools
    BY <1>1, <1>6, <1>7, <2>1
  <2>3. rec'.result = "failed-needs-repair" /\ rec'.marked =>
          IF ControlPlane THEN ~rec'.rollback
          ELSE rec'.rollback /\ ("store" \notin kinds /\ ~rec'.unrestored => h'.sysext = "source" /\ ~h'.gate)
    BY <1>1, <1>2, <1>6, <1>7
  <2> QED
    BY <1>1, <2>1, <2>2, <2>3 DEF RepairInv
<1>13. RestoreInv'
  <2> SUFFICES ASSUME UndoHeld'
               PROVE  /\ ~rec'.marked => h'.kubelet = "source"
                      /\ rec'.terminal
                      /\ ~rec'.marked => ~h'.gate /\ (rec'.result = "failed" => h'.cand # "candidate")
    BY <1>1 DEF RestoreInv
  <2>1. UndoHeld /\ "store" \notin kinds /\ ~rec'.unrestored
    BY <1>1 DEF UndoHeld, IInv, RepairInv
  <2>2. ~rec.marked => h.kubelet = "source"
    BY <2>1 DEF IInv, RestoreInv
  <2> QED
    BY <1>1, <1>2, <1>6, <1>7, <2>1, <2>2
<1> QED
  BY <1>9, <1>10, <1>11, <1>12, <1>13 DEF IInv

(* What the deferred calls leave on the host.                                 *)
LEMMA DeferredIs ==
  ASSUME IInv, NEW u \in BOOLEAN, NEW v \in BOOLEAN, NEW d, d = Deferred(u, v)
  PROVE  /\ d \in Hosts /\ d.handoff = FALSE
         /\ d.sysext = h.sysext /\ d.gate = h.gate /\ d.token = h.token /\ d.cand = h.cand
         /\ d.kubeadmRan = h.kubeadmRan /\ d.endpoint \in {h.endpoint, "advertised"}
         /\ d.kubelet \in {h.kubelet, "down", h.sysext}
         /\ ~h.gate /\ h.sysext # "none" => d.kubelet \in {h.kubelet, h.sysext}
         /\ d.tools = (h.tools /\ local.retain /\ rec.result # "succeeded")
<1>1. h \in Hosts /\ local \in Locals /\ rec \in Records
  BY DEF IInv, Types
<1> PICK x : x = [h EXCEPT !.handoff = FALSE]
  OBVIOUS
<1>2. /\ x \in Hosts /\ x.handoff = FALSE /\ x.kubelet = h.kubelet /\ x.sysext = h.sysext /\ x.gate = h.gate
      /\ x.token = h.token /\ x.cand = h.cand /\ x.endpoint = h.endpoint /\ x.kubeadmRan = h.kubeadmRan
      /\ x.tools = h.tools
  BY <1>1 DEF Hosts
<1> PICK y : y = restoreKubeletAPIHandoff(h, u)
  OBVIOUS
<1>3. /\ y \in Hosts /\ y.handoff = FALSE /\ y.sysext = h.sysext /\ y.gate = h.gate /\ y.cand = h.cand /\ y.token = h.token
      /\ y.endpoint = h.endpoint /\ y.kubeadmRan = h.kubeadmRan /\ y.tools = h.tools
      /\ y.kubelet \in {h.kubelet, "down", h.sysext}
      /\ ~h.gate /\ h.sysext # "none" => y.kubelet \in {h.kubelet, h.sysext}
  <2>1. CASE h.handoff /\ (~rec.marked \/ u)
    <3>1. y = [x EXCEPT !.kubelet = IF Startable(x) THEN x.sysext ELSE "down"]
      BY <2>1 DEF restoreKubeletAPIHandoff, StartKubelet
    <3>2. PICK k : k = IF Startable(x) THEN x.sysext ELSE "down"
      OBVIOUS
    <3>3. k \in {"source", "target", "down"} /\ k \in {"down", h.sysext} /\ (~h.gate /\ h.sysext # "none" => k = h.sysext)
      BY <1>1, <1>2, <3>2 DEF Startable, Hosts
    <3>4. y = [x EXCEPT !.kubelet = k]
      BY <3>1, <3>2
    <3> QED
      BY <1>2, <3>3, <3>4 DEF Hosts
  <2>2. CASE ~(h.handoff /\ (~rec.marked \/ u))
    <3>1. y = x
      BY <2>2 DEF restoreKubeletAPIHandoff
    <3> QED
      BY <1>2, <3>1
  <2> QED
    BY <2>1, <2>2
<1> PICK z : z = resumeOnReturn(y, v)
  OBVIOUS
<1>4. /\ z \in Hosts /\ z.handoff = y.handoff /\ z.sysext = y.sysext /\ z.gate = y.gate /\ z.cand = y.cand /\ z.token = y.token
      /\ z.endpoint \in {y.endpoint, "advertised"} /\ z.kubeadmRan = y.kubeadmRan /\ z.tools = y.tools
      /\ z.kubelet = y.kubelet
  BY <1>3 DEF resumeOnReturn, Advertise, Hosts
<1>5. d = [z EXCEPT !.tools = @ /\ local.retain /\ rec.result # "succeeded"]
  BY DEF Deferred, unmountTools
<1>6. /\ d \in Hosts /\ d.handoff = z.handoff /\ d.sysext = z.sysext /\ d.gate = z.gate /\ d.cand = z.cand /\ d.token = z.token
      /\ d.endpoint = z.endpoint /\ d.kubeadmRan = z.kubeadmRan /\ d.kubelet = z.kubelet
      /\ d.tools = (z.tools /\ local.retain /\ rec.result # "succeeded")
  BY <1>4, <1>5, ZenonT(30) DEF Hosts
<1> QED
  BY <1>3, <1>4, <1>6

LEMMA DeferredFailsIs ==
  ASSUME IInv, DeferredFails
  PROVE  /\ h' \in Hosts
         /\ h'.sysext = h.sysext /\ h'.gate = h.gate /\ h'.cand = h.cand
         /\ h'.kubeadmRan = h.kubeadmRan /\ h'.endpoint \in {h.endpoint, "advertised"}
         /\ h'.kubelet \in {h.kubelet, "down", h.sysext}
         /\ h.tools /\ local.retain /\ rec.result # "succeeded" => h'.tools
<1>1. h \in Hosts /\ local \in Locals /\ rec \in Records
  BY DEF IInv, Types
<1> PICK d : d = Deferred(FALSE, FALSE)
  OBVIOUS
<1>2. /\ d \in Hosts /\ d.handoff = FALSE
      /\ d.sysext = h.sysext /\ d.gate = h.gate /\ d.cand = h.cand
      /\ d.kubeadmRan = h.kubeadmRan /\ d.endpoint \in {h.endpoint, "advertised"}
      /\ d.kubelet \in {h.kubelet, "down", h.sysext}
      /\ d.tools = (h.tools /\ local.retain /\ rec.result # "succeeded")
  BY DeferredIs
<1>3. PICK a \in {h.handoff, FALSE}, e \in {h.endpoint, d.endpoint}, t \in {h.tools, d.tools},
           k \in IF h.handoff /\ ~rec.marked THEN {h.kubelet, "down", StartKubelet(h).kubelet} ELSE {h.kubelet} :
        h' = [h EXCEPT !.handoff = a, !.kubelet = k, !.endpoint = e, !.tools = t]
  BY Zenon DEF DeferredFails
<1>4. StartKubelet(h).kubelet \in {"down", h.sysext} /\ StartKubelet(h).kubelet # "none"
  <2>1. CASE Startable(h)
    BY <1>1, <2>1 DEF StartKubelet, Startable, Hosts
  <2>2. CASE ~Startable(h)
    BY <1>1, <2>2 DEF StartKubelet, Hosts
  <2> QED
    BY <2>1, <2>2
<1>5. k \in {h.kubelet, "down", h.sysext} /\ k \in {"source", "target", "down"}
  <2>1. h.kubelet \in {"source", "target", "down"} /\ h.sysext \in {"source", "target", "none"}
    BY <1>1, <1>2 DEF Hosts
  <2>2. k \in {h.kubelet, "down", StartKubelet(h).kubelet}
    BY <1>3, Zenon
  <2> QED
    BY <1>2, <1>4, <2>1, <2>2
<1>6. /\ h' \in Hosts /\ h'.sysext = h.sysext /\ h'.gate = h.gate /\ h'.cand = h.cand /\ h'.kubeadmRan = h.kubeadmRan
      /\ h'.endpoint = e /\ h'.kubelet = k /\ h'.tools = t
  <2>1. a \in BOOLEAN /\ e \in {"advertised", "withdrawn"} /\ t \in BOOLEAN
    BY <1>1, <1>2, <1>3 DEF Hosts
  <2> QED
    BY <1>1, <1>3, <1>5, <2>1 DEF Hosts
<1> QED
  BY <1>2, <1>3, <1>5, <1>6

(* The host, the record and the flags after any of the returns.               *)
LEMMA ReturnEffect ==
  ASSUME IInv, Return
  PROVE  /\ h' \in Hosts
         /\ h'.sysext = h.sysext /\ h'.gate = h.gate /\ h'.cand = h.cand
         /\ h'.kubeadmRan = h.kubeadmRan /\ h'.endpoint \in {h.endpoint, "advertised"}
         /\ h'.kubelet \in {h.kubelet, "down", h.sysext}
         /\ h.tools /\ local.retain /\ rec.result # "succeeded" => h'.tools
         /\ local' \in Locals /\ local'.post = local.post /\ local'.retain = local.retain
         /\ "store" \notin kinds /\ ~local'.spoilt =>
              ~h'.handoff /\ (~h.gate /\ h.sysext # "none" => h'.kubelet \in {h.kubelet, h.sysext})
         /\ rec' \in Records /\ rec'.marked = rec.marked /\ rec'.act = rec.act /\ rec'.unrestored = rec.unrestored
         /\ rec.terminal => rec' = rec
         /\ faults' \in 0..MaxFaults
<1>0. rec \in Records /\ local \in Locals /\ faults \in 0..MaxFaults
  BY DEF IInv, Types
<1>1. /\ ClosedRecord(rec) \in Records /\ ClosedRecord(rec).marked = rec.marked
      /\ ClosedRecord(rec).act = rec.act /\ ClosedRecord(rec).unrestored = rec.unrestored
  BY <1>0 DEF ClosedRecord, Records
<1>2. /\ rec' \in Records /\ rec'.marked = rec.marked /\ rec'.act = rec.act /\ rec'.unrestored = rec.unrestored
      /\ rec.terminal => rec' = rec
  <2>1. rec' = rec \/ (~rec.terminal /\ rec' = ClosedRecord(rec))
    BY Zenon DEF Return
  <2> QED
    BY <1>0, <1>1, <2>1
<1>3. PICK x : x = h'
  OBVIOUS
<1>4. CASE h' = Deferred(FALSE, FALSE) /\ UNCHANGED <<local, faults>>
  <2>1. x = Deferred(FALSE, FALSE)
    BY <1>3, <1>4
  <2>2. /\ x \in Hosts /\ x.handoff = FALSE
        /\ x.sysext = h.sysext /\ x.gate = h.gate /\ x.cand = h.cand
        /\ x.kubeadmRan = h.kubeadmRan /\ x.endpoint \in {h.endpoint, "advertised"}
        /\ x.kubelet \in {h.kubelet, "down", h.sysext}
        /\ ~h.gate /\ h.sysext # "none" => x.kubelet \in {h.kubelet, h.sysext}
        /\ x.tools = (h.tools /\ local.retain /\ rec.result # "succeeded")
    BY <2>1, DeferredIs
  <2> QED
    BY <1>0, <1>2, <1>3, <1>4, <2>2
<1>5. CASE Fault("tool") /\ DeferredFails /\ local' = [local EXCEPT !.spoilt = TRUE]
  <2>2. /\ h' \in Hosts
        /\ h'.sysext = h.sysext /\ h'.gate = h.gate /\ h'.cand = h.cand
        /\ h'.kubeadmRan = h.kubeadmRan /\ h'.endpoint \in {h.endpoint, "advertised"}
        /\ h'.kubelet \in {h.kubelet, "down", h.sysext}
        /\ h.tools /\ local.retain /\ rec.result # "succeeded" => h'.tools
    BY <1>5, DeferredFailsIs
  <2>3. local' \in Locals /\ local'.post = local.post /\ local'.retain = local.retain /\ local'.spoilt = TRUE
    BY <1>0, <1>5 DEF Locals
  <2>4. faults' \in 0..MaxFaults
    BY <1>0, <1>5, UpgradeAssumption DEF Fault
  <2> QED
    BY <1>2, <2>2, <2>3, <2>4
<1>6. CASE Fault("store") /\ (\E u, v \in BOOLEAN : h' = Deferred(u, v)) /\ UNCHANGED local
  <2>1. PICK u \in BOOLEAN, v \in BOOLEAN : x = Deferred(u, v)
    BY <1>3, <1>6
  <2>2. /\ x \in Hosts /\ x.handoff = FALSE
        /\ x.sysext = h.sysext /\ x.gate = h.gate /\ x.cand = h.cand
        /\ x.kubeadmRan = h.kubeadmRan /\ x.endpoint \in {h.endpoint, "advertised"}
        /\ x.kubelet \in {h.kubelet, "down", h.sysext}
        /\ x.tools = (h.tools /\ local.retain /\ rec.result # "succeeded")
    BY <2>1, DeferredIs
  <2>3. "store" \in kinds /\ faults' \in 0..MaxFaults
    BY <1>0, <1>6, UpgradeAssumption DEF Fault
  <2> QED
    BY <1>0, <1>2, <1>3, <1>6, <2>2, <2>3
<1> QED
  BY <1>4, <1>5, <1>6, Zenon DEF Return

LEMMA ReturnKeeps == ASSUME IInv, Return PROVE IInv'
<1> USE DEF Steps, Running, Prepared, Committing, Draining, KubeadmDone, Activating, Switched
<1>1. pc = "return" /\ pc' = "done" /\ UNCHANGED <<req, kinds, voters>>
  BY DEF Return
<1>3. Types'
  BY <1>1, ReturnEffect DEF IInv, Types, ControlPlane
<1>4. GateInv'
  <2>1. /\ h.kubelet = "target" => Ran
        /\ h.sysext = "target" \/ h.cand = "committed" => Ran /\ rec.marked
        /\ local.post => rec.marked
        /\ h.sysext = "none" => rec.unrestored
    BY DEF IInv, GateInv
  <2>2. Ran' = Ran
    BY <1>1, ReturnEffect DEF Ran
  <2> QED
    BY <1>1, <2>1, <2>2, ReturnEffect DEF GateInv
<1>5. AddressInv' /\ SwitchInv'
  BY <1>1, ReturnEffect DEF IInv, AddressInv, SwitchInv, ControlPlane
<1>6. RepairInv'
  BY <1>1 DEF RepairInv
<1>7. RestoreInv'
  <2> SUFFICES ASSUME UndoHeld', ~rec'.marked
               PROVE  h'.kubelet = "source" /\ (rec'.result = "failed" =>
                        ~h'.gate /\ ~h'.handoff /\ h'.cand # "candidate")
    BY <1>1 DEF RestoreInv
  <2>1. "store" \notin kinds /\ ~local'.spoilt /\ ~rec.unrestored /\ ~rec.marked
    BY <1>1, ReturnEffect DEF UndoHeld
  <2>2. UndoHeld
    BY <1>1, <2>1 DEF UndoHeld, IInv, RepairInv
  <2>3. rec.terminal /\ h.kubelet = "source" /\ ~h.gate /\ (rec.result = "failed" => h.cand # "candidate")
    BY <1>1, <2>1, <2>2 DEF IInv, RestoreInv
  <2>4. h.sysext = "source"
    <3>1. h \in Hosts /\ (h.sysext = "target" => rec.marked) /\ (h.sysext = "none" => rec.unrestored)
      BY DEF IInv, Types, GateInv
    <3> QED
      BY <2>1, <3>1 DEF Hosts
  <2> QED
    BY <2>1, <2>3, <2>4, ReturnEffect
<1> QED
  BY <1>3, <1>4, <1>5, <1>6, <1>7 DEF IInv

-----------------------------------------------------------------------------
(* The environment                                                            *)

LEMMA VotersChangeKeeps == ASSUME IInv, VotersChange PROVE IInv'
<1>1. UNCHANGED <<req, kinds, pc, local, rec, h>>
  BY DEF VotersChange
<1>2. faults' \in 0..MaxFaults
  BY UpgradeAssumption DEF IInv, Types, VotersChange, Fault
<1>2a. voters' \in BOOLEAN
  BY Zenon DEF VotersChange
<1>3. Types'
  BY <1>1, <1>2, <1>2a DEF IInv, Types, ControlPlane
<1>4. GateInv' /\ RestoreInv'
  BY <1>1 DEF IInv, GateInv, Ran, RestoreInv, UndoHeld, RepairInv
<1>5. AddressInv' /\ SwitchInv' /\ RepairInv'
  BY <1>1, ZenonT(30) DEF IInv, AddressInv, SwitchInv, RepairInv, ControlPlane
<1> QED
  BY <1>3, <1>4, <1>5 DEF IInv

LEMMA KubeletCrashKeeps == ASSUME IInv, KubeletCrash PROVE IInv'
<1>1. UNCHANGED <<req, kinds, pc, local, rec, voters>> /\ h \in Hosts /\ "kubelet" \in kinds
  BY DEF KubeletCrash, Fault, IInv, Types
<1>2. faults' \in 0..MaxFaults
  BY UpgradeAssumption DEF IInv, Types, KubeletCrash, Fault
<1>3. PICK k \in {"down", h.sysext} : h' = [h EXCEPT !.kubelet = k] /\ k # "none"
  <2>1. h' = [h EXCEPT !.kubelet = IF Startable(h) THEN h.sysext ELSE "down"]
    BY DEF KubeletCrash, StartKubelet
  <2> QED
    BY <2>1, Zenon DEF Startable
<1>4. Types'
  BY <1>1, <1>2, <1>3 DEF IInv, Types, ControlPlane, Hosts
<1>5. GateInv'
  BY <1>1, <1>3 DEF IInv, GateInv, Ran, Hosts
<1>6. AddressInv'
  BY <1>1, <1>3 DEF IInv, AddressInv, ControlPlane, Hosts
<1>7. SwitchInv'
  BY <1>1, <1>3 DEF IInv, SwitchInv, ControlPlane, Hosts
<1>8. RepairInv'
  BY <1>1, <1>3 DEF IInv, RepairInv, ControlPlane, Hosts
<1>9. RestoreInv'
  BY <1>1 DEF RestoreInv, UndoHeld, RepairInv
<1> QED
  BY <1>4, <1>5, <1>6, <1>7, <1>8, <1>9 DEF IInv

LEMMA AgentCrashKeeps == ASSUME IInv, AgentCrash PROVE IInv'
<1> USE DEF Steps, Running, Prepared, Committing, Draining, KubeadmDone, Activating, Switched
<1>1. pc' = "dead" /\ UNCHANGED <<req, kinds, local, rec, h, voters>>
  BY DEF AgentCrash
<1>2. faults' \in 0..MaxFaults
  BY UpgradeAssumption DEF IInv, Types, AgentCrash, Fault
<1>3. Types'
  BY <1>1, <1>2 DEF IInv, Types, ControlPlane
<1>4. GateInv' /\ RestoreInv'
  BY <1>1 DEF IInv, GateInv, Ran, RestoreInv, UndoHeld, RepairInv
<1>5. AddressInv' /\ SwitchInv' /\ RepairInv'
  BY <1>1 DEF IInv, AddressInv, SwitchInv, RepairInv, ControlPlane
<1> QED
  BY <1>3, <1>4, <1>5 DEF IInv

(* What a reboot leaves on the host.                                          *)
LEMMA RebootEffect ==
  ASSUME IInv, Reboot
  PROVE  /\ h' \in Hosts
         /\ h'.sysext = IF h.cand = "committed" THEN "target" ELSE "source"
         /\ h'.kubelet = h'.sysext /\ h'.gate = FALSE /\ h'.handoff = FALSE
         /\ h'.endpoint = "advertised" /\ h'.cand = h.cand /\ h'.kubeadmRan = h.kubeadmRan
<1>1. h \in Hosts
  BY DEF IInv, Types
<1> PICK s : s = IF h.cand = "committed" THEN "target" ELSE "source"
  OBVIOUS
<1>2. h' = [h EXCEPT !.gate = FALSE, !.token = FALSE, !.handoff = FALSE, !.tools = FALSE,
                     !.sysext = s, !.kubelet = s, !.endpoint = "advertised"]
  BY DEF Reboot
<1>3. s \in {"source", "target"}
  OBVIOUS
<1> QED
  BY <1>1, <1>2, <1>3 DEF Hosts

LEMMA RebootKeeps == ASSUME IInv, Reboot PROVE IInv'
<1> USE DEF Steps, Running, Prepared, Committing, Draining, KubeadmDone, Activating, Switched
<1>1. /\ pc' \in {"done", "dead"} /\ (pc' = "done" => pc = "done")
      /\ UNCHANGED <<req, kinds, local, rec, voters>>
  BY DEF Reboot
<1>2. faults' \in 0..MaxFaults
  BY UpgradeAssumption DEF IInv, Types, Reboot, Fault
<1>3. Types'
  BY <1>1, <1>2, RebootEffect DEF IInv, Types, ControlPlane
<1>4. GateInv'
  BY <1>1, RebootEffect DEF IInv, GateInv, Ran
<1>5. AddressInv' /\ SwitchInv'
  BY <1>1, RebootEffect DEF AddressInv, SwitchInv, ControlPlane
<1>6. RepairInv'
  BY <1>1 DEF RepairInv
<1>7. RestoreInv'
  BY <1>1, RebootEffect DEF IInv, GateInv, RestoreInv, UndoHeld, RepairInv
<1> QED
  BY <1>3, <1>4, <1>5, <1>6, <1>7 DEF IInv

-----------------------------------------------------------------------------
(* The invariant and the theorems                                             *)

LEMMA InitHolds == Init => IInv
<1> SUFFICES ASSUME Init PROVE IInv
  OBVIOUS
<1> USE DEF Steps, Running, Prepared, Committing, Draining, KubeadmDone, Activating, Switched
<1>1. req \in Requests /\ (~ControlPlane => ~req.managed) /\ pc = "resolve" /\ pc \in Steps
  BY UpgradeAssumption DEF Init, Requests
<1>2. local \in Locals /\ local.post = FALSE /\ local.spoilt = FALSE
  BY DEF Init, Locals
<1>3. rec \in Records /\ rec.marked = FALSE /\ rec.act = "pending" /\ rec.result = "" /\ rec.unrestored = FALSE
  BY DEF Init, Records
<1>4. /\ h \in Hosts /\ h.kubelet = "source" /\ h.sysext = "source" /\ h.cand = "none"
      /\ h.endpoint = "advertised"
  BY DEF Init, Hosts
<1>5. voters \in BOOLEAN
  BY Zenon DEF Init
<1>6. faults \in 0..MaxFaults
  <2>1. faults = 0
    BY Zenon DEF Init
  <2> QED
    BY <2>1, UpgradeAssumption
<1> QED
  BY <1>1, <1>2, <1>3, <1>4, <1>5, <1>6
  DEF IInv, Types, GateInv, AddressInv, SwitchInv, RepairInv, RestoreInv, UndoHeld

LEMMA StutterKeeps == ASSUME IInv, UNCHANGED vars PROVE IInv'
<1>1. UNCHANGED <<req, kinds, pc, local, rec, h, voters, faults>>
  BY DEF vars
<1>2. Types'
  BY <1>1 DEF IInv, Types, ControlPlane
<1>3. GateInv' /\ RestoreInv'
  BY <1>1 DEF IInv, GateInv, Ran, RestoreInv, UndoHeld, RepairInv
<1>4. AddressInv' /\ SwitchInv' /\ RepairInv'
  BY <1>1, ZenonT(30) DEF IInv, AddressInv, SwitchInv, RepairInv, ControlPlane
<1> QED
  BY <1>2, <1>3, <1>4 DEF IInv

LEMMA NextKeeps == ASSUME IInv, [Next]_vars PROVE IInv'
<1>1. CASE Executor
  BY <1>1, Zenon, resolveKubernetesUpgradePayloadKeeps, usePreparedUpgradeKeeps, StageKeeps, MountKeeps,
     prepareUpgradeEtcdKeeps, GateKeeps, RecordStagedKeeps, kubeadmUpgradePlanKeeps,
     PlanCompleteKeeps, PauseKeeps, RecordDrainKeeps, drainKubeAPIServerConnectionsKeeps,
     completeKubeAPIServerDrainKeeps, MarkKubeadmKeeps, runKubeadmUpgradeCommandKeeps,
     KubeadmCompleteKeeps, RecordStopKeeps, releaseKubeletGateKeeps, stopSourceKubeletKeeps,
     activateKubernetesCandidateKeeps, restartTargetKubeletKeeps, checkKubeadmUpgradeHealthKeeps,
     waitUpgradeEtcdKeeps, resumeManagedEndpointKeeps, removeKubeletGateKeeps,
     promoteLiveGenerationKeeps, recordHealthyKubeadmUpgradeKeeps, failKubeadmUpgradeKeeps, ReturnKeeps
  DEF Executor
<1>2. CASE Environment
  BY <1>2, Zenon, VotersChangeKeeps, KubeletCrashKeeps, AgentCrashKeeps, RebootKeeps DEF Environment
<1>3. CASE UNCHANGED vars
  BY <1>3, StutterKeeps
<1> QED
  BY <1>1, <1>2, <1>3 DEF Next

(* The inductive invariant of an upgrade.                                     *)
THEOREM UpgradeInvariant == Spec => []IInv
  BY InitHolds, NextKeeps, PTL DEF Spec

(* The target kubelet waits for kubeadm, the address is withdrawn while the   *)
(* control plane changes, and what failed before the marker was put back: see *)
(* UpgradeGated.                                                              *)
THEOREM UpgradeAlwaysGated == Spec => []UpgradeGated
<1>1. IInv => UpgradeGated
  <2> SUFFICES ASSUME IInv PROVE UpgradeGated
    OBVIOUS
  <2>1. TargetKubeletAfterKubeadm
    BY DEF IInv, GateInv, Ran, TargetKubeletAfterKubeadm
  <2>2. WithdrawnDuringMutation
    BY DEF IInv, AddressInv, WithdrawnDuringMutation, Committing, KubeadmDone, Activating, Switched
  <2>3. FailedBeforeMutationRestored
    BY DEF IInv, Types, Hosts, GateInv, RestoreInv, UndoHeld, RepairInv, FailedBeforeMutationRestored, Ended
  <2> QED
    BY <2>1, <2>2, <2>3 DEF UpgradeGated
<1> QED
  BY <1>1, UpgradeInvariant, PTL

(* No step of the executor but the promotion commits a candidate, none but a  *)
(* failure links the source sysext.                                           *)
Ordinary == Executor /\ ~promoteLiveGeneration /\ ~failKubeadmUpgrade

LEMMA OrdinaryEffect ==
  ASSUME IInv, Ordinary
  PROVE  /\ h'.cand = "committed" => h.cand = "committed"
         /\ h.sysext = "target" => h'.sysext = "target"
<1>1. h \in Hosts
  BY DEF IInv, Types
<1>2. CASE Stage
  BY <1>1, <1>2 DEF Stage, Command, stageKubernetesCandidate, Hosts
<1>3. CASE Mount
  BY <1>1, <1>3 DEF Mount, Command, MountTools, Hosts
<1>4. CASE Gate
  BY <1>1, <1>4 DEF Gate, Command, installKubeletGate, Hosts
<1>5. CASE releaseKubeletGate
  BY <1>1, <1>5 DEF releaseKubeletGate, Command, ReleaseGate, Hosts
<1>6. CASE stopSourceKubelet
  BY <1>1, <1>6 DEF stopSourceKubelet, Command, StopKubelet, Hosts
<1>7. CASE activateKubernetesCandidate
  BY <1>1, <1>7 DEF activateKubernetesCandidate, Command, LinkTarget, Hosts
<1>8. CASE restartTargetKubelet
  BY <1>1, <1>8 DEF restartTargetKubelet, Command, StartKubelet, Startable, Hosts
<1>9. CASE removeKubeletGate
  BY <1>1, <1>9 DEF removeKubeletGate, Command, Ungate, Hosts
<1>10. CASE runKubeadmUpgradeCommand
  BY <1>1, <1>10 DEF runKubeadmUpgradeCommand, Command, KubeadmUpgradeNode, Hosts
<1>11. CASE drainKubeAPIServerConnections
  BY <1>1, <1>11 DEF drainKubeAPIServerConnections, Command, activateKubeletAPIHandoff, StartKubelet, Startable, Hosts
<1>12. CASE resolveKubernetesUpgradePayload
  BY <1>1, <1>12 DEF resolveKubernetesUpgradePayload, Command, Unchanged, Hosts
<1>13. CASE kubeadmUpgradePlan
  BY <1>1, <1>13 DEF kubeadmUpgradePlan, Command, Unchanged, Hosts
<1>14. CASE Pause
  BY <1>1, <1>14 DEF Pause, pauseManagedEndpoint, Hosts
<1>15. CASE resumeManagedEndpoint
  BY <1>1, <1>15 DEF resumeManagedEndpoint, Advertise, Hosts
<1>16. CASE Return
  BY <1>16, ReturnEffect
<1>17. CASE h' = h
  BY <1>17
<1>18. CASE RecordStaged \/ PlanComplete \/ RecordDrain \/ completeKubeAPIServerDrain
             \/ KubeadmComplete \/ RecordStop \/ recordHealthyKubeadmUpgrade
  BY <1>18 DEF Update, RecordStaged, PlanComplete, RecordDrain, completeKubeAPIServerDrain, KubeadmComplete, RecordStop, recordHealthyKubeadmUpgrade
<1>19. CASE usePreparedUpgrade \/ prepareUpgradeEtcd \/ MarkKubeadm \/ checkKubeadmUpgradeHealth \/ waitUpgradeEtcd
  BY <1>19 DEF usePreparedUpgrade, prepareUpgradeEtcd, MarkKubeadm, checkKubeadmUpgradeHealth, waitUpgradeEtcd
<1> QED
  BY Zenon, <1>2, <1>3, <1>4, <1>5, <1>6, <1>7, <1>8, <1>9, <1>10, <1>11, <1>12, <1>13, <1>14, <1>15, <1>16, <1>17, <1>18, <1>19 DEF Ordinary, Executor

(* Only the return of the executor ends an operation.                         *)
LEMMA OnlyReturnEnds == ASSUME IInv, Next, pc = "return", pc' = "done" PROVE Return
<1>1. CASE Environment
  BY <1>1 DEF Environment, VotersChange, KubeletCrash, AgentCrash, Reboot
<1>2. CASE Executor
  BY <1>2 DEF Executor, Command, Update, Stage, Mount, Gate, releaseKubeletGate, stopSourceKubelet, activateKubernetesCandidate, restartTargetKubelet, removeKubeletGate, runKubeadmUpgradeCommand, drainKubeAPIServerConnections, resolveKubernetesUpgradePayload, kubeadmUpgradePlan, RecordStaged, PlanComplete, RecordDrain, completeKubeAPIServerDrain, KubeadmComplete, RecordStop, recordHealthyKubeadmUpgrade, usePreparedUpgrade, prepareUpgradeEtcd, MarkKubeadm, checkKubeadmUpgradeHealth, waitUpgradeEtcd, Pause, resumeManagedEndpoint, promoteLiveGeneration, failKubeadmUpgrade
<1> QED
  BY <1>1, <1>2 DEF Next

(* Only the promotion commits, and the switch is complete when it does.       *)
LEMMA CommitStep == ASSUME IInv, Next PROVE CommittedIsConverged
<1> SUFFICES ASSUME h.cand # "committed", h'.cand = "committed"
             PROVE  /\ ~h.gate /\ h.sysext = "target" /\ h.endpoint = "advertised"
                    /\ ControlPlane => rec.before /\ rec.after /\ h.etcdImage = "target"
  BY DEF CommittedIsConverged
<1>1. CASE promoteLiveGeneration
  <2>1. pc = "promote"
    BY <1>1 DEF promoteLiveGeneration, Command
  <2> QED
    BY <2>1 DEF IInv, SwitchInv, AddressInv, Prepared, Committing, KubeadmDone, Activating, Switched
<1>2. CASE failKubeadmUpgrade
  BY <1>2, FailureEffect
<1>3. CASE Ordinary
  BY <1>3, OrdinaryEffect
<1>4. CASE VotersChange \/ AgentCrash
  BY <1>4 DEF VotersChange, AgentCrash
<1>5. CASE KubeletCrash
  BY <1>5 DEF KubeletCrash, StartKubelet, Startable, IInv, Types, Hosts
<1>6. CASE Reboot
  BY <1>6, RebootEffect
<1> QED
  BY <1>1, <1>2, <1>3, <1>4, <1>5, <1>6, Zenon DEF Next, Environment, Ordinary

(* An operation that ends in repair leaves what its record promises.          *)
LEMMA RepairStep == ASSUME IInv, Next PROVE RepairKeepsTarget
<1> SUFFICES ASSUME pc = "return", pc' = "done", rec.result = "failed-needs-repair", rec.marked
             PROVE  IF ControlPlane THEN ~rec.rollback /\ h'.tools
                    ELSE /\ rec.rollback
                         /\ "store" \notin kinds /\ ~rec.unrestored => h'.sysext = "source" /\ ~h'.gate
  BY DEF RepairKeepsTarget
<1>1. Return
  BY OnlyReturnEnds
<1>2. /\ h.tools /\ local.retain
      /\ IF ControlPlane THEN ~rec.rollback
         ELSE /\ rec.rollback
              /\ "store" \notin kinds /\ ~rec.unrestored => h.sysext = "source" /\ ~h.gate
  BY DEF IInv, RepairInv
<1>3. h'.tools /\ h'.sysext = h.sysext /\ h'.gate = h.gate
  BY <1>1, <1>2, ReturnEffect
<1> QED
  BY <1>2, <1>3

(* A failure links the source again only where nothing was marked.            *)
LEMMA DowngradeStep == ASSUME IInv, Next PROVE NoControlPlaneDowngrade
<1> SUFFICES ASSUME ControlPlane, h.sysext = "target", h'.sysext # "target"
             PROVE  pc' = "dead" \/ pc = "done"
  BY DEF NoControlPlaneDowngrade
<1>1. CASE promoteLiveGeneration
  BY <1>1 DEF promoteLiveGeneration, Command, Commit, IInv, Types, Hosts
<1>2. CASE failKubeadmUpgrade
  <2>1. ~RestoresSource
    BY DEF IInv, GateInv, RestoresSource, Mutated
  <2> QED
    BY <1>2, <2>1, FailureEffect
<1>3. CASE Ordinary
  BY <1>3, OrdinaryEffect
<1>4. CASE VotersChange \/ AgentCrash
  BY <1>4 DEF VotersChange, AgentCrash
<1>5. CASE KubeletCrash
  BY <1>5 DEF KubeletCrash, StartKubelet, Startable, IInv, Types, Hosts
<1>6. CASE Reboot
  BY <1>6 DEF Reboot
<1> QED
  BY <1>1, <1>2, <1>3, <1>4, <1>5, <1>6, Zenon DEF Next, Environment, Ordinary

(* Commits, repairs and downgrades: see UpgradeCommits.                       *)
THEOREM UpgradeCommitsSafely == Spec => UpgradeCommits
<1>1. IInv /\ [Next]_vars => [CommittedIsConverged /\ RepairKeepsTarget /\ NoControlPlaneDowngrade]_vars
  BY CommitStep, RepairStep, DowngradeStep
<1> QED
  BY <1>1, UpgradeInvariant, PTL DEF Spec, UpgradeCommits
===============================================================================
