--------------------------- MODULE KubeadmUpgrade ---------------------------
(***************************************************************************)
(* One kubeadm-upgrade operation on one node: the target sysext is staged  *)
(* as a candidate generation and mounted privately, target kubeadm runs    *)
(* while the source kubelet keeps running behind a systemd gate, and then  *)
(* the kubelet is switched over.  Any command or record update may fail,   *)
(* the kubelet, the agent and the node may restart at any moment, and      *)
(* etcd peers may come and go.                                             *)
(***************************************************************************)
EXTENDS Naturals

CONSTANTS Roles,        \* roles a request may name
          MaxFaults,    \* bound: failures and environment events
          FaultKinds    \* the sets of them that may happen in a behaviour

ASSUME UpgradeAssumption ==
  /\ Roles \subseteq {"apply", "control-plane", "worker", "external"}
  /\ MaxFaults \in Nat

VARIABLES req,          \* [role, peers, managed, prepared]: the role; do other API
                        \* endpoints and a managed virtual address exist; the
                        \* preparation the request names, if any
          pc,           \* the executor's step
          local,        \* executeKubeadmUpgrade's own flags, and whether a
                        \* deferred call of it failed
          rec,          \* the operation record; unrestored: its reason names
                        \* a source that could not be restored
          h,            \* the host
          voters,       \* is every etcd voter healthy and caught up?
          kinds,        \* the kinds of failures and events that happen
          faults

vars == <<req, pc, local, rec, h, voters, kinds, faults>>

ControlPlane == req.role \in {"apply", "control-plane"}

(* systemd checks the unit's conditions at every start: with the gate's    *)
(* drop-in loaded and no token the kubelet is skipped without an error,    *)
(* and the handoff's drop-in clears the condition.  Without a Kubernetes   *)
(* sysext there is no kubelet to start.                                    *)
Startable(x) == x.sysext # "none" /\ (x.gate /\ ~x.token => x.handoff)
StartKubelet(x) == [x EXCEPT !.kubelet = IF Startable(x) THEN x.sysext ELSE "down"]

Init ==
  /\ req \in [role : Roles, peers : BOOLEAN, managed : BOOLEAN,
              prepared : {"none", "match", "stale"}]
  /\ ~ControlPlane => ~req.peers /\ ~req.managed /\ req.prepared = "none"
  /\ pc = "resolve" /\ local = [paused |-> FALSE, retain |-> FALSE, post |-> FALSE, spoilt |-> FALSE]
  /\ rec = [marked |-> FALSE, gateUnit |-> FALSE, act |-> "pending", before |-> FALSE,
            after |-> FALSE, terminal |-> FALSE, result |-> "", rollback |-> FALSE,
            unrestored |-> FALSE]
  /\ h = [cand |-> "none", sysext |-> "source", kubelet |-> "source", gate |-> FALSE,
          token |-> FALSE, handoff |-> FALSE, endpoint |-> "advertised", tools |-> FALSE,
          kubeadmRan |-> FALSE, etcdImage |-> "source"]
  /\ voters = TRUE /\ kinds \in FaultKinds /\ faults = 0

Fault(k) == k \in kinds /\ faults < MaxFaults /\ faults' = faults + 1
Fail(post) == pc' = "fail" /\ local' = [local EXCEPT !.post = post]

(* The tool view is kept once the steps that change the node are reached.  *)
Enter(next) ==
  /\ pc' = next
  /\ local' = [local EXCEPT !.retain = @ \/ next \in {"mark", "record-stop"}]

(* A command, or a group of them, that turns the host x into F(x): it      *)
(* succeeds, or fails before or after its effect, into failKubeadmUpgrade. *)
Command(step, F(_), next, post) ==
  /\ pc = step
  /\ \/ h' = F(h) /\ Enter(next) /\ UNCHANGED faults
     \/ Fault("tool") /\ h' \in {h, F(h)} /\ Fail(post)
  /\ UNCHANGED <<req, kinds, rec, voters>>

(* An update of the record; when the update itself fails the executor      *)
(* returns at once, with only its deferred calls run.                      *)
Update(step, F(_), next) ==
  /\ pc = step
  /\ \/ rec' = F(rec) /\ Enter(next) /\ UNCHANGED faults
     \/ Fault("store") /\ pc' = "return" /\ UNCHANGED <<rec, local>>
  /\ UNCHANGED <<req, kinds, h, voters>>

----------------------------------------------------------------------------
(* Staging                                                                 *)

Unchanged(x) == x

(* The bundle is fetched and verified unless the request carries an        *)
(* uploaded sysext.                                                        *)
resolveKubernetesUpgradePayload ==
  Command("resolve", Unchanged, IF req.prepared # "none" THEN "prepared" ELSE "stage", FALSE)

preparationMatches == req.prepared = "match"

usePreparedUpgrade ==
  /\ pc = "prepared"
  /\ IF preparationMatches
     THEN pc' = "stage" /\ rec' = [rec EXCEPT !.before = TRUE] /\ UNCHANGED local
     ELSE Fail(FALSE) /\ UNCHANGED rec
  /\ UNCHANGED <<req, kinds, h, voters, faults>>

stageKubernetesCandidate(x) == [x EXCEPT !.cand = "candidate"]
MountTools(x) == [x EXCEPT !.tools = TRUE]

Stage == Command("stage", stageKubernetesCandidate, "mount", FALSE)

(* The target executable must report the requested version.                *)
Mount == Command("mount", MountTools, IF ControlPlane THEN "etcd" ELSE "gate", FALSE)

(* validateUpgradeEtcd as this node sees it (EtcdChanges counts voters).   *)
checkUpgradeEtcd == voters

(* Without a preparation the voters are observed, target kubeadm plans and *)
(* a snapshot is taken; with one the image selection must be unchanged.    *)
(* Either way the voters are checked before anything is installed.         *)
prepareUpgradeEtcd ==
  /\ pc = "etcd"
  /\ \/ /\ checkUpgradeEtcd
        /\ pc' = "gate" /\ rec' = [rec EXCEPT !.before = TRUE] /\ UNCHANGED <<local, faults>>
     \/ ~checkUpgradeEtcd /\ Fail(FALSE) /\ UNCHANGED <<rec, faults>>
     \/ Fault("tool") /\ Fail(FALSE) /\ UNCHANGED rec
  /\ UNCHANGED <<req, kinds, h, voters>>

installKubeletGate(x) == [x EXCEPT !.gate = TRUE]
Gate == Command("gate", installKubeletGate, "staged", FALSE)

StagedRecord(r) == [r EXCEPT !.gateUnit = TRUE]
RecordStaged ==
  Update("staged", StagedRecord,
         CASE req.role = "apply" -> "plan" [] req.role = "control-plane" -> "pause"
           [] req.role = "worker" -> "mark" [] req.role = "external" -> "record-stop")

kubeadmUpgradePlan == Command("plan", Unchanged, "plan-complete", FALSE)
PlanComplete == Update("plan-complete", Unchanged, "pause")

----------------------------------------------------------------------------
(* Taking the local API server out of use                                  *)

pauseManagedEndpoint(x) == [x EXCEPT !.endpoint = IF req.managed THEN "withdrawn" ELSE @]

(* The watcher, the service and the address are stopped one after the      *)
(* other; when a later command fails the earlier ones are not undone, and  *)
(* endpointPaused stays false.                                             *)
Pause ==
  /\ pc = "pause"
  /\ \/ /\ h' = pauseManagedEndpoint(h) /\ pc' = "drain-start"
        /\ local' = [local EXCEPT !.paused = req.managed] /\ UNCHANGED faults
     \/ /\ req.managed /\ Fault("tool")
        /\ h' \in {h, pauseManagedEndpoint(h)} /\ Fail(FALSE)
  /\ UNCHANGED <<req, kinds, rec, voters>>

RecordDrain == Update("drain-start", Unchanged, "drain")

(* activateKubeletAPIHandoff: with another API endpoint that answers, the  *)
(* kubelet is moved to it and the local API server is asked to stop;       *)
(* alone, nothing is drained.                                              *)
activateKubeletAPIHandoff(x) ==
  IF req.peers THEN StartKubelet([x EXCEPT !.handoff = TRUE]) ELSE x
drainKubeAPIServerConnections ==
  Command("drain", activateKubeletAPIHandoff, "drained", FALSE)
completeKubeAPIServerDrain == Update("drained", Unchanged, "mark")

----------------------------------------------------------------------------
(* Target kubeadm                                                          *)

MarkedRecord(r) == [r EXCEPT !.marked = TRUE]

(* The voters are checked again right before the marker is written.        *)
MarkKubeadm ==
  /\ pc = "mark"
  /\ \/ /\ ControlPlane => checkUpgradeEtcd
        /\ rec' = MarkedRecord(rec) /\ pc' = "kubeadm" /\ UNCHANGED <<local, faults>>
     \/ ControlPlane /\ ~checkUpgradeEtcd /\ Fail(FALSE) /\ UNCHANGED <<rec, faults>>
     \/ Fault("store") /\ pc' = "return" /\ UNCHANGED <<rec, local>>
  /\ UNCHANGED <<req, kinds, h, voters>>

(* Kubeadm replaces the static manifests, etcd's among them.               *)
KubeadmUpgradeNode(x) ==
  [x EXCEPT !.kubeadmRan = TRUE, !.etcdImage = IF ControlPlane THEN "target" ELSE @]
runKubeadmUpgradeCommand == Command("kubeadm", KubeadmUpgradeNode, "kubeadm-complete", TRUE)
KubeadmComplete == Update("kubeadm-complete", Unchanged, "record-stop")

----------------------------------------------------------------------------
(* Switching the kubelet                                                   *)

(* An external worker's mutation starts here.                              *)
ActivatingRecord(r) == [r EXCEPT !.act = "activating", !.marked = @ \/ req.role = "external"]
RecordStop == Update("record-stop", ActivatingRecord, "token")

ReleaseGate(x) == [x EXCEPT !.token = TRUE, !.handoff = FALSE]
releaseKubeletGate == Command("token", ReleaseGate, "stop", TRUE)

StopKubelet(x) == [x EXCEPT !.kubelet = "down"]
stopSourceKubelet == Command("stop", StopKubelet, "refresh", TRUE)

LinkTarget(x) == [x EXCEPT !.sysext = "target"]
activateKubernetesCandidate == Command("refresh", LinkTarget, "restart", TRUE)

restartTargetKubelet == Command("restart", StartKubelet, "health", TRUE)

TargetObserved == h.kubelet = "target"

(* A kubelet that is not active, or reports another version, fails.        *)
checkKubeadmUpgradeHealth ==
  /\ pc = "health"
  /\ \/ /\ TargetObserved
        /\ pc' = IF ControlPlane THEN "rejoin" ELSE "resume"
        /\ UNCHANGED <<local, faults>>
     \/ ~TargetObserved /\ Fail(TRUE) /\ UNCHANGED faults
     \/ Fault("tool") /\ Fail(TRUE)
  /\ UNCHANGED <<req, kinds, rec, h, voters>>

(* waitUpgradeEtcd polls until the local member is back on the target      *)
(* image with every voter caught up, or until its two minutes are over.    *)
waitUpgradeEtcd ==
  /\ pc = "rejoin"
  /\ \/ /\ checkUpgradeEtcd /\ h.etcdImage = "target"
        /\ rec' = [rec EXCEPT !.after = TRUE] /\ pc' = "resume" /\ UNCHANGED local
     \/ /\ ~(checkUpgradeEtcd /\ h.etcdImage = "target")
        /\ Fail(TRUE) /\ UNCHANGED rec
  /\ UNCHANGED <<req, kinds, h, voters, faults>>

Advertise(x) == [x EXCEPT !.endpoint = "advertised"]
resumeManagedEndpoint ==
  /\ pc = "resume"
  /\ \/ /\ h' = IF local.paused THEN Advertise(h) ELSE h
        /\ pc' = "ungate" /\ local' = [local EXCEPT !.paused = FALSE] /\ UNCHANGED faults
     \/ local.paused /\ Fault("tool") /\ h' \in {h, Advertise(h)} /\ Fail(TRUE)
  /\ UNCHANGED <<req, kinds, rec, voters>>

(* M: the gate's drop-in stays. *)
UngateMissing(x) == x
Ungate(x) == [x EXCEPT !.gate = FALSE]
removeKubeletGate == Command("ungate", Ungate, "promote", TRUE)

Commit(x) == [x EXCEPT !.cand = "committed"]
promoteLiveGeneration == Command("promote", Commit, "record-healthy", TRUE)

HealthyRecord(r) == [r EXCEPT !.terminal = TRUE, !.result = "succeeded"]
recordHealthyKubeadmUpgrade == Update("record-healthy", HealthyRecord, "return")

----------------------------------------------------------------------------
(* Failure                                                                 *)

(* The record, where it could be read.                                     *)
Mutated == local.post \/ rec.marked

(* M: nothing is restored. *)
RestoresSourceNever == FALSE
RestoresSource == ~Mutated \/ ~ControlPlane

(* Relink the source sysext, remove the gate and the token, and restart    *)
(* the kubelet if the switch had begun.  The gate goes even when the       *)
(* record does not name it yet; the token only when it does.               *)
restoreSourceKubernetesAfterFailure(x) ==
  LET y == [x EXCEPT !.sysext = "source", !.gate = FALSE,
                     !.token = IF rec.gateUnit THEN FALSE ELSE @]
  IN  IF rec.act = "activating" THEN StartKubelet(y) ELSE y

(* A step of it that fails does not stop the next ones: the link may be    *)
(* the old one or gone, the gate may stay loaded, the token may be left    *)
(* and the kubelet may be down.                                            *)
RestoreFails(s, g, t, k) == [h EXCEPT !.sysext = s, !.gate = g, !.token = t, !.kubelet = k]

abandonCandidateGeneration(x, drop) ==
  [x EXCEPT !.cand = IF drop /\ ~Mutated /\ @ = "candidate" THEN "abandoned" ELSE @]

(* The host once the restoration (back) and the abandonment (drop)         *)
(* succeeded or not.                                                       *)
Undo(back, drop) ==
  IF ~RestoresSource THEN h' = abandonCandidateGeneration(h, drop)
  ELSE IF back THEN h' = abandonCandidateGeneration(restoreSourceKubernetesAfterFailure(h), drop)
  ELSE \E s \in {h.sysext, "source", "none"}, g \in {h.gate, FALSE}, t \in {h.token, FALSE},
          k \in IF rec.act = "activating" THEN {h.kubelet, "down", "source", h.sysext} ELSE {h.kubelet} :
         h' = abandonCandidateGeneration(RestoreFails(s, g, t, k), drop)

(* A source that could not be restored is only named in the reason; a      *)
(* candidate that could not be abandoned asks for repair.                  *)
FailedRecord(r, mutated, back, drop) ==
  [r EXCEPT !.terminal = TRUE,
            !.result = IF mutated \/ ~drop THEN "failed-needs-repair" ELSE "failed",
            !.act = IF mutated THEN "failed" ELSE @,
            !.rollback = mutated /\ ~ControlPlane,
            !.unrestored = ~back]

(* A record that cannot be read counts as mutated, and nothing is undone;  *)
(* the last update may fail and leave the record open.                     *)
failKubeadmUpgrade ==
  /\ pc = "fail" /\ pc' = "return"
  /\ \/ \E back \in IF RestoresSource THEN BOOLEAN ELSE {TRUE},
          drop \in IF ~Mutated /\ h.cand = "candidate" THEN BOOLEAN ELSE {TRUE} :
          /\ IF back /\ drop THEN UNCHANGED faults ELSE Fault("tool")
          /\ Undo(back, drop)
          /\ rec' = FailedRecord(rec, Mutated, back, drop)
     \/ Fault("store") /\ Undo(TRUE, TRUE) /\ UNCHANGED rec
     \/ Fault("store") /\ UNCHANGED h /\ rec' = FailedRecord(rec, TRUE, TRUE, TRUE)
  /\ UNCHANGED <<req, kinds, local, voters>>

(* The kubelet goes back to its own API endpoint, restarted only if        *)
(* nothing was marked or the record cannot be read.                        *)
restoreKubeletAPIHandoff(x, unread) ==
  LET y == [x EXCEPT !.handoff = FALSE]
  IN  IF x.handoff /\ (~rec.marked \/ unread) THEN StartKubelet(y) ELSE y

resumeOnReturn(x, unread) == IF local.paused /\ ~rec.marked /\ ~unread THEN Advertise(x) ELSE x

unmountTools(x) ==
  [x EXCEPT !.tools = @ /\ local.retain /\ rec.result # "succeeded"]

Deferred(u, v) == unmountTools(resumeOnReturn(restoreKubeletAPIHandoff(h, u), v))

(* Deferred calls that fail leave what they should have undone.            *)
DeferredFails ==
  \E a \in {h.handoff, FALSE}, e \in {h.endpoint, Deferred(FALSE, FALSE).endpoint}, t \in {h.tools, Deferred(FALSE, FALSE).tools},
     k \in IF h.handoff /\ ~rec.marked THEN {h.kubelet, "down", StartKubelet(h).kubelet} ELSE {h.kubelet} :
    h' = [h EXCEPT !.handoff = a, !.kubelet = k, !.endpoint = e, !.tools = t]

(* recordUnhandledExecutionFailure: a marked record needs repair.          *)
ClosedRecord(r) ==
  [r EXCEPT !.terminal = TRUE, !.result = IF r.marked THEN "failed-needs-repair" ELSE "failed"]

(* The deferred calls, last first, whose errors the code drops.  Dispatch  *)
(* closes a record that is still open.                                     *)
Return ==
  /\ pc = "return" /\ pc' = "done"
  /\ \/ /\ h' = Deferred(FALSE, FALSE) /\ UNCHANGED <<local, faults>>
        /\ rec' = IF rec.terminal THEN rec ELSE ClosedRecord(rec)
     \/ /\ Fault("tool") /\ DeferredFails /\ local' = [local EXCEPT !.spoilt = TRUE]
        /\ rec' = IF rec.terminal THEN rec ELSE ClosedRecord(rec)
     \/ /\ Fault("store") /\ \E u, v \in BOOLEAN : h' = Deferred(u, v)
        /\ rec' \in IF rec.terminal THEN {rec} ELSE {rec, ClosedRecord(rec)}
        /\ UNCHANGED local
  /\ UNCHANGED <<req, kinds, voters>>

----------------------------------------------------------------------------
(* The environment                                                         *)

VotersChange ==
  /\ ControlPlane
  /\ \/ voters /\ Fault("voters") /\ voters' = FALSE
     \/ ~voters /\ voters' = TRUE /\ UNCHANGED faults
  /\ UNCHANGED <<req, kinds, pc, local, rec, h>>

(* The kubelet dies and systemd starts it again.                           *)
KubeletCrash ==
  /\ h.kubelet # "down" /\ Fault("kubelet")
  /\ h' = StartKubelet(h) /\ UNCHANGED <<req, kinds, pc, local, rec, voters>>

AgentCrash ==
  /\ pc # "done" /\ pc # "dead" /\ Fault("crash")
  /\ pc' = "dead" /\ UNCHANGED <<req, kinds, local, rec, h, voters>>

(* A reboot clears /run: the gate, its token and the handoff are gone, and *)
(* the default generation's sysext is linked.                              *)
Reboot ==
  /\ Fault("reboot")
  /\ pc' = IF pc = "done" THEN pc ELSE "dead"
  /\ LET s == IF h.cand = "committed" THEN "target" ELSE "source"
     IN  h' = [h EXCEPT !.gate = FALSE, !.token = FALSE, !.handoff = FALSE, !.tools = FALSE,
                        !.sysext = s, !.kubelet = s, !.endpoint = "advertised"]
  /\ UNCHANGED <<req, kinds, local, rec, voters>>

Executor ==
  \/ resolveKubernetesUpgradePayload \/ usePreparedUpgrade \/ Stage \/ Mount
  \/ prepareUpgradeEtcd \/ Gate \/ RecordStaged \/ kubeadmUpgradePlan \/ PlanComplete
  \/ Pause \/ RecordDrain \/ drainKubeAPIServerConnections \/ completeKubeAPIServerDrain
  \/ MarkKubeadm \/ runKubeadmUpgradeCommand \/ KubeadmComplete \/ RecordStop
  \/ releaseKubeletGate \/ stopSourceKubelet \/ activateKubernetesCandidate
  \/ restartTargetKubelet \/ checkKubeadmUpgradeHealth \/ waitUpgradeEtcd
  \/ resumeManagedEndpoint \/ removeKubeletGate \/ promoteLiveGeneration
  \/ recordHealthyKubeadmUpgrade \/ failKubeadmUpgrade \/ Return
Environment == VotersChange \/ KubeletCrash \/ AgentCrash \/ Reboot
Next == Executor \/ Environment

Spec == Init /\ [][Next]_vars

----------------------------------------------------------------------------
(* Properties                                                              *)

TypeOK ==
  /\ rec \in [marked : BOOLEAN, gateUnit : BOOLEAN, act : {"pending", "activating", "failed"},
              before : BOOLEAN, after : BOOLEAN, terminal : BOOLEAN,
              result : {"", "succeeded", "failed", "failed-needs-repair"}, rollback : BOOLEAN,
              unrestored : BOOLEAN]
  /\ h \in [cand : {"none", "candidate", "abandoned", "committed"},
            sysext : {"source", "target", "none"}, kubelet : {"source", "target", "down"},
            gate : BOOLEAN, token : BOOLEAN, handoff : BOOLEAN,
            endpoint : {"advertised", "withdrawn"}, tools : BOOLEAN, kubeadmRan : BOOLEAN,
            etcdImage : {"source", "target"}]
  /\ local \in [paused : BOOLEAN, retain : BOOLEAN, post : BOOLEAN, spoilt : BOOLEAN]
  /\ voters \in BOOLEAN /\ faults \in 0..MaxFaults

Ended == pc = "done"

(* The target kubelet never runs on a node whose kubeadm phase has not     *)
(* been run: a kubelet that crashes, an agent that dies and a failed       *)
(* command never start it early (the activation gate of                    *)
(* executeKubeadmUpgrade).                                                 *)
TargetKubeletAfterKubeadm ==
  h.kubelet = "target" => h.kubeadmRan \/ req.role = "external"

(* Nothing that undoes a failed upgrade failed itself.                     *)
UndoHeld == kinds \cap {"store", "kubelet"} = {} /\ ~rec.unrestored /\ ~local.spoilt

(* An operation that ended failed before its mutation marker has put the   *)
(* node back: source sysext, no gate, no handoff, and a running source     *)
(* kubelet (failKubeadmUpgrade, the deferred restoreKubeletAPIHandoff).    *)
(* Not so where a command that restores failed, which the record's reason  *)
(* names although its result does not; where a deferred call failed, whose *)
(* error is dropped; where the record could not be read or written, when   *)
(* the executor returns without restoring; or where the kubelet died,      *)
(* which nothing starts again.                                             *)
FailedBeforeMutationRestored ==
  UndoHeld /\ Ended /\ rec.result = "failed" /\ ~rec.marked =>
    /\ h.sysext = "source" /\ h.kubelet = "source" /\ ~h.gate /\ ~h.handoff
    /\ h.cand # "candidate"

(* A candidate is promoted only while the target kubelet's switch is done: *)
(* gate removed, address advertised, and on a control plane the etcd       *)
(* member seen back on the target image among the voters seen before.      *)
CommittedIsConverged ==
  h.cand # "committed" /\ h'.cand = "committed" =>
     /\ ~h.gate /\ h.sysext = "target" /\ h.endpoint = "advertised"
     /\ ControlPlane => rec.before /\ rec.after /\ h.etcdImage = "target"

(* From kubeadm's first change until etcd is seen healthy again, the       *)
(* managed address is not advertised from this node.                       *)
WithdrawnDuringMutation ==
  /\ ControlPlane /\ req.managed
  /\ pc \in {"kubeadm", "kubeadm-complete", "record-stop", "token", "stop", "refresh",
             "restart", "health", "rejoin"}
  => h.endpoint = "withdrawn"

(* The target kubelet never runs before its node's kubeadm phase, the      *)
(* address is withdrawn while the control plane changes, and an upgrade    *)
(* that failed before its mutation marker has put the node back unless an  *)
(* undoing command, the store or the kubelet failed as well.               *)
UpgradeGated ==
  TargetKubeletAfterKubeadm /\ WithdrawnDuringMutation /\ FailedBeforeMutationRestored

(* An operation that ends in repair past its marker selects nothing older  *)
(* on a control plane and keeps the target tools mounted; a worker is put  *)
(* back on its source behind no gate, unless a command that restores       *)
(* failed, which the reason names, or the record could not be read.        *)
RepairKeepsTarget ==
  pc = "return" /\ pc' = "done" /\ rec.result = "failed-needs-repair" /\ rec.marked =>
     IF ControlPlane THEN ~rec.rollback /\ h'.tools
     ELSE /\ rec.rollback
          /\ "store" \notin kinds /\ ~rec.unrestored => h'.sysext = "source" /\ ~h'.gate

(* No step of the executor takes the target sysext away again once a       *)
(* control plane has it.                                                   *)
NoControlPlaneDowngrade ==
  ControlPlane /\ pc # "dead" /\ h.sysext = "target" /\ h'.sysext # "target"
     => pc' = "dead" \/ pc = "done"

(* A candidate is committed only when the switch is complete and etcd is   *)
(* back; an upgrade that ends in repair never links an older sysext on a   *)
(* control plane.                                                          *)
UpgradeCommits ==
  [][CommittedIsConverged /\ RepairKeepsTarget /\ NoControlPlaneDowngrade]_vars

============================================================================
