---------------------------- MODULE EtcdChanges ----------------------------
(***************************************************************************)
(* Changes to a stacked etcd cluster: katlctl rollouts that prepare every  *)
(* pending control plane and then upgrade them one by one, and the removal *)
(* of one member through a coordinator.  Each change is checked against an *)
(* observation made of separate requests, so the cluster may change        *)
(* between two requests and between the last one and the change.           *)
(***************************************************************************)
EXTENDS Naturals, FiniteSets, FiniteSetsExt

CONSTANTS N,            \* member ids; katlctl visits control planes in this order
          Clients,      \* katlctl rollouts that may run at the same time
          Sizes,        \* initial cluster sizes
          Images,       \* etcd images the cluster may start from
          MaxWrites, MaxFaults, MaxTries,   \* bounds
          Removals      \* may members be removed?

(* The values given to the constants satisfy                               *)
(*   Sizes \subseteq 1..N /\ N \in Nat                                    *)

Ids == 1..N
None == 0

VARIABLES etcd,     \* members, learners, leader, commit index, and per id: applied
                    \* index, is it up, its container, the container's image and
                    \* the static manifest's
          gen,      \* per node: the committed generation's Kubernetes
          op,       \* per node: the operation its agent runs (one at a time)
          prep,     \* per node: the evidence of its last preparation
          client,   \* per rollout: its step, targets left and the last outcome
          wipe,     \* the planned removal, and the etcd status being collected for it
          writes, faults

vars == <<etcd, gen, op, prep, client, wipe, writes, faults>>

Voters(e) == e.members \ e.learners
Quorum(e) == Cardinality({m \in Voters(e) : e.up[m]}) >= Cardinality(Voters(e)) \div 2 + 1
Serving(e) == Quorum(e) /\ e.leader # None

NoObs == [members |-> {}, learners |-> {}, leader |-> None, barrier |-> 0, ok |-> {},
          rev |-> 0]
NoPrep == [members |-> {}, cont |-> 0, snap |-> 0, acked |-> 0, changes |-> FALSE]
NoOp == [kind |-> "none", by |-> None, pc |-> "", round |-> "", obs |-> NoObs, todo |-> {},
         cont |-> 0, acked |-> 0, snap |-> 0, tries |-> 0, source |-> "", stale |-> FALSE]
NoStatus == [at |-> "status", leader |-> None, members |-> {}, todo |-> {}, healthy |-> {}]

Init ==
  /\ \E k \in Sizes, i \in Images :
       etcd = [members |-> 1..k, learners |-> {}, leader |-> 1, commit |-> 1,
               applied |-> [m \in Ids |-> IF m <= k THEN 1 ELSE 0],
               up |-> [m \in Ids |-> m <= k], cont |-> [m \in Ids |-> 1],
               manifest |-> [m \in Ids |-> i], image |-> [m \in Ids |-> i]]
  /\ gen = [n \in Ids |-> "source"]
  /\ op = [n \in Ids |-> NoOp] /\ prep = [n \in Ids |-> NoPrep]
  /\ client = [c \in Clients |-> [pc |-> "connect", all |-> {}, todo |-> {}, outcome |-> ""]]
  /\ wipe = [pc |-> "none", coord |-> None, target |-> None, count |-> 0, status |-> NoStatus]
  /\ writes = 0 /\ faults = 0

Fault == faults < MaxFaults /\ faults' = faults + 1

(* An operation ends: the lock is free and its client can read the result. *)
End(n, ok) ==
  /\ op' = [op EXCEPT ![n] = NoOp]
  /\ client' = [c \in Clients |->
       IF op[n].by = c THEN [client[c] EXCEPT !.outcome = IF ok THEN "ok" ELSE "failed"]
       ELSE client[c]]

(* The cluster changed after the other operations began their check.       *)
Disturb(o, but) == [n \in Ids |-> [o[n] EXCEPT !.stale = @ \/ n # but]]

----------------------------------------------------------------------------
(* Observing the cluster                                                   *)

(* Member list and the leader's committed index; the first observation has *)
(* only the local endpoint, later ones those of the previous evidence.  A  *)
(* preparation has read the image of the static manifest before.           *)
observeUpgradeEtcd(n) ==
  /\ op[n].pc = "barrier"
  /\ LET seen == Serving(etcd) /\ (op[n].round = "prepare" => etcd.up[n])
         obs  == [members |-> etcd.members, learners |-> etcd.learners,
                  leader |-> etcd.leader, barrier |-> etcd.commit, ok |-> {}, rev |-> 0]
     IN  op' = [op EXCEPT ![n] =
                  [@ EXCEPT !.pc = "probe", !.obs = IF seen THEN obs ELSE NoObs,
                            !.todo = IF seen THEN etcd.members ELSE {},
                            !.cont = IF etcd.up[n] THEN etcd.cont[n] ELSE 0,
                            !.source = etcd.manifest[n],
                            !.acked = etcd.commit, !.stale = FALSE]]
  /\ UNCHANGED <<etcd, gen, prep, client, wipe, writes, faults>>

(* One member, through its own endpoint.  A linearizable read succeeds     *)
(* only with a quorum, never on a learner, and returns once the member has *)
(* applied what was committed; a member that lags may time out instead.    *)
observeUpgradeMember(n) ==
  /\ op[n].pc = "probe" /\ op[n].todo # {}
  /\ LET m == Min(op[n].todo)
         good == /\ etcd.up[m] /\ m \in Voters(etcd) /\ Serving(etcd)
                 /\ etcd.leader = op[n].obs.leader /\ etcd.commit >= op[n].obs.barrier
     IN  \E ok \in {good, good /\ etcd.applied[m] = etcd.commit} :
           /\ op' = [op EXCEPT ![n] =
                [@ EXCEPT !.todo = @ \ {m},
                          !.obs.ok = IF ok THEN @ \cup {m} ELSE @,
                          !.obs.rev = IF ok THEN etcd.commit ELSE @]]
           /\ etcd' = IF ok THEN [etcd EXCEPT !.applied[m] = etcd.commit] ELSE etcd
  /\ UNCHANGED <<gen, prep, client, wipe, writes, faults>>

(* M: half of the members is enough. *)
SurvivorsSufficeHalf(k) == k - 1 >= k \div 2
SurvivorsSuffice(k) == k - 1 >= k \div 2 + 1

(* Complete evidence, the members seen before, all of them healthy voters, *)
(* and enough of them left when this one restarts.                         *)
validateUpgradeEtcd(n, obs, previous, restarting) ==
  LET k == Cardinality(obs.members)
  IN  /\ obs.members # {} /\ obs.leader # None
      /\ previous # {} => obs.members = previous
      /\ obs.learners = {} /\ obs.ok = obs.members /\ n \in obs.members
      /\ restarting /\ k > 1 => SurvivorsSuffice(k)

(* The local container is identified before and after the observation.     *)
observeEtcd(n) == op[n].cont # 0 /\ etcd.up[n] /\ etcd.cont[n] = op[n].cont

----------------------------------------------------------------------------
(* Preparation on one node                                                 *)

(* The running image must be the manifest's.                               *)
prepareUpgradeEtcd(n) ==
  /\ op[n].pc = "probe" /\ op[n].todo = {} /\ op[n].round = "prepare"
  /\ IF /\ observeEtcd(n) /\ validateUpgradeEtcd(n, op[n].obs, {}, TRUE)
        /\ etcd.image[n] = op[n].source
     THEN op' = [op EXCEPT ![n].pc = "save"] /\ UNCHANGED client
     ELSE End(n, FALSE)
  /\ UNCHANGED <<etcd, gen, prep, wipe, writes, faults>>

(* The snapshot is taken from the endpoint of the leader seen before,      *)
(* which may lead no longer.                                               *)
prepareKubeadmUpgradeSnapshot(n) ==
  /\ op[n].pc = "save"
  /\ LET l == op[n].obs.leader
     IN  IF etcd.up[l] /\ etcd.up[n]
         THEN op' = [op EXCEPT ![n].pc = "status", ![n].snap = etcd.applied[l]]
              /\ UNCHANGED client
         ELSE End(n, FALSE)
  /\ UNCHANGED <<etcd, gen, prep, wipe, writes, faults>>

SnapshotCurrent(n) == op[n].snap >= op[n].obs.rev

recordSnapshotStatus(n) ==
  /\ op[n].pc = "status"
  /\ prep' = IF SnapshotCurrent(n)
             THEN [prep EXCEPT ![n] = [members |-> op[n].obs.members, cont |-> op[n].cont,
                                       snap |-> op[n].snap, acked |-> op[n].obs.rev,
                                       changes |-> op[n].source # "target"]]
             ELSE prep
  /\ End(n, SnapshotCurrent(n))
  /\ UNCHANGED <<etcd, gen, wipe, writes, faults>>

----------------------------------------------------------------------------
(* Upgrade of one node                                                     *)

checkBeforeRestart(n) ==
  /\ op[n].pc = "probe" /\ op[n].todo = {} /\ op[n].round = "restart"
  /\ IF observeEtcd(n) /\ validateUpgradeEtcd(n, op[n].obs, prep[n].members, TRUE)
     THEN op' = [op EXCEPT ![n].pc = "kubeadm"] /\ UNCHANGED client
     ELSE End(n, FALSE)
  /\ UNCHANGED <<etcd, gen, prep, wipe, writes, faults>>

Stopped(e, n) == [e EXCEPT !.up[n] = FALSE, !.leader = IF @ = n THEN None ELSE @]

(* Kubeadm writes the new manifest and the kubelet stops the old container *)
(* if the manifest changed; kubeadm may also fail, before it or after.     *)
NewManifest(e, n) ==
  IF e.manifest[n] = "target" THEN e ELSE [Stopped(e, n) EXCEPT !.manifest[n] = "target"]
runKubeadmUpgradeCommand(n) ==
  /\ op[n].pc = "kubeadm"
  /\ \/ /\ etcd' = NewManifest(etcd, n)
        /\ op' = Disturb([op EXCEPT ![n].pc = "barrier", ![n].round = "return"], n)
        /\ UNCHANGED <<client, faults>>
     \/ Fault /\ End(n, FALSE) /\ etcd' \in {etcd, NewManifest(etcd, n)}
  /\ UNCHANGED <<gen, prep, wipe, writes>>

TargetReturned(n) ==
  /\ observeEtcd(n) /\ validateUpgradeEtcd(n, op[n].obs, prep[n].members, FALSE)
  /\ etcd.image[n] = "target" /\ (prep[n].changes => etcd.cont[n] # prep[n].cont)

DeadlineReached(n) == op[n].tries = MaxTries

(* Poll until the member is back on the target image, or until the two     *)
(* minutes are over; then the generation is committed.                     *)
waitUpgradeEtcd(n) ==
  /\ op[n].pc = "probe" /\ op[n].todo = {} /\ op[n].round = "return"
  /\ IF TargetReturned(n) THEN gen' = [gen EXCEPT ![n] = "target"] /\ End(n, TRUE)
     ELSE /\ UNCHANGED gen
          /\ IF DeadlineReached(n) THEN End(n, FALSE)
             ELSE /\ op' = [op EXCEPT ![n].pc = "barrier",
                                      ![n].tries = Min({@ + 1, MaxTries})]
                  /\ UNCHANGED client
  /\ UNCHANGED <<etcd, prep, wipe, writes, faults>>

----------------------------------------------------------------------------
(* The rollout                                                             *)

(* Every node is inspected; the ones on the target version are left out.   *)
connectKubernetesUpgradeTargets(c) ==
  /\ client[c].pc = "connect"
  /\ LET pending == {n \in etcd.members : gen[n] = "source"}
     IN  client' = [client EXCEPT ![c].pc = "prepare", ![c].all = pending,
                                  ![c].todo = pending]
  /\ UNCHANGED <<etcd, gen, op, prep, wipe, writes, faults>>

(* The agent admits one operation at a time, and only for the generation   *)
(* the client saw.                                                         *)
Admitted(n, kind) == op[n].kind = "none" /\ gen[n] = "source"

Submit(c, n, kind, round) ==
  IF Admitted(n, kind)
  THEN /\ op' = [op EXCEPT ![n] = [NoOp EXCEPT !.kind = kind, !.by = c, !.pc = "barrier",
                                               !.round = round]]
       /\ client' = [client EXCEPT ![c].pc = kind, ![c].outcome = ""]
  ELSE client' = [client EXCEPT ![c].pc = "stopped"] /\ UNCHANGED op

prepareKubernetesUpgradeTarget(c) ==
  /\ client[c].pc = "prepare"
  /\ IF client[c].todo = {}
     THEN /\ client' = [client EXCEPT ![c].pc = "upgrade", ![c].todo = client[c].all]
          /\ UNCHANGED op
     ELSE Submit(c, Min(client[c].todo), "kubeadm-upgrade-prepare", "prepare")
  /\ UNCHANGED <<etcd, gen, prep, wipe, writes, faults>>

runKubernetesUpgradeTarget(c) ==
  /\ client[c].pc = "upgrade"
  /\ IF client[c].todo = {}
     THEN client' = [client EXCEPT ![c].pc = "complete"] /\ UNCHANGED op
     ELSE Submit(c, Min(client[c].todo), "kubeadm-upgrade", "restart")
  /\ UNCHANGED <<etcd, gen, prep, wipe, writes, faults>>

Advances(outcome) == outcome = "ok"

(* The terminal status is read; anything but success stops the rollout.    *)
waitKubernetesUpgrade(c) ==
  /\ client[c].pc \in {"kubeadm-upgrade-prepare", "kubeadm-upgrade"}
  /\ client[c].outcome # ""
  /\ client' = [client EXCEPT ![c] =
       IF Advances(@.outcome)
       THEN [@ EXCEPT !.todo = @ \ {Min(@)},
                      !.pc = IF @ = "kubeadm-upgrade" THEN "upgrade" ELSE "prepare"]
       ELSE [@ EXCEPT !.pc = "stopped"]]
  /\ UNCHANGED <<etcd, gen, op, prep, wipe, writes, faults>>

(* The client's own wait times out or katlctl is interrupted; the agent    *)
(* goes on.                                                                *)
ClientGone(c) ==
  /\ client[c].pc \in {"kubeadm-upgrade-prepare", "kubeadm-upgrade"}
  /\ Fault /\ client' = [client EXCEPT ![c].pc = "stopped"]
  /\ UNCHANGED <<etcd, gen, op, prep, wipe, writes>>

----------------------------------------------------------------------------
(* Removal of a member                                                     *)

(* One request of collectEtcdStatus, sent through the coordinator's        *)
(* container: the local member's view of the leader, then the member list, *)
(* which needs a quorum, then each listed member's health, a linearizable  *)
(* read that a learner refuses.  The first two must succeed.               *)
Asked(s) ==
  LET up == etcd.up[wipe.coord]
  IN  CASE s.at = "status" ->
             IF up THEN [s EXCEPT !.at = "list", !.leader = etcd.leader]
             ELSE [s EXCEPT !.at = "error"]
        [] s.at = "list" ->
             IF up /\ Serving(etcd)
             THEN [s EXCEPT !.at = "health", !.members = etcd.members, !.todo = etcd.members]
             ELSE [s EXCEPT !.at = "error"]
        [] OTHER ->
             LET m == Min(s.todo)
             IN  [s EXCEPT !.todo = @ \ {m},
                           !.healthy = IF up /\ Serving(etcd) /\ m \in Voters(etcd) /\ etcd.up[m]
                                       THEN @ \cup {m} ELSE @]
Collected(s) == s.at = "error" \/ (s.at = "health" /\ s.todo = {})

(* The client's status and the executor's two are collected the same way;  *)
(* what changes after the first request of one makes it stale.             *)
Collecting == wipe.pc = "planning" \/ (wipe.pc = "submitted" /\ op[wipe.coord].pc \in {"preflight", "postflight"})
collectEtcdStatus ==
  /\ Collecting /\ ~Collected(wipe.status)
  /\ wipe' = [wipe EXCEPT !.status = Asked(@)]
  /\ op' = [op EXCEPT ![wipe.coord].stale = @ /\ wipe.status.at # "status"]
  /\ UNCHANGED <<etcd, gen, prep, client, writes, faults>>

(* The quorum is counted over all members.                                 *)
RemovalSafe(s, t) ==
  /\ Cardinality(s.healthy) >= Cardinality(s.members) \div 2 + 1
  /\ Cardinality(s.healthy \ {t}) >= (Cardinality(s.members) - 1) \div 2 + 1

(* katlctl asks the coordinator for its status and plans the removal.      *)
StartRemovalPlan ==
  /\ Removals /\ wipe.pc = "none"
  /\ \E c, t \in etcd.members :
       c # t /\ wipe' = [wipe EXCEPT !.pc = "planning", !.coord = c, !.target = t]
  /\ UNCHANGED <<etcd, gen, op, prep, client, writes, faults>>

planEtcdRemovalState ==
  /\ wipe.pc = "planning" /\ Collected(wipe.status)
  /\ LET s == wipe.status
         ok == s.at # "error" /\ wipe.target \in s.members /\ RemovalSafe(s, wipe.target)
     IN  wipe' = [wipe EXCEPT !.pc = IF ok THEN "planned" ELSE "refused",
                              !.count = Cardinality(s.members), !.status = NoStatus]
  /\ UNCHANGED <<etcd, gen, op, prep, client, writes, faults>>

submitEtcdRemoval ==
  /\ wipe.pc = "planned"
  /\ IF op[wipe.coord].kind = "none"
     THEN /\ op' = [op EXCEPT ![wipe.coord] =
                      [NoOp EXCEPT !.kind = "etcd-member-remove", !.pc = "preflight"]]
          /\ wipe' = [wipe EXCEPT !.pc = "submitted"]
     ELSE wipe' = [wipe EXCEPT !.pc = "refused"] /\ UNCHANGED op
  /\ UNCHANGED <<etcd, gen, prep, client, writes, faults>>

RemovalEnd(result) ==
  /\ op' = [op EXCEPT ![wipe.coord] = NoOp]
  /\ wipe' = [wipe EXCEPT !.pc = result]

validateEtcdRemovalPreconditions(s) ==
  /\ s.at # "error" /\ Cardinality(s.members) = wipe.count
  /\ wipe.target \in s.members /\ RemovalSafe(s, wipe.target)

NeedsLeaderMove == wipe.status.leader = wipe.target

RemovePreflight ==
  /\ op[wipe.coord].pc = "preflight" /\ Collected(wipe.status)
  /\ IF validateEtcdRemovalPreconditions(wipe.status) /\ etcd.up[wipe.coord]
     THEN /\ op' = [op EXCEPT ![wipe.coord].pc = IF NeedsLeaderMove THEN "move" ELSE "remove"]
          /\ wipe' = [wipe EXCEPT !.status = NoStatus]
     ELSE RemovalEnd("refused")
  /\ UNCHANGED <<etcd, gen, prep, client, writes, faults>>

moveLeader ==
  /\ op[wipe.coord].pc = "move"
  /\ IF etcd.leader = wipe.target /\ etcd.up[wipe.coord] /\ Serving(etcd)
     THEN /\ etcd' = [etcd EXCEPT !.leader = wipe.coord]
          /\ op' = [op EXCEPT ![wipe.coord].pc = "remove"] /\ UNCHANGED wipe
     ELSE RemovalEnd("failed") /\ UNCHANGED etcd
  /\ UNCHANGED <<gen, prep, client, writes, faults>>

executeEtcdMemberRemove ==
  /\ op[wipe.coord].pc = "remove"
  /\ IF etcd.up[wipe.coord] /\ Serving(etcd) /\ wipe.target \in etcd.members
     THEN /\ etcd' = [Stopped(etcd, wipe.target) EXCEPT !.members = @ \ {wipe.target},
                                                        !.learners = @ \ {wipe.target}]
          /\ op' = Disturb([op EXCEPT ![wipe.coord].pc = "postflight"], wipe.coord)
          /\ UNCHANGED wipe
     ELSE RemovalEnd("failed") /\ UNCHANGED etcd
  /\ UNCHANGED <<gen, prep, client, writes, faults>>

PostflightHolds(s) ==
  /\ s.at # "error"
  /\ Cardinality(s.members) = wipe.count - 1 /\ wipe.target \notin s.members
  /\ Cardinality(s.healthy) >= Cardinality(s.members) \div 2 + 1

RemovePostflight ==
  /\ op[wipe.coord].pc = "postflight" /\ Collected(wipe.status)
  /\ RemovalEnd(IF PostflightHolds(wipe.status) THEN "succeeded" ELSE "failed")
  /\ UNCHANGED <<etcd, gen, prep, client, writes, faults>>

Removal ==
  /\ wipe.pc = "submitted"
  /\ RemovePreflight \/ moveLeader \/ executeEtcdMemberRemove \/ RemovePostflight

----------------------------------------------------------------------------
(* Etcd itself                                                             *)

(* A write is committed by a quorum; each member applies it in its own     *)
(* time, the leader too.                                                   *)
Write ==
  /\ Serving(etcd) /\ writes < MaxWrites /\ writes' = writes + 1
  /\ \E q \in SUBSET {m \in Voters(etcd) : etcd.up[m]} :
       etcd' = [etcd EXCEPT !.commit = @ + 1,
                  !.applied = [m \in Ids |-> IF m \in q THEN etcd.commit + 1 ELSE @[m]]]
  /\ UNCHANGED <<gen, op, prep, client, wipe, faults>>

(* A voter is elected when there is no leader, or takes over.              *)
Elect ==
  /\ Quorum(etcd)
  /\ IF etcd.leader = None THEN UNCHANGED faults ELSE Fault
  /\ \E m \in Voters(etcd) \ {etcd.leader} :
       etcd.up[m] /\ etcd' = [etcd EXCEPT !.leader = m]
  /\ op' = [n \in Ids |-> [op[n] EXCEPT !.stale = @ \/ op[n].kind = "etcd-member-remove"]]
  /\ UNCHANGED <<gen, prep, client, wipe, writes>>

Crash ==
  /\ Fault /\ \E m \in etcd.members : etcd.up[m] /\ etcd' = Stopped(etcd, m)
  /\ op' = Disturb(op, None) /\ UNCHANGED <<gen, prep, client, wipe, writes>>

(* The kubelet starts a new container from the static manifest.            *)
Recover ==
  /\ \E m \in etcd.members :
       ~etcd.up[m] /\ etcd' = [etcd EXCEPT !.up[m] = TRUE, !.cont[m] = @ + 1,
                                           !.image[m] = etcd.manifest[m]]
  /\ UNCHANGED <<gen, op, prep, client, wipe, writes, faults>>

(* kubeadm join adds a learner, which is promoted later.                   *)
Join ==
  /\ Serving(etcd) /\ Fault
  /\ \E m \in Ids \ etcd.members :
       /\ etcd.applied[m] = 0
       /\ etcd' = [etcd EXCEPT !.members = @ \cup {m}, !.learners = @ \cup {m},
                               !.up[m] = TRUE, !.applied[m] = etcd.commit]
  /\ op' = Disturb(op, None) /\ UNCHANGED <<gen, prep, client, wipe, writes>>
Promote ==
  /\ Serving(etcd)
  /\ \E m \in etcd.learners : etcd' = [etcd EXCEPT !.learners = @ \ {m}]
  /\ op' = Disturb(op, None) /\ UNCHANGED <<gen, prep, client, wipe, writes, faults>>

Agent(n) ==
  \/ observeUpgradeEtcd(n) \/ observeUpgradeMember(n) \/ prepareUpgradeEtcd(n)
  \/ prepareKubeadmUpgradeSnapshot(n) \/ recordSnapshotStatus(n) \/ checkBeforeRestart(n)
  \/ runKubeadmUpgradeCommand(n) \/ waitUpgradeEtcd(n)
Client(c) ==
  \/ connectKubernetesUpgradeTargets(c) \/ prepareKubernetesUpgradeTarget(c)
  \/ runKubernetesUpgradeTarget(c) \/ waitKubernetesUpgrade(c)
Environment == Write \/ Elect \/ Crash \/ Recover \/ Join \/ Promote

Next ==
  \/ \E n \in Ids : Agent(n)
  \/ \E c \in Clients : Client(c) \/ ClientGone(c)
  \/ StartRemovalPlan \/ collectEtcdStatus \/ planEtcdRemovalState
  \/ submitEtcdRemoval \/ Removal
  \/ Environment

Spec == Init /\ [][Next]_vars

----------------------------------------------------------------------------
(* Properties                                                              *)

TypeOK ==
  /\ etcd.members \subseteq Ids /\ etcd.learners \subseteq etcd.members
  /\ etcd.leader \in {None} \cup Voters(etcd) /\ etcd.commit \in 1..(MaxWrites + 1)
  /\ \A m \in Ids : etcd.applied[m] \in 0..etcd.commit
  /\ gen \in [Ids -> {"source", "target"}]
  /\ \A n \in Ids : op[n].todo \subseteq Ids /\ op[n].tries \in 0..MaxTries
  /\ faults \in 0..MaxFaults

Restarts(n) == op[n].pc = "kubeadm" /\ op'[n].round = "return"
Removes ==
  /\ wipe.pc = "submitted"
  /\ op[wipe.coord].pc = "remove" /\ op'[wipe.coord].pc = "postflight"

(* Restarting a voter takes the cluster's quorum away only if the cluster  *)
(* changed after the check that allowed it began, or has a single voter    *)
(* (validateUpgradeEtcd, checkUpgradeEtcd).                                *)
RestartKeepsQuorum ==
  \A n \in Ids : Restarts(n) /\ ~op[n].stale /\ Cardinality(etcd.members) > 1
     => Quorum(etcd')

(* What was committed before the check is on every remaining voter of the  *)
(* evidence when the local one stops (observeUpgradeMember).               *)
SurvivorsHaveEarlierWrites ==
  \A n \in Ids : Restarts(n)
     => \A m \in op[n].obs.members \ {n} : etcd.applied[m] >= op[n].acked

(* At most one voter is between its restart and the end of its operation,  *)
(* however many rollouts run: locks are per node, and it is the common     *)
(* order and the expected generation that keep rollouts apart.             *)
OneVoterRestarting ==
  \A n, m \in Ids : op[n].round = "return" /\ op[m].round = "return" => n = m

(* Removing a member leaves a quorum unless the cluster changed after the  *)
(* preflight's first request (validateEtcdRemovalPreconditions).           *)
RemovalKeepsQuorum ==
  Removes /\ ~op[wipe.coord].stale => Quorum(etcd')

(* The removed member does not lead, unless an election came in between.   *)
RemovalSparesLeader ==
  Removes /\ ~op[wipe.coord].stale => etcd.leader # wipe.target

(* A removal that is reported done has really shrunk the membership by     *)
(* exactly that member, unless the cluster changed while it was read.      *)
SucceededRemovalIsSeen ==
  wipe.pc = "submitted" /\ wipe'.pc = "succeeded" /\ ~op[wipe.coord].stale
     => Cardinality(etcd.members) = wipe.count - 1 /\ Serving(etcd)

(* A prepared snapshot holds every revision some member showed to the      *)
(* preparation, though it is read from a leader that may have been         *)
(* replaced (recordSnapshotStatus).                                        *)
SnapshotHoldsObservedWrites == \A n \in Ids : prep[n].snap >= prep[n].acked

(* A committed target generation belongs to a member that runs the target  *)
(* image, in a new container where the image was to change                 *)
(* (waitUpgradeEtcd).                                                      *)
CommittedMemberReturned ==
  \A n \in Ids : gen[n] = "source" /\ gen'[n] = "target"
     => /\ etcd.up[n] /\ etcd.image[n] = "target" /\ etcd.applied[n] >= op[n].acked
        /\ prep[n].changes => etcd.cont[n] # prep[n].cont

=============================================================================
