# KatlOS: a TLA+ verification project

KatlOS is an immutable operating system for Kubernetes nodes. A node runs a
*generation*: a root image in one of two slots, extensions and configuration. A
node agent creates new generations and changes the cluster through *operations*,
which it records durably; boot services decide whether a generation that booted is
good, and what boots when it is not; an installer writes the first generation, and
the client `katlctl` drives operations on several nodes.

This project models the logic that carries the system and is hard to test: what
may be interrupted, retried, raced or lost. Paths below are relative to `src/`.

## 1. Inventory

| Component | State it keeps | Operations | What makes it correct |
|---|---|---|---|
| Operation store, `internal/installer/operation` | a directory per operation: `journal/<seq>.<event>.json`, snapshot `record.json`, `.lock` | Create, Update, Read, List | the journal is one linear history; what was acknowledged survives; terminal is final; readers see the latest |
| Generation records, `internal/generation` | specification and status per generation, loader entries, `boot/selection.json`, EFI variables | publish, record, promote, fail, select, remove, prune, invalidate, arm | every pointer is bootable; acknowledged changes are what boots; records belong together |
| Boot services and units, `cmd/katl-boot-health`, `cmd/katl-generation-activate`, `internal/installer/...units` | `/run/katl/boot-health/pending`, unit states | activate, report, deadline, reboot | a trial is decided once; one automatic reboot; units see the configuration made for them |
| Agent: admission and dispatch, `internal/katlc/agent/server.go`, `executor.go` | operation records, submit mutex, mutation lock, goroutines | submit, dispatch, reboot, shutdown, startup audit | no two conflicting operations; a retried request is the same operation; nothing is forgotten |
| Agent: bootstrap and joins | kubeadm state, identities, receipts | init, join, enroll, continue | nothing is run twice after a crash |
| Agent: Kubernetes upgrade, etcd, kubeadm configuration | manifests, etcd membership, sysext | prepare, apply, restore, remove | one member at a time, gates before the switch, failures undone or reported |
| Agent: host upgrade | inactive slot, UKI, candidate | plan, stage, arm, maintain | a slot is overwritten only when nothing can boot it; a failure tells how far it got |
| Configuration bundles, `internal/installer/configbundle`, `clusterplan` | ClusterConfig, files beside it, registry tags, the archive | compile, read, resolve, diff | a node gets the entries of its own layers and payloads of its own release; what is read is one compilation |
| Agent: configuration, `configapply`, volumes | candidate, audit, bindings | plan, apply live, stage, roll back | all or nothing; versions go forward; data is kept |
| Installer, `internal/installer` | request, status, disk | submit, run, write | an installed disk is the one requested, and boots |
| Cluster bootstrap client, `internal/bootstrap` | progress over several nodes | plan, check, bootstrap, join, resume | one cluster, init on one node only |
| Node commands, `cmd/katlctl` | what a command has read of the node | upgrade, apply, reboot, shutdown, join, watch | a request reaches only the installation it was meant for; what a command reports is so |
| Management authority, `internal/managementidentity`, `internal/nodeidentity` | secrets files of the operator, credentials and their versions on a node | create, extend, export, import, rotate | the operator is never locked out; the reference is switched last |
| Wiping nodes, `cmd/katlctl`, destructive reset | etcd membership, Node objects, the machines | preflight, remove, reset | nothing is destroyed unless every target will do; quorum is kept |
| API address `internal/installer/apivip`, API proxy `internal/apiproxy` | address ownership; backend pool | pass, stop; monitor, forward | an unhealthy node gives the address up; eligible backends are tried |

**Interactions.** The executor of the agent runs one mutating operation at a time
and writes its progress to the operation store. Generations and boot selection are
shared between the agent and the boot services, which are separate processes with
only the flock of `withStateLock` between them. The firmware variables are written
through `bootctl` and read by systemd-boot alone. The boot services talk to each
other through systemd and a file in `/run`. `katlctl` sees a node only through the
agent's API: it submits, polls, and may be killed and run again between any two
calls. The installer and a host upgrade use the same image format and slot writer.

**What is hard.** Readers of the store take no lock and repair the snapshot. Four
durable places (statuses, entries, selection, firmware) change one at a time, so
every order of writes is exposed to power loss and errors. Two procedures of the
agent change the selection without the lock. Three services may decide the same
boot. Interrupted operations are recovered by a process that only has the records.
An etcd cluster changes between the checks of a rollout and what they allow.
`PROJECT.json` lists each hazard at its line, with the properties about it.

## 2. Modules

### One module per component

| Module | Models |
|---|---|
| `OperationRecords`, `OperationStore` | the fields of a record that decide what may follow it, and one operation directory with the processes that use it |
| `OperationLog` | the abstract specification of the store: an append-only log with an acknowledged prefix |
| `BootSelection` | status and selection records; machine, firmware, boot services and agent changing them |
| `GenerationSpecs`, `GenerationStore` | validation, digests and conversion of a specification; two writers that publish records, and activation |
| `SystemUnits`, `BootUnits` | every rendered unit with its dependencies and conditions; systemd starting them |
| `AgentOperations` | submissions, records, executors, startup audit, reboot and shutdown |
| `BootstrapOperation` | one node initialized, joined or enrolled, step by step |
| `KubeadmUpgrade` | one Kubernetes upgrade on one node |
| `EtcdChanges` | rollouts over the etcd members and the removal of one |
| `KubeadmConfigOperation` | a changed kubeadm configuration over the nodes |
| `ConfigBundle` | from a ClusterConfig to the configuration of one node: layers, files and registry, the archive, what is read back, reports and comparisons |
| `ConfigPlan`, `ConfigPlanning`, `ConfigRequests` | how a change is judged; planned twice; requested of an agent that crashes |
| `HostConfigurationApply` | the live apply with its commands and rollback |
| `VolumeTransitions` | which device a volume means; changing the volumes of a node |
| `InstallerFlow`, `DiskInstall`, `KatlosImages` | the installer's requests and attempts; the disk it writes; images, downloads and uploads |
| `HostUpgrade`, `UpgradePlans` | the upgrade of the host as steps; the generation it plans |
| `BootstrapInventory`, `ClusterBootstrap` | planning a cluster from an inventory; the clients that carry it out |
| `NodeCommands` | the commands about one node, call by call, while the node changes |
| `ManagementTrust` | the authority of the management plane, on the workstation and on the nodes |
| `ClusterWipe` | cluster and node wipes by several operators, and the reset they submit |
| `ApiVip`, `ApiProxy` | the controller of the API address; the API proxy of a node |

`OperationStoreProofs`, `BootSelectionProofs`, `GenerationStoreProofs`,
`AgentOperationsProofs`, `ApiVipProofs`, `KubeadmUpgradeProofs` and
`ManagementTrustProofs` hold the theorems. The map from definitions to lines is in `PROJECT.json`: for each source line the
definition that stands for it; helpers that model parts of the same lines are not
listed apart. Each module starts with what it models and what it abstracts.

### How the modules model the code

A variable is a piece of state that outlives a call (a file, a record, a kernel
object) or the place where a program is. An action is one handler, or one step of
it between two points where somebody else can look: a write, a command, a lock, a
record update. Names of operators are the names of the functions they stand for.
*Faults* are part of the actions: a failing command, a failing record update, a
crash of the agent, a reboot, a power loss, each counted against a named bound.

Some details that matter:

* `OperationStore` splits `Create`, `Update` and `Read` at making the directory,
  taking the lock, reading journal and snapshot, linking the event file, the
  fsyncs and the rename of the snapshot. `PowerLoss` keeps what was fsynced and, of
  the rest, a prefix of the journal and either snapshot. Assumption: the file
  system keeps the order of directory updates. A digest is the set of events
  digested; temporary files, which no reader opens, are left out.
* `BootSelection`: a procedure reads the records, decides, and then writes. An
  action reads and decides, and leaves the writes in `plan[p]`; `Write(p)` makes
  them one at a time, `Drop(p)` removes a generation, `EfiError(p)` lets a `bootctl`
  call fail before or after its effect and continues with the compensation the code
  makes. Between two writes other programs run, unless they need the lock, and
  the power may go. `CommitTrial` and `ArmUpgrade` take no lock, as in the code.
  File writes are atomic renames of synced files; the two files of a generation
  are one write here, and two in `GenerationStore`.
* `AgentOperations` takes a record update as one step, which `OperationStore`
  justifies; what an operation does inside is left to the other modules, and the
  exclusion they assume between operations of one node is `OneOperation` here.
* `EtcdChanges` separates every request of an observation, so that members write,
  crash, elect and join between the check and the change.
* `NodeCommands` splits a command at every call to the agent; the node's address may
  lead to another machine or another installation at the next call. `ManagementTrust`
  splits commands at every file and every node, and a rotation on the node at staging,
  switching the link and restarting. `ClusterWipe` takes an etcd removal on its
  coordinator as one step, which `EtcdChanges` has in detail.
* `BootUnits` starts units in every order systemd allows. Limits: a oneshot unit
  is started at most once, and a hang before `sysinit.target` is outside the reach
  of the deadline timer.

### Composition

`MCAgent`, `MCCluster`, `MCKubernetes`, `MCConfiguration`, `MCInstall`,
`MCGenerations` and `MCClient` each bring together the components of one area and give their
constants values. The components of an area do not share variables of the code, so
a behaviour runs one of them: `part` says which, and the variables the others own
have the value `Off`. Variables of two components with the same name are one
variable. `MCAgent`, `MCCluster`, `MCKubernetes`, `MCGenerations`, `MCInstall` and `MCClient`
extend the component that is proved about (`AgentOperations`, `ApiVip`,
`KubeadmUpgrade`, `GenerationStore`, `InstallerFlow`, `ManagementTrust`), so that TLC evaluates its
assumptions and checks the very definitions its theorems name; while another part
runs, its variables keep an initial value. The other components are instantiated.
The properties of the composed modules are those of the extended component and
conjunctions over the other parts; each conjunct is defined, with its comment, in
the module of the component.

Operators named in a comment starting with `M:` are plausible wrong versions of
the definition that follows them; each property is seen to fail with one of them.

## 3. Runs

| Run | Properties |
|---|---|
| `operation_store` | `JournalLinear`: the journal is a legal history without gaps. `AckDurable`: acknowledged events survive a power loss. `ReadFresh`: a read returns at least what was acknowledged when it began. `TerminalIsFinal`. `ImplementsOperationLog`: the store implements `OperationLog` |
| `boot_selection` | `PointersBootable`: default, fallback and trial can be booted. `AcknowledgedIsNext`: what an operation reported to be staged is what boots. `OneAutomaticReboot`: one trial causes at most one reboot of its own. `RecordedBootIsRunning`: the boot on record is the one that runs. `ArmedTrialDecided`: an armed trial is decided even if the health service hangs |
| `generations` | `UnitsInOrder`: a boot marked healthy activated its generation, units see their configuration, and every boot ends healthy, in recovery or rebooted. `RecordsBelongTogether`, `RecordsOnlyAdvance`: specification and status of a generation match, a published specification never changes and its status only moves along the transitions; what an activation links is one whole, verified generation, and an unproven one keeps its Kubernetes |
| `agent` | `OneOperation`: no two executors mutate at once and a request id is one operation. `OperationAccounted`: an accepted operation ends or is reported. `AcceptedOnCurrentBase`. `BootstrapAttemptsSafe`: kubeadm is started once, what follows a crash depends on what was recorded, a node is promoted to the candidate of its own operation |
| `kubernetes` | `UpgradeGated`, `UpgradeCommits`: the target kubelet runs after kubeadm, the address is withdrawn during the change, a commit means that the switch is complete. `OneNodeAtATime`, `EtcdChangesSafe`: quorum is not put at risk by the change, a removed member is the one asked for. `ConfigReachesNodes`: a finished apply is in force on every node |
| `cluster` | `PlanMeansOneCluster`, `BootstrapInOrder`: an accepted inventory is one cluster, init is done on one node, before the joins, which join the cluster planned. `AddressFailsClosed`: an unhealthy or dead controller does not keep the address. `TakenWhenHealthy`: it is taken only when the probes asked for succeeded in a row. `ProxySettles` |
| `configuration` | `PlannedModeSafe`, `ResultsTell`: a change is applied live only when every changed domain allows it, and planned again it is no change; a bundle holds for a node what its layers say and payloads of its release, and what is read of it is one compilation, whole. `LiveApplyAllOrNothing`. `AppliesGoForward`: a version has one decision. `VolumesKeepData`: a name moves to another device only with authority, data disappear only when a wipe was asked for |
| `install` | `InstallHonest`: a changed disk is on record under the request that changed it, the reboot is asked for and the node handed over only when one request filled the whole disk, an automatic install has its own keys and honours the halt flag. `InstallStepsSafe`: an attempt is retried only with the disk as it was, a final status stays, a request under way is not replaced, no other disk is written. `ImagesAndDisksSound`. `UpgradeHonest`: an armed slot was verified and holds what was planned, a failure tells how far it got |
| `client` | `RequestsAimed`: a command changes only the installation and generation it read, a wipe destroys only what it looked at and never costs etcd its quorum. `ReportsTrue`: an upgrade, reboot or wipe reported done is done. `AccessKept`: however a rotation is interrupted, a node serves one whole set of credentials and the operator holds its authority. `ReferenceLast`: the ClusterConfig is switched when every node has |
| `boot_trial_power_loss` | violated: `UnstartedTrialReported` |
| `agent_resubmit` | violated: `ResubmitAdmitted` |
| `config_diff` | violated: `TargetOnlyKeepsNode` |

The three violated runs state what a document or a message of the repository says;
`findings` in `PROJECT.json` quotes it.

* Power lost after `selection.json` names a trial and before the one-shot variable
  is set: the default generation boots and `validateBootedSelection` refuses it.
* The agent dies with an accepted host upgrade that mutated nothing. The record
  says "resubmit operation request", keeps its lock and so refuses the request.
* `config diff` reports a change of a node's management address as a target-only
  change that alters nothing on a node. When no Kubernetes address is set it is also
  the address that the API proxies of the nodes, its own included, are given, so
  the configuration of a node changes with it (`clusterplan/compile.go:239`).

`BootSelection` also keeps four formulas that documents suggest and the code does
not guarantee, as definitions (`FailedTrialLeft`, `KnownGoodHasBooted`,
`AcceptedTrialSelected`, `DeadlineSparesHealthyBoot`), with the reason at each.

**Bounds.** `operation_store`: two processes give every race of writer with writer
and with an unlocked reader; three events are needed for a snapshot two events old
and for a transition that undoes what an earlier one recorded; one phase index
(further ones repeat what the marker flag shows). `boot_selection`: three
generations (a default, a fallback and a candidate), two requests, two faults; four
generations and three requests with one fault, and three faults, were explored
without a violation. `agent`: two clients, two request ids, two operations, one
fault (a crash or failed update hits the record, and the second operation meets
what it left); a bootstrap has three operations and three faults, so that a repair
of a repair happens. `kubernetes`: three faults during one upgrade, of every kind in one profile and of
all kinds but a failing record or a dying kubelet in another, under which more is
promised; rollouts over
one to three members and two clients, removals from clusters of two to four
(where quorum changes), three applies with two faults. `configuration`: three
versions, two failing commands and a failing write, three volume changes with a
swapped disk; two compilations with one change of source, files, registry or archive
at any point between or within them, and two nodes read. `install`: two requests, two
starts of the installer, kills and power losses anywhere. `generations`: one
failing or hanging unit per boot; a legacy record, two writers with rival candidates
for one id, one kind of status change, one crash and one damaged payload. `cluster`: two commands,
an init node and two others, reinstalled nodes. `client`: one command about a node
and one change of it from outside, at any point; two commands and two
faults on two nodes with three authorities; two operators wiping two of three
machines with one event, one operator wiping several with two. With the bounds used up nothing may
be left to do, which is why deadlock is not checked in the composed runs.

**Fairness.** Only `ArmedTrialDecided` needs it. `LiveSpec` of `BootSelection` has
weak fairness of the recovery service once the health service failed, of the
deadline and its service, and of the next write, removal or exit of a running
program: systemd starts these units, and the processes block on nothing but the
lock, which is always released. Nothing is assumed of health itself, of requests or
of the firmware. The fairness the other modules state in their own `FairSpec` is
documented there; the composed runs check safety only.

## 4. Proofs

Proved with TLAPS, for every value of the constants.

### The operation store (`OperationStoreProofs`)

For any set of processes, any number of events and phases: `StoreTypeOK`,
`JournalIsLinear`, `AcknowledgedIsDurable`, `ReadsAreFresh` (`Spec => []…`), the action
property `TerminalRecordIsFinal`, and `StoreImplementsLog`: the store implements
`OperationLog` under the mapping `log <- LogOf(files)`, `acked <- Cardinality(acked)`.

None of the invariants is inductive alone. That the journal stays linear when an
event is linked needs that its writer holds the lock, that what it has *seen* is the
whole journal, and that the event it is about to link follows the last one legally,
although unlocked readers may have overwritten the snapshot meanwhile. That what is
acknowledged is durable needs that a writer past the fsync has its event in
`durable`; that reads are fresh needs that `seen` contains what was acknowledged at
the start of the call. `IInv` states these facts per step of a call, and there is one
lemma for each action. For the refinement the events of a linear journal are the
numbers 1 to its size, so linking one is an append and a power loss a cut that keeps
the acknowledged prefix; every other step leaves the log alone.

### Boot selection (`BootSelectionProofs`)

For any number of generations, requests and faults: `TypeCorrect`,
`SelectionAlwaysBoots` (`PointersBootable`), `BootRecordedTruly`
(`RecordedBootIsRunning`), `RebootsOnce` (`OneAutomaticReboot`) and
`AcknowledgedBootsNext` (`AcknowledgedIsNext`), from `Invariance`, `Spec => []IInv`.

The properties are about records that change one write at a time, so `IInv` speaks
of the writes still to come. Every selection in a plan names only generations that
are available and will not be removed by that plan; a plan that removes generations
belongs to a program that holds the lock or to an upgrade of the agent, and comes
after a selection that names none of them; the two procedures without the lock write
selections made from records that no removal can touch meanwhile. A plan that marks
a boot writes about the generation that runs; a reboot by the system spends the
authorization in `/run`, which only a new trial creates. One lemma says what each
procedure plans, one lemma for each action that the invariant is kept.

`AcknowledgedBootsNext` needs `NextBootInv` beside `IInv`. While an operation of the agent
that arms a boot is under way, its loader entry is there and what is left of its plan
*leaves* its generation as the one-shot boot: it is written and no later write of the
plan takes it back, or it is set already. The services may write in between, in any
order, but none of their writes touches the one-shot boot, and a failing `bootctl` call
turns the plan into one that reports no success. When the plan is empty the firmware
has the generation. `NextBootInv` was checked with TLC before it was proved.

Assumptions: `MaxGen`, `MaxFaults` and `MaxRequests` are natural numbers; in
`OperationStore` `MaxSeq` and `MaxPhase` are natural numbers and `NoProc` is not a
process. Each is a named `ASSUME` that TLC evaluates.

### Generation records (`GenerationStoreProofs`)

For any set of writers, of generations on disk, of candidates (rivals under one id
included) and any number of crashes and damaged payloads: `RecordsTogether`
(`RecordsBelongTogether`) and the action property `RecordsAdvance`
(`RecordsOnlyAdvance`), from `GenerationInvariant`.

A publication is two writes and may die between them; whoever comes next finds a
specification without a status. `StoreInv` says that a specification on disk is the
valid one of its id and that a status beside it is about it. `WriterInv` says why
the second write keeps this so: a publisher past its first write holds, in memory,
the specification that is on disk, even when it found it there. `ActivationInv` does
the same for the activation: the record it read is still what a reader finds when it
checks and links, because specifications never change, the links made and the links
still to make are together the plan of the generation, and before the reset the links
are those of the generation activated last. Assumptions: `NamesAssumption` (ids are
not the marker values; no candidate has the id of a legacy record) and
`ExistingAssumption` (the records on disk at the start are valid and of their own id).

### The agent (`AgentOperationsProofs`)

For any set of callers and request ids, any number of operations, crashes and
failing updates: `OperationsExclusive` (`OneOperation`), `OperationsAccounted`
(`OperationAccounted`) and the action property `AcceptedOnCurrent`
(`AcceptedOnCurrentBase`), from `AgentInvariant`.

A caller checks, then creates its record, then hands it to a worker; the agent may
die between any two. `LockInv` and `CreateInv` say that `submitMu` is held from the
checks to the record, so that what was checked is still so when it is created.
`HandInv` says who answers for a record that has no worker yet: one caller, and no
second one. `WorkInv` says what a worker has done from the place where it is (the
marker before the tool, one start of it), `DownInv` that a dead agent has neither
callers nor workers, `AuditInv` what the startup audit has classified before the
agent serves; together they give that no unfinished operation is in nobody's hands
and unclassified. Assumptions (`AgentAssumption`): the kinds are those of the agent,
a caller is not `"none"`, the bounds are natural numbers.

### The API address (`ApiVipProofs`)

For every set of configurations and any number of netlink errors, lost
acknowledgements, kills, restarts and changes of the interface:
`AddressAlwaysFailsClosed` (`AddressFailsClosed`) and the action property
`AddressTakenWhenHealthy` (`TakenWhenHealthy`), from `VipInvariant`.

The decision of a pass is taken on what the pass has read before, while the
interface may change. `ReadIsBound` says that a reading stays an upper bound on what
is there, because only the controller adds the address; `LeftBehind` that an address
of an earlier process is gone after the first pass, or this process ends; and the
count of successes is the length of the row of good probes. Assumptions
(`VipAssumption`): the number of faults is a natural number, `enabled` is a Boolean,
thresholds are integers (0 and negative ones included).

### The Kubernetes upgrade (`KubeadmUpgradeProofs`)

For every set of roles, every profile of fault kinds and any number of faults:
`UpgradeAlwaysGated` (`UpgradeGated`) and the action property `UpgradeCommitsSafely`
(`UpgradeCommits`), from `UpgradeInvariant`.

The invariant relates the step the executor has reached to the record and the host.
`GateInv`: nothing of the target is linked, runs or is committed before the marker
is on disk and kubeadm has run. `AddressInv`: between the withdrawal and the etcd
checks the address is withdrawn. `SwitchInv`: what of the switch is complete at each
step of it. `RepairInv` and `RestoreInv`: what `failKubeadmUpgrade` has put back, or
kept, at each step of its own, given which faults can strike. Assumptions
(`UpgradeAssumption`): the roles are those of the executor, the number of faults is a
natural number.

### The management authority (`ManagementTrustProofs`)

For every list of nodes, every set of authorities and of paths, any number of commands
and of faults: `AccessAlwaysKept` (`AccessKept`) and the action property
`ReferenceSwitchedLast` (`ReferenceLast`), from `TrustInvariant`.

`DiskInv` speaks of one disk and of the set of authorities the workstation has files
of: a certificate lies beside its own authority, a version directory holds the version
it is named after, a session carries one whole set, and past its switch the node uses
that set. The files only grow, so the invariant of a disk survives every command;
`CommandInv` says that a replacement a command works with is the content of the file it
names, which is why it is saved before any node is asked. `RotationInv` says which nodes
are switched: those before the next one, unless they were touched (reinstalled, or
without power) since the command began, and a session that a rotation waits for is its
own or lost, although sessions of stopped commands may still run. `IInv` was checked
with TLC (1.4 million states) before it was proved. Assumptions (`TrustAssumption`): the
nodes are a list, the installed authority is an authority, the store is a path.

### The installer (`InstallerFlowProofs`)

For every set of requests, every earlier installation, any number of starts and of
submissions: `InstallAlwaysHonest` (`InstallHonest`) and the action property
`AttemptsStepSafely` (`AttemptStepSafe`, the installer's part of `InstallStepsSafe`),
from `InstallerInvariant`.

A run may end between any two writes, and what it leaves is read by three others: the
next process of this boot reads the status file, the next boot of the machine the disk,
and the installed system the status on its own partition. `Attempt` and `Beating` say
what the status file says at each step of the plan, in spite of the heartbeat that
writes it concurrently. `Filling` says which parts of the disk are this request's: those
of the steps done, and no part of any other, because the wiping step is behind.
`RecordLast` survives a failing step and a lost power: a readable install record is only
on a disk its request filled, because it is the last thing written. `TargetMeans` ties
the target's status to the partition table it lies in, `Reserved` the API to the request
under way, `Halting` the flag to the place in the plan where it stops the run. `IInv` was
checked with TLC (2 million states) before it was proved. Assumption
(`InstallAssumption`): no request is the marker for none or for half written.

### Only model-checked

* `ArmedTrialDecided`: liveness is out of the prover's reach.
* `UpgradeEnds` and the other fairness properties that modules state.
* The components that a composed `MC` module instantiates: bootstrap, etcd and
  kubeadm configuration, configuration and volumes, disk layout, images and host upgrade,
  units, cluster client and proxy, node commands and
  wipes. The theorems are about a
  component's own `Spec`; what several components do to each other through the
  operation store or the selection is in the modules that share that state.

## 5. Not modelled

* Flags and output of `katlctl`, its shortcuts and support bundles. The commands that
  drive rollouts, applies and bootstraps are in the modules of what they drive.
* Parsing of configuration documents, their schema and the text rendered from them
  (a file's contents are one of a few values), formats of payload bundles and catalogs, the contents of certificates, strict decoding of persisted records: pure
  conversions with tests of their own.
* The operator console (display), the agent API (generated).
* The kernel, systemd's transactions beyond ordering, kubeadm, etcd's protocol:
  external, modelled by how this code uses them.
* The resource lock, image build, VM tests: tooling, not part of a node.
* In the operation store: diagnostic artifacts and `ReconcileBoot`.
* A `status.json` beside a legacy record is written by the model as by the code;
  nothing reads it, so nothing is stated about it.

## 6. Plan

1. Requests the agent refuses (validation in `server.go`), the boot-time host
   configuration, and the derivation of node plans from a cluster inventory.
2. An abstract specification of boot selection (the set of generations a node can
   boot into) that `BootSelection` implements.
3. Proofs: `LiveApplyAllOrNothing` of `HostConfigurationApply`;
   `OverwrittenSlotUnbootable` and `OneCandidate` of `BootSelection`.
