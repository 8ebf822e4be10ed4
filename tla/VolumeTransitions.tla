------------------------- MODULE VolumeTransitions -------------------------
(***************************************************************************)
(* Data volumes of an installed node over a series of configuration        *)
(* operations: admission plans the transition, execution plans it again,   *)
(* stops the mounts, prepares the devices and binds them, and the new      *)
(* bindings take effect only with the generation.  Disks may be taken out  *)
(* or put back at any time, tools may fail half way, and the rest of the   *)
(* apply may fail after the devices were prepared.                         *)
(*                                                                         *)
(* The first part says which device a volume means: selectors over the     *)
(* discovered hardware, the plan that prepares the device, the binding     *)
(* that remembers its identity, and the transition from the volumes of one *)
(* generation to those of the next.                                        *)
(*                                                                         *)
(* A disk is [path, serial, parts], a partition                            *)
(* [n, uuid, fsuuid, label, fs, data, mnt]: n is its number on the disk,   *)
(* mnt the volume mounted from it ("other" for a foreign mount, "" for     *)
(* none).  data is a history field: the volumes whose data it holds.       *)
(* Every partition has a PARTUUID, so bindings compare those.              *)
(***************************************************************************)
EXTENDS Integers, FiniteSets, Sequences

CONSTANTS Names,       \* volume names
          RootDisk,    \* path of the installed system's disk
          Specs,       \* volume configurations a request may ask for
          InitialDisks,\* the disks the node starts with
          MaxOps,      \* bound: operations
          MaxSwaps,    \* bound: disks taken out or put back
          MaxFaults    \* bound: failing steps

(* The values given to the constants satisfy                               *)
(*   IsFiniteSet(Names)                                                   *)

NoVolume == [sel |-> [kind |-> "none", value |-> 0], fs |-> "", wipe |-> FALSE]
NoBinding == 0
KatlLabels == {"KATL_ESP", "KATL_ROOT_A", "KATL_ROOT_B", "KATL_STATE"}
Filesystems == {"ext4", "xfs", "btrfs"}

Only(S) == CHOOSE x \in S : TRUE
Exactly1(S) == Cardinality(S) = 1
Partitions(facts) == UNION {{[disk |-> d.path, part |-> p] : p \in d.parts} : d \in facts}

----------------------------------------------------------------------------
(* Discovery                                                               *)

diskMatches(sel, d) == sel.kind = "serial" /\ d.serial = sel.value
partitionMatches(name, sel, p) ==
  \/ sel.kind = "partuuid" /\ p.uuid = sel.value
  \/ sel.kind = "fsuuid" /\ p.fsuuid = sel.value
  \/ sel.kind = "label" /\ p.label = name
MatchDiskIdentity(facts, sel) == {d \in facts : diskMatches(sel, d)}
diskHasMounts(d) == \E p \in d.parts : p.mnt # ""
MatchTargetDisk(facts, sel) ==
  LET m == MatchDiskIdentity(facts, sel)
  IN IF Exactly1(m) /\ ~diskHasMounts(Only(m)) THEN m ELSE {}
MatchPartition(facts, name, sel) ==
  LET m == {x \in Partitions(facts) : partitionMatches(name, sel, x.part)}
  IN IF Exactly1(m) /\ Only(m).part.mnt = "" THEN m ELSE {}

ValidateVolume(v) ==
  /\ v.sel.kind \in {"serial", "partuuid", "fsuuid", "label"}
  /\ v.fs \in Filesystems

----------------------------------------------------------------------------
(* The plan of one volume                                                  *)

NoPlan == [ok |-> FALSE]
VolumePlan(name, v, disk, n, wipe, repart) ==
  [ok |-> TRUE, name |-> name, disk |-> disk, n |-> n, fs |-> v.fs, wipe |-> wipe, repart |-> repart]
validateReusableVolume(plan, existing) == plan.wipe \/ (existing # "" /\ existing = plan.fs)
volumePartitionOnDisk(d, name) == {p \in d.parts : p.label = name}

PlanDiskVolume(facts, name, v) ==
  LET m == MatchTargetDisk(facts, v.sel)
      d == Only(m)
      parts == volumePartitionOnDisk(d, name)
      plan == VolumePlan(name, v, d.path, Only(parts).n, FALSE, FALSE)
  IN IF m = {} THEN NoPlan
     ELSE IF d.path = RootDisk THEN NoPlan
     ELSE IF v.wipe THEN VolumePlan(name, v, d.path, 0, TRUE, TRUE)
     ELSE IF ~Exactly1(parts) THEN NoPlan
     ELSE IF validateReusableVolume(plan, Only(parts).fs) THEN plan ELSE NoPlan

PlanPartitionVolume(facts, name, v) ==
  LET m == MatchPartition(facts, name, v.sel)
      x == Only(m)
      plan == VolumePlan(name, v, x.disk, x.part.n, v.wipe, FALSE)
  IN IF m = {} THEN NoPlan
     ELSE IF x.disk = RootDisk \/ x.part.label \in KatlLabels THEN NoPlan
     ELSE IF validateReusableVolume(plan, x.part.fs) THEN plan ELSE NoPlan

PlanVolumes(facts, name, v) ==
  IF ~ValidateVolume(v) THEN NoPlan
  ELSE IF v.sel.kind = "serial" THEN PlanDiskVolume(facts, name, v) ELSE PlanPartitionVolume(facts, name, v)

(* The partition a plan ends up on: the selected one, or the one that      *)
(* carries the volume's label on the disk that was initialized.            *)
volumePlanPartition(facts, plan) ==
  {x \in Partitions(facts) : /\ x.disk = plan.disk
                             /\ IF plan.repart THEN x.part.label = plan.name ELSE x.part.n = plan.n}
BindVolumePlans(facts, plan) ==
  LET m == volumePlanPartition(facts, plan)
  IN IF Exactly1(m) THEN Only(m).part.uuid ELSE NoBinding
MatchVolumeBinding(facts, binding) ==
  Exactly1({x \in Partitions(facts) : x.part.uuid = binding})

----------------------------------------------------------------------------
(* The transition between two generations                                  *)

factsWithoutManagedVolumeMounts(facts, names) ==
  {[d EXCEPT !.parts = {[p EXCEPT !.mnt = IF @ \in names THEN "" ELSE @] : p \in d.parts}] : d \in facts}

Wanted(volumes) == {n \in Names : volumes[n] # NoVolume}
changedVolumes(cur, desired) == {n \in Wanted(cur) : desired[n] # cur[n]}

(* A bound volume whose configuration is the same keeps its device while   *)
(* that is there; otherwise it is resolved again, without the wipe.        *)
resolve(v, changed) == IF changed THEN v ELSE [v EXCEPT !.wipe = FALSE]

(* M: an unbound name needs no authority, and bindings of removed volumes  *)
(* count as unbound.                                                       *)
LiveOnly(cur, bindings, n) == bindings[n] # NoBinding /\ cur[n] # NoVolume
wasBound(cur, bindings, n) == bindings[n] # NoBinding

VolumeStep(facts, cur, desired, bindings, n) ==
  LET v == desired[n]
      changed == v # cur[n]
      kept == wasBound(cur, bindings, n) /\ ~changed /\ MatchVolumeBinding(facts, bindings[n])
      plan == PlanVolumes(facts, n, resolve(v, changed))
      bound == IF plan.repart THEN NoBinding ELSE BindVolumePlans(facts, plan)
  IN IF kept THEN [ok |-> TRUE, prepare |-> {}, binding |-> bindings[n], rebind |-> FALSE]
     ELSE IF ~plan.ok THEN [ok |-> FALSE]
     ELSE IF ~plan.repart /\ bound = NoBinding THEN [ok |-> FALSE]
     ELSE [ok |-> TRUE,
           prepare |-> IF changed THEN {plan} ELSE {},
           binding |-> IF changed THEN bindings[n] ELSE bound,
           rebind |-> wasBound(cur, bindings, n) /\ (plan.repart \/ bound # bindings[n])]

(* Bindings of removed volumes stay, so that a name added again does not   *)
(* reach another device without authority.                                 *)
planVolumeTransition(disks, cur, desired, bindings, rebinds) ==
  LET facts == factsWithoutManagedVolumeMounts(disks, Wanted(cur))
      steps == [n \in Wanted(desired) |-> VolumeStep(facts, cur, desired, bindings, n)]
      stop == changedVolumes(cur, desired)
  IN IF Wanted(desired) = {} THEN [ok |-> TRUE, stop |-> stop, prepare |-> {}, bindings |-> bindings]
     ELSE IF \E n \in Wanted(desired) : ~steps[n].ok THEN [ok |-> FALSE]
     ELSE IF {n \in Wanted(desired) : steps[n].rebind} \subseteq rebinds
     THEN [ok |-> TRUE, stop |-> stop,
           prepare |-> UNION {steps[n].prepare : n \in Wanted(desired)},
           bindings |-> [n \in Names |-> IF n \in Wanted(desired) THEN steps[n].binding ELSE bindings[n]]]
     ELSE [ok |-> FALSE]

----------------------------------------------------------------------------
VARIABLES disks,     \* disks that are plugged in
          shelf,     \* disks that were taken out
          volumes,   \* volumes of the current generation
          bindings,  \* its bindings: volume -> PARTUUID
          job,       \* the operation being executed
          ids,       \* identities handed out
          ops, swaps, faults

vars == <<disks, shelf, volumes, bindings, job, ids, ops, swaps, faults>>
NoPlanned == [ok |-> FALSE]
NoJob == [pc |-> "idle", desired |-> [n \in Names |-> NoVolume], rebinds |-> {},
          plan |-> NoPlanned, todo |-> {}, disturbed |-> FALSE, shared |-> FALSE]

Init ==
  /\ disks = InitialDisks /\ shelf = {}
  /\ volumes = [n \in Names |-> NoVolume]
  /\ bindings = [n \in Names |-> NoBinding]
  /\ job = NoJob /\ ids = 100 /\ ops = 0 /\ swaps = 0 /\ faults = 0

Fault == faults < MaxFaults /\ faults' = faults + 1
At(pc) == job.pc = pc
Go(pc) == job' = [job EXCEPT !.pc = pc]

OnPartition(x, new) ==
  disks' = {IF d.path # x.disk THEN d ELSE [d EXCEPT !.parts = (@ \ {x.part}) \cup new] : d \in disks}
OnDisk(path, parts) == disks' = {IF d.path # path THEN d ELSE [d EXCEPT !.parts = parts] : d \in disks}

----------------------------------------------------------------------------
(* The operation                                                           *)

Planned(desired, rebinds) == planVolumeTransition(disks, volumes, desired, bindings, rebinds)

(* Admission refuses what cannot be planned.  Authority for a name without *)
(* a binding, or without a volume in the request, is inert.                *)
validateVolumeTransition ==
  /\ job.pc \in {"idle", "failed"} /\ ops < MaxOps /\ ops' = ops + 1
  /\ \E desired \in [Names -> Specs \cup {NoVolume}] \ {volumes} :
     \E rebinds \in SUBSET {n \in Wanted(desired) : bindings[n] # NoBinding} :
       /\ Planned(desired, rebinds).ok
       /\ job' = [NoJob EXCEPT !.pc = "accepted", !.desired = desired, !.rebinds = rebinds]
  /\ UNCHANGED <<disks, shelf, volumes, bindings, ids, swaps, faults>>

Failed == job' = [job EXCEPT !.pc = "failed"]

(* Two volumes of the request share a disk.                                *)
SharesDisk(plan) ==
  \E p \in plan.prepare, n \in Wanted(job.desired) :
     /\ n # p.name
     /\ \/ \E q \in plan.prepare : q.name = n /\ q.disk = p.disk
        \/ \E x \in Partitions(disks) : x.part.uuid = plan.bindings[n] /\ x.disk = p.disk
PlanAgain ==
  /\ At("accepted")
  /\ LET p == Planned(job.desired, job.rebinds)
     IN IF p.ok THEN job' = [job EXCEPT !.pc = "stop", !.plan = p, !.todo = p.prepare,
                                        !.shared = SharesDisk(p)] ELSE Failed
  /\ UNCHANGED <<disks, shelf, volumes, bindings, ids, ops, swaps, faults>>

(* The mounts of changed and removed volumes are stopped first.            *)
StopMounts ==
  /\ At("stop")
  /\ disks' = factsWithoutManagedVolumeMounts(disks, job.plan.stop)
  /\ \/ Go(IF job.todo = {} THEN "commit" ELSE "prepare") /\ UNCHANGED faults
     \/ job.plan.stop # {} /\ Fault /\ Failed
  /\ UNCHANGED <<shelf, volumes, bindings, ids, ops, swaps>>

Fresh(name, fs) ==
  [n |-> 1, uuid |-> ids + 1, fsuuid |-> ids + 1, label |-> name, fs |-> fs, data |-> {}, mnt |-> ""]
(* A whole disk gets one new partition; a failing run may leave it empty.  *)
Repart(plan) ==
  \/ /\ OnDisk(plan.disk, {Fresh(plan.name, plan.fs)}) /\ ids' = ids + 1
     /\ job' = [job EXCEPT !.todo = @ \ {plan}] /\ UNCHANGED faults
  \/ /\ Fault /\ Failed /\ UNCHANGED ids
     /\ (UNCHANGED disks \/ OnDisk(plan.disk, {}))

(* A selected partition is formatted in place and keeps its PARTUUID.      *)
Format(plan) ==
  LET x == Only(volumePlanPartition(disks, plan))
  IN \/ /\ x.part.mnt = ""
        /\ OnPartition(x, {[x.part EXCEPT !.fs = plan.fs, !.fsuuid = ids + 1, !.data = {}]})
        /\ ids' = ids + 1 /\ job' = [job EXCEPT !.todo = @ \ {plan}] /\ UNCHANGED faults
     \/ x.part.mnt # "" /\ Failed /\ UNCHANGED <<disks, ids, faults>>
     \/ /\ x.part.mnt = "" /\ Fault /\ Failed /\ UNCHANGED ids
        /\ OnPartition(x, {[x.part EXCEPT !.fs = "", !.fsuuid = 0, !.data = {}]})

Present(plan) ==
  /\ plan.disk \in {d.path : d \in disks}
  /\ plan.repart \/ volumePlanPartition(disks, plan) # {}
PrepareVolume ==
  /\ At("prepare") /\ job.todo # {}
  /\ \E plan \in job.todo :
       \/ ~Present(plan) /\ plan.wipe /\ Failed /\ UNCHANGED <<disks, ids, faults>>
       \/ Present(plan) /\ plan.repart /\ Repart(plan)
       \/ Present(plan) /\ ~plan.repart /\ plan.wipe /\ Format(plan)
       \/ ~plan.wipe /\ job' = [job EXCEPT !.todo = @ \ {plan}] /\ UNCHANGED <<disks, ids, faults>>
  /\ UNCHANGED <<shelf, volumes, bindings, ops, swaps>>

(* The devices are discovered again; every prepared volume must be there.  *)
BindPrepared ==
  /\ At("prepare") /\ job.todo = {}
  /\ LET bound == [p \in job.plan.prepare |-> BindVolumePlans(disks, p)]
         new(n) == {p \in job.plan.prepare : p.name = n}
     IN IF \E p \in DOMAIN bound : bound[p] = NoBinding THEN Failed
        ELSE job' = [job EXCEPT !.pc = "commit",
               !.plan.bindings = [n \in Names |-> IF new(n) = {} THEN @[n] ELSE bound[Only(new(n))]]]
  /\ UNCHANGED <<disks, shelf, volumes, bindings, ids, ops, swaps, faults>>

(* Every configured volume needs a binding to be rendered.                 *)
volumeMountNativeEtcFiles == \A n \in Wanted(job.desired) : job.plan.bindings[n] # NoBinding
(* The generation takes effect, or the rest of the apply fails and the     *)
(* current generation stays.                                               *)
Commit ==
  /\ At("commit")
  /\ \/ /\ volumeMountNativeEtcFiles
        /\ volumes' = job.desired /\ bindings' = job.plan.bindings
        /\ job' = NoJob /\ UNCHANGED faults
     \/ ~volumeMountNativeEtcFiles /\ Failed /\ UNCHANGED <<volumes, bindings, faults>>
     \/ Fault /\ Failed /\ UNCHANGED <<volumes, bindings>>
  /\ UNCHANGED <<disks, shelf, ids, ops, swaps>>

----------------------------------------------------------------------------
(* The environment                                                         *)

(* systemd mounts a volume from the partition it is bound to.              *)
Mount ==
  /\ job.pc \in {"idle", "failed"}
  /\ \E n \in Wanted(volumes), x \in Partitions(disks) :
       /\ x.part.uuid = bindings[n] /\ x.part.mnt = "" /\ x.part.fs = volumes[n].fs
       /\ OnPartition(x, {[x.part EXCEPT !.mnt = n, !.data = @ \cup {n}]})
  /\ UNCHANGED <<shelf, volumes, bindings, job, ids, ops, swaps, faults>>

Swap ==
  /\ swaps < MaxSwaps /\ swaps' = swaps + 1
  /\ \/ \E d \in disks :
          /\ d.path # RootDisk /\ disks' = disks \ {d}
          /\ shelf' = shelf \cup factsWithoutManagedVolumeMounts({d}, Names)
     \/ \E d \in shelf : disks' = disks \cup {d} /\ shelf' = shelf \ {d}
  /\ job' = [job EXCEPT !.disturbed = TRUE]
  /\ UNCHANGED <<volumes, bindings, ids, ops, faults>>

Next == \/ validateVolumeTransition \/ PlanAgain \/ StopMounts \/ PrepareVolume \/ BindPrepared
        \/ Commit \/ Mount \/ Swap
Spec == Init /\ [][Next]_vars

----------------------------------------------------------------------------
(* Properties                                                              *)

(* Every volume name has a configuration and a binding, the operation is   *)
(* at a known step, and no two partitions share an identity.               *)
TypeOK ==
  /\ volumes \in [Names -> Specs \cup {NoVolume}] /\ bindings \in [Names -> Nat]
  /\ job.pc \in {"idle", "accepted", "stop", "prepare", "commit", "failed"}
  /\ \A x, y \in Partitions(disks \cup shelf) : x.part.uuid = y.part.uuid => x = y

Moves(n) == bindings[n] # NoBinding /\ bindings'[n] # bindings[n]
(* Volume n was planned on a partition of a disk that another volume of    *)
(* the same request initializes: the partition is replaced under it.       *)
ReplacedUnder(n) ==
  \E p, q \in job.plan.prepare :
     p.name = n /\ ~p.repart /\ q.name # n /\ q.repart /\ q.disk = p.disk
(* A name that was ever bound, also one whose volume has been removed      *)
(* since, moves to another device only in a request that carries rebind    *)
(* authority for it (volume_apply.go planVolumeTransition).  The exception *)
(* is what the code does and docs/operations/configure-nodes.md does not   *)
(* allow: plans of one request are not compared, so a partition that the   *)
(* request's own wipe of its disk replaces is bound without authority.     *)
RebindAuthorized ==
  \A n \in Names : Moves(n) => (n \in job.rebinds \/ ReplacedUnder(n))

Lost(n) ==
  {x \in Partitions(disks \cup shelf) :
     /\ n \in x.part.data
     /\ ~\E y \in Partitions(disks' \cup shelf') : y.part.uuid = x.part.uuid /\ n \in y.part.data}
(* A volume's data disappears only from a device that the running          *)
(* operation prepares for a volume whose configuration it changes to one   *)
(* that asks for a wipe: nothing that is reapplied, removed or found again *)
(* erases a device, and a wipe erases no other.                            *)
WipeOnlyWhenChanged ==
  \A n \in Names : \A x \in Lost(n) :
     \E plan \in job.todo :
        /\ job.desired[plan.name].wipe /\ job.desired[plan.name] # volumes[plan.name]
        /\ x.disk = plan.disk /\ (plan.repart \/ x.part.n = plan.n)

SelectedByOldContent(v) == v.sel.kind = "fsuuid" /\ v.wipe
(* After a failed operation that no disk change disturbed, the same        *)
(* request can be planned again, when its volumes are on disks of their    *)
(* own and none is selected by the filesystem identity its wipe replaces   *)
(* (the wipe of a shared disk, or of the selecting identity, leaves        *)
(* nothing for the retry to find).                                         *)
RetryPossible ==
  (job.pc = "failed" /\ ~job.disturbed /\ ~job.shared
     /\ \A n \in Names : ~SelectedByOldContent(job.desired[n]))
    => Planned(job.desired, job.rebinds).ok
=============================================================================
