----------------------------- MODULE DiskInstall -----------------------------
(* The disk work of an installation: the partition layout planned from the    *)
(* target's size, the volumes planned on the other disks, the operations in   *)
(* their groups, the root slot write and the boot files                       *)
(* (internal/installer/disk and the disk steps of internal/installer).        *)
(* Sizes are in units of MinimumRootMiB.                                      *)
(*                                                                            *)
(* System partitions are addressed by label once they are created: mount      *)
(* LABEL=, /dev/disk/by-partlabel and blkid PARTLABEL=.  The first two name   *)
(* some disk that carries the label, the last every one of them.  A volume is *)
(* addressed by the identity of the partition it was bound to.                *)
EXTENDS Integers, Sequences, FiniteSets, SequencesExt

CONSTANTS Disks, Target,  \* the machine's disks and the one selected
          SizesMiB,       \* sizes of the target
          Requests,       \* layout, volumes, permission to wipe; the disks found
          Artifact,       \* the runtime image, named by its digest
          Kept,           \* a file system of the kind a volume asks for
          Fresh,          \* a partition just created or formatted
          Torn            \* a slot whose write did not finish

VARIABLES
  size,      \* the target's size
  request,   \* what is asked for
  phase,     \* the step of the installation
  disks,     \* per disk: label -> content
  plan,      \* the layout and the volumes planned
  done,      \* operations of the current group already run
  mounted,   \* mount path or volume -> disk and label
  rootUUID   \* the partitions blkid listed for the root slot

vars == <<size, request, phase, disks, plan, done, mounted, rootUUID>>

Min1 == 1
NoPlan == [ok |-> FALSE]
Part(name, mb, fs, mount, rest) == [name |-> name, mib |-> mb, fs |-> fs, mount |-> mount, rest |-> rest]

-----------------------------------------------------------------------------
(* The plan *)

validateRootSlot(mib, runtime) == mib >= Min1 /\ (runtime > 0 => mib >= runtime)

(* No etcd partition is asked for with -1; the install profile asks for none. *)
normalizeLayoutRequest(r) ==
  LET n == [r EXCEPT !.esp = IF @ = 0 THEN 1 ELSE @, !.slot = IF @ = "" THEN "root-a" ELSE @]
  IN IF /\ validateRootSlot(r.rootA, r.runtime) /\ validateRootSlot(r.rootB, r.runtime)
        /\ r.stateMin > 0 /\ r.etcd # 0
     THEN {n} ELSE {}

EtcdMiB(r) == IF r.etcd = -1 THEN 0 ELSE r.etcd
FixedMiB(r) == r.esp + r.xbootldr + r.rootA + r.rootB + EtcdMiB(r)

planTargetPartitions(mib, r) ==
  IF mib < FixedMiB(r) + r.stateMin THEN <<>>
  ELSE <<Part("esp", r.esp, "vfat", "/efi", FALSE)>>
       \o (IF r.xbootldr > 0 THEN <<Part("xbootldr", r.xbootldr, "vfat", "/boot", FALSE)>> ELSE <<>>)
       \o <<Part("root-a", r.rootA, "squashfs", "/", FALSE),
            Part("root-b", r.rootB, "squashfs", "", FALSE)>>
       \o (IF r.etcd > 0 THEN <<Part("etcd", r.etcd, "ext4", "/var/lib/etcd", FALSE)>> ELSE <<>>)
       \o <<Part("state", mib - FixedMiB(r), "ext4", "/var", TRUE)>>

Find(parts, name) == {p \in Range(parts) : p.name = name}

planBootTarget(slot) == IF slot \in {"root-a", "root-b"} THEN {slot} ELSE {}

(* A first install writes the initial slot, a later write the other one. *)
selectWriteSlot(initial, current) ==
  CASE current = "" -> initial [] current = "root-a" -> "root-b" [] OTHER -> "root-a"

PlanRootSlotWrite(parts, initial, current, mib) ==
  LET slot == selectWriteSlot(initial, current)
  IN {slot : p \in {q \in Find(parts, slot) : q.fs = "squashfs" /\ mib > 0 /\ mib <= q.mib}}

KatlLabels == {"esp", "xbootldr", "root-a", "root-b", "state", "etcd"}
volumePartitionLabel(v) == "u-" \o v.name

(* PlanVolumes: never on the target; a whole disk is repartitioned when wiped *)
(* and must carry the volume's partition when not; a partition is formatted   *)
(* in place; what is not wiped must have the file system asked for.           *)
VolumeAt(v) == IF v.kind = "disk" THEN volumePartitionLabel(v) ELSE v.part
PlanVolume(v) ==
  LET part == VolumeAt(v)
  IN IF /\ v.disk # Target
        /\ v.kind = "partition" => part \in DOMAIN disks[v.disk] \ KatlLabels
        /\ ~v.wipe => part \in DOMAIN disks[v.disk] /\ disks[v.disk][part] = Kept
     THEN {[name |-> v.name, disk |-> v.disk, part |-> part, wipe |-> v.wipe,
            repart |-> v.kind = "disk" /\ v.wipe]}
     ELSE {}

checkBootPlan(parts) ==
  /\ \E p \in Find(parts, "esp") : p.fs = "vfat"
  /\ \A p \in Find(parts, "xbootldr") : p.fs = "vfat"

PlanDiskLayout ==
  LET n == normalizeLayoutRequest(request.layout)
      r == CHOOSE x \in n : TRUE
      parts == planTargetPartitions(size, r)
      slots == PlanRootSlotWrite(parts, r.slot, "", r.runtime)
  IN IF \/ n = {} \/ parts = <<>> \/ planBootTarget(r.slot) = {} \/ slots = {}
        \/ \E v \in Range(request.volumes) : PlanVolume(v) = {}
     THEN NoPlan
     ELSE [ok |-> TRUE, parts |-> parts, slot |-> CHOOSE s \in slots : TRUE,
           volumes |-> [i \in DOMAIN request.volumes |-> CHOOSE p \in PlanVolume(request.volumes[i]) : TRUE]]

-----------------------------------------------------------------------------
(* The operations *)

Op(name, group, arg) == [name |-> name, group |-> group, arg |-> arg]

(* The root slot is written by a step of its own, so its operation is in no   *)
(* group the runner executes.                                                 *)
PartitionOps(p) ==
  (IF p.name = plan.slot THEN <<Op("write", "write-root", p)>> ELSE <<>>)
  \o (IF p.mount # "" /\ p.name # "root-a" THEN <<Op("mkdir", "mount", p), Op("mount", "mount", p)>> ELSE <<>>)

volumeOperations(v) ==
  (IF v.repart THEN <<Op("repart-volume", "partition", v), Op("settle", "partition", v)>>
   ELSE IF v.wipe THEN <<Op("format-wipe-volume", "format", v), Op("format-volume", "format", v)>> ELSE <<>>)
  \o <<Op("mkdir", "mount", v), Op("mount-volume", "mount", v)>>

BuildDiskOperations ==
  LET any == plan.parts[1]
  IN <<Op("wipe", "prepare", any), Op("create-gpt", "partition", any),
       Op("reread", "partition", any), Op("settle", "partition", any)>>
     \o FlattenSeq([i \in DOMAIN plan.parts |-> PartitionOps(plan.parts[i])])
     \o <<Op("install-boot", "mount", any)>>
     \o FlattenSeq([i \in DOMAIN plan.volumes |-> volumeOperations(plan.volumes[i])])

operationInGroup(op, group) == op.group = group
ExecuteGroup(group) == SelectSeq(BuildDiskOperations, LAMBDA op : operationInGroup(op, group))

Destructive == {"wipe", "create-gpt", "install-boot", "repart-volume", "format-wipe-volume", "format-volume"}
hasDestructiveOperations(group) == \E op \in Range(ExecuteGroup(group)) : op.name \in Destructive

NoLabels == [p \in {} |-> Fresh]
Only(part) == [p \in {part} |-> Fresh]
Layout == [p \in {q.name : q \in Range(plan.parts)} |-> Fresh]

(* Some disk that carries the label: which one, udev decides. *)
Labelled(name) == {d \in Disks : name \in DOMAIN disks[d]}
At(d, part) == [disk |-> d, part |-> part]
NotMounted == [disk |-> "none", part |-> "none"]

(* InstallBoot: bootctl writes to the file system mounted at /efi, then blkid *)
(* is asked for the root slot.                                                *)
RunOp(op) ==
  /\ disks' = CASE op.name = "wipe" -> [disks EXCEPT ![Target] = NoLabels]
                [] op.name = "create-gpt" -> [disks EXCEPT ![Target] = Layout]
                [] op.name = "repart-volume" -> [disks EXCEPT ![op.arg.disk] = Only(op.arg.part)]
                [] op.name \in {"format-wipe-volume", "format-volume"} ->
                     [disks EXCEPT ![op.arg.disk] = [@ EXCEPT ![op.arg.part] = Fresh]]
                [] op.name = "install-boot" ->
                     [disks EXCEPT ![mounted["/efi"].disk] = [@ EXCEPT !["esp"] = "loader"]]
                [] OTHER -> disks
  /\ CASE op.name = "mount" ->
            \E d \in Labelled(op.arg.name) : mounted' = [mounted EXCEPT ![op.arg.mount] = At(d, op.arg.name)]
       [] op.name = "mount-volume" ->
            mounted' = [mounted EXCEPT ![op.arg.name] = At(op.arg.disk, op.arg.part)]
       [] OTHER -> UNCHANGED mounted
  /\ rootUUID' = IF op.name = "install-boot" THEN Labelled(plan.slot) ELSE rootUUID

-----------------------------------------------------------------------------
(* The installation *)

Init ==
  /\ size \in SizesMiB /\ request \in Requests
  /\ phase = "plan" /\ plan = NoPlan /\ done = 0
  /\ disks = request.disks
  /\ mounted = [m \in {"/efi", "/boot", "/var", "/var/lib/etcd"}
                        \cup {v.name : v \in Range(request.volumes)} |-> NotMounted]
  /\ rootUUID = {}

planInstall ==
  /\ phase = "plan"
  /\ plan' = PlanDiskLayout
  /\ phase' = IF plan'.ok /\ checkBootPlan(plan'.parts) THEN "prepare" ELSE "refused"
  /\ UNCHANGED <<size, request, disks, done, mounted, rootUUID>>

Groups == [prepare |-> "partition", partition |-> "format", format |-> "bind", mount |-> "root"]

(* executeOperations: refused as a whole without permission to wipe, else one *)
(* command after the other.                                                   *)
executeOperations ==
  /\ phase \in DOMAIN Groups /\ done < Len(ExecuteGroup(phase))
  /\ IF hasDestructiveOperations(phase) /\ ~request.wipeTarget
     THEN phase' = "failed" /\ UNCHANGED <<disks, mounted, rootUUID, done>>
     ELSE RunOp(ExecuteGroup(phase)[done + 1]) /\ done' = done + 1 /\ UNCHANGED phase
  /\ UNCHANGED <<size, request, plan>>

GroupDone ==
  /\ phase \in DOMAIN Groups /\ done = Len(ExecuteGroup(phase))
  /\ phase' = Groups[phase] /\ done' = 0
  /\ UNCHANGED <<size, request, disks, plan, mounted, rootUUID>>

(* bindInstalledVolumes: a repartitioned disk is searched for the volume's    *)
(* label, another volume for the path it was planned on, which after another  *)
(* volume repartitioned the disk may be a different partition.                *)
Bindable(v) ==
  IF v.part \in DOMAIN disks[v.disk] THEN {v.part}
  ELSE IF v.repart THEN {} ELSE DOMAIN disks[v.disk]

bindInstalledVolumes ==
  /\ phase = "bind"
  /\ \E parts \in [DOMAIN plan.volumes -> UNION {DOMAIN disks[d] : d \in Disks}] :
       /\ \A i \in DOMAIN parts : parts[i] \in Bindable(plan.volumes[i])
       /\ plan' = [plan EXCEPT !.volumes = [i \in DOMAIN parts |-> [plan.volumes[i] EXCEPT !.part = parts[i]]]]
  /\ phase' = "mount"
  /\ UNCHANGED <<size, request, disks, done, mounted, rootUUID>>

(* WriteRootSlot: what was written is flushed and read back from the same     *)
(* device before the step succeeds.                                           *)
Verified(written) == written = Artifact

WriteRootSlot ==
  /\ phase = "root"
  /\ \E d \in Labelled(plan.slot), written \in {Artifact, Torn} :
       /\ disks' = [disks EXCEPT ![d] = [@ EXCEPT ![plan.slot] = written]]
       /\ phase' = IF Verified(written) THEN "boot" ELSE "failed"
  /\ UNCHANGED <<size, request, plan, done, mounted, rootUUID>>

(* InstallBootArtifacts: the loader entry takes the identity blkid gave as    *)
(* one word, so two partitions with the slot's label end the installation.    *)
InstallBootArtifacts ==
  /\ phase = "boot"
  /\ IF Cardinality(rootUUID) = 1
     THEN /\ disks' = [disks EXCEPT ![mounted["/efi"].disk] = [@ EXCEPT !["esp"] = Artifact]]
          /\ phase' = "verify"
     ELSE phase' = "failed" /\ UNCHANGED disks
  /\ UNCHANGED <<size, request, plan, done, mounted, rootUUID>>

ValidateAppliedLayoutAt ==
  /\ \A p \in Range(plan.parts) : p.name \in DOMAIN disks[Target]
  /\ plan.slot \in DOMAIN disks[Target]
  /\ mounted["/var"] # NotMounted /\ mounted["/efi"] # NotMounted
  /\ Find(plan.parts, "xbootldr") # {} => mounted["/boot"] # NotMounted
  /\ \A v \in Range(plan.volumes) : mounted[v.name] # NotMounted

VerifyTarget ==
  /\ phase = "verify"
  /\ phase' = IF ValidateAppliedLayoutAt THEN "installed" ELSE "failed"
  /\ UNCHANGED <<size, request, disks, plan, done, mounted, rootUUID>>

Ended == {"installed", "failed", "refused"}

(* Any command, discovery or file may fail, which ends the attempt. *)
StepFails ==
  /\ phase \notin Ended
  /\ phase' = "failed"
  /\ UNCHANGED <<size, request, disks, plan, done, mounted, rootUUID>>

Next ==
  \/ planInstall \/ executeOperations \/ GroupDone \/ bindInstalledVolumes
  \/ WriteRootSlot \/ InstallBootArtifacts \/ VerifyTarget \/ StepFails

Spec == Init /\ [][Next]_vars

-----------------------------------------------------------------------------
(* Properties *)

(* A planned layout fills the disk exactly, the state partition gets at least *)
(* what was asked for and each slot holds the image.                          *)
LayoutFits ==
  plan.ok =>
    /\ FoldLeft(LAMBDA a, p : a + p.mib, 0, plan.parts) = size
    /\ \A p \in Find(plan.parts, "state") : p.mib >= request.layout.stateMin
    /\ \A p \in Find(plan.parts, "root-a") \cup Find(plan.parts, "root-b") : p.mib >= request.layout.runtime

(* No disk but the target carries the label. *)
OnlyOnTarget(name) == Labelled(name) \subseteq {Target}

(* A finished installation can boot: the entry names one partition, that of   *)
(* the target, which holds the image.  The loader and the state are on the    *)
(* target too, unless another disk carries their label, and a volume is on    *)
(* the disk selected for it.                                                  *)
InstalledBoots ==
  phase = "installed" =>
    /\ rootUUID = {Target} /\ disks[Target][plan.slot] = Artifact
    /\ OnlyOnTarget("esp") => disks[Target]["esp"] = Artifact
    /\ OnlyOnTarget("state") => mounted["/var"].disk = Target
    /\ \A v \in Range(request.volumes) : mounted[v.name].disk = v.disk

(* Authority over a partition of another disk: its disk or itself is selected *)
(* to be wiped.                                                               *)
Granted(d, part) ==
  \E v \in Range(request.volumes) : v.disk = d /\ v.wipe /\ (v.kind = "disk" \/ v.part = part)

(* Without permission to wipe the target nothing is written.  Another disk's  *)
(* partition changes or goes only with authority over it, whatever fails; the *)
(* exception is the loader and the root image, which the labels may send to a *)
(* disk that carries them too.                                                *)
WritesWherePermitted ==
  /\ ~request.wipeTarget => disks' = disks
  /\ \A d \in Disks \ {Target} : \A p \in DOMAIN disks[d] :
       (p \in DOMAIN disks'[d] /\ disks'[d][p] = disks[d][p]) \/ Granted(d, p) \/ p \in {"esp", plan.slot}
=============================================================================
