----------------------------- MODULE HostUpgrade -----------------------------
(***************************************************************************)
(* The host upgrade of one node: the preview made while a request is       *)
(* accepted, the two executors (a plain upgrade planned by the source      *)
(* agent, and the handoff prepared by the target release in a transient    *)
(* systemd unit), the workspace they share (uploaded and downloaded        *)
(* images, image mounts, module images, private snapshots, transfer        *)
(* copies) and the cleanup that another upgrade or the hourly maintenance  *)
(* makes of what an earlier one left.                                      *)
(*                                                                         *)
(* One call is active at a time: previews, maintenance and uploads hold    *)
(* submitMu, and they are refused while a record is active.  Tools, writes *)
(* and removals fail within the budget MaxFaults, before or after they had *)
(* their effect; the agent dies within MaxCrashes.                         *)
(***************************************************************************)
EXTENDS Integers, FiniteSets

CONSTANTS
  Kinds,        \* the operation kinds submitted: "plain", "handoff"
  Sources,      \* where the image comes from: "upload", "remote"
  MaxOps,       \* bound: operations accepted
  MaxPlans,     \* bound: requests previewed
  MaxFaults,    \* bound: failing tools and writes
  MaxCrashes,   \* bound: deaths of the agent
  CrashModes    \* the calls during which the agent may die

(* The values given to the constants satisfy                               *)
(*   /\ Kinds \subseteq {"plain", "handoff"}                              *)
(*   /\ Sources \subseteq {"upload", "remote"}                            *)
(*   /\ {MaxOps, MaxPlans, MaxFaults, MaxCrashes} \subseteq Nat           *)
(*   /\ CrashModes \subseteq {"plan", "exec", "prune"}                    *)

VARIABLES
  run,     \* the call in progress: what it is, its request and its step
  ws,      \* the workspace under /var/lib/katl/artifacts/host-upgrade
  rec,     \* the operation records
  disk,    \* inactive root slot, its UKI, labels, generations, boot selection
  base,    \* history: disk when each operation was accepted
  plans, faults, crashes

vars == <<run, ws, rec, disk, base, plans, faults, crashes>>

Ops == 1..MaxOps
Torn == -1      \* bytes that are neither the old nor a verified new image
Old  == 0       \* what the slot held before; also "no candidate" in a pointer

Idle == [mode |-> "none", kind |-> "plain", src |-> "remote", step |-> "idle",
         op |-> 0, dry |-> FALSE, err |-> FALSE, mutated |-> FALSE]

NoGeneration == [files |-> "none", commit |-> "none", available |-> FALSE]

Init ==
  /\ run = Idle
  /\ ws = [unit |-> FALSE, prep |-> FALSE, modDir |-> FALSE, mods |-> FALSE,
           acq |-> FALSE, mnt |-> FALSE, from |-> "remote",
           upload |-> FALSE, aged |-> FALSE, transfer |-> FALSE]
  /\ rec = [o \in Ops |-> [st |-> "none", mutated |-> FALSE, kind |-> "plain"]]
  /\ disk = [slot |-> Old, uki |-> Old, labels |-> "orig",
             gens |-> [o \in Ops |-> NoGeneration], entries |-> {},
             selected |-> Old, oneshot |-> Old]
  /\ base = [o \in Ops |-> disk]
  /\ plans = 0 /\ faults = 0 /\ crashes = 0

-----------------------------------------------------------------------------
(* Steps, errors and what they leave alone.                                *)

At(s) == run.step = s
Exec == run.mode = "exec"
Go(s) == run' = [run EXCEPT !.step = s]
Fault == faults < MaxFaults /\ faults' = faults + 1
Fine == UNCHANGED faults
Quiet == UNCHANGED <<base, plans, crashes>>

(* activeOperationIDs: a record that is not terminal holds its locks, also *)
(* when no executor is left to end it.                                     *)
ActiveOperationIDs == {o \in Ops : rec[o].st = "running"}

(* ValidateMutationBase: no trial or target is pending, every generation   *)
(* directory can be read and none is an uncommitted candidate.             *)
BaseOk ==
  /\ disk.selected = Old
  /\ \A o \in Ops : disk.gens[o].files # "partial"
  /\ \A o \in Ops : disk.gens[o].commit # "candidate"

(* Return of an error before anything was acquired, or with resources that *)
(* must be retained: the record is failed without a release.               *)
ErrorKeeping ==
  run' = IF Exec THEN [run EXCEPT !.step = "fail", !.err = TRUE] ELSE Idle

(* Return of an error with an acquired image: the deferred release runs.   *)
ErrorReleasing == run' = [run EXCEPT !.step = "close", !.err = TRUE]

-----------------------------------------------------------------------------
(* Requests.                                                               *)

StageHostUpgradeArtifact ==
  /\ run.mode = "none" /\ ActiveOperationIDs = {} /\ "upload" \in Sources
  /\ ~ws.upload \/ ws.aged
  /\ plans < MaxPlans
  /\ ws' = [ws EXCEPT !.upload = TRUE, !.aged = FALSE]
  /\ UNCHANGED <<run, rec, disk, faults>> /\ Quiet

UploadAges ==
  /\ ws.upload /\ ~ws.aged
  /\ ws' = [ws EXCEPT !.aged = TRUE]
  /\ UNCHANGED <<run, rec, disk, faults>> /\ Quiet

(* acceptOperation up to previewHostUpgrade.                               *)
PreviewHostUpgrade(k, s, dry) ==
  /\ run.mode = "none" /\ ActiveOperationIDs = {} /\ BaseOk
  /\ plans < MaxPlans
  /\ s = "upload" => ws.upload
  /\ run' = [mode |-> "plan", kind |-> k, src |-> s, step |-> "clean", op |-> 0,
             dry |-> dry, err |-> FALSE, mutated |-> FALSE]
  /\ plans' = plans + 1
  /\ UNCHANGED <<ws, rec, disk, base, faults, crashes>>

(* maintainGenerations: the maintenance cleans the workspace first; what   *)
(* it does with generations is part of BootSelection.                      *)
PruneGenerations ==
  /\ run.mode = "none" /\ ActiveOperationIDs = {}
  /\ run' = [Idle EXCEPT !.mode = "prune", !.step = "clean"]
  /\ UNCHANGED <<ws, rec, disk, faults>> /\ Quiet

-----------------------------------------------------------------------------
(* cleanupHostUpgradeStorage.                                              *)

(* Every preparation unit is proved stopped before an image is touched.    *)
CleanUnits ==
  /\ At("clean")
  /\ \/ ws' = [ws EXCEPT !.unit = FALSE] /\ Go("clean-modules") /\ Fine
     \/ ws.prep /\ Fault /\ ErrorKeeping /\ UNCHANGED ws
  /\ UNCHANGED <<rec, disk>> /\ Quiet

(* Module images hold files of the outer mounts: they are released first.  *)
CleanModuleMounts ==
  /\ At("clean-modules")
  /\ \/ ws' = [ws EXCEPT !.mods = FALSE] /\ Go("clean-mounts") /\ Fine
     \/ ws.mods /\ Fault /\ ErrorKeeping /\ UNCHANGED ws
  /\ UNCHANGED <<rec, disk>> /\ Quiet

CleanImageMounts ==
  /\ At("clean-mounts")
  /\ \/ ws' = [ws EXCEPT !.mnt = FALSE] /\ Go("sweep") /\ Fine
     \/ ws.mnt /\ Fault /\ ErrorKeeping /\ UNCHANGED ws
  /\ UNCHANGED <<rec, disk>> /\ Quiet

(* cleanupUpgradeUploads: the named upload and recent ones are kept.       *)
KeepsUpload ==
  ws.upload /\ ((run.mode # "prune" /\ run.src = "upload") \/ ~ws.aged)

SweepWorkspace ==
  /\ At("sweep")
  /\ ws' = [ws EXCEPT !.prep = FALSE, !.modDir = FALSE, !.acq = FALSE,
                      !.transfer = FALSE, !.upload = KeepsUpload]
  /\ run' = CASE run.mode = "prune" -> Idle
              [] run.mode = "plan" -> [run EXCEPT !.step = "acquire"]
              [] OTHER -> [run EXCEPT !.step = "base"]
  /\ UNCHANGED <<rec, disk, faults>> /\ Quiet

-----------------------------------------------------------------------------
(* Acquisition and preparation, by previews and executors.                 *)

CheckBase ==
  /\ At("base")
  /\ \/ BaseOk /\ Go("acquire") /\ Fine
     \/ ~BaseOk /\ ErrorKeeping /\ Fine
     \/ Fault /\ ErrorKeeping
  /\ UNCHANGED <<ws, rec, disk>> /\ Quiet

(* newPayloadResources, and the download into the acquisition.  A missing  *)
(* upload is an error.                                                     *)
AcquireImage ==
  /\ At("acquire")
  /\ \/ /\ run.src = "upload" => ws.upload
        /\ ws' = [ws EXCEPT !.acq = TRUE, !.from = run.src] /\ Go("mount") /\ Fine
     \/ Fault /\ ErrorKeeping /\ UNCHANGED ws
  /\ UNCHANGED <<rec, disk>> /\ Quiet

(* resolveMountedImage: the mount may be refused, the image may not be the *)
(* one asked for; its own close may then fail to unmount it.               *)
MountImage ==
  /\ At("mount")
  /\ \/ ws' = [ws EXCEPT !.mnt = TRUE] /\ Go("verify") /\ Fine
     \/ Fault /\ ErrorKeeping /\ ws' = [ws EXCEPT !.acq = FALSE]
  /\ UNCHANGED <<rec, disk>> /\ Quiet

VerifyImage ==
  /\ At("verify")
  /\ \/ Go("prepare") /\ Fine /\ UNCHANGED ws
     \/ Fault /\ ErrorKeeping /\ ws' = [ws EXCEPT !.mnt = FALSE, !.acq = FALSE]
     \/ Fault /\ ErrorKeeping /\ UNCHANGED ws
  /\ UNCHANGED <<rec, disk>> /\ Quiet

(* The preview answers early: nothing to change, or only the target asked. *)
AnswerWithoutPlanning ==
  /\ At("prepare") /\ run.mode = "plan" /\ run.dry
  /\ Go("close") /\ UNCHANGED <<ws, rec, disk, faults>> /\ Quiet

(* prepareHostModuleIndexes mounts the module images, composes and         *)
(* releases them; an image it cannot release is retained with everything.  *)
DissectModuleImages ==
  /\ At("prepare") /\ run.kind = "plain"
  /\ \/ Go("compose") /\ ws' = [ws EXCEPT !.modDir = TRUE, !.mods = TRUE] /\ Fine
     \/ Fault /\ ErrorReleasing /\ UNCHANGED ws
  /\ UNCHANGED <<rec, disk>> /\ Quiet

ComposeModuleIndexes ==
  /\ At("compose")
  /\ \/ Go("check") /\ ws' = [ws EXCEPT !.mods = FALSE] /\ Fine
     \/ Fault /\ ErrorReleasing /\ ws' = [ws EXCEPT !.mods = FALSE, !.modDir = FALSE]
     \/ Fault /\ ErrorKeeping /\ UNCHANGED ws
  /\ UNCHANGED <<rec, disk>> /\ Quiet

(* prepareUpgradeInNamespace: snapshot, unit, receipt.                     *)
SnapshotUpgradeSource ==
  /\ At("prepare") /\ run.kind = "handoff"
  /\ \/ Go("unit") /\ ws' = [ws EXCEPT !.prep = TRUE] /\ Fine
     \/ Fault /\ ErrorReleasing /\ UNCHANGED ws
  /\ UNCHANGED <<rec, disk>> /\ Quiet

StartPreparationUnit ==
  /\ At("unit")
  /\ Go("receipt") /\ ws' = [ws EXCEPT !.unit = TRUE]
  /\ UNCHANGED <<rec, disk, faults>> /\ Quiet

(* systemd-run ends with the unit, or fails while the unit may still run:  *)
(* then the unit is stopped and proved inactive, or everything is kept.    *)
AwaitPreparation ==
  /\ At("receipt")
  /\ \/ ~ws.unit /\ Go("check") /\ Fine /\ UNCHANGED ws
     \/ Fault /\ ErrorReleasing /\ ws' = [ws EXCEPT !.unit = FALSE, !.prep = FALSE]
     \/ Fault /\ ErrorKeeping /\ UNCHANGED ws
  /\ UNCHANGED <<rec, disk>> /\ Quiet

(* The unit runs on its own: it ends, also when nobody waits for it.       *)
PreparationUnitEnds ==
  /\ ws.unit /\ ws' = [ws EXCEPT !.unit = FALSE]
  /\ UNCHANGED <<run, rec, disk, faults>> /\ Quiet

(* Storage and boot root are checked by the executor only.                 *)
CheckStorageAndBootRoot ==
  /\ At("check")
  /\ \/ ~Exec /\ Go("close") /\ Fine
     \/ Exec /\ Go("start") /\ Fine
     \/ Exec /\ Fault /\ ErrorReleasing
  /\ UNCHANGED <<ws, rec, disk>> /\ Quiet

-----------------------------------------------------------------------------
(* The mutation, by executors.                                             *)

(* What a write that fails leaves: the old, or the new with an error after. *)
Failing(d) == Fault /\ ErrorReleasing /\ disk' \in {disk, d}

StartMutation ==
  /\ At("start")
  /\ \/ /\ rec' = [rec EXCEPT ![run.op].mutated = TRUE] /\ Fine
        /\ run' = [run EXCEPT !.step = "invalidate", !.mutated = TRUE]
     \/ Fault /\ ErrorReleasing /\ rec' \in {rec, [rec EXCEPT ![run.op].mutated = TRUE]}
  /\ UNCHANGED <<ws, disk>> /\ Quiet

(* InvalidateSlot: a selection that names a generation of the slot is      *)
(* taken back, the one-shot first; then the generations become unavailable *)
(* and lose their entries, one by one.                                     *)
OfSlot(d) == {o \in Ops : d.gens[o].files = "complete"}

Deselected(d) ==
  IF d.selected \in OfSlot(d) THEN [d EXCEPT !.selected = Old, !.oneshot = Old] ELSE d

Invalidated(d, gone, entries) ==
  [d EXCEPT !.gens = [o \in Ops |-> IF o \in gone THEN [d.gens[o] EXCEPT !.available = FALSE]
                                    ELSE d.gens[o]],
            !.entries = @ \ entries]

(* Where it may stop: at the selection, or within some generation.         *)
InvalidatedPartly(d) ==
  {d, [d EXCEPT !.oneshot = Deselected(d).oneshot]}
    \cup {Invalidated(Deselected(d), {o \in OfSlot(d) : o <= n}, {o \in OfSlot(d) : o < n + k}) :
            n \in 0..MaxOps, k \in {0, 1}}

InvalidateSlot ==
  /\ At("invalidate")
  /\ \/ disk' = Invalidated(Deselected(disk), OfSlot(disk), OfSlot(disk)) /\ Go("label") /\ Fine
     \/ Fault /\ ErrorReleasing /\ disk' \in InvalidatedPartly(disk)
  /\ UNCHANGED <<ws, rec>> /\ Quiet

PrepareSysupdateSlots ==
  /\ At("label")
  /\ disk' = [disk EXCEPT !.labels = "set"]
  /\ (Go("copy") /\ Fine) \/ (Fault /\ ErrorReleasing)
  /\ UNCHANGED <<ws, rec>> /\ Quiet

(* stageHostUpgrade: transfer copies, sysupdate, verification; every path  *)
(* removes the copies, and none looks whether that worked.                 *)
CopyUpgradeComponents ==
  /\ At("copy")
  /\ \/ ws' = [ws EXCEPT !.transfer = TRUE] /\ Go("sysupdate") /\ Fine
     \/ Fault /\ ErrorReleasing /\ UNCHANGED ws
  /\ UNCHANGED <<rec, disk>> /\ Quiet

RunSysupdate ==
  /\ At("sysupdate")
  /\ \/ /\ Fine /\ Go("verify-staged") /\ UNCHANGED ws
        /\ disk' = [disk EXCEPT !.slot = run.op, !.uki = run.op]
     \/ /\ Fault /\ Go("verify-staged") /\ UNCHANGED ws
        /\ \E s, u \in {Torn, run.op} : disk' = [disk EXCEPT !.slot = s, !.uki = u]
     \/ /\ Fault /\ ErrorReleasing /\ ws' \in {ws, [ws EXCEPT !.transfer = FALSE]}
        /\ \E s \in {disk.slot, Torn, run.op}, u \in {disk.uki, Torn, run.op} :
             disk' = [disk EXCEPT !.slot = s, !.uki = u]
  /\ UNCHANGED rec /\ Quiet

AfterStaging == IF run.kind = "plain" THEN "assets" ELSE "entry"

RemoveTransfer ==
  \/ ws' = [ws EXCEPT !.transfer = FALSE] /\ Fine
  \/ Fault /\ UNCHANGED ws

(* M: only the root is read back, not the UKI *)
VerifyStagedRootOnly ==
  /\ At("verify-staged") /\ RemoveTransfer
  /\ IF disk.slot = run.op THEN Go(AfterStaging) ELSE ErrorReleasing
  /\ UNCHANGED <<rec, disk>> /\ Quiet

VerifyStaged ==
  /\ At("verify-staged") /\ RemoveTransfer
  /\ IF disk.slot = run.op /\ disk.uki = run.op THEN Go(AfterStaging) ELSE ErrorReleasing
  /\ UNCHANGED <<rec, disk>> /\ Quiet

(* Plain: the assets are copied into the live directory of the candidate   *)
(* before its spec and status are written.                                 *)
StageGenerationAssets ==
  /\ At("assets")
  /\ disk' = [disk EXCEPT !.gens[run.op].files = "partial"]
  /\ (Go("generation") /\ Fine) \/ (Fault /\ ErrorReleasing)
  /\ UNCHANGED <<ws, rec>> /\ Quiet

WriteCandidateGeneration ==
  /\ At("generation")
  /\ LET written == [disk EXCEPT !.gens[run.op] =
                       [files |-> "complete", commit |-> "candidate", available |-> TRUE]]
     IN  \/ disk' = written /\ Go("entry") /\ Fine
         \/ Failing(written)
  /\ UNCHANGED <<ws, rec>> /\ Quiet

WriteEntry ==
  /\ At("entry")
  /\ LET written == [disk EXCEPT !.entries = @ \cup {run.op}]
     IN  \/ /\ disk' = written /\ Fine
            /\ Go(IF run.kind = "plain" THEN "select" ELSE "publish")
         \/ Failing(written)
  /\ UNCHANGED <<ws, rec>> /\ Quiet

(* publishPreparedUpgrade: copied and digested inside the private work     *)
(* directory, then one rename of a tree whose status says committed.       *)
PublishPreparedUpgrade ==
  /\ At("publish")
  /\ LET published == [disk EXCEPT !.gens[run.op] =
                         [files |-> "complete", commit |-> "committed", available |-> TRUE]]
     IN  \/ /\ disk.gens[run.op].files = "none" /\ ws.prep
            /\ disk' = published /\ Go("select") /\ Fine
         \/ Failing(published)
  /\ UNCHANGED <<ws, rec>> /\ Quiet

(* The handoff also makes the source the default again, which it is.       *)
SelectTrial ==
  /\ At("select")
  /\ LET written == [disk EXCEPT !.selected = run.op]
     IN  \/ disk' = written /\ Go("oneshot") /\ Fine
         \/ Failing(written)
  /\ UNCHANGED <<ws, rec>> /\ Quiet

(* After a bootctl that fails the selection is taken back, unless that     *)
(* fails too; one that was killed at its time limit may have written the   *)
(* variable before, and nothing clears it.                                 *)
ArmOneshot ==
  /\ At("oneshot")
  /\ \/ /\ disk' = [disk EXCEPT !.oneshot = run.op] /\ Fine
        /\ Go(IF run.kind = "plain" THEN "commit" ELSE "close")
     \/ /\ Fault /\ ErrorReleasing
        /\ \E armed \in {disk.oneshot, run.op}, selected \in {Old, run.op} :
             disk' = [disk EXCEPT !.selected = selected, !.oneshot = armed]
  /\ UNCHANGED <<ws, rec>> /\ Quiet

CommitTrial ==
  /\ At("commit")
  /\ LET written == [disk EXCEPT !.gens[run.op].commit = "committed"]
     IN  \/ disk' = written /\ Go("close") /\ Fine
         \/ Failing(written)
  /\ UNCHANGED <<ws, rec>> /\ Quiet

-----------------------------------------------------------------------------
(* Release of what was acquired, and the end of the call.                  *)

ClosePrepared ==
  /\ At("close")
  /\ \/ ws' = [ws EXCEPT !.prep = FALSE, !.modDir = FALSE] /\ Go("unmount") /\ Fine
     \/ (ws.prep \/ ws.modDir) /\ Fault /\ ErrorKeeping /\ UNCHANGED ws
  /\ UNCHANGED <<rec, disk>> /\ Quiet

CloseImage ==
  /\ At("unmount")
  /\ \/ /\ ws' = [ws EXCEPT !.mnt = FALSE, !.acq = FALSE] /\ Fine
        /\ Go(IF Exec THEN "drop-upload" ELSE "answer")
     \/ Fault /\ ErrorKeeping /\ UNCHANGED ws
  /\ UNCHANGED <<rec, disk>> /\ Quiet

CleanupManagedHostUpgradeArtifact ==
  /\ At("drop-upload")
  /\ \/ /\ ws' = [ws EXCEPT !.upload = @ /\ run.src # "upload"] /\ Fine
        /\ Go(IF run.err THEN "fail" ELSE "finish")
     \/ run.src = "upload" /\ Fault /\ ErrorKeeping /\ UNCHANGED ws
  /\ UNCHANGED <<rec, disk>> /\ Quiet

(* The preview's answer: a dry run ends, a request is accepted and         *)
(* dispatched, an error is returned.                                       *)
FreshOps == {o \in Ops : rec[o].st = "none" /\ \A p \in Ops : p < o => rec[p].st # "none"}

AnswerPreview ==
  /\ At("answer")
  /\ IF run.dry \/ run.err \/ FreshOps = {}
       THEN run' = Idle /\ UNCHANGED <<rec, base>>
       ELSE \E o \in FreshOps :
              /\ rec' = [rec EXCEPT ![o] = [st |-> "running", mutated |-> FALSE, kind |-> run.kind]]
              /\ base' = [base EXCEPT ![o] = disk]
              /\ run' = [run EXCEPT !.mode = "exec", !.op = o, !.step = "clean"]
  /\ UNCHANGED <<ws, disk, faults, plans, crashes>>

FinishStaged ==
  /\ At("finish")
  /\ LET written == [rec EXCEPT ![run.op].st = "succeeded"]
     IN  \/ rec' = written /\ run' = Idle /\ Fine
         \/ Fault /\ Go("fail") /\ rec' \in {rec, written}
  /\ UNCHANGED <<ws, disk>> /\ Quiet

(* failHostUpgrade: by the record, or by what the executor remembers when  *)
(* that cannot be read.  When the write fails the dispatcher tries once    *)
(* more, and a record it cannot end either stays active.                   *)
FailHostUpgrade ==
  /\ At("fail") /\ run' = Idle
  /\ LET ended(mutated) == [rec EXCEPT ![run.op].st = IF mutated THEN "repair" ELSE "failed"]
     IN  IF rec[run.op].st # "running" THEN UNCHANGED <<rec, faults>>
         ELSE \/ rec' = ended(rec[run.op].mutated) /\ Fine
              \/ Fault /\ rec' \in {ended(run.mutated), rec}
  /\ UNCHANGED <<ws, disk>> /\ Quiet

(* The agent dies: mounts, directories and the unit stay, and a record     *)
(* without an executor stays active (ReconcileBoot ends no host upgrade).  *)
AgentCrash ==
  /\ run.mode \in CrashModes /\ crashes < MaxCrashes
  /\ crashes' = crashes + 1 /\ run' = Idle
  /\ UNCHANGED <<ws, rec, disk, base, plans, faults>>

-----------------------------------------------------------------------------
Cleanup == CleanUnits \/ CleanModuleMounts \/ CleanImageMounts \/ SweepWorkspace

Preparation ==
  \/ CheckBase \/ AcquireImage \/ MountImage \/ VerifyImage \/ AnswerWithoutPlanning
  \/ DissectModuleImages \/ ComposeModuleIndexes
  \/ SnapshotUpgradeSource \/ StartPreparationUnit \/ AwaitPreparation
  \/ CheckStorageAndBootRoot

Mutation ==
  \/ StartMutation \/ InvalidateSlot \/ PrepareSysupdateSlots \/ CopyUpgradeComponents
  \/ RunSysupdate \/ VerifyStaged \/ StageGenerationAssets \/ WriteCandidateGeneration
  \/ WriteEntry \/ PublishPreparedUpgrade \/ SelectTrial \/ ArmOneshot \/ CommitTrial

Completion ==
  \/ ClosePrepared \/ CloseImage \/ CleanupManagedHostUpgradeArtifact
  \/ AnswerPreview \/ FinishStaged \/ FailHostUpgrade

AgentStep == Cleanup \/ Preparation \/ Mutation \/ Completion

Next ==
  \/ AgentStep
  \/ \E k \in Kinds, s \in Sources, dry \in BOOLEAN : PreviewHostUpgrade(k, s, dry)
  \/ StageHostUpgradeArtifact \/ UploadAges \/ PruneGenerations
  \/ PreparationUnitEnds \/ AgentCrash

Spec == Init /\ [][Next]_vars

-----------------------------------------------------------------------------
(* Properties.                                                             *)

Steps == {"idle", "clean", "clean-modules", "clean-mounts", "sweep", "base", "acquire",
          "mount", "verify", "prepare", "compose", "unit", "receipt", "check", "start",
          "invalidate", "label", "copy", "sysupdate", "verify-staged", "assets",
          "generation", "entry", "publish", "select", "oneshot", "commit", "close",
          "unmount", "drop-upload", "answer", "finish", "fail"}

(* Types; besides, a call without a record mutates nothing and a preview   *)
(* never reaches a step of the mutation.                                   *)
TypeOK ==
  /\ run.step \in Steps /\ run.op \in 0..MaxOps
  /\ run.mode = "none" <=> run.step = "idle"
  /\ Exec => run.op \in ActiveOperationIDs
  /\ run.mode \in {"plan", "prune"} =>
       run.step \in {"clean", "clean-modules", "clean-mounts", "sweep", "acquire", "mount",
                     "verify", "prepare", "compose", "unit", "receipt", "check", "close",
                     "unmount", "answer"}
  /\ disk.slot \in Ops \cup {Old, Torn} /\ disk.uki \in Ops \cup {Old, Torn}
  /\ Cardinality(ActiveOperationIDs) <= 1

(* A mounted image keeps its backing file, module images keep the mount    *)
(* they were taken from, and a running preparation unit keeps its work     *)
(* directory and its image: through failed unmounts, the death of the      *)
(* agent and the cleanup of another call.                                  *)
BackingKept ==
  /\ ws.mnt => ws.acq /\ (ws.from = "upload" => ws.upload)
  /\ ws.mods => ws.modDir /\ ws.mnt
  /\ ws.unit => ws.prep /\ ws.mnt

(* An operation that ends as failed, without asking for repair, left slot, *)
(* UKI, labels, generations and boot selection as it found them.           *)
LeftBy(o) == IF o + 1 \in Ops /\ rec[o + 1].st # "none" THEN base[o + 1] ELSE disk

HonestFailure == \A o \in Ops : rec[o].st = "failed" => LeftBy(o) = base[o]

(* Firmware is sent to an entry that is there only while the slot and the  *)
(* UKI hold its candidate's verified bytes and its generation is complete. *)
(* A one-shot that a failing bootctl left behind may name an entry that a  *)
(* later upgrade removed before it wrote over the slot; the loader then    *)
(* boots its default.                                                      *)
ArmedIsVerified ==
  disk.oneshot \in disk.entries =>
    /\ disk.slot = disk.oneshot /\ disk.uki = disk.oneshot
    /\ disk.gens[disk.oneshot].files = "complete"

(* An operation that succeeded has armed its trial and released the image, *)
(* its mount, the snapshot and the module images.                          *)
SucceededIsArmedAndReleased ==
  \A o \in Ops : rec[o].st = "succeeded" =>
    /\ disk.selected = o /\ disk.oneshot = o /\ disk.gens[o].commit = "committed"
    /\ disk.oneshot \in disk.entries
    /\ ~ws.mnt /\ ~ws.acq /\ ~ws.prep /\ ~ws.modDir

(* A generation prepared by the target appears in the store only complete: *)
(* a directory that inspect cannot read would refuse every later mutation. *)
HandoffPublishesWhole ==
  \A o \in Ops : rec[o].kind = "handoff" => disk.gens[o].files # "partial"
=============================================================================
