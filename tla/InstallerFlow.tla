---------------------------- MODULE InstallerFlow ----------------------------
(* The installer: the boot entry point of cmd/katlos-install, the handoff     *)
(* server that takes a configuration while the installer waits, and the       *)
(* runner of internal/installer that installs one request step by step.       *)
(*                                                                            *)
(* The state directory is /run/katl: it outlives the process, and is lost     *)
(* with power.  The target disk outlives both, but of the files the installer *)
(* copied there power loss may take any that are not synced yet; what the     *)
(* partitioning tools, the root slot writer and the record writers leave is   *)
(* flushed at once.                                                           *)
EXTENDS Naturals, FiniteSets, Sequences

CONSTANTS Requests,      \* the install manifests, named by their digest
          OldRequest,    \* the installation an earlier session left on the disk
          NoReq,         \* no request
          HalfWritten,   \* what a write that failed half way leaves
          LostWrite,     \* what power loss leaves of files that were not synced
          MaxLost,       \* bound: how many steps' files one power loss takes
          MaxStarts,     \* bound: starts of the installer process
          MaxSubmits     \* bound: requests accepted by the handoff API

(* Digests are never empty, and no installation is called half written.      *)
ASSUME InstallAssumption ==
  /\ NoReq \notin Requests \cup {OldRequest, HalfWritten, LostWrite}
  /\ HalfWritten \notin Requests \cup {OldRequest, LostWrite}
  /\ LostWrite \notin Requests \cup {OldRequest}

VARIABLES
  boot,     \* what the boot input asks for: action, request, its kind, halt flag
  proc,     \* the installer process
  server,   \* the handoff server
  ssh,      \* the request whose keys the live installer accepts
  run,      \* the runner's context, or NoRun
  beat,     \* the snapshot the heartbeat goroutine keeps writing, or NoStatus
  status,   \* /run/katl/state/status.json
  files,    \* config.katlcfg and install-manifest.json under /run/katl
  disk,     \* the target disk: per installing step, the request it holds
  unsynced, \* the steps whose files power loss may still take
  target,   \* the status file on the target's state partition
  reboot,   \* the transient reboot timer is armed
  changed,  \* history: the request that changed the disk since the process started
  starts, submits

vars == <<boot, proc, server, ssh, run, beat, status, files, disk, unsynced, target, reboot, changed, starts, submits>>

-----------------------------------------------------------------------------
(* The plan *)

Plan == <<"DiscoverInstallerInput", "LoadManifest", "SelectNode",
          "CollectHardwareFacts", "VerifyTrust", "PlanInstall", "PrepareDisk",
          "CreatePartitions", "FormatFilesystems", "MountTarget",
          "InstallRootSlot", "InstallBootArtifacts", "InstallExtensions",
          "InstallSeed", "InstallMountUnits", "WriteInstallRecord",
          "VerifyTarget", "Reboot">>

(* The steps that leave something on the target. *)
Writes == {"CreatePartitions", "FormatFilesystems", "MountTarget",
           "InstallRootSlot", "InstallBootArtifacts", "InstallExtensions",
           "InstallSeed", "InstallMountUnits", "WriteInstallRecord"}

(* Of these, the ones that copy files and leave flushing them to the end. *)
Copies == {"MountTarget", "InstallBootArtifacts", "InstallExtensions", "InstallSeed",
           "InstallMountUnits", "WriteInstallRecord"}

(* What firmware and loader need to bring the installed system up. *)
Bootable == {"CreatePartitions", "MountTarget", "InstallRootSlot", "InstallBootArtifacts", "InstallSeed"}

Index(step) == CHOOSE i \in DOMAIN Plan : Plan[i] = step

NoRun == [req |-> NoReq, auto |-> FALSE, at |-> 0, body |-> FALSE, stage |-> "step", failed |-> FALSE, digest |-> NoReq, prev |-> NoReq, had |-> FALSE]
NoStatus == [state |-> "none", step |-> "none", destructive |-> FALSE, digest |-> NoReq]
Blank == [s \in Writes |-> NoReq]

States == {"none", "waiting-for-config", "debug-hold", "running", "install-refused", "failed-before-mutation", "failed-after-mutation", "reboot-requested", "waiting-for-cluster-bootstrap", "runtime-failed-needs-repair"}

Terminal == {"install-refused", "failed-before-mutation", "failed-after-mutation", "reboot-requested"}

-----------------------------------------------------------------------------
(* Status records *)

(* M: the step that wipes the disk is not announced as a mutation. *)
MutationOnceDone(completed, step) == completed >= Index("PrepareDisk")

mutationStarted(completed, step) ==
  step = "PrepareDisk" \/ completed >= Index("PrepareDisk")

statusForStep(step) == IF step = "Reboot" THEN "reboot-requested" ELSE "running"

failureState(completed, step, refused) ==
  IF refused THEN "install-refused"
  ELSE IF ~mutationStarted(completed, step) THEN "failed-before-mutation"
  ELSE "failed-after-mutation"

statusFromContext(state, completed, step, digest) ==
  [state |-> state, step |-> step, digest |-> digest,
   destructive |-> state = "failed-after-mutation" \/ mutationStarted(completed, step)]

(* The target's own status file exists once the state partition is mounted. *)
targetStatusReady(completed, step) ==
  step = "MountTarget" \/ completed >= Index("MountTarget")

(* The old file, unless the disk lost it. *)
OldTarget(d) ==
  IF d["CreatePartitions"] = disk["CreatePartitions"] THEN target ELSE NoStatus

writeTargetStatus(completed, step, record, d) ==
  IF targetStatusReady(completed, step) THEN record ELSE OldTarget(d)

-----------------------------------------------------------------------------
(* The process: boot input, automatic install, handoff *)

Closed == [state |-> "closed", bundle |-> NoReq, manifest |-> NoReq]

Init ==
  /\ boot \in [action : {"run", "wait"}, req : Requests \cup {NoReq}, kind : {"bundle", "manifest"}, halt : BOOLEAN]
             \cup [action : {"hold"}, req : {NoReq}, kind : {"bundle"}, halt : {FALSE}]
  /\ disk \in {Blank, [s \in Writes |-> OldRequest]}
  /\ proc = "down" /\ server = Closed /\ ssh = NoReq /\ run = NoRun
  /\ beat = NoStatus /\ status = NoStatus
  /\ files = [bundle |-> NoReq, manifest |-> NoReq]
  /\ target = IF disk = Blank THEN NoStatus ELSE [NoStatus EXCEPT !.state = "waiting-for-cluster-bootstrap", !.digest = OldRequest]
  /\ unsynced = {} /\ reboot = FALSE /\ changed = NoReq /\ starts = 0 /\ submits = 0

(* bootInput: what was booted with, else a bundle or a manifest an earlier   *)
(* process of this boot left under /run/katl; a bundle goes first.            *)
Input ==
  IF boot.req # NoReq THEN boot.req
  ELSE IF files.bundle # NoReq THEN files.bundle ELSE files.manifest

InputKind ==
  IF boot.req # NoReq THEN boot.kind
  ELSE IF files.bundle # NoReq THEN "bundle" ELSE "manifest"

StartRun(r, auto) ==
  /\ run' = [NoRun EXCEPT !.req = r, !.auto = auto, !.at = 1,
                          !.had = disk["CreatePartitions"] # NoReq,
                          !.prev = IF status.destructive THEN status.digest ELSE NoReq]
  /\ UNCHANGED <<disk, unsynced, target, reboot, changed>>

BeginAutomatic(s) == [s EXCEPT !.state = "accepted"]

(* The boot entry: hold, wait for a configuration, or install by itself with *)
(* the API reserved.  The console status replaces the one in the state        *)
(* directory, whatever an earlier process left there.                         *)
runBootWithHandoff ==
  /\ proc \in {"down", "exited"} /\ ~reboot /\ starts < MaxStarts
  /\ starts' = starts + 1
  /\ LET open == [Closed EXCEPT !.state = "waiting"]
         auto == boot.action = "run" /\ Input # NoReq
     IN /\ proc' = CASE boot.action = "hold" -> "held" [] auto -> "fetching" [] OTHER -> "waiting"
        /\ server' = CASE boot.action = "hold" -> Closed [] auto -> BeginAutomatic(open) [] OTHER -> open
        /\ status' = [NoStatus EXCEPT !.state = CASE boot.action = "hold" -> "debug-hold" [] auto -> "running" [] OTHER -> "waiting-for-config"]
  /\ changed' = NoReq
  /\ UNCHANGED <<boot, ssh, run, beat, files, disk, unsynced, target, reboot, submits>>

(* What fetching a URL leaves under /run/katl. *)
Fetched == IF boot.req # NoReq THEN [files EXCEPT ![boot.kind] = boot.req] ELSE files

(* Fetch or load the automatic input, take the node's keys if it is a bundle  *)
(* (a manifest leaves the installer's keys alone), start the runner.          *)
runAutomaticInstall ==
  /\ proc = "fetching"
  /\ proc' = "running" /\ files' = Fetched
  /\ ssh' = IF InputKind = "bundle" THEN Input ELSE ssh
  /\ StartRun(Input, TRUE)
  /\ UNCHANGED <<boot, server, beat, status, starts, submits>>

(* An input that cannot be fetched, read or prepared ends the attempt before  *)
(* the runner starts, before or after its keys were taken; the status file    *)
(* still says what the console status said.                                   *)
FetchFails ==
  /\ proc = "fetching"
  /\ proc' = "exited" /\ server' = Closed
  /\ \/ UNCHANGED <<ssh, files>>
     \/ files' = Fetched /\ ssh' \in IF InputKind = "bundle" THEN {ssh, Input} ELSE {ssh}
  /\ UNCHANGED <<boot, run, beat, status, disk, unsynced, target, reboot, changed, starts, submits>>

Accepting == server.state = "waiting"

(* handleInstall and handleConfigBundle: validated and accepted once. *)
Submit(r, kind) ==
  /\ Accepting /\ submits < MaxSubmits
  /\ submits' = submits + 1
  /\ server' = [server EXCEPT !.state = "accepted", ![kind] = r]
  /\ UNCHANGED <<boot, proc, ssh, run, beat, status, files, disk, unsynced, target, reboot, changed, starts>>

handleSSHAccess(r) ==
  /\ server.state = "waiting" /\ ssh # r
  /\ ssh' = r
  /\ UNCHANGED <<boot, proc, server, run, beat, status, files, disk, unsynced, target, reboot, changed, starts, submits>>

(* The poll loop writes the accepted input under /run/katl and runs it. *)
TakeAccepted ==
  /\ proc = "waiting" /\ (server.bundle # NoReq \/ server.manifest # NoReq)
  /\ LET r == IF server.bundle # NoReq THEN server.bundle ELSE server.manifest
         kind == IF server.bundle # NoReq THEN "bundle" ELSE "manifest"
     IN /\ files' = [files EXCEPT ![kind] = r]
        /\ StartRun(r, FALSE)
  /\ proc' = "running"
  /\ UNCHANGED <<boot, server, ssh, beat, status, starts, submits>>

(* A payload the manifest names cannot be copied: the process gives up. *)
MaterializeFails ==
  /\ proc = "waiting" /\ server.bundle = NoReq /\ server.manifest # NoReq
  /\ files' = [files EXCEPT !.manifest = server.manifest]
  /\ proc' = "exited" /\ server' = Closed
  /\ UNCHANGED <<boot, ssh, run, beat, status, disk, unsynced, target, reboot, changed, starts, submits>>

-----------------------------------------------------------------------------
(* The runner *)

Step == Plan[run.at]
Done == run.at - 1

(* startProgress: the running status is on disk before the step's body runs,  *)
(* and a goroutine repeats it until the step ends.                            *)
startProgress ==
  /\ proc = "running" /\ ~run.body /\ ~run.failed /\ run.stage = "step"
  /\ LET record == statusFromContext("running", Done, Step, run.digest)
     IN status' = record /\ beat' = record
  /\ run' = [run EXCEPT !.body = TRUE]
  /\ UNCHANGED <<boot, proc, server, ssh, files, disk, unsynced, target, reboot, changed, starts, submits>>

Heartbeat ==
  /\ beat # NoStatus
  /\ status' = beat
  /\ UNCHANGED <<boot, proc, server, ssh, run, beat, files, disk, unsynced, target, reboot, changed, starts, submits>>

(* M: completion is published while the heartbeat still runs. *)
NotJoined(b) == b

(* stopProgress joins the writer before anything terminal is published. *)
stopProgress(b) == NoStatus

(* A previous destructive install of another request stops this one. *)
refuseChangedInterruptedRequest == run.prev # NoReq /\ run.prev # run.req

(* The installed system the boot flag protects. *)
targetHasKatlOS == disk["CreatePartitions"] # NoReq

HaltsInstalled == run.auto /\ boot.halt /\ targetHasKatlOS

Refused ==
  \/ Step = "LoadManifest" /\ refuseChangedInterruptedRequest
  \/ Step = "PlanInstall" /\ HaltsInstalled

(* What a finished body leaves on the disk.  wipefs takes the old labels and  *)
(* systemd-repart --empty=force a new table with new file systems.            *)
Written(d) ==
  CASE Step = "PrepareDisk" -> Blank
    [] Step = "CreatePartitions" -> [Blank EXCEPT !["CreatePartitions"] = run.req]
    [] Step \in Writes \ {"CreatePartitions"} -> [d EXCEPT ![Step] = run.req]
    [] OTHER -> d

(* What a body that fails may leave: nothing new, or its write half done. *)
Partial(d) ==
  CASE Step = "PrepareDisk" -> {d, Blank}
    [] Step = "CreatePartitions" -> {d, [Blank EXCEPT !["CreatePartitions"] = HalfWritten]}
    [] Step \in Writes \ {"CreatePartitions"} -> {d, [d EXCEPT ![Step] = HalfWritten]}
    [] OTHER -> {d}

(* What a step leaves, recorded as the one that changed the disk; its files   *)
(* are not flushed, and a new partition table leaves none to lose.            *)
Leaves(d) ==
  /\ disk' = d
  /\ changed' = IF d # disk THEN run.req ELSE changed
  /\ unsynced' = IF d = disk THEN unsynced
                 ELSE IF Step \in {"PrepareDisk", "CreatePartitions"} THEN {}
                 ELSE unsynced \cup ({Step} \cap Copies)

(* The labels the plan names must be there. *)
ValidateAppliedLayoutAt == disk["CreatePartitions"] = run.req

(* recordStep: the checkpoint, the status and the target's status.  Every step *)
(* but the last then gives way to the next one.                               *)
StepSucceeds ==
  /\ proc = "running" /\ run.body /\ ~Refused
  /\ Step = "VerifyTarget" => ValidateAppliedLayoutAt
  /\ LET digest == IF Step = "LoadManifest" THEN run.req ELSE run.digest
         record == statusFromContext(statusForStep(Step), run.at, Step, digest)
     IN /\ Leaves(Written(disk))
        /\ beat' = stopProgress(beat)
        /\ status' = record
        /\ target' = writeTargetStatus(run.at, Step, record, Written(disk))
        /\ run' = IF Step = "Reboot" THEN [run EXCEPT !.body = FALSE, !.stage = "recorded"]
                  ELSE [run EXCEPT !.at = @ + 1, !.body = FALSE, !.digest = digest]
  /\ UNCHANGED <<boot, proc, server, ssh, files, reboot, starts, submits>>

(* The last step, with its status saved, syncs the target, ... *)
SyncTarget ==
  /\ proc = "running" /\ run.stage = "recorded"
  /\ unsynced' = {}
  /\ run' = [run EXCEPT !.stage = "synced"]
  /\ UNCHANGED <<boot, proc, server, ssh, beat, status, files, disk, target, reboot, changed, starts, submits>>

(* ... and arms the reboot timer, which ends the run. *)
ArmReboot ==
  /\ proc = "running" /\ run.stage = "synced"
  /\ reboot' = TRUE /\ run' = NoRun
  /\ proc' = IF run.auto THEN "done" ELSE "exited"
  /\ server' = IF run.auto THEN server ELSE Closed
  /\ UNCHANGED <<boot, ssh, beat, status, files, disk, unsynced, target, changed, starts, submits>>

(* recordFailure: the failure is saved and copied to the target, or is not    *)
(* because saving fails too, and the file says what it said.                  *)
recordFailure(completed, refused, digest, d) ==
  LET record == statusFromContext(failureState(completed, Step, refused), completed, Step, digest)
  IN  \/ status' = record /\ target' \in {writeTargetStatus(completed, Step, record, d), OldTarget(d)}
      \/ status' = status /\ target' = OldTarget(d)

(* A failed or refused step ends the run.  Its status may not have been saved *)
(* before its body, its body may fail, or all is done but the recording.      *)
StepFails ==
  /\ proc = "running" /\ ~run.failed /\ run.stage = "step"
  /\ LET refused == run.body /\ Refused
         ran == run.body /\ ~Refused
         digest == IF Step = "LoadManifest" /\ run.body THEN run.req ELSE run.digest
     IN /\ \/ \E d \in IF ran THEN Partial(disk) \cup {Written(disk)} ELSE {disk} :
                Leaves(d) /\ recordFailure(Done, refused, digest, d)
           \/ /\ ran /\ Leaves(Written(disk))
              /\ \/ recordFailure(run.at, FALSE, digest, Written(disk))
                 \/ /\ status' = statusFromContext(statusForStep(Step), run.at, Step, digest)
                    /\ target' = OldTarget(Written(disk))
        /\ run' = [run EXCEPT !.failed = TRUE, !.body = FALSE, !.digest = digest]
  /\ beat' = stopProgress(beat)
  /\ UNCHANGED <<boot, proc, server, ssh, files, reboot, starts, submits>>

(* The sync or the command that arms the timer fails. *)
RebootFails ==
  /\ proc = "running" /\ run.stage \in {"recorded", "synced"}
  /\ recordFailure(run.at, FALSE, run.digest, disk)
  /\ run' = [run EXCEPT !.failed = TRUE, !.stage = "step"]
  /\ UNCHANGED <<boot, proc, server, ssh, beat, files, disk, unsynced, reboot, changed, starts, submits>>

(* M: any failed attempt opens the API again. *)
AnyRetry(record) == record.state \in Terminal

PrepareRetry(record) ==
  /\ ~record.destructive
  /\ record.state \in {"failed-before-mutation", "install-refused"}

(* prepareHandoffRetry: back to waiting only when the status file says the    *)
(* disk was not touched; else the process ends and its service with it.       *)
EndAttempt ==
  /\ proc = "running" /\ run.failed
  /\ run' = NoRun
  /\ \/ /\ PrepareRetry(status)
        /\ proc' = "waiting"
        /\ server' = [server EXCEPT !.state = "waiting", !.bundle = NoReq, !.manifest = NoReq]
     \/ /\ PrepareRetry(status) => run.auto  \* no address to announce
        /\ proc' = "exited"
        /\ server' = Closed
  /\ UNCHANGED <<boot, ssh, beat, status, files, disk, unsynced, target, reboot, changed, starts, submits>>

-----------------------------------------------------------------------------
(* The environment *)

(* The process is killed; /run/katl stays. *)
Crash ==
  /\ proc \in {"fetching", "waiting", "running", "held"}
  /\ proc' = "exited" /\ server' = Closed /\ run' = NoRun /\ beat' = NoStatus
  /\ UNCHANGED <<boot, ssh, status, files, disk, unsynced, target, reboot, changed, starts, submits>>

(* The machine goes down, by the reboot timer or because power is lost, with  *)
(* /run/katl and any of the files that were not synced.                       *)
LosePower ==
  /\ proc # "down"
  /\ proc' = "down" /\ server' = Closed /\ ssh' = NoReq /\ run' = NoRun
  /\ beat' = NoStatus /\ status' = NoStatus /\ reboot' = FALSE /\ changed' = NoReq
  /\ files' = [bundle |-> NoReq, manifest |-> NoReq]
  /\ \E lost \in {l \in SUBSET unsynced : Cardinality(l) <= MaxLost} :
       disk' = [s \in Writes |-> IF s \in lost THEN LostWrite ELSE disk[s]]
  /\ unsynced' = {}
  /\ UNCHANGED <<boot, target, starts, submits>>

(* ReadGeneration of generation 0, which WriteInstallRecord initialises: its  *)
(* record is synced, what else the step wrote may be lost.                    *)
CleanGenerationZero == disk["WriteInstallRecord"] \notin {NoReq, HalfWritten}

ValidateRuntimeHandoff(record) == record.digest # NoReq

(* The installed system comes up, after the reboot or because the disk is     *)
(* first in the boot order: katl-runtime-status turns the installer's status  *)
(* into the handoff to cluster bootstrap, or into a failure.                  *)
WriteRuntimeHandoff ==
  /\ proc = "down"
  /\ \E r \in Requests : \A s \in Bootable : disk[s] = r
  /\ target.state # "waiting-for-cluster-bootstrap"
  /\ target' = IF ValidateRuntimeHandoff(target) /\ CleanGenerationZero
               THEN [target EXCEPT !.state = "waiting-for-cluster-bootstrap"]
               ELSE [target EXCEPT !.state = "runtime-failed-needs-repair"]
  /\ UNCHANGED <<boot, proc, server, ssh, run, beat, status, files, disk, unsynced, reboot, changed, starts, submits>>

-----------------------------------------------------------------------------

Idle == proc \in {"down", "exited", "done", "held"} /\ UNCHANGED vars

InstallerStep ==
  \/ runBootWithHandoff \/ runAutomaticInstall \/ FetchFails \/ TakeAccepted \/ MaterializeFails
  \/ startProgress \/ Heartbeat \/ StepSucceeds \/ SyncTarget \/ ArmReboot \/ StepFails
  \/ RebootFails \/ EndAttempt

OperatorStep ==
  \/ \E r \in Requests, kind \in {"bundle", "manifest"} : Submit(r, kind)
  \/ \E r \in Requests : handleSSHAccess(r)

Next == InstallerStep \/ OperatorStep \/ Crash \/ LosePower \/ WriteRuntimeHandoff \/ Idle

Spec == Init /\ [][Next]_vars

-----------------------------------------------------------------------------
(* Properties *)

Digests == Requests \cup {NoReq}

(* Every variable holds a value of its kind. *)
TypeOK ==
  /\ proc \in {"down", "exited", "held", "fetching", "waiting", "running", "done"}
  /\ server.state \in {"closed", "waiting", "accepted"}
  /\ server.bundle \in Digests /\ server.manifest \in Digests
  /\ ssh \in Digests
  /\ run.at \in 0 .. Len(Plan)
  /\ status.state \in States /\ beat.state \in {"none", "running"}
  /\ disk \in [Writes -> Digests \cup {OldRequest, HalfWritten, LostWrite}]
  /\ unsynced \subseteq Copies
  /\ target.state \in States
  /\ (beat # NoStatus) => run.body

(* From before the first change of the disk until power is lost or another    *)
(* process starts, whatever fails or is killed, the state directory says that *)
(* the disk was changed and by which request.  A process that starts puts its *)
(* console status over it.                                                    *)
MutationAnnounced ==
  changed # NoReq => (status.destructive /\ status.digest = changed)

(* The API opens again only for attempts that left the disk as it was. *)
RetryOnlyUntouched ==
  (proc = "running" /\ proc' = "waiting") => changed = NoReq

(* An installation that reports the reboot has every part of the disk from    *)
(* one request, the one its status names; once the timer is armed, nothing of *)
(* it can be lost any more.                                                   *)
RebootComplete ==
  /\ status.state = "reboot-requested" => \A s \in Writes : disk[s] = status.digest
  /\ reboot => unsynced = {} /\ status.state = "reboot-requested"

(* A published end of an attempt is not replaced by an older in-progress      *)
(* snapshot: only a new attempt or a new process writes over it.              *)
TerminalKept ==
  (status.state \in Terminal /\ status'.state = "running")
      => (run' # run \/ starts' # starts)

(* While a request is being installed no other request can take its place. *)
OneRequestAtATime ==
  (proc \in {"fetching", "running"} /\ proc' = "running")
      => (server'.bundle = server.bundle /\ server'.manifest = server.manifest)

(* An automatic install from a bundle runs with its own node's keys on the    *)
(* live installer; one from a manifest takes no keys.                         *)
AutomaticKeys == (proc = "running" /\ run.auto /\ InputKind = "bundle") => ssh = run.req

(* With the halt flag an automatic install never changes a disk that carried  *)
(* a KatlOS layout when it started, complete or not.                          *)
HaltProtects == (boot.halt /\ run.auto /\ run.had) => changed = NoReq

(* The installed system reports itself ready for cluster bootstrap only on a  *)
(* disk that one request filled completely, but for files that power loss     *)
(* took before the installer's sync: a system that boots without them reports *)
(* itself ready all the same.                                                 *)
HandoffComplete ==
  target.state = "waiting-for-cluster-bootstrap" =>
    \A s \in Writes : disk[s] \in {target.digest, LostWrite}

(* The installer is honest about the disk: it announces a change before making *)
(* it, asks for the reboot with the disk filled by one request and nothing     *)
(* left to lose, hands over only such a disk or one that power loss cut short, *)
(* runs an automatic bundle under its node's keys, and honours the halt flag.  *)
InstallHonest ==
  MutationAnnounced /\ RebootComplete /\ AutomaticKeys /\ HaltProtects /\ HandoffComplete

(* A step of the installer opens the API again only with the disk as it was,  *)
(* writes over a final status only for a new attempt, and never exchanges the *)
(* request being installed.                                                   *)
AttemptStepSafe == RetryOnlyUntouched /\ TerminalKept /\ OneRequestAtATime
=============================================================================
