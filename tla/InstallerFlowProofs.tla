------------------------ MODULE InstallerFlowProofs -------------------------
(***************************************************************************)
(* Proofs about InstallerFlow for every set of requests, every earlier     *)
(* installation and any number of starts and submissions.                  *)
(***************************************************************************)
EXTENDS InstallerFlow, TLAPS

RunRecords ==
  [req : Digests, auto : BOOLEAN, at : 0..18, body : BOOLEAN, stage : {"step", "recorded", "synced"},
   failed : BOOLEAN, digest : Digests, prev : Digests, had : BOOLEAN]
Steps == {Plan[i] : i \in 1..18}
Records(digests) ==
  [state : States, step : Steps \cup {"none"}, destructive : BOOLEAN, digest : digests]
Servers ==
  [state : {"closed", "waiting", "accepted"}, bundle : Digests, manifest : Digests]
Contents == Digests \cup {OldRequest, HalfWritten, LostWrite}

\* Every variable holds a value of its kind.
Types ==
  /\ boot \in [action : {"run", "wait", "hold"}, req : Digests, kind : {"bundle", "manifest"}, halt : BOOLEAN]
  /\ proc \in {"down", "exited", "held", "fetching", "waiting", "running", "done"}
  /\ server \in Servers
  /\ ssh \in Digests
  /\ run \in RunRecords
  /\ beat \in Records(Digests) /\ status \in Records(Digests)
  /\ files \in [bundle : Digests, manifest : Digests]
  /\ disk \in [Writes -> Contents]
  /\ unsynced \subseteq Copies
  /\ target \in Records(Digests \cup {OldRequest})
  /\ reboot \in BOOLEAN /\ changed \in Digests /\ starts \in Nat

\* There is a context exactly while the runner runs; from the step after
\* LoadManifest on its digest is that of its request, and the process has not
\* changed the disk before it is at the wiping step.
Attempt ==
  /\ proc # "running" => run = NoRun
  /\ proc = "running" => /\ run.at \in 1..18 /\ run.req \in Requests
                         /\ run.at >= 3 => run.digest = run.req
                         /\ run.failed => ~run.body
                         /\ run.stage # "step" => run.at = 18 /\ ~run.body /\ ~run.failed
                         /\ changed # NoReq => changed = run.req /\ run.at >= 7
  /\ proc \in {"down", "held", "fetching", "waiting"} => changed = NoReq

\* While a request is fetched or installed the handoff API is reserved for it.
Reserved ==
  /\ proc \in {"fetching", "running"} => server.state = "accepted"
  /\ proc = "fetching" => Input # NoReq
  /\ (server.bundle # NoReq \/ server.manifest # NoReq) => server.state = "accepted"

\* The heartbeat repeats what the status file says anyway, during a step's body,
\* and a body runs only under a status that says what it is about to do.
Beating ==
  /\ beat # NoStatus => /\ run.body
                        /\ beat = statusFromContext("running", Done, Step, run.digest)
                        /\ status = beat
  /\ (proc = "running" /\ run.body) =>
       status.digest = run.digest /\ (run.at >= 7 => status.destructive)

\* The reboot is on record only in the last step or once the runner has ended, and
\* the timer is armed only after the sync.
Rebooting ==
  /\ status.state = "reboot-requested" => proc \in {"done", "exited"} \/ (proc = "running" /\ run.at = 18)
  /\ run.stage # "step" => status.state = "reboot-requested"
  /\ run.stage = "synced" => unsynced = {}
  /\ reboot => proc \in {"done", "exited"}

\* Past the wiping step the disk holds this request's part for every step done
\* and nothing of any other request, and is not a node handed over.
Filling ==
  (proc = "running" /\ ~run.failed /\ run.at >= 8) =>
    /\ \A i \in 8..16 : disk[Plan[i]] = IF i < run.at THEN run.req ELSE NoReq
    /\ target.state # "waiting-for-cluster-bootstrap"

\* An install record is there, whole or about to be lost, only on a disk that its
\* request filled, but for what power loss took.
Filled ==
  /\ \A s \in Writes \ {"WriteInstallRecord"} : disk[s] \in {disk["CreatePartitions"], LostWrite}
  /\ disk["WriteInstallRecord"] \in {disk["CreatePartitions"], LostWrite, NoReq, HalfWritten}
RecordLast ==
  (disk["WriteInstallRecord"] \notin {NoReq, HalfWritten} \/ "WriteInstallRecord" \in unsynced) => Filled

\* The target's own status names the request whose partition table it lies in.
TargetMeans ==
  /\ target.digest # NoReq => target.digest = disk["CreatePartitions"]
  /\ target.state = "waiting-for-cluster-bootstrap" => target.digest # NoReq

\* An automatic install over a layout the halt flag protects is not past
\* PlanInstall, and the layout is still there.
Halting ==
  (boot.halt /\ run.auto /\ run.had) =>
    run.at <= 6 /\ changed = NoReq /\ disk["CreatePartitions"] # NoReq

(* The inductive invariant.                                                *)
IInv == Types /\ Attempt /\ Reserved /\ Beating /\ Rebooting /\ Filling /\ RecordLast
          /\ TargetMeans /\ Halting /\ InstallHonest

-----------------------------------------------------------------------------
(* The plan *)

\* The places of the steps.
LEMMA PlanIs ==
  /\ Plan[1] = "DiscoverInstallerInput" /\ Plan[2] = "LoadManifest" /\ Plan[3] = "SelectNode"
  /\ Plan[4] = "CollectHardwareFacts" /\ Plan[5] = "VerifyTrust" /\ Plan[6] = "PlanInstall"
  /\ Plan[7] = "PrepareDisk" /\ Plan[8] = "CreatePartitions" /\ Plan[9] = "FormatFilesystems"
  /\ Plan[10] = "MountTarget" /\ Plan[11] = "InstallRootSlot" /\ Plan[12] = "InstallBootArtifacts"
  /\ Plan[13] = "InstallExtensions" /\ Plan[14] = "InstallSeed" /\ Plan[15] = "InstallMountUnits"
  /\ Plan[16] = "WriteInstallRecord" /\ Plan[17] = "VerifyTarget" /\ Plan[18] = "Reboot"
  /\ DOMAIN Plan = 1..18
BY DEF Plan

\* The steps the installer treats in a way of their own, by place.
LEMMA StepAt ==
  ASSUME NEW i \in 1..18
  PROVE  /\ Plan[i] = "DiscoverInstallerInput" <=> i = 1
         /\ Plan[i] = "LoadManifest" <=> i = 2
         /\ Plan[i] = "PlanInstall" <=> i = 6
         /\ Plan[i] = "PrepareDisk" <=> i = 7
         /\ Plan[i] = "CreatePartitions" <=> i = 8
         /\ Plan[i] = "MountTarget" <=> i = 10
         /\ Plan[i] = "WriteInstallRecord" <=> i = 16
         /\ Plan[i] = "VerifyTarget" <=> i = 17
         /\ Plan[i] = "Reboot" <=> i = 18
         /\ Plan[i] \in Writes <=> i \in 8..16
<1>1. \/ i = 1 \/ i = 2 \/ i = 3 \/ i = 4 \/ i = 5 \/ i = 6 \/ i = 7 \/ i = 8 \/ i = 9
      \/ i = 10 \/ i = 11 \/ i = 12 \/ i = 13 \/ i = 14 \/ i = 15 \/ i = 16 \/ i = 17 \/ i = 18
  OBVIOUS
<1> QED BY <1>1, PlanIs DEF Writes

\* No step occurs twice.
LEMMA StepOnce == \A i, j \in 1..18 : Plan[i] = Plan[j] => i = j
<1> TAKE i, j \in 1..18
<1> HAVE Plan[i] = Plan[j]
<1>1. \/ i = 1 \/ i = 2 \/ i = 3 \/ i = 4 \/ i = 5 \/ i = 6 \/ i = 7 \/ i = 8 \/ i = 9
      \/ i = 10 \/ i = 11 \/ i = 12 \/ i = 13 \/ i = 14 \/ i = 15 \/ i = 16 \/ i = 17 \/ i = 18
  OBVIOUS
<1>2. \/ j = 1 \/ j = 2 \/ j = 3 \/ j = 4 \/ j = 5 \/ j = 6 \/ j = 7 \/ j = 8 \/ j = 9
      \/ j = 10 \/ j = 11 \/ j = 12 \/ j = 13 \/ j = 14 \/ j = 15 \/ j = 16 \/ j = 17 \/ j = 18
  OBVIOUS
<1> QED BY <1>1, <1>2, PlanIs

\* The steps that write are the eighth to the sixteenth.
LEMMA WriteAt == \A s \in Writes : \E i \in 8..16 : Plan[i] = s
<1> TAKE s \in Writes
<1>1. CASE s = "CreatePartitions" BY <1>1, PlanIs, 8 \in 8..16
<1>2. CASE s = "FormatFilesystems" BY <1>2, PlanIs, 9 \in 8..16
<1>3. CASE s = "MountTarget" BY <1>3, PlanIs, 10 \in 8..16
<1>4. CASE s = "InstallRootSlot" BY <1>4, PlanIs, 11 \in 8..16
<1>5. CASE s = "InstallBootArtifacts" BY <1>5, PlanIs, 12 \in 8..16
<1>6. CASE s = "InstallExtensions" BY <1>6, PlanIs, 13 \in 8..16
<1>7. CASE s = "InstallSeed" BY <1>7, PlanIs, 14 \in 8..16
<1>8. CASE s = "InstallMountUnits" BY <1>8, PlanIs, 15 \in 8..16
<1>9. CASE s = "WriteInstallRecord" BY <1>9, PlanIs, 16 \in 8..16
<1> QED BY <1>1, <1>2, <1>3, <1>4, <1>5, <1>6, <1>7, <1>8, <1>9 DEF Writes

\* Where the disk is wiped and where the target is mounted.
LEMMA Positions == Index("PrepareDisk") = 7 /\ Index("MountTarget") = 10
<1>1. \A i \in DOMAIN Plan : Plan[i] = "PrepareDisk" => i = 7
  BY StepAt, PlanIs
<1>2. \A i \in DOMAIN Plan : Plan[i] = "MountTarget" => i = 10
  BY StepAt, PlanIs
<1>3. 7 \in DOMAIN Plan /\ Plan[7] = "PrepareDisk" /\ 10 \in DOMAIN Plan /\ Plan[10] = "MountTarget"
  BY PlanIs
<1>4. Index("PrepareDisk") = 7
  BY <1>1, <1>3 DEF Index
<1>5. Index("MountTarget") = 10
  BY <1>2, <1>3 DEF Index
<1> QED BY <1>4, <1>5

-----------------------------------------------------------------------------
(* What a step of the plan does, by its place *)

(* The status a step writes says destructive from the wiping step on, and the *)
(* target has a status file of its own from the mount on.                     *)
LEMMA AtStep ==
  run.at \in 1..18 =>
    /\ Step \in Steps /\ Done = run.at - 1
    /\ Step = "DiscoverInstallerInput" <=> run.at = 1
    /\ Step = "LoadManifest" <=> run.at = 2
    /\ Step = "VerifyTarget" <=> run.at = 17
    /\ Step = "Reboot" <=> run.at = 18
    /\ mutationStarted(Done, Step) <=> run.at >= 7
    /\ mutationStarted(run.at, Step) <=> run.at >= 7
    /\ targetStatusReady(Done, Step) <=> run.at >= 10
    /\ targetStatusReady(run.at, Step) <=> run.at >= 10
    /\ Refused => run.at \in {2, 6}
    /\ (run.at = 6 /\ HaltsInstalled) => Refused
<1> SUFFICES ASSUME run.at \in 1..18 PROVE AtStep!2
  OBVIOUS
<1> PICK i \in 1..18 : i = run.at
  OBVIOUS
<1>1. Step = Plan[i] /\ Done = i - 1
  BY DEF Step, Done
<1>2. Plan[i] \in Steps
  BY DEF Steps
<1> QED BY <1>1, <1>2, StepAt, Positions DEF mutationStarted, targetStatusReady, Refused

(* What a finished body leaves on the disk. *)
LEMMA WrittenAt ==
  run.at \in 1..18 =>
    /\ run.at \notin 7..16 => Written(disk) = disk
    /\ run.at = 7 => Written(disk) = Blank
    /\ run.at = 8 => Written(disk) = [Blank EXCEPT !["CreatePartitions"] = run.req]
    /\ run.at \in 9..16 => Written(disk) = [disk EXCEPT ![Plan[run.at]] = run.req]
<1> SUFFICES ASSUME run.at \in 1..18 PROVE WrittenAt!2
  OBVIOUS
<1> PICK i \in 1..18 : i = run.at
  OBVIOUS
<1>1. Step = Plan[i]
  BY DEF Step
<1>2. CASE i \notin 7..16
  <2>1. Plan[i] # "PrepareDisk" /\ Plan[i] # "CreatePartitions" /\ Plan[i] \notin Writes
    BY <1>2, StepAt
  <2> QED BY <1>1, <1>2, <2>1 DEF Written
<1>3. CASE i = 7
  BY <1>1, <1>3, StepAt DEF Written
<1>4. CASE i = 8
  BY <1>1, <1>4, StepAt DEF Written
<1>5. CASE i \in 9..16
  <2>1. Plan[i] # "PrepareDisk" /\ Plan[i] # "CreatePartitions" /\ Plan[i] \in Writes
    BY <1>5, StepAt
  <2> QED BY <1>1, <1>5, <2>1 DEF Written
<1> QED BY <1>2, <1>3, <1>4, <1>5

(* What a body that fails may leave. *)
LEMMA PartialAt ==
  run.at \in 1..18 =>
    /\ run.at \notin 7..16 => Partial(disk) = {disk}
    /\ run.at = 7 => Partial(disk) = {disk, Blank}
    /\ run.at = 8 => Partial(disk) = {disk, [Blank EXCEPT !["CreatePartitions"] = HalfWritten]}
    /\ run.at \in 9..16 => Partial(disk) = {disk, [disk EXCEPT ![Plan[run.at]] = HalfWritten]}
<1> SUFFICES ASSUME run.at \in 1..18 PROVE PartialAt!2
  OBVIOUS
<1> PICK i \in 1..18 : i = run.at
  OBVIOUS
<1>1. Step = Plan[i]
  BY DEF Step
<1>2. CASE i \notin 7..16
  <2>1. Plan[i] # "PrepareDisk" /\ Plan[i] # "CreatePartitions" /\ Plan[i] \notin Writes
    BY <1>2, StepAt
  <2> QED BY <1>1, <1>2, <2>1 DEF Partial
<1>3. CASE i = 7
  BY <1>1, <1>3, StepAt DEF Partial
<1>4. CASE i = 8
  BY <1>1, <1>4, StepAt DEF Partial
<1>5. CASE i \in 9..16
  <2>1. Plan[i] # "PrepareDisk" /\ Plan[i] # "CreatePartitions" /\ Plan[i] \in Writes
    BY <1>5, StepAt
  <2> QED BY <1>1, <1>5, <2>1 DEF Partial
<1> QED BY <1>2, <1>3, <1>4, <1>5

-----------------------------------------------------------------------------
(* Records are typed *)

\* The empty records.
LEMMA EmptyTyped ==
  /\ NoRun \in RunRecords /\ Closed \in Servers
  /\ NoStatus \in Records(Digests) /\ NoStatus \in Records(Digests \cup {OldRequest})
  /\ Blank \in [Writes -> Contents]
BY DEF NoRun, RunRecords, Closed, Servers, NoStatus, Records, States, Digests, Blank, Contents

\* The records the runner writes.
LEMMA RecordTyped ==
  ASSUME NEW state \in States, NEW completed \in 0..18, NEW step \in Steps, NEW digest \in Digests
  PROVE  /\ statusFromContext(state, completed, step, digest) \in Records(Digests)
         /\ statusFromContext(state, completed, step, digest) \in Records(Digests \cup {OldRequest})
BY Positions DEF statusFromContext, mutationStarted, Records

(* What StartRun leaves in the runner's context. *)
LEMMA Started ==
  ASSUME Types, NEW r \in Requests, NEW auto \in BOOLEAN, StartRun(r, auto)
  PROVE  /\ run' \in RunRecords
         /\ run'.req = r /\ run'.auto = auto /\ run'.at = 1
         /\ ~run'.body /\ ~run'.failed /\ run'.stage = "step"
         /\ run'.had => disk["CreatePartitions"] # NoReq
         /\ UNCHANGED <<disk, unsynced, target, reboot, changed>>
<1> PICK had \in BOOLEAN : had = (disk["CreatePartitions"] # NoReq)
  BY Zenon
<1> PICK prev \in Digests : prev = IF status.destructive THEN status.digest ELSE NoReq
  BY DEF Types, Records, Digests
<1>1. run' = [req |-> r, auto |-> auto, at |-> 1, body |-> FALSE, stage |-> "step",
              failed |-> FALSE, digest |-> NoReq, prev |-> prev, had |-> had]
  BY DEF StartRun, NoRun
<1>2. run' \in RunRecords
  BY <1>1 DEF RunRecords, Digests
<1>3. UNCHANGED <<disk, unsynced, target, reboot, changed>>
  BY DEF StartRun
<1> QED BY <1>1, <1>2, <1>3

-----------------------------------------------------------------------------
(* Steps that leave the disk alone *)

\* The boot entry.
LEMMA BootKeeps == IInv /\ runBootWithHandoff => IInv'
<1> SUFFICES ASSUME IInv, runBootWithHandoff PROVE IInv'
  OBVIOUS
<1> USE InstallAssumption DEF InstallAssumption
<1>1. /\ proc' \in {"held", "fetching", "waiting"} /\ run = NoRun /\ UNCHANGED run
      /\ proc' = "fetching" => server'.state = "accepted" /\ Input # NoReq
      /\ server' \in Servers /\ server'.bundle = NoReq /\ server'.manifest = NoReq
  BY DEF IInv, Types, Attempt, runBootWithHandoff, BeginAutomatic, Closed, Servers, Digests
<1>2. status' \in Records(Digests) /\ status'.state # "reboot-requested"
  BY DEF IInv, runBootWithHandoff, NoStatus, Records, States, Digests
<1>3. Types'
  BY <1>1, <1>2 DEF IInv, Types, Digests, runBootWithHandoff
<1>4. Attempt' /\ Filling' /\ Beating' /\ Halting' /\ MutationAnnounced' /\ AutomaticKeys'
  BY <1>1 DEF IInv, Attempt, Filling, Beating, Halting, MutationAnnounced, AutomaticKeys, InputKind, NoRun,
     runBootWithHandoff
<1>5. Reserved' /\ Rebooting' /\ RebootComplete'
  BY <1>1, <1>2 DEF IInv, Reserved, Rebooting, InstallHonest, RebootComplete, Input, NoRun, runBootWithHandoff
<1>6. RecordLast' /\ TargetMeans' /\ HandoffComplete'
  BY DEF IInv, RecordLast, Filled, TargetMeans, InstallHonest, HandoffComplete, runBootWithHandoff
<1> QED BY <1>1, <1>2, <1>3, <1>4, <1>5, <1>6 DEF IInv, InstallHonest, Halting, HaltProtects

\* An automatic install starts under the API's reservation, with its own keys.
LEMMA AutomaticKeeps == IInv /\ runAutomaticInstall => IInv'
<1> SUFFICES ASSUME IInv, runAutomaticInstall PROVE IInv'
  OBVIOUS
<1> USE InstallAssumption DEF InstallAssumption
<1> PICK r : r = Input
  OBVIOUS
<1>1. r \in Requests /\ StartRun(r, TRUE) /\ server.state = "accepted" /\ proc # "running"
  BY DEF IInv, Types, Reserved, Input, Servers, Digests, runAutomaticInstall
<1>2. /\ run' \in RunRecords /\ run'.req = r /\ run'.auto = TRUE /\ run'.at = 1
      /\ ~run'.body /\ ~run'.failed /\ run'.stage = "step"
      /\ run'.had => disk["CreatePartitions"] # NoReq
      /\ UNCHANGED <<disk, unsynced, target, reboot, changed>>
  BY <1>1, Started DEF IInv
<1>3. run = NoRun /\ beat = NoStatus
  BY DEF IInv, Attempt, Beating, NoRun, runAutomaticInstall
<1>4. Types'
  <2>1. files' \in [bundle : Digests, manifest : Digests]
    BY DEF IInv, Types, Fetched, runAutomaticInstall
  <2>2. ssh' \in Digests
    BY <1>1 DEF IInv, Types, Digests, runAutomaticInstall
  <2> QED BY <1>1, <1>2, <2>1, <2>2 DEF IInv, Types, runAutomaticInstall
<1>5. Attempt' /\ Reserved' /\ Filling'
  BY <1>1, <1>2 DEF IInv, Attempt, Reserved, Filling, Input, runAutomaticInstall
<1>6. Beating' /\ Rebooting' /\ RebootComplete'
  BY <1>2, <1>3 DEF IInv, Beating, Rebooting, InstallHonest, RebootComplete, runAutomaticInstall
<1>7. Halting' /\ MutationAnnounced' /\ AutomaticKeys'
  <2>1. changed = NoReq /\ changed' = NoReq
    BY <1>2 DEF IInv, Attempt, runAutomaticInstall
  <2>2. InputKind' = "bundle" => ssh' = r
    BY <1>1 DEF IInv, Types, Fetched, Input, InputKind, runAutomaticInstall
  <2> QED BY <1>2, <2>1, <2>2 DEF Halting, MutationAnnounced, AutomaticKeys
<1>8. RecordLast' /\ TargetMeans' /\ HandoffComplete'
  BY <1>2 DEF IInv, RecordLast, Filled, TargetMeans, InstallHonest, HandoffComplete
<1> QED BY <1>1, <1>2, <1>3, <1>4, <1>5, <1>6, <1>7, <1>8 DEF IInv, InstallHonest, Halting, HaltProtects

\* An accepted request starts.
LEMMA TakeKeeps == IInv /\ TakeAccepted => IInv'
<1> SUFFICES ASSUME IInv, TakeAccepted PROVE IInv'
  OBVIOUS
<1> USE InstallAssumption DEF InstallAssumption
<1> PICK r : r = IF server.bundle # NoReq THEN server.bundle ELSE server.manifest
  OBVIOUS
<1>1. r \in Requests /\ StartRun(r, FALSE) /\ server.state = "accepted" /\ proc # "running"
  BY DEF IInv, Types, Reserved, Input, Servers, Digests, TakeAccepted
<1>2. /\ run' \in RunRecords /\ run'.req = r /\ run'.auto = FALSE /\ run'.at = 1
      /\ ~run'.body /\ ~run'.failed /\ run'.stage = "step"
      /\ run'.had => disk["CreatePartitions"] # NoReq
      /\ UNCHANGED <<disk, unsynced, target, reboot, changed>>
  BY <1>1, Started DEF IInv
<1>3. run = NoRun /\ beat = NoStatus
  BY DEF IInv, Attempt, Beating, NoRun, TakeAccepted
<1>4. Types'
  BY <1>1, <1>2 DEF IInv, Types, Digests, TakeAccepted
<1>5. Attempt' /\ Reserved' /\ Filling'
  BY <1>1, <1>2 DEF IInv, Attempt, Reserved, Filling, Input, TakeAccepted
<1>6. Beating' /\ Rebooting' /\ RebootComplete'
  BY <1>2, <1>3 DEF IInv, Beating, Rebooting, InstallHonest, RebootComplete, TakeAccepted
<1>7. Halting' /\ MutationAnnounced' /\ AutomaticKeys'
  BY <1>2 DEF IInv, Attempt, Halting, MutationAnnounced, AutomaticKeys, InputKind, TakeAccepted
<1>8. RecordLast' /\ TargetMeans' /\ HandoffComplete'
  BY <1>2 DEF IInv, RecordLast, Filled, TargetMeans, InstallHonest, HandoffComplete
<1> QED BY <1>1, <1>2, <1>3, <1>4, <1>5, <1>6, <1>7, <1>8 DEF IInv, InstallHonest, Halting, HaltProtects

\* An input that cannot be read.
LEMMA FetchFailsKeeps == IInv /\ FetchFails => IInv'
<1> SUFFICES ASSUME IInv, FetchFails PROVE IInv'
  OBVIOUS
<1> USE InstallAssumption DEF InstallAssumption
<1>1. run' = NoRun /\ proc' = "exited" /\ server' = Closed /\ (beat' = beat \/ beat' = NoStatus)
  BY DEF IInv, Attempt, FetchFails
<1>2. beat' = NoStatus
  BY DEF IInv, Attempt, Beating, NoRun, FetchFails
<1>3. Types'
  <2>1. files' \in [bundle : Digests, manifest : Digests]
    BY DEF IInv, Types, Fetched, FetchFails
  <2>2. ssh' \in Digests
    BY DEF IInv, Types, Input, FetchFails
  <2> QED BY <1>1, <1>2, <2>1, <2>2, EmptyTyped DEF IInv, Types, FetchFails
<1>4. Attempt' /\ Reserved' /\ Beating' /\ Filling' /\ Halting' /\ MutationAnnounced' /\ AutomaticKeys'
  BY <1>1, <1>2
  DEF IInv, InstallHonest, Attempt, Reserved, Beating, Filling, Halting, MutationAnnounced, AutomaticKeys,
      NoRun, Closed, FetchFails
<1>5. Rebooting' /\ RebootComplete'
  BY DEF IInv, Rebooting, InstallHonest, RebootComplete, FetchFails
<1>6. RecordLast' /\ TargetMeans' /\ HandoffComplete'
  BY DEF IInv, RecordLast, Filled, TargetMeans, InstallHonest, HandoffComplete, FetchFails
<1> QED BY <1>1, <1>2, <1>3, <1>4, <1>5, <1>6 DEF IInv, InstallHonest, Halting, HaltProtects

\* A payload that cannot be copied.
LEMMA MaterializeFailsKeeps == IInv /\ MaterializeFails => IInv'
<1> SUFFICES ASSUME IInv, MaterializeFails PROVE IInv'
  OBVIOUS
<1> USE InstallAssumption DEF InstallAssumption
<1>1. run' = NoRun /\ proc' = "exited" /\ server' = Closed /\ (beat' = beat \/ beat' = NoStatus)
  BY DEF IInv, Attempt, MaterializeFails
<1>2. beat' = NoStatus
  BY DEF IInv, Attempt, Beating, NoRun, MaterializeFails
<1>3. Types'
  BY <1>1, <1>2, EmptyTyped DEF IInv, Types, Servers, Digests, MaterializeFails
<1>4. Attempt' /\ Reserved' /\ Beating' /\ Filling' /\ Halting' /\ MutationAnnounced' /\ AutomaticKeys'
  BY <1>1, <1>2
  DEF IInv, InstallHonest, Attempt, Reserved, Beating, Filling, Halting, MutationAnnounced, AutomaticKeys,
      NoRun, Closed, MaterializeFails
<1>5. Rebooting' /\ RebootComplete'
  BY DEF IInv, Rebooting, InstallHonest, RebootComplete, MaterializeFails
<1>6. RecordLast' /\ TargetMeans' /\ HandoffComplete'
  BY DEF IInv, RecordLast, Filled, TargetMeans, InstallHonest, HandoffComplete, MaterializeFails
<1> QED BY <1>1, <1>2, <1>3, <1>4, <1>5, <1>6 DEF IInv, InstallHonest, Halting, HaltProtects

\* The process is killed: the disk and the status file stay.
LEMMA CrashKeeps == IInv /\ Crash => IInv'
<1> SUFFICES ASSUME IInv, Crash PROVE IInv'
  OBVIOUS
<1> USE InstallAssumption DEF InstallAssumption
<1>1. run' = NoRun /\ proc' = "exited" /\ server' = Closed /\ (beat' = beat \/ beat' = NoStatus)
  BY DEF IInv, Attempt, Crash
<1>2. beat' = NoStatus
  BY DEF IInv, Attempt, Beating, NoRun, Crash
<1>3. Types'
  BY <1>1, <1>2, EmptyTyped DEF IInv, Types, Servers, Digests, Crash
<1>4. Attempt' /\ Reserved' /\ Beating' /\ Filling' /\ Halting' /\ MutationAnnounced' /\ AutomaticKeys'
  BY <1>1, <1>2
  DEF IInv, InstallHonest, Attempt, Reserved, Beating, Filling, Halting, MutationAnnounced, AutomaticKeys,
      NoRun, Closed, Crash
<1>5. Rebooting' /\ RebootComplete'
  BY <1>1 DEF IInv, Rebooting, InstallHonest, RebootComplete, NoRun, Crash
<1>6. RecordLast' /\ TargetMeans' /\ HandoffComplete'
  BY DEF IInv, RecordLast, Filled, TargetMeans, InstallHonest, HandoffComplete, Crash
<1> QED BY <1>1, <1>2, <1>3, <1>4, <1>5, <1>6 DEF IInv, InstallHonest, Halting, HaltProtects

\* A request is accepted.
LEMMA SubmitKeeps == IInv /\ (\E r \in Requests, kind \in {"bundle", "manifest"} : Submit(r, kind)) => IInv'
<1> SUFFICES ASSUME IInv, \E r \in Requests, kind \in {"bundle", "manifest"} : Submit(r, kind) PROVE IInv'
  OBVIOUS
<1> USE InstallAssumption DEF InstallAssumption
<1> PICK r \in Requests, kind \in {"bundle", "manifest"} : Submit(r, kind)
  OBVIOUS
<1>1. server' \in Servers /\ server'.state = "accepted"
  <2>1. server \in Servers /\ r \in Digests
    BY DEF IInv, Types, Digests
  <2>2. server' = [server EXCEPT !.state = "accepted", ![kind] = r]
    BY DEF Submit
  <2>3. CASE kind = "bundle"
    BY <2>1, <2>2, <2>3 DEF Servers
  <2>4. CASE kind = "manifest"
    BY <2>1, <2>2, <2>4 DEF Servers
  <2> QED BY <2>3, <2>4
<1>2. UNCHANGED <<boot, proc, ssh, run, beat, status, files, disk, unsynced, target, reboot, changed, starts>>
  BY DEF IInv, Submit
<1>3. Types' /\ Reserved'
  BY <1>1, <1>2 DEF IInv, Types, Reserved, Input
<1>4. Attempt' /\ Beating' /\ Rebooting' /\ Filling' /\ RecordLast' /\ TargetMeans' /\ Halting'
  BY <1>2 DEF IInv, Attempt, Beating, Done, Step, Rebooting, Filling, RecordLast, Filled, TargetMeans, Halting
<1>5. MutationAnnounced' /\ RebootComplete' /\ AutomaticKeys' /\ HandoffComplete'
  BY <1>2 DEF IInv, InstallHonest, MutationAnnounced, RebootComplete, AutomaticKeys, InputKind, HandoffComplete
<1> QED BY <1>1, <1>2, <1>3, <1>4, <1>5 DEF IInv, InstallHonest, Halting, HaltProtects

\* Keys change only while nothing is being installed.
LEMMA SSHAccessKeeps == IInv /\ (\E r \in Requests : handleSSHAccess(r)) => IInv'
<1> SUFFICES ASSUME IInv, \E r \in Requests : handleSSHAccess(r) PROVE IInv'
  OBVIOUS
<1> USE InstallAssumption DEF InstallAssumption
<1> PICK r \in Requests : handleSSHAccess(r)
  OBVIOUS
<1>1. proc # "running" /\ ssh' \in Digests
  BY DEF IInv, Reserved, Digests, handleSSHAccess
<1>2. UNCHANGED <<boot, proc, server, run, beat, status, files, disk, unsynced, target, reboot, changed, starts>>
  BY DEF IInv, handleSSHAccess
<1>3. Types' /\ Reserved' /\ AutomaticKeys'
  BY <1>1, <1>2 DEF IInv, Types, Reserved, Input, AutomaticKeys, InputKind
<1>4. Attempt' /\ Beating' /\ Rebooting' /\ Filling' /\ RecordLast' /\ TargetMeans' /\ Halting'
  BY <1>2 DEF IInv, Attempt, Beating, Done, Step, Rebooting, Filling, RecordLast, Filled, TargetMeans, Halting
<1>5. MutationAnnounced' /\ RebootComplete' /\ HandoffComplete'
  BY <1>2 DEF IInv, InstallHonest, MutationAnnounced, RebootComplete, HandoffComplete
<1> QED BY <1>1, <1>2, <1>3, <1>4, <1>5 DEF IInv, InstallHonest, Halting, HaltProtects

\* The status is announced before the body runs.
LEMMA StartProgressKeeps == IInv /\ startProgress => IInv'
<1> SUFFICES ASSUME IInv, startProgress PROVE IInv'
  OBVIOUS
<1> USE InstallAssumption DEF InstallAssumption
<1> PICK record : record = statusFromContext("running", Done, Step, run.digest)
  OBVIOUS
<1>1. /\ proc = "running" /\ run \in RunRecords /\ run.at \in 1..18 /\ ~run.failed /\ run.stage = "step" /\ ~reboot
  BY DEF IInv, Types, Attempt, Rebooting, startProgress
<1>2. /\ record.state = "running" /\ record.digest = run.digest
      /\ record.destructive <=> run.at >= 7
  BY <1>1, AtStep DEF statusFromContext
<1>3. record \in Records(Digests)
  <2> PICK done \in 0..18, step \in Steps, digest \in Digests :
             done = Done /\ step = Step /\ digest = run.digest
    BY <1>1, AtStep DEF RunRecords
  <2> QED BY RecordTyped DEF States
<1>4. /\ run' = [run EXCEPT !.body = TRUE] /\ status' = record /\ beat' = record
      /\ UNCHANGED <<boot, proc, server, ssh, files, disk, unsynced, target, reboot, changed, starts>>
  BY DEF IInv, startProgress
<1>5. /\ run' \in RunRecords /\ run'.body /\ run'.at = run.at /\ run'.req = run.req /\ run'.auto = run.auto
      /\ run'.failed = run.failed /\ run'.digest = run.digest /\ run'.had = run.had /\ run'.stage = run.stage
  BY <1>1, <1>4 DEF RunRecords
<1>6. Types' /\ Attempt' /\ Reserved'
  BY <1>1, <1>3, <1>4, <1>5 DEF IInv, Types, Attempt, Reserved, Input
<1>7. Beating'
  BY <1>2, <1>4, <1>5 DEF Beating, Done, Step
<1>8. Rebooting' /\ RebootComplete'
  BY <1>1, <1>2, <1>4, <1>5 DEF Rebooting, RebootComplete
<1>9. Filling' /\ Halting' /\ AutomaticKeys'
  BY <1>4, <1>5 DEF IInv, Filling, Halting, InstallHonest, AutomaticKeys, InputKind
<1>10. MutationAnnounced'
  BY <1>1, <1>2, <1>4, <1>5 DEF IInv, Attempt, MutationAnnounced
<1>11. RecordLast' /\ TargetMeans' /\ HandoffComplete'
  BY <1>4 DEF IInv, RecordLast, Filled, TargetMeans, InstallHonest, HandoffComplete
<1> QED BY <1>1, <1>2, <1>3, <1>4, <1>5, <1>6, <1>7, <1>8, <1>9, <1>10, <1>11 DEF IInv, InstallHonest, Halting, HaltProtects

\* The heartbeat writes what is there.
LEMMA HeartbeatKeeps == IInv /\ Heartbeat => IInv'
<1> SUFFICES ASSUME IInv, Heartbeat PROVE IInv'
  OBVIOUS
<1> USE InstallAssumption DEF InstallAssumption
<1>1. UNCHANGED <<boot, proc, server, ssh, run, beat, status, files, disk, unsynced, target, reboot, changed, starts>>
  BY DEF IInv, Beating, Heartbeat
<1>2. Types' /\ Attempt' /\ Reserved' /\ Beating' /\ Rebooting' /\ Filling'
  BY <1>1 DEF IInv, Types, Attempt, Reserved, Input, Beating, Done, Step, Rebooting, Filling
<1>3. RecordLast' /\ TargetMeans' /\ Halting'
  BY <1>1 DEF IInv, RecordLast, Filled, TargetMeans, Halting
<1>4. MutationAnnounced' /\ RebootComplete' /\ AutomaticKeys' /\ HandoffComplete'
  BY <1>1 DEF IInv, InstallHonest, MutationAnnounced, RebootComplete, AutomaticKeys, InputKind, HandoffComplete
<1> QED BY <1>1, <1>2, <1>3, <1>4 DEF IInv, InstallHonest, Halting, HaltProtects

\* A failed attempt goes back to waiting, or the process ends.
LEMMA EndAttemptKeeps == IInv /\ EndAttempt => IInv'
<1> SUFFICES ASSUME IInv, EndAttempt PROVE IInv'
  OBVIOUS
<1> USE InstallAssumption DEF InstallAssumption
<1>1. /\ run' = NoRun /\ proc' \in {"waiting", "exited"} /\ proc = "running" /\ run.failed
      /\ UNCHANGED <<boot, ssh, beat, status, files, disk, unsynced, target, reboot, changed, starts>>
  BY DEF IInv, EndAttempt
<1>2. beat = NoStatus
  BY <1>1 DEF IInv, Attempt, Beating
<1>3. server' \in Servers /\ server'.bundle = NoReq /\ server'.manifest = NoReq
  <2>1. \/ server' = [server EXCEPT !.state = "waiting", !.bundle = NoReq, !.manifest = NoReq]
        \/ server' = Closed
    BY DEF EndAttempt
  <2>2. server \in Servers
    BY DEF IInv, Types
  <2>3. CASE server' = Closed
    BY <2>3, EmptyTyped DEF Closed
  <2>4. CASE server' = [server EXCEPT !.state = "waiting", !.bundle = NoReq, !.manifest = NoReq]
    BY <2>2, <2>4 DEF Servers, Digests
  <2> QED BY <2>1, <2>3, <2>4
<1>4. Types'
  BY <1>1, <1>3, EmptyTyped DEF IInv, Types
<1>5. Attempt' /\ Reserved' /\ Beating' /\ Filling' /\ Halting' /\ MutationAnnounced' /\ AutomaticKeys'
  <2>1. proc' = "waiting" => ~status.destructive
    BY DEF EndAttempt, PrepareRetry
  <2> QED
    BY <1>1, <1>2, <1>3, <2>1
    DEF IInv, InstallHonest, Attempt, Reserved, Beating, Filling, Halting, MutationAnnounced, AutomaticKeys, NoRun
<1>6. Rebooting' /\ RebootComplete'
  <2>1. proc' = "waiting" => status.state # "reboot-requested"
    BY DEF EndAttempt, PrepareRetry
  <2> QED BY <1>1, <2>1 DEF IInv, Rebooting, InstallHonest, RebootComplete, NoRun
<1>7. RecordLast' /\ TargetMeans' /\ HandoffComplete'
  BY <1>1 DEF IInv, RecordLast, Filled, TargetMeans, InstallHonest, HandoffComplete
<1> QED BY <1>1, <1>2, <1>3, <1>4, <1>5, <1>6, <1>7 DEF IInv, InstallHonest, Halting, HaltProtects

\* Power is lost: /run/katl, the process and some copied files go, the rest of
\* the target stays.
LEMMA LosePowerKeeps == IInv /\ LosePower => IInv'
<1> SUFFICES ASSUME IInv, LosePower PROVE IInv'
  OBVIOUS
<1> USE InstallAssumption DEF InstallAssumption
<1> PICK lost \in SUBSET unsynced : disk' = [s \in Writes |-> IF s \in lost THEN LostWrite ELSE disk[s]]
  BY DEF LosePower
<1>1. /\ proc' = "down" /\ server' = Closed /\ ssh' = NoReq /\ run' = NoRun /\ beat' = NoStatus
      /\ status' = NoStatus /\ reboot' = FALSE /\ changed' = NoReq /\ unsynced' = {}
      /\ files' = [bundle |-> NoReq, manifest |-> NoReq]
      /\ UNCHANGED <<boot, target, starts>>
  BY DEF LosePower
<1>2. lost \subseteq Copies /\ Copies \subseteq Writes /\ "CreatePartitions" \in Writes \ Copies
      /\ "WriteInstallRecord" \in Writes
  BY DEF IInv, Types, Copies, Writes
<1>3. disk' \in [Writes -> Contents]
  BY DEF IInv, Types, Contents
<1>4. Types'
  BY <1>1, <1>3, EmptyTyped DEF IInv, Types, Digests
<1>5. Attempt' /\ Reserved' /\ Beating' /\ Rebooting' /\ Filling' /\ Halting'
  BY <1>1 DEF Attempt, Reserved, Beating, Rebooting, Filling, Halting, NoRun, NoStatus, Closed
<1>6. MutationAnnounced' /\ RebootComplete' /\ AutomaticKeys'
  BY <1>1 DEF MutationAnnounced, RebootComplete, AutomaticKeys, InputKind, NoStatus
<1>7. disk'["CreatePartitions"] = disk["CreatePartitions"]
  BY <1>2
<1>8. TargetMeans'
  BY <1>1, <1>7 DEF IInv, TargetMeans
<1>9. HandoffComplete'
  BY <1>1 DEF IInv, InstallHonest, HandoffComplete
<1>10. RecordLast'
  <2> SUFFICES ASSUME disk'["WriteInstallRecord"] \notin {NoReq, HalfWritten} PROVE Filled'
    BY <1>1 DEF RecordLast
  <2>1. Filled
    BY <1>2 DEF IInv, RecordLast
  <2> QED BY <1>2, <1>7, <2>1 DEF Filled
<1> QED BY <1>4, <1>5, <1>6, <1>8, <1>9, <1>10 DEF IInv, InstallHonest, Halting, HaltProtects

\* The installed system hands over only what an install record covers.
LEMMA HandoffKeeps == IInv /\ WriteRuntimeHandoff => IInv'
<1> SUFFICES ASSUME IInv, WriteRuntimeHandoff PROVE IInv'
  OBVIOUS
<1> USE InstallAssumption DEF InstallAssumption
<1>1. UNCHANGED <<boot, proc, server, ssh, run, beat, status, files, disk, unsynced, reboot, changed, starts>>
  BY DEF WriteRuntimeHandoff
<1> PICK s : target' = [target EXCEPT !.state = s] /\ s \in States
             /\ (s = "waiting-for-cluster-bootstrap" => ValidateRuntimeHandoff(target) /\ CleanGenerationZero)
  BY DEF WriteRuntimeHandoff, States
<1>2. target' \in Records(Digests \cup {OldRequest}) /\ target'.state = s /\ target'.digest = target.digest
  BY DEF IInv, Types, Records
<1>3. Types' /\ Attempt' /\ Reserved'
  BY <1>1, <1>2 DEF IInv, Types, Attempt, Reserved, Input
<1>4. Beating' /\ Rebooting' /\ Halting'
  BY <1>1 DEF IInv, Beating, Done, Step, Rebooting, Halting
<1>5. Filling'
  BY <1>1 DEF Filling, WriteRuntimeHandoff
<1>6. TargetMeans' /\ RecordLast'
  BY <1>1, <1>2 DEF IInv, TargetMeans, RecordLast, Filled, ValidateRuntimeHandoff
<1>7. HandoffComplete'
  <2> SUFFICES ASSUME s = "waiting-for-cluster-bootstrap", NEW w \in Writes
               PROVE  disk[w] \in {target.digest, LostWrite}
    BY <1>1, <1>2 DEF HandoffComplete
  <2>1. target.digest = disk["CreatePartitions"]
    BY DEF IInv, TargetMeans, ValidateRuntimeHandoff
  <2>2. Filled /\ disk["WriteInstallRecord"] \notin {NoReq, HalfWritten}
    BY DEF IInv, RecordLast, CleanGenerationZero
  <2> QED BY <2>1, <2>2 DEF Filled
<1>8. MutationAnnounced' /\ RebootComplete' /\ AutomaticKeys'
  BY <1>1 DEF IInv, InstallHonest, MutationAnnounced, RebootComplete, AutomaticKeys, InputKind
<1> QED BY <1>3, <1>4, <1>5, <1>6, <1>7, <1>8 DEF IInv, InstallHonest, Halting, HaltProtects

-----------------------------------------------------------------------------
(* The runner's steps *)

(* What a step may do to the disk: nothing before the wiping step or after the *)
(* install record, and a record is last.                                      *)
LEMMA WritingKeeps ==
  ASSUME IInv, proc = "running", ~run.failed, Leaves(disk'),
         disk' \in Partial(disk) \cup {Written(disk), disk}
  PROVE  /\ disk' \in [Writes -> Contents] /\ unsynced' \subseteq Copies /\ changed' \in Digests
         /\ disk' # disk => run.at \in 7..16
         /\ disk' = disk => unsynced' = unsynced
         /\ changed' # NoReq => changed' = run.req /\ run.at >= 7
         /\ changed' # NoReq => changed # NoReq \/ disk' # disk
         /\ RecordLast'
<1> USE InstallAssumption DEF InstallAssumption
<1> PICK i \in 1..18 : i = run.at
  BY DEF IInv, Attempt
<1> PICK r \in Requests : r = run.req
  BY DEF IInv, Attempt
<1>1. i = run.at /\ r = run.req
  OBVIOUS
<1>2. /\ disk \in [Writes -> Contents] /\ unsynced \subseteq Copies /\ changed \in Digests
      /\ r \in Contents /\ HalfWritten \in Contents /\ r \in Digests
  BY DEF IInv, Types, Contents, Digests
<1>3. /\ i \notin 7..16 => disk' = disk
      /\ i = 7 => disk' \in {disk, Blank}
      /\ i = 8 => disk' \in {disk, [Blank EXCEPT !["CreatePartitions"] = r], [Blank EXCEPT !["CreatePartitions"] = HalfWritten]}
      /\ i \in 9..16 => disk' \in {disk, [disk EXCEPT ![Plan[i]] = r], [disk EXCEPT ![Plan[i]] = HalfWritten]}
  BY <1>1, WrittenAt, PartialAt
<1>4. disk' \in [Writes -> Contents]
  <2>1. Blank \in [Writes -> Contents]
    BY EmptyTyped
  <2>2. CASE i = 7
    BY <1>2, <1>3, <2>1, <2>2
  <2>3. CASE i = 8
    BY <1>2, <1>3, <2>1, <2>3
  <2>4. CASE i \in 9..16
    BY <1>2, <1>3, <2>4
  <2> QED BY <1>2, <1>3, <2>2, <2>3, <2>4
<1>5. /\ changed' = IF disk' # disk THEN r ELSE changed
      /\ unsynced' = IF disk' = disk THEN unsynced
                     ELSE IF Step \in {"PrepareDisk", "CreatePartitions"} THEN {}
                     ELSE unsynced \cup ({Step} \cap Copies)
  BY <1>1 DEF Leaves
<1>6. unsynced' \subseteq Copies
  BY <1>2, <1>5
<1>7. disk' # disk => i \in 7..16
  BY <1>3
<1>8. changed' \in Digests /\ (changed' # NoReq => changed' = r /\ i >= 7)
      /\ (changed' # NoReq => changed # NoReq \/ disk' # disk)
  BY <1>1, <1>2, <1>5, <1>7 DEF IInv, Attempt
<1>9. RecordLast'
  <2>1. /\ "WriteInstallRecord" \in Writes /\ "CreatePartitions" \in Writes /\ DOMAIN disk = Writes
        /\ Plan[16] = "WriteInstallRecord" /\ Step = Plan[i]
    BY <1>1, <1>2, PlanIs DEF Writes, Step
  <2>2. CASE disk' = disk
    BY <1>5, <2>2 DEF IInv, RecordLast, Filled
  <2>3. CASE disk' # disk /\ i \in 7..8
    <3>1. Step \in {"PrepareDisk", "CreatePartitions"}
      BY <2>1, <2>3, PlanIs
    <3>2. unsynced' = {}
      BY <1>5, <2>3, <3>1
    <3>3. disk'["WriteInstallRecord"] = NoReq
      BY <1>3, <2>1, <2>3 DEF Blank
    <3> QED BY <3>2, <3>3 DEF RecordLast
  <2>4. CASE disk' # disk /\ i \in 9..16
    <3>1. \A k \in 8..16 : disk[Plan[k]] = IF k < i THEN r ELSE NoReq
      BY <1>1, <2>4 DEF IInv, Filling
    <3>2. PICK v \in {r, HalfWritten} : disk' = [disk EXCEPT ![Plan[i]] = v]
      BY <1>3, <2>4
    <3>3. Plan[i] \in Writes
      BY <2>4, StepAt
    <3>4. CASE i = 16
      <4>1. \A k \in 8..15 : disk'[Plan[k]] = r
        BY <3>1, <3>2, <3>4, <2>1, StepAt, StepOnce
      <4>2. disk'["WriteInstallRecord"] = v
        BY <2>1, <3>2, <3>3, <3>4
      <4>3. disk'["CreatePartitions"] = r
        BY <4>1, PlanIs
      <4>4. \A s \in Writes \ {"WriteInstallRecord"} : disk'[s] = r
        <5> TAKE s \in Writes \ {"WriteInstallRecord"}
        <5> PICK k \in 8..16 : Plan[k] = s
          BY WriteAt
        <5>1. k # 16
          BY <2>1
        <5> QED BY <4>1, <5>1
      <4> QED BY <4>2, <4>3, <4>4 DEF RecordLast, Filled
    <3>5. CASE i # 16
      <4>1. Plan[i] # "WriteInstallRecord"
        BY <3>5, StepAt
      <4>2. disk["WriteInstallRecord"] = NoReq /\ disk[Plan[i]] = NoReq /\ disk["CreatePartitions"] = r
        BY <2>1, <2>4, <3>1, <3>5, PlanIs
      <4>3. ~Filled
        <5>1. Plan[i] \in Writes \ {"WriteInstallRecord"} /\ disk[Plan[i]] \notin {r, LostWrite}
          BY <3>3, <4>1, <4>2
        <5> QED BY <4>2, <5>1 DEF Filled
      <4>4. "WriteInstallRecord" \notin unsynced
        BY <4>3 DEF IInv, RecordLast
      <4>5. "WriteInstallRecord" \notin unsynced'
        BY <1>5, <2>1, <4>1, <4>4
      <4>6. disk'["WriteInstallRecord"] = NoReq
        BY <2>1, <3>2, <4>1, <4>2
      <4> QED BY <4>5, <4>6 DEF RecordLast
    <3> QED BY <3>4, <3>5
  <2> QED BY <1>7, <2>2, <2>3, <2>4
<1> QED BY <1>1, <1>4, <1>5, <1>6, <1>7, <1>8, <1>9

(* What a step may do to the target's own status: leave it while the disk has *)
(* it, or put a status of this request there once the target is mounted.      *)
LEMMA TargetKeeps ==
  ASSUME IInv, proc = "running", ~run.failed, Leaves(disk'),
         disk' \in Partial(disk) \cup {Written(disk), disk},
         \/ target' = OldTarget(disk')
         \/ run.at >= 10 /\ target'.digest = run.req /\ target'.state # "waiting-for-cluster-bootstrap"
  PROVE  /\ TargetMeans' /\ HandoffComplete'
         /\ target' = OldTarget(disk') => target' \in Records(Digests \cup {OldRequest})
         /\ run.at >= 7 /\ target' = OldTarget(disk') /\ disk' = Written(disk)
              => target'.state # "waiting-for-cluster-bootstrap"
<1> USE InstallAssumption DEF InstallAssumption
<1> PICK i \in 1..18 : i = run.at
  BY DEF IInv, Attempt
<1>1. i = run.at /\ run.req \in Requests
  BY DEF IInv, Attempt
<1>2. disk' # disk => i \in 7..16
  BY <1>1, WritingKeeps
<1>3. i >= 9 => disk'["CreatePartitions"] = disk["CreatePartitions"] /\ disk["CreatePartitions"] = run.req
  <2> SUFFICES ASSUME i >= 9 PROVE <1>3!2
    OBVIOUS
  <2>1. disk["CreatePartitions"] = run.req
    BY <1>1, PlanIs DEF IInv, Filling
  <2>2. CASE disk' = disk
    BY <2>1, <2>2
  <2>3. CASE disk' # disk
    <3>1. i \in 9..16
      BY <1>2, <2>3
    <3>2. disk' \in {[disk EXCEPT ![Plan[i]] = run.req], [disk EXCEPT ![Plan[i]] = HalfWritten]}
      BY <1>1, <2>3, <3>1, WrittenAt, PartialAt
    <3>3. Plan[i] # "CreatePartitions" /\ "CreatePartitions" \in Writes /\ DOMAIN disk = Writes
      BY <3>1, StepAt DEF IInv, Types, Writes
    <3> QED BY <2>1, <3>2, <3>3
  <2> QED BY <2>2, <2>3
<1>4. CASE target' # OldTarget(disk')
  <2>1. i >= 10 /\ target'.digest = run.req /\ target'.state # "waiting-for-cluster-bootstrap"
    BY <1>1, <1>4
  <2>2. TargetMeans'
    BY <1>3, <2>1 DEF TargetMeans
  <2>3. HandoffComplete'
    BY <2>1 DEF HandoffComplete
  <2> QED BY <1>4, <2>2, <2>3
<1>5. CASE target' = OldTarget(disk')
  <2>1. CASE target' = NoStatus
    BY <2>1, EmptyTyped DEF TargetMeans, HandoffComplete, NoStatus
  <2>2. CASE target' = target /\ disk'["CreatePartitions"] = disk["CreatePartitions"]
    <3>1. target \in Records(Digests \cup {OldRequest})
      BY DEF IInv, Types
    <3>2. TargetMeans'
      BY <2>2 DEF IInv, TargetMeans
    <3>3. target.state = "waiting-for-cluster-bootstrap" => disk' = disk
      <4> SUFFICES ASSUME target.state = "waiting-for-cluster-bootstrap" PROVE disk' = disk
        OBVIOUS
      <4>1. i <= 7 /\ disk["CreatePartitions"] # NoReq
        BY <1>1 DEF IInv, Filling, TargetMeans
      <4>2. i = 7 => disk' \in {disk, Blank}
        BY <1>1, WrittenAt, PartialAt
      <4>3. Blank["CreatePartitions"] = NoReq
        BY DEF Blank, Writes
      <4> QED BY <1>2, <2>2, <4>1, <4>2, <4>3
    <3>4. HandoffComplete'
      BY <2>2, <3>3 DEF IInv, InstallHonest, HandoffComplete
    <3>5. i >= 7 /\ disk' = Written(disk) => target'.state # "waiting-for-cluster-bootstrap"
      <4> SUFFICES ASSUME i >= 7, disk' = Written(disk), target.state = "waiting-for-cluster-bootstrap"
                   PROVE  FALSE
        BY <2>2
      <4>1. i = 7 /\ disk["CreatePartitions"] # NoReq
        BY <1>1 DEF IInv, Filling, TargetMeans
      <4>2. disk' = Blank
        BY <1>1, <4>1, WrittenAt
      <4> QED BY <2>2, <4>1, <4>2 DEF Blank, Writes
    <3> QED BY <1>1, <2>2, <3>1, <3>2, <3>4, <3>5
  <2> QED BY <1>5, <2>1, <2>2 DEF OldTarget
<1> QED BY <1>4, <1>5

\* A step that succeeds, in each place of the plan.
LEMMA StepSucceedsKeeps == IInv /\ StepSucceeds => IInv'
<1> SUFFICES ASSUME IInv, StepSucceeds PROVE IInv'
  OBVIOUS
<1> USE InstallAssumption DEF InstallAssumption
<1> PICK digest : digest = IF Step = "LoadManifest" THEN run.req ELSE run.digest
  OBVIOUS
<1> PICK record : record = statusFromContext(statusForStep(Step), run.at, Step, digest)
  OBVIOUS
<1>1. /\ proc = "running" /\ run \in RunRecords /\ run.at \in 1..18 /\ ~run.failed /\ ~Refused
      /\ run.stage = "step" /\ run.req \in Requests /\ server.state = "accepted"
      /\ beat' = NoStatus /\ status' = record
      /\ UNCHANGED <<boot, proc, server, ssh, files, reboot, starts>>
  BY DEF IInv, Types, Attempt, Reserved, StepSucceeds, stopProgress
<1>2. Leaves(disk') /\ disk' = Written(disk)
  BY DEF StepSucceeds, Leaves
<1>3. digest \in Digests /\ (run.at >= 2 => digest = run.req)
  BY <1>1, AtStep DEF IInv, Attempt, RunRecords, Digests
<1>4. /\ record.state = IF run.at = 18 THEN "reboot-requested" ELSE "running"
      /\ record.digest = digest /\ (record.destructive <=> run.at >= 7)
  BY <1>1, AtStep DEF statusFromContext, statusForStep
<1>5. record \in Records(Digests) /\ record \in Records(Digests \cup {OldRequest})
  <2> PICK at \in 0..18, step \in Steps, state \in States :
             at = run.at /\ step = Step /\ state = statusForStep(Step)
    BY <1>1, AtStep DEF statusForStep, States
  <2> QED BY <1>3, RecordTyped
<1>6. IF run.at >= 10 THEN target' = record ELSE target' = OldTarget(disk')
  BY <1>1, <1>2, AtStep DEF StepSucceeds, writeTargetStatus
<1>7. /\ disk' \in [Writes -> Contents] /\ unsynced' \subseteq Copies /\ changed' \in Digests
      /\ disk' # disk => run.at \in 7..16
      /\ disk' = disk => unsynced' = unsynced
      /\ changed' # NoReq => changed' = run.req /\ run.at >= 7
      /\ RecordLast'
  BY <1>1, <1>2, WritingKeeps
<1>8. /\ TargetMeans' /\ HandoffComplete' /\ target' \in Records(Digests \cup {OldRequest})
      /\ run.at >= 7 => target'.state # "waiting-for-cluster-bootstrap"
  <2>1. CASE run.at >= 10
    BY <1>1, <1>2, <1>3, <1>4, <1>5, <1>6, <2>1, TargetKeeps
  <2>2. CASE ~(run.at >= 10)
    BY <1>1, <1>2, <1>6, <2>2, TargetKeeps
  <2> QED BY <2>1, <2>2
<1>9. run' = IF run.at = 18 THEN [run EXCEPT !.body = FALSE, !.stage = "recorded"]
             ELSE [run EXCEPT !.at = @ + 1, !.body = FALSE, !.digest = digest]
  BY <1>1, AtStep DEF StepSucceeds
<1>10. /\ run' \in RunRecords /\ run'.req = run.req /\ run'.auto = run.auto /\ run'.had = run.had
       /\ ~run'.body /\ ~run'.failed /\ (run'.at >= 3 => run'.digest = run.req)
       /\ run.at = 18 => run'.at = 18 /\ run'.stage = "recorded"
       /\ run.at # 18 => run'.at = run.at + 1 /\ run'.stage = "step"
  <2>1. CASE run.at = 18
    BY <1>1, <1>9, <2>1 DEF RunRecords, IInv, Attempt
  <2>2. CASE run.at # 18
    <3>1. run.at + 1 \in 0..18
      BY <1>1, <2>2
    <3>2. run' = [run EXCEPT !.at = run.at + 1, !.body = FALSE, !.digest = digest]
      BY <1>1, <1>9, <2>2 DEF RunRecords
    <3>3. /\ run' \in RunRecords /\ run'.req = run.req /\ run'.auto = run.auto /\ run'.had = run.had
          /\ ~run'.body /\ run'.failed = run.failed /\ run'.digest = digest /\ run'.at = run.at + 1
          /\ run'.stage = run.stage
      BY <1>1, <1>3, <3>1, <3>2 DEF RunRecords
    <3>4. run'.at >= 3 => digest = run.req
      BY <1>1, <1>3, <3>3
    <3> QED BY <1>1, <2>2, <3>3, <3>4
  <2> QED BY <2>1, <2>2
<1>11. Types'
  BY <1>1, <1>5, <1>7, <1>8, <1>10, EmptyTyped DEF IInv, Types
<1>12. Attempt'
  BY <1>1, <1>7, <1>10 DEF Attempt
<1>13. Reserved' /\ AutomaticKeys'
  BY <1>1, <1>10 DEF IInv, Reserved, Input, InputKind, InstallHonest, AutomaticKeys
<1>14. Beating' /\ Rebooting'
  BY <1>1, <1>4, <1>10 DEF IInv, Beating, Rebooting
<1>15. MutationAnnounced'
  BY <1>1, <1>3, <1>4, <1>7 DEF MutationAnnounced
<1>16. Halting'
  <2> SUFFICES ASSUME boot.halt, run.auto, run.had
               PROVE  run'.at <= 6 /\ changed' = NoReq /\ disk'["CreatePartitions"] # NoReq
    BY <1>1, <1>10 DEF Halting
  <2>1. run.at <= 6 /\ disk["CreatePartitions"] # NoReq
    BY DEF IInv, Halting
  <2>2. run.at # 6
    BY <1>1, <2>1, AtStep DEF HaltsInstalled, targetHasKatlOS
  <2>3. disk' = disk /\ changed' = NoReq
    BY <1>1, <1>7, <2>1
  <2>4. run'.at <= 6
    <3> PICK i \in 1..18 : i = run.at
      BY <1>1
    <3>1. run'.at = i + 1 /\ i + 1 <= 6
      BY <1>10, <2>1, <2>2
    <3> QED BY <3>1
  <2> QED BY <2>1, <2>3, <2>4
<1>17. Filling'
  <2> SUFFICES ASSUME run.at >= 7
               PROVE  /\ \A i \in 8..16 : disk'[Plan[i]] = IF i < run'.at THEN run.req ELSE NoReq
                      /\ target'.state # "waiting-for-cluster-bootstrap"
    BY <1>1, <1>10 DEF Filling
  <2>1. \A i \in 8..16 : Plan[i] \in Writes /\ (Plan[i] = "CreatePartitions" <=> i = 8)
    BY StepAt
  <2>2. target'.state # "waiting-for-cluster-bootstrap"
    BY <1>8
  <2>3. CASE run.at = 7
    <3>1. disk' = Blank
      BY <1>1, <1>2, <2>3, WrittenAt
    <3> QED BY <1>10, <2>1, <2>2, <2>3, <3>1 DEF Blank
  <2>4. CASE run.at = 8
    <3>1. disk' = [Blank EXCEPT !["CreatePartitions"] = run.req] /\ "CreatePartitions" \in Writes
      BY <1>1, <1>2, <2>4, WrittenAt DEF Writes
    <3> QED BY <1>10, <2>1, <2>2, <2>4, <3>1 DEF Blank
  <2>5. CASE run.at \in 9..18
    <3>1. \A i \in 8..16 : disk[Plan[i]] = IF i < run.at THEN run.req ELSE NoReq
      BY <1>1, <2>5 DEF IInv, Filling
    <3>2. CASE run.at \in 17..18
      BY <1>1, <1>7, <1>10, <2>2, <3>1, <3>2
    <3>3. CASE run.at \in 9..16
      <4>1. disk' = [disk EXCEPT ![Plan[run.at]] = run.req]
        BY <1>1, <1>2, <3>3, WrittenAt
      <4>2. DOMAIN disk = Writes
        BY DEF IInv, Types
      <4>3. run'.at = run.at + 1
        BY <1>10, <3>3
      <4> QED BY <2>1, <2>2, <3>1, <3>3, <4>1, <4>2, <4>3, StepOnce
    <3> QED BY <2>5, <3>2, <3>3
  <2> QED BY <1>1, <2>3, <2>4, <2>5
<1>18. RebootComplete'
  <2>1. ASSUME run.at = 18, NEW s \in Writes PROVE disk'[s] = status'.digest
    <3> PICK i \in 8..16 : Plan[i] = s
      BY WriteAt
    <3>1. disk[s] = run.req
      BY <1>1, <2>1 DEF IInv, Filling
    <3> QED BY <1>1, <1>3, <1>4, <1>7, <2>1, <3>1
  <2>2. ~reboot'
    BY <1>1 DEF IInv, Rebooting
  <2> QED BY <1>1, <1>4, <2>1, <2>2 DEF RebootComplete
<1> QED
  BY <1>7, <1>8, <1>11, <1>12, <1>13, <1>14, <1>15, <1>16, <1>17, <1>18
  DEF IInv, InstallHonest, Halting, HaltProtects

\* The sync, before the timer is armed.
LEMMA SyncKeeps == IInv /\ SyncTarget => IInv'
<1> SUFFICES ASSUME IInv, SyncTarget PROVE IInv'
  OBVIOUS
<1> USE InstallAssumption DEF InstallAssumption
<1>1. /\ proc = "running" /\ run.stage = "recorded" /\ run \in RunRecords /\ unsynced' = {}
      /\ run' = [run EXCEPT !.stage = "synced"]
      /\ UNCHANGED <<boot, proc, server, ssh, beat, status, files, disk, target, reboot, changed, starts>>
  BY DEF SyncTarget, IInv, Types
<1>2. /\ run' \in RunRecords /\ run'.body = run.body /\ run'.at = run.at /\ run'.req = run.req
      /\ run'.auto = run.auto /\ run'.failed = run.failed /\ run'.digest = run.digest
      /\ run'.had = run.had /\ run'.stage = "synced"
  BY <1>1 DEF RunRecords
<1>3. Types' /\ Attempt' /\ Reserved'
  BY <1>1, <1>2 DEF IInv, Types, Attempt, Reserved, Input
<1>4. ~run.body /\ beat = NoStatus
  BY <1>1 DEF IInv, Attempt, Beating
<1>5. Beating' /\ Rebooting' /\ Filling' /\ Halting'
  BY <1>1, <1>2, <1>4 DEF IInv, Beating, Rebooting, Filling, Halting
<1>6. RecordLast' /\ TargetMeans' /\ HandoffComplete'
  BY <1>1 DEF IInv, RecordLast, Filled, TargetMeans, InstallHonest, HandoffComplete
<1>7. MutationAnnounced' /\ RebootComplete' /\ AutomaticKeys'
  BY <1>1, <1>2 DEF IInv, InstallHonest, MutationAnnounced, RebootComplete, AutomaticKeys, InputKind
<1> QED BY <1>3, <1>5, <1>6, <1>7 DEF IInv, InstallHonest, Halting, HaltProtects

\* The timer is armed with the target synced.
LEMMA ArmKeeps == IInv /\ ArmReboot => IInv'
<1> SUFFICES ASSUME IInv, ArmReboot PROVE IInv'
  OBVIOUS
<1> USE InstallAssumption DEF InstallAssumption
<1>1. /\ proc = "running" /\ run.stage = "synced" /\ reboot' = TRUE /\ run' = NoRun
      /\ proc' \in {"done", "exited"} /\ (server' = server \/ server' = Closed)
      /\ UNCHANGED <<boot, ssh, beat, status, files, disk, unsynced, target, changed, starts>>
  BY DEF ArmReboot
<1>2. unsynced = {} /\ status.state = "reboot-requested" /\ beat = NoStatus
  BY <1>1 DEF IInv, Rebooting, Attempt, Beating
<1>3. Types'
  BY <1>1, EmptyTyped DEF IInv, Types
<1>4. Attempt' /\ Filling' /\ Halting' /\ AutomaticKeys' /\ MutationAnnounced'
  BY <1>1 DEF IInv, Attempt, Filling, Halting, AutomaticKeys, InputKind, NoRun, InstallHonest, MutationAnnounced
<1>5. Reserved'
  BY <1>1 DEF IInv, Reserved, Closed
<1>6. Beating' /\ Rebooting' /\ RebootComplete'
  BY <1>1, <1>2 DEF IInv, Beating, Rebooting, NoRun, InstallHonest, RebootComplete
<1>7. RecordLast' /\ TargetMeans' /\ HandoffComplete'
  BY <1>1 DEF IInv, RecordLast, Filled, TargetMeans, InstallHonest, HandoffComplete
<1> QED BY <1>3, <1>4, <1>5, <1>6, <1>7 DEF IInv, InstallHonest, Halting, HaltProtects

(* What recording a failure may leave of the two status files. *)
LEMMA FailureRecorded ==
  ASSUME IInv, run.at \in 1..18, NEW completed \in 0..18, completed \in {run.at - 1, run.at},
         NEW refused \in BOOLEAN, NEW digest \in Digests, recordFailure(completed, refused, digest, disk')
  PROVE  /\ \/ status' = status
            \/ /\ status' \in Records(Digests) /\ status'.digest = digest
               /\ status'.state # "reboot-requested" /\ status'.state # "running"
               /\ run.at >= 7 => status'.destructive
         /\ \/ target' = OldTarget(disk')
            \/ /\ run.at >= 10 /\ target' \in Records(Digests \cup {OldRequest}) /\ target'.digest = digest
               /\ target'.state # "waiting-for-cluster-bootstrap"
<1> PICK state : state = failureState(completed, Step, refused)
  OBVIOUS
<1> PICK record : record = statusFromContext(state, completed, Step, digest)
  OBVIOUS
<1>1. state \in {"install-refused", "failed-before-mutation", "failed-after-mutation"}
  BY DEF failureState
<1>2. /\ mutationStarted(completed, Step) <=> run.at >= 7
      /\ targetStatusReady(completed, Step) <=> run.at >= 10
      /\ Step \in Steps
  BY AtStep
<1>3. record.state = state /\ record.digest = digest /\ (run.at >= 7 => record.destructive)
  BY <1>2 DEF statusFromContext
<1>4. record \in Records(Digests) /\ record \in Records(Digests \cup {OldRequest})
  <2> PICK step \in Steps : step = Step
    BY <1>2
  <2>1. state \in States
    BY <1>1 DEF States
  <2> QED BY <2>1, RecordTyped
<1>5. writeTargetStatus(completed, Step, record, disk') = IF run.at >= 10 THEN record ELSE OldTarget(disk')
  BY <1>2 DEF writeTargetStatus
<1>6. \/ status' = record /\ target' \in {writeTargetStatus(completed, Step, record, disk'), OldTarget(disk')}
      \/ status' = status /\ target' = OldTarget(disk')
  BY DEF recordFailure
<1> QED BY <1>1, <1>3, <1>4, <1>5, <1>6

(* What a step that fails may leave. *)
LEMMA Stops ==
  ASSUME IInv, StepFails
  PROVE  /\ Leaves(disk') /\ disk' \in Partial(disk) \cup {Written(disk), disk}
         /\ disk' # disk => run.body
         /\ \E digest \in Digests :
              /\ run.at >= 3 => digest = run.req
              /\ run' = [run EXCEPT !.failed = TRUE, !.body = FALSE, !.digest = digest]
              /\ \/ status' = status
                 \/ /\ status' \in Records(Digests) /\ status'.digest = digest
                    /\ run.at >= 7 => status'.destructive
                    /\ status'.state = "reboot-requested" => run.at = 18
              /\ \/ target' = OldTarget(disk')
                 \/ /\ run.at >= 10 /\ target' \in Records(Digests \cup {OldRequest}) /\ target'.digest = digest
                    /\ target'.state # "waiting-for-cluster-bootstrap"
<1> USE InstallAssumption DEF InstallAssumption
<1> PICK digest : digest = IF Step = "LoadManifest" /\ run.body THEN run.req ELSE run.digest
  OBVIOUS
<1> PICK refused \in BOOLEAN : refused <=> (run.body /\ Refused)
  OBVIOUS
<1>1. proc = "running" /\ run \in RunRecords /\ run.at \in 1..18 /\ run.req \in Requests
  BY DEF IInv, Types, Attempt, StepFails
<1>2. digest \in Digests /\ (run.at >= 3 => digest = run.req)
  BY <1>1, AtStep DEF IInv, Attempt, RunRecords, Digests
<1>3. run' = [run EXCEPT !.failed = TRUE, !.body = FALSE, !.digest = digest]
  BY Zenon DEF StepFails
<1>4. /\ Done \in 0..18 /\ Done \in {run.at - 1, run.at} /\ run.at \in 0..18
      /\ Step \in Steps /\ statusForStep(Step) = IF run.at = 18 THEN "reboot-requested" ELSE "running"
      /\ mutationStarted(run.at, Step) <=> run.at >= 7
  BY <1>1, AtStep DEF statusForStep
<1>5. \/ \E d \in IF run.body /\ ~Refused THEN Partial(disk) \cup {Written(disk)} ELSE {disk} :
             Leaves(d) /\ recordFailure(Done, run.body /\ Refused, digest, d)
      \/ /\ run.body /\ ~Refused /\ Leaves(Written(disk))
         /\ \/ recordFailure(run.at, FALSE, digest, Written(disk))
            \/ /\ status' = statusFromContext(statusForStep(Step), run.at, Step, digest)
               /\ target' = OldTarget(Written(disk))
  BY Zenon DEF StepFails
<1>6. /\ Leaves(disk') /\ disk' \in Partial(disk) \cup {Written(disk), disk}
      /\ disk' # disk => run.body
      /\ \/ recordFailure(Done, run.body /\ Refused, digest, disk')
         \/ recordFailure(run.at, FALSE, digest, disk')
         \/ /\ status' = statusFromContext(statusForStep(Step), run.at, Step, digest)
            /\ target' = OldTarget(disk')
  <2>1. CASE \E d \in IF run.body /\ ~Refused THEN Partial(disk) \cup {Written(disk)} ELSE {disk} :
               Leaves(d) /\ recordFailure(Done, run.body /\ Refused, digest, d)
    <3> PICK d \in IF run.body /\ ~Refused THEN Partial(disk) \cup {Written(disk)} ELSE {disk} :
               Leaves(d) /\ recordFailure(Done, run.body /\ Refused, digest, d)
      BY <2>1
    <3>1. disk' = d
      BY DEF Leaves
    <3> QED BY <3>1, Zenon
  <2>2. CASE /\ run.body /\ ~Refused /\ Leaves(Written(disk))
             /\ \/ recordFailure(run.at, FALSE, digest, Written(disk))
                \/ /\ status' = statusFromContext(statusForStep(Step), run.at, Step, digest)
                   /\ target' = OldTarget(Written(disk))
    <3>1. disk' = Written(disk)
      BY <2>2 DEF Leaves
    <3> QED BY <2>2, <3>1, Zenon
  <2> QED BY <1>5, <2>1, <2>2
<1>7. \/ /\ \/ status' = status
            \/ /\ status' \in Records(Digests) /\ status'.digest = digest
               /\ status'.state # "reboot-requested" /\ status'.state # "running"
               /\ run.at >= 7 => status'.destructive
         /\ \/ target' = OldTarget(disk')
            \/ /\ run.at >= 10 /\ target' \in Records(Digests \cup {OldRequest}) /\ target'.digest = digest
               /\ target'.state # "waiting-for-cluster-bootstrap"
      \/ /\ status' = statusFromContext(statusForStep(Step), run.at, Step, digest)
         /\ target' = OldTarget(disk')
  <2> PICK done \in 0..18, at \in 0..18 : done = Done /\ at = run.at
    BY <1>4
  <2>1. CASE recordFailure(Done, run.body /\ Refused, digest, disk')
    <3>1. recordFailure(done, refused, digest, disk')
      BY <2>1 DEF recordFailure, failureState
    <3> QED BY <1>1, <1>2, <1>4, <3>1, FailureRecorded
  <2>2. CASE recordFailure(run.at, FALSE, digest, disk')
    <3>1. recordFailure(at, FALSE, digest, disk')
      BY <2>2
    <3> QED BY <1>1, <1>2, <1>4, <3>1, FailureRecorded
  <2> QED BY <1>6, <2>1, <2>2
<1>8. CASE status' = statusFromContext(statusForStep(Step), run.at, Step, digest)
  <2> PICK at \in 0..18, step \in Steps, state \in States : at = run.at /\ step = Step /\ state = statusForStep(Step)
    BY <1>4 DEF States
  <2>1. status' \in Records(Digests)
    BY <1>2, <1>8, RecordTyped
  <2>2. /\ status'.state = statusForStep(Step) /\ status'.digest = digest
        /\ run.at >= 7 => status'.destructive
    BY <1>4, <1>8 DEF statusFromContext
  <2> QED BY <1>2, <1>3, <1>4, <1>6, <1>7, <2>1, <2>2
<1>9. CASE status' # statusFromContext(statusForStep(Step), run.at, Step, digest)
  BY <1>2, <1>3, <1>6, <1>7, <1>9
<1> QED BY <1>8, <1>9

\* A step that fails or is refused, in each place of the plan.
LEMMA StepFailsKeeps == IInv /\ StepFails => IInv'
<1> SUFFICES ASSUME IInv, StepFails PROVE IInv'
  OBVIOUS
<1> USE InstallAssumption DEF InstallAssumption
<1>1. /\ proc = "running" /\ run \in RunRecords /\ run.at \in 1..18 /\ ~run.failed
      /\ run.stage = "step" /\ run.req \in Requests /\ server.state = "accepted"
      /\ beat' = NoStatus
      /\ UNCHANGED <<boot, proc, server, ssh, files, reboot, starts>>
  BY DEF IInv, Types, Attempt, Reserved, StepFails, stopProgress
<1>2. PICK digest \in Digests :
              /\ run.at >= 3 => digest = run.req
              /\ run' = [run EXCEPT !.failed = TRUE, !.body = FALSE, !.digest = digest]
              /\ \/ status' = status
                 \/ /\ status' \in Records(Digests) /\ status'.digest = digest
                    /\ run.at >= 7 => status'.destructive
                    /\ status'.state = "reboot-requested" => run.at = 18
              /\ \/ target' = OldTarget(disk')
                 \/ /\ run.at >= 10 /\ target' \in Records(Digests \cup {OldRequest}) /\ target'.digest = digest
                    /\ target'.state # "waiting-for-cluster-bootstrap"
  BY Stops
<1>3. /\ Leaves(disk') /\ disk' \in Partial(disk) \cup {Written(disk), disk}
      /\ disk' # disk => run.body
  BY Stops
<1>4. /\ disk' \in [Writes -> Contents] /\ unsynced' \subseteq Copies /\ changed' \in Digests
      /\ disk' # disk => run.at \in 7..16
      /\ disk' = disk => unsynced' = unsynced
      /\ changed' # NoReq => changed' = run.req /\ run.at >= 7
      /\ changed' # NoReq => changed # NoReq \/ disk' # disk
      /\ RecordLast'
  BY <1>1, <1>3, WritingKeeps
<1>5. TargetMeans' /\ HandoffComplete' /\ target' \in Records(Digests \cup {OldRequest})
  <2>1. CASE target' = OldTarget(disk')
    BY <1>1, <1>3, <2>1, TargetKeeps
  <2>2. CASE target' # OldTarget(disk')
    BY <1>1, <1>2, <1>3, <2>2, TargetKeeps
  <2> QED BY <2>1, <2>2
<1>6. /\ run' \in RunRecords /\ run'.at = run.at /\ run'.req = run.req /\ run'.auto = run.auto
      /\ ~run'.body /\ run'.failed /\ run'.digest = digest /\ run'.had = run.had /\ run'.stage = "step"
  BY <1>1, <1>2 DEF RunRecords
<1>7. status' \in Records(Digests)
  BY <1>2 DEF IInv, Types
<1>8. Types'
  BY <1>1, <1>4, <1>5, <1>6, <1>7, EmptyTyped DEF IInv, Types
<1>9. Attempt' /\ Filling'
  BY <1>1, <1>2, <1>4, <1>6 DEF Attempt, Filling
<1>10. Reserved' /\ AutomaticKeys'
  BY <1>1, <1>6 DEF IInv, Reserved, Input, InputKind, InstallHonest, AutomaticKeys
<1>11. Beating' /\ Rebooting'
  BY <1>1, <1>2, <1>6 DEF IInv, Beating, Rebooting
<1>12. MutationAnnounced'
  <2> SUFFICES ASSUME changed' # NoReq PROVE status'.destructive /\ status'.digest = run.req
    BY <1>4 DEF MutationAnnounced
  <2>1. run.at >= 7 /\ digest = run.req
    BY <1>1, <1>2, <1>4
  <2>2. CASE status' # status
    BY <1>2, <2>1, <2>2
  <2>3. CASE status' = status /\ disk' # disk
    BY <1>1, <1>3, <2>1, <2>3 DEF IInv, Attempt, Beating
  <2>4. CASE status' = status /\ disk' = disk
    BY <1>1, <1>4, <2>4 DEF IInv, Attempt, InstallHonest, MutationAnnounced
  <2> QED BY <2>2, <2>3, <2>4
<1>13. Halting'
  <2> SUFFICES ASSUME boot.halt, run.auto, run.had
               PROVE  run'.at <= 6 /\ changed' = NoReq /\ disk'["CreatePartitions"] # NoReq
    BY <1>1, <1>6 DEF Halting
  <2>1. run.at <= 6 /\ disk["CreatePartitions"] # NoReq
    BY DEF IInv, Halting
  <2> QED BY <1>1, <1>4, <1>6, <2>1
<1>14. RebootComplete'
  <2>1. ~reboot'
    BY <1>1 DEF IInv, Rebooting
  <2>2. status'.state = "reboot-requested" => run.at = 18 /\ disk' = disk
    BY <1>1, <1>2, <1>4 DEF IInv, Rebooting
  <2>3. ASSUME status'.state = "reboot-requested", NEW s \in Writes PROVE disk'[s] = status'.digest
    <3>1. CASE status' = status
      BY <2>2, <2>3, <3>1 DEF IInv, InstallHonest, RebootComplete
    <3>2. CASE status' # status
      <4> PICK i \in 8..16 : Plan[i] = s
        BY WriteAt
      <4>1. disk[s] = run.req
        BY <1>1, <2>2, <2>3 DEF IInv, Filling
      <4> QED BY <1>2, <2>2, <2>3, <3>2, <4>1
    <3> QED BY <3>1, <3>2
  <2> QED BY <2>1, <2>3 DEF RebootComplete
<1> QED
  BY <1>4, <1>5, <1>8, <1>9, <1>10, <1>11, <1>12, <1>13, <1>14
  DEF IInv, InstallHonest, Halting, HaltProtects

\* The sync or the timer fails.
LEMMA RebootFailsKeeps == IInv /\ RebootFails => IInv'
<1> SUFFICES ASSUME IInv, RebootFails PROVE IInv'
  OBVIOUS
<1> USE InstallAssumption DEF InstallAssumption
<1>1. /\ proc = "running" /\ run \in RunRecords /\ run.at = 18 /\ ~run.failed /\ ~run.body
      /\ run.req \in Requests /\ run.digest = run.req /\ run.digest \in Digests
      /\ run' = [run EXCEPT !.failed = TRUE, !.stage = "step"] /\ beat = NoStatus /\ ~reboot
      /\ UNCHANGED <<boot, proc, server, ssh, beat, files, disk, unsynced, reboot, changed, starts>>
  BY DEF IInv, Types, Attempt, Beating, Rebooting, RebootFails, RunRecords
<1>2. recordFailure(18, FALSE, run.digest, disk') /\ disk' = disk
  BY <1>1 DEF RebootFails
<1>3. /\ \/ status' = status
         \/ /\ status' \in Records(Digests) /\ status'.digest = run.req
            /\ status'.state # "reboot-requested" /\ status'.destructive
      /\ \/ target' = OldTarget(disk')
         \/ /\ target' \in Records(Digests \cup {OldRequest}) /\ target'.digest = run.req
            /\ target'.state # "waiting-for-cluster-bootstrap"
  <2> PICK digest \in Digests : digest = run.digest
    BY <1>1
  <2> PICK completed \in 0..18 : completed = 18
    OBVIOUS
  <2> PICK refused \in BOOLEAN : refused = FALSE
    BY Zenon
  <2>1. recordFailure(completed, refused, digest, disk')
    BY <1>2, Zenon
  <2>2. completed \in {run.at - 1, run.at} /\ run.at \in 1..18
    BY <1>1
  <2>3. /\ \/ status' = status
           \/ /\ status' \in Records(Digests) /\ status'.digest = digest
              /\ status'.state # "reboot-requested" /\ status'.state # "running"
              /\ run.at >= 7 => status'.destructive
        /\ \/ target' = OldTarget(disk')
           \/ /\ run.at >= 10 /\ target' \in Records(Digests \cup {OldRequest}) /\ target'.digest = digest
              /\ target'.state # "waiting-for-cluster-bootstrap"
    BY <2>1, <2>2, FailureRecorded
  <2> QED BY <1>1, <2>3
<1>4. /\ run' \in RunRecords /\ run'.at = 18 /\ run'.req = run.req /\ run'.auto = run.auto
      /\ ~run'.body /\ run'.failed /\ run'.digest = run.digest /\ run'.had = run.had /\ run'.stage = "step"
  BY <1>1 DEF RunRecords
<1>5. target' = target \/ (target'.digest = run.req /\ target'.state # "waiting-for-cluster-bootstrap")
  BY <1>2, <1>3 DEF OldTarget
<1>6. Types'
  BY <1>1, <1>2, <1>3, <1>4 DEF IInv, Types, OldTarget
<1>7. Attempt' /\ Filling' /\ Reserved' /\ AutomaticKeys'
  BY <1>1, <1>4 DEF IInv, Attempt, Filling, Reserved, Input, InputKind, InstallHonest, AutomaticKeys
<1>8. Beating' /\ Rebooting' /\ MutationAnnounced'
  BY <1>1, <1>3, <1>4 DEF IInv, Attempt, Beating, Rebooting, InstallHonest, MutationAnnounced
<1>9. Halting' /\ RecordLast' /\ RebootComplete'
  BY <1>1, <1>3, <1>4 DEF IInv, Halting, RecordLast, Filled, InstallHonest, RebootComplete
<1>10. TargetMeans' /\ HandoffComplete'
  <2>1. disk["CreatePartitions"] = run.req
    BY <1>1, PlanIs DEF IInv, Filling
  <2> QED BY <1>1, <1>5, <2>1 DEF IInv, TargetMeans, InstallHonest, HandoffComplete
<1> QED BY <1>6, <1>7, <1>8, <1>9, <1>10 DEF IInv, InstallHonest, Halting, HaltProtects

-----------------------------------------------------------------------------
(* The theorems *)

\* The installer starts on a blank disk or on a whole installation.
LEMMA InitEstablishes == Init => IInv
<1> SUFFICES ASSUME Init PROVE IInv
  OBVIOUS
<1> USE InstallAssumption DEF InstallAssumption
<1>1. /\ proc = "down" /\ server = Closed /\ ssh = NoReq /\ run = NoRun /\ beat = NoStatus
      /\ status = NoStatus /\ files = [bundle |-> NoReq, manifest |-> NoReq] /\ reboot = FALSE
      /\ starts = 0 /\ unsynced = {} /\ changed = NoReq
  BY DEF Init
<1>2. boot \in [action : {"run", "wait", "hold"}, req : Digests, kind : {"bundle", "manifest"}, halt : BOOLEAN]
  BY DEF Init, Digests
<1>3. \/ disk = Blank /\ target = NoStatus
      \/ /\ disk = [s \in Writes |-> OldRequest]
         /\ target = [NoStatus EXCEPT !.state = "waiting-for-cluster-bootstrap", !.digest = OldRequest]
  <2>1. "CreatePartitions" \in Writes
    BY DEF Writes
  <2> QED BY <2>1 DEF Init, Blank
<1>4. /\ disk \in [Writes -> Contents]
      /\ target \in Records(Digests \cup {OldRequest})
  BY <1>3, EmptyTyped DEF NoStatus, Records, States, Contents
<1>5. Types
  BY <1>1, <1>2, <1>4, EmptyTyped DEF Types, Digests
<1>6. RecordLast /\ TargetMeans /\ HandoffComplete
  <2>1. "CreatePartitions" \in Writes /\ "WriteInstallRecord" \in Writes
    BY DEF Writes
  <2>2. CASE disk = Blank /\ target = NoStatus
    BY <1>1, <2>1, <2>2 DEF RecordLast, Filled, TargetMeans, HandoffComplete, Blank, NoStatus
  <2>3. CASE disk = [s \in Writes |-> OldRequest] /\ target.digest = OldRequest
    BY <2>1, <2>3 DEF RecordLast, Filled, TargetMeans, HandoffComplete
  <2> QED BY <1>3, <2>2, <2>3 DEF NoStatus
<1>7. Attempt /\ Reserved /\ Beating /\ Rebooting /\ Filling /\ Halting
  BY <1>1 DEF Attempt, Reserved, Beating, Rebooting, Filling, Halting, NoRun, NoStatus, Closed
<1>8. MutationAnnounced /\ RebootComplete /\ AutomaticKeys /\ HaltProtects
  BY <1>1 DEF MutationAnnounced, RebootComplete, AutomaticKeys, InputKind, HaltProtects, NoRun, NoStatus
<1> QED BY <1>5, <1>6, <1>7, <1>8 DEF IInv, InstallHonest

\* Nothing changes.
LEMMA StutterKeeps == IInv /\ UNCHANGED vars => IInv'
<1> SUFFICES ASSUME IInv, UNCHANGED vars PROVE IInv'
  OBVIOUS
<1>1. UNCHANGED <<boot, proc, server, ssh, run, beat, status, files, disk, unsynced, target, reboot, changed, starts>>
  BY DEF vars
<1>2. Types' /\ Attempt' /\ Reserved' /\ Beating' /\ Rebooting' /\ Filling'
  BY <1>1 DEF IInv, Types, Attempt, Reserved, Input, Beating, Done, Step, Rebooting, Filling
<1>3. RecordLast' /\ TargetMeans' /\ Halting'
  BY <1>1 DEF IInv, RecordLast, Filled, TargetMeans, Halting
<1>4. MutationAnnounced' /\ RebootComplete' /\ AutomaticKeys' /\ HaltProtects' /\ HandoffComplete'
  BY <1>1 DEF IInv, InstallHonest, MutationAnnounced, RebootComplete, AutomaticKeys, InputKind, HaltProtects,
     HandoffComplete
<1> QED BY <1>2, <1>3, <1>4 DEF IInv, InstallHonest

\* One lemma per action.
LEMMA NextKeeps == IInv /\ [Next]_vars => IInv'
<1> SUFFICES ASSUME IInv, [Next]_vars PROVE IInv'
  OBVIOUS
<1>1. CASE InstallerStep
  BY <1>1, BootKeeps, AutomaticKeeps, FetchFailsKeeps, TakeKeeps, MaterializeFailsKeeps,
     StartProgressKeeps, HeartbeatKeeps, StepSucceedsKeeps, SyncKeeps, ArmKeeps, StepFailsKeeps,
     RebootFailsKeeps, EndAttemptKeeps
  DEF InstallerStep
<1>2. CASE OperatorStep
  BY <1>2, SubmitKeeps, SSHAccessKeeps DEF OperatorStep
<1>3. CASE Crash \/ LosePower \/ WriteRuntimeHandoff
  BY <1>3, CrashKeeps, LosePowerKeeps, HandoffKeeps
<1>4. CASE Idle \/ UNCHANGED vars
  BY <1>4, StutterKeeps DEF Idle
<1> QED BY <1>1, <1>2, <1>3, <1>4 DEF Next

(* The inductive invariant holds in every state of the installer. *)
THEOREM InstallerInvariant == Spec => []IInv
BY InitEstablishes, NextKeeps, PTL DEF Spec

(* Whatever is submitted, fails, is killed or loses power, a changed disk is   *)
(* on record as such under the request that changed it, the reboot is asked   *)
(* for and the node handed over only with every part of the disk from one     *)
(* request, an automatic install runs under its node's keys and never changes *)
(* a disk the halt flag protects.                                             *)
THEOREM InstallAlwaysHonest == Spec => []InstallHonest
<1>1. IInv => InstallHonest
  BY DEF IInv
<1> QED BY <1>1, InstallerInvariant, PTL

(* No step reopens the API after the disk changed, puts an older in-progress   *)
(* snapshot over a published end, or exchanges the request being installed.   *)
THEOREM AttemptsStepSafely == Spec => [][AttemptStepSafe]_vars
<1>1. IInv /\ Next => RetryOnlyUntouched
  <2> SUFFICES ASSUME IInv, Next, proc = "running", proc' = "waiting" PROVE changed = NoReq
    BY DEF RetryOnlyUntouched
  <2>1. EndAttempt
    BY DEF Next, InstallerStep, OperatorStep, Idle, vars, runBootWithHandoff, runAutomaticInstall,
       FetchFails, TakeAccepted, MaterializeFails, startProgress, Heartbeat, StepSucceeds, SyncTarget, ArmReboot, StepFails,
       RebootFails,
       Submit, handleSSHAccess, Crash, LosePower, WriteRuntimeHandoff
  <2>2. ~status.destructive
    BY <2>1 DEF EndAttempt, PrepareRetry
  <2> QED BY <2>2 DEF IInv, InstallHonest, MutationAnnounced
<1>2. IInv /\ Next => OneRequestAtATime
  <2> SUFFICES ASSUME IInv, Next, proc \in {"fetching", "running"}, proc' = "running"
               PROVE  server'.bundle = server.bundle /\ server'.manifest = server.manifest
    BY DEF OneRequestAtATime
  <2>1. server.state = "accepted"
    BY DEF IInv, Reserved
  <2>2. server' = server
    BY <2>1 DEF Next, InstallerStep, OperatorStep, Idle, vars, runBootWithHandoff, runAutomaticInstall,
       FetchFails, TakeAccepted, MaterializeFails, startProgress, Heartbeat, StepSucceeds, SyncTarget, ArmReboot, StepFails,
       RebootFails,
       EndAttempt, Submit, Accepting, handleSSHAccess, Crash, LosePower, WriteRuntimeHandoff
  <2> QED BY <2>2
<1>3. IInv /\ Next => TerminalKept
  <2> SUFFICES ASSUME IInv, Next, status.state \in Terminal, status'.state = "running", run' = run
               PROVE  starts' # starts
    BY DEF TerminalKept
  <2>1. status' # status
    BY DEF Terminal
  <2>2. ~startProgress
    BY DEF startProgress, IInv, Types, RunRecords
  <2>3. ~Heartbeat
    BY <2>1 DEF Heartbeat, IInv, Beating
  <2>4. ~StepSucceeds
    <3> SUFFICES ASSUME StepSucceeds PROVE FALSE
      OBVIOUS
    <3>1. run \in RunRecords /\ run.body /\ run.at \in 1..18
      BY DEF IInv, Types, Attempt, StepSucceeds
    <3>2. run' = IF Step = "Reboot" THEN [run EXCEPT !.body = FALSE, !.stage = "recorded"]
                 ELSE [run EXCEPT !.at = @ + 1, !.body = FALSE,
                                  !.digest = IF Step = "LoadManifest" THEN run.req ELSE run.digest]
      BY DEF StepSucceeds
    <3>3. ~run'.body
      BY <3>1, <3>2 DEF RunRecords
    <3> QED BY <3>1, <3>3, Zenon
  <2>5. ~StepFails /\ ~RebootFails
    <3>1. run \in RunRecords
      BY DEF IInv, Types
    <3>2. ~StepFails
      <4> SUFFICES ASSUME StepFails PROVE FALSE
        OBVIOUS
      <4>1. run' = [run EXCEPT !.failed = TRUE, !.body = FALSE,
                      !.digest = IF Step = "LoadManifest" /\ run.body THEN run.req ELSE run.digest]
        BY Zenon DEF StepFails
      <4>2. ~run.failed
        BY DEF StepFails
      <4> QED BY <3>1, <4>1, <4>2 DEF RunRecords
    <3>3. ~RebootFails
      BY <3>1 DEF RebootFails, RunRecords
    <3> QED BY <3>2, <3>3
  <2>6. runBootWithHandoff \/ status' = status \/ status' = NoStatus
    BY <2>2, <2>3, <2>4, <2>5
    DEF Next, InstallerStep, OperatorStep, Idle, vars, runAutomaticInstall, FetchFails, TakeAccepted,
        MaterializeFails, SyncTarget, ArmReboot, EndAttempt, Submit, handleSSHAccess, Crash, LosePower, WriteRuntimeHandoff
  <2>7. runBootWithHandoff
    BY <2>1, <2>6 DEF NoStatus
  <2> QED BY <2>7 DEF runBootWithHandoff, IInv, Types
<1> QED BY <1>1, <1>2, <1>3, InstallerInvariant, PTL DEF Spec, AttemptStepSafe
=============================================================================
