------------------------- MODULE BootstrapOperation -------------------------
(***************************************************************************)
(* One node is initialized or joined by the agent's executor: the runtime  *)
(* is prepared, the shared identity installed, kubeadm (or an external     *)
(* worker's kubelet) started once, API access configured, health checked   *)
(* and the candidate generation promoted.  The agent may die, the node may *)
(* reboot and a record update may fail between any two steps; what the     *)
(* operator may do next is decided by the records and files left behind.   *)
(***************************************************************************)
EXTENDS Naturals, Sequences, FiniteSets

CONSTANTS Kinds,        \* the bootstrap kinds a node may be given
          Credentials,  \* the external cluster's bootstrap kubeconfigs
          MaxOps,       \* bound: operations submitted
          MaxFaults,    \* bound: crashes, reboots, failed updates and tools
          FaultKinds    \* which of "crash", "reboot", "store", "tool" happen

(* The values given to the constants satisfy                               *)
(*   Kinds \subseteq {"init", "join-worker", "join-control-plane", "external-worker"}*)

VARIABLES kind,         \* what this node is asked to become
          ops,          \* its bootstrap records, oldest first
          ex,           \* the executor: its operation (0: none) and its step
          agent,        \* "up" or "down"
          boot,         \* the boot id
          run,          \* lost by a reboot: sysext link, join path, join files
          disk,         \* survives: kubelet.conf, credentials, pki, identities
          cand,         \* the candidate of each original operation
          default,      \* the candidate the loader starts by default (0: old)
          starts,       \* how often a mutating tool was started
          succeeded,    \* has a mutating tool exited 0?
          faults

vars == <<kind, ops, ex, agent, boot, run, disk, cand, default, starts,
          succeeded, faults>>
gens == <<cand, default>>
tool == <<starts, succeeded>>

OpIds == 1..MaxOps
External == kind = "external-worker"
IsJoin == kind # "init"
bootstrapKubeconfigDigest == {0} \cup Credentials    \* 0: no such file

----------------------------------------------------------------------------
(* Records                                                                 *)

NewRecord(o, mat, ident) ==
  [resume |-> 0, cand |-> o, phase |-> "accepted", done |-> FALSE,
   inv |-> "none", invBoot |-> 0, marked |-> FALSE, live |-> FALSE,
   terminal |-> FALSE, result |-> "", mat |-> mat, prev |-> 0, ident |-> ident,
   asks |-> FALSE]

(* OperationRecord.Fail: a record with mutation evidence needs repair, and *)
(* so does one whose staged identity could not be removed.                 *)
Fail(r) == [r EXCEPT !.terminal = TRUE,
                     !.result = IF r.marked \/ r.live \/ r.asks THEN "needs-repair" ELSE "failed"]
Repair(r) == [r EXCEPT !.terminal = TRUE, !.result = "needs-repair"]

bootstrapInvocationComplete(r) ==
  r.done /\ r.phase \in {"configure-local-api-access", "post-kubeadm-health"}
bootstrapContinuationEligible(r) ==
  r.terminal /\ r.result = "needs-repair" /\ bootstrapInvocationComplete(r)

(* The continuation receipts of a record, back to the original invocation. *)
Chain[o \in OpIds] ==
  IF ops[o].resume = 0 THEN {o} ELSE {o} \cup Chain[ops[o].resume]
Original(o) == CHOOSE p \in Chain[o] : ops[p].resume = 0

----------------------------------------------------------------------------
Init ==
  /\ kind \in Kinds /\ ops = <<>> /\ agent = "up" /\ boot = 0
  /\ ex = [op |-> 0, pc |-> "idle"]
  /\ run = [sysext |-> FALSE, path |-> {}, join |-> {}]
  /\ disk = [kubelet |-> "none", cred |-> 0, cert |-> FALSE, pki |-> FALSE,
             staged |-> {}]
  /\ cand = [o \in OpIds |-> [state |-> "none", owner |-> 0]] /\ default = 0
  /\ starts = 0 /\ succeeded = FALSE /\ faults = 0

Set(o, r) == ops' = [ops EXCEPT ![o] = r]
Fault(k) == k \in FaultKinds /\ faults < MaxFaults /\ faults' = faults + 1

----------------------------------------------------------------------------
(* Submission.  AgentOperations has its interleavings; here it is a step.  *)

validateNoDirtyPreBootstrapOperations(o) ==
  \A p \in DOMAIN ops : p = o \/ ~ops[p].marked

(* What a first bootstrap must not find on the node.                       *)
validateCleanPreBootstrapGeneration(o) ==
  /\ ~disk.pki /\ disk.kubelet = "none" /\ disk.cred = 0
  /\ ~run.sysext
  /\ validateNoDirtyPreBootstrapOperations(o)

Free == agent = "up" /\ ex.op = 0 /\ \A o \in DOMAIN ops : ops[o].terminal
Start(o) == ex' = [op |-> o, pc |-> IF ops'[o].resume = 0 THEN "plan" ELSE "access"]

(* An external worker, and no other, brings a bootstrap kubeconfig; an     *)
(* identity of the cluster comes with its first control plane only.        *)
validateBootstrapRequest(mat, ident) ==
  /\ mat \in IF External THEN Credentials ELSE {0}
  /\ ident => ~IsJoin

Submit ==
  LET o == Len(ops) + 1 IN
  /\ Free /\ o \in OpIds /\ disk.kubelet = "none"
  /\ \E mat \in Credentials \cup {0}, ident \in BOOLEAN :
       /\ validateBootstrapRequest(mat, ident)
       /\ ops' = Append(ops, NewRecord(o, mat, ident))
       /\ disk' = [disk EXCEPT !.staged = IF ident THEN @ \cup {o} ELSE @]
  /\ run' = [run EXCEPT !.join = IF IsJoin THEN @ \cup {o} ELSE @]
  /\ Start(o)
  /\ UNCHANGED <<kind, agent, boot, gens, tool, faults>>

(* markMaterializationFailed, markDispatchFailed: the record ends before   *)
(* an executor has it.  An identity that cannot be removed (kept) stays,   *)
(* and the record asks the operator to remove it.                          *)
SubmitFails ==
  LET o == Len(ops) + 1 IN
  /\ Free /\ o \in OpIds /\ disk.kubelet = "none" /\ Fault("tool")
  /\ \E mat \in Credentials \cup {0}, ident \in BOOLEAN, kept \in BOOLEAN :
       /\ validateBootstrapRequest(mat, ident)
       /\ kept => ident
       /\ ops' = Append(ops, Repair([NewRecord(o, mat, ident) EXCEPT !.asks = kept]))
       /\ disk' = [disk EXCEPT !.staged = IF kept THEN @ \cup {o} ELSE @]
  /\ UNCHANGED <<kind, ex, agent, boot, run, gens, tool>>

EnrollmentReceipt(r) == disk.cred \in {r.mat, r.prev}
externalBootstrapCA == disk.pki
externalKubeletAccess == disk.kubelet = "external"

OwnedCandidate(o) ==
  LET c == cand[ops[o].cand] IN
  c.state = "candidate" \/ (c.state = "committed" /\ c.owner \in Chain[o])

InvocationProved(o) ==
  /\ ops[Original(o)].inv = "exit-0"
  /\ ops[Original(o)].invBoot = boot \/ External

validateBootstrapContinuation(o) ==
  /\ bootstrapContinuationEligible(ops[o])
  /\ InvocationProved(o)
  /\ External =>
       /\ ~disk.cert => EnrollmentReceipt(ops[o]) /\ externalBootstrapCA
       /\ externalKubeletAccess \/ (disk.kubelet = "none" /\ ~disk.cert)
  /\ OwnedCandidate(o)
  /\ \A p \in DOMAIN ops : p >= Original(o) /\ p \notin Chain[o] => ~ops[p].marked

(* M: the digest of the credentials being replaced is not kept.            *)
RefreshForgetsPrevious(r, new) == [r EXCEPT !.mat = new, !.prev = 0]
(* Both sides of the atomic replacement of the credentials are kept.       *)
RefreshReceipt(r, new) == [r EXCEPT !.mat = new, !.prev = disk.cred]

acceptBootstrapContinuation(o) ==
  LET n == Len(ops) + 1
      copy == [ops[o] EXCEPT !.resume = o, !.phase = "configure-local-api-access",
                 !.terminal = FALSE, !.result = "", !.marked = TRUE,
                 !.inv = "none", !.invBoot = 0] IN
  /\ Free /\ n \in OpIds /\ o \in DOMAIN ops /\ validateBootstrapContinuation(o)
  /\ \/ /\ ops' = Append(ops, copy) /\ UNCHANGED run
     \/ /\ External /\ ~disk.cert
        /\ \E new \in Credentials : ops' = Append(ops, RefreshReceipt(copy, new))
        /\ run' = [run EXCEPT !.join = @ \cup {n}]
  /\ Start(n)
  /\ UNCHANGED <<kind, agent, boot, disk, gens, tool, faults>>

----------------------------------------------------------------------------
(* Execute.  ex.pc names the step about to be taken; each step ends with   *)
(* at most one record update.                                              *)

At(pc) == agent = "up" /\ ex.pc = pc
Op == ops[ex.op]
Go(pc) == ex' = [ex EXCEPT !.pc = pc]
Return == ex' = [op |-> 0, pc |-> "idle"]
Still == UNCHANGED <<kind, agent, boot>>

(* The operation's staged identity goes before its record ends; one that   *)
(* cannot be removed stays, and the record asks the operator to remove it. *)
failWithDisk(d, phase) ==
  \E kept \in {FALSE} \cup {ex.op \in d.staged} :
    /\ disk' = [d EXCEPT !.staged = IF kept THEN @ ELSE @ \ {ex.op}]
    /\ Set(ex.op, Fail([Op EXCEPT !.phase = phase, !.asks = kept])) /\ Return
failRecordPhase(phase) == failWithDisk(disk, phase)

executorPlan ==
  /\ At("plan") /\ Still /\ UNCHANGED <<run, gens, tool>>
  /\ \/ Go("prepare") /\ UNCHANGED <<ops, disk, faults>>
     \/ Fault("tool") /\ failRecordPhase("dispatch-failed")

prepareBootstrapRuntime ==
  /\ At("prepare") /\ Still /\ UNCHANGED <<run, gens, tool>>
  /\ IF validateCleanPreBootstrapGeneration(ex.op)
       THEN \/ /\ Set(ex.op, [Op EXCEPT !.phase = "prepare-bootstrap-runtime"])
               /\ Go("runtime") /\ UNCHANGED <<disk, faults>>
            \/ Fault("tool") /\ failRecordPhase("prepare-bootstrap-runtime")
       ELSE failRecordPhase("prepare-bootstrap-runtime") /\ UNCHANGED faults

(* bootstrapruntime.Prepare writes the candidate, then links its sysexts.  *)
Prepare ==
  /\ At("runtime") /\ Still /\ UNCHANGED <<default, tool>>
  /\ cand' = [cand EXCEPT ![ex.op] = [state |-> "candidate", owner |-> 0]]
  /\ \/ /\ run' = [run EXCEPT !.sysext = TRUE]
        /\ Go("identity") /\ UNCHANGED <<ops, disk, faults>>
     \/ /\ Fault("tool") /\ UNCHANGED run
        /\ failRecordPhase("prepare-bootstrap-runtime")

(* The staged identity is installed and removed; one already installed is  *)
(* only compared.                                                          *)
IdentityReady == Op.ident => ex.op \in disk.staged \/ disk.pki
prepareKubernetesIdentity ==
  /\ At("identity") /\ Still /\ UNCHANGED <<run, gens, tool>>
  /\ \/ /\ IdentityReady
        /\ disk' = IF Op.ident THEN [disk EXCEPT !.pki = TRUE, !.staged = @ \ {ex.op}] ELSE disk
        /\ Set(ex.op, [Op EXCEPT !.live = TRUE])
        /\ Go("gate") /\ UNCHANGED faults
     \/ /\ Op.ident /\ (IF IdentityReady THEN Fault("tool") ELSE UNCHANGED faults)
        /\ \/ failRecordPhase("prepare-bootstrap-runtime")
           \/ /\ ex.op \in disk.staged
              /\ failWithDisk([disk EXCEPT !.pki = TRUE], "prepare-bootstrap-runtime")

gateBootstrapReadiness ==
  /\ At("gate") /\ Still /\ UNCHANGED <<run, gens, tool>>
  /\ \/ /\ Set(ex.op, [Op EXCEPT !.phase = "bootstrap-runtime-ready"])
        /\ Go(IF External THEN "external" ELSE "expiry") /\ UNCHANGED <<disk, faults>>
     \/ Fault("tool") /\ failRecordPhase("bootstrap-runtime-ready")

(* prepareExternalWorker: the mutation is recorded before the files.       *)
prepareExternalWorker ==
  /\ At("external") /\ Still /\ UNCHANGED <<run, gens, tool>>
  /\ IF ex.op \in run.join
       THEN /\ Set(ex.op, [Op EXCEPT !.marked = TRUE, !.phase = "start-external-kubelet"])
            /\ Go("enroll") /\ UNCHANGED <<disk, faults>>
       ELSE failRecordPhase("start-external-kubelet") /\ UNCHANGED faults

WriteEnrollment ==
  /\ At("enroll") /\ Still /\ UNCHANGED <<run, gens, tool>>
  /\ \/ /\ disk' = [disk EXCEPT !.cred = Op.mat, !.pki = TRUE]
        /\ Go("mark") /\ UNCHANGED <<ops, faults>>
     \/ Fault("tool") /\ failRecordPhase("start-external-kubelet")

(* A pinned route to the coordinator, where the endpoint is managed;       *)
(* otherwise a hosts entry when it is a name, and a redirect when address  *)
(* or port differ from the coordinator's.                                  *)
pinManagedEndpointForJoin == {{"route"}}
installDirectControlPlaneJoinPath ==
  {(IF named THEN {"hosts"} ELSE {}) \cup (IF same THEN {} ELSE {"nft"}) :
     named \in BOOLEAN, same \in BOOLEAN}
(* What is left when the commands in broken fail.                          *)
cleanup(path, broken) == path \cap broken

(* A failed installation undoes what it did before the operation fails.    *)
installJoinPath ==
  /\ At("path") /\ Still /\ UNCHANGED <<gens, tool>>
  /\ \/ /\ \E p \in IF kind = "join-control-plane"
                       THEN pinManagedEndpointForJoin \cup installDirectControlPlaneJoinPath
                       ELSE {{}} :
             run' = [run EXCEPT !.path = p]
        /\ Go("mark") /\ UNCHANGED <<ops, disk, faults>>
     \/ kind = "join-control-plane" /\ Fault("tool")
        /\ failRecordPhase("bootstrap-runtime-ready") /\ UNCHANGED run

(* The join material must not have expired meanwhile.                      *)
expiredJoinMaterial ==
  /\ At("expiry") /\ Still /\ UNCHANGED <<run, gens, tool>>
  /\ \/ Go("path") /\ UNCHANGED <<ops, disk, faults>>
     \/ /\ IsJoin /\ Fault("tool")
        /\ failRecordPhase("bootstrap-runtime-ready")

MarkInvocation ==
  /\ At("mark") /\ Still /\ UNCHANGED <<run, disk, gens, tool, faults>>
  /\ Set(ex.op, [Op EXCEPT !.marked = TRUE, !.inv = "started", !.invBoot = boot,
                           !.phase = "tool"])
  /\ Go("run")

StartTool ==
  /\ At("run") /\ Still /\ UNCHANGED <<ops, run, disk, gens, succeeded, faults>>
  /\ starts' = starts + 1 /\ Go("running")

(* kubeadm, or systemctl start kubelet, returns.  A failed or timed out    *)
(* kubeadm may have written the node's kubelet.conf or not.                *)
ToolReturns ==
  /\ At("running") /\ Still /\ UNCHANGED <<ops, run, gens, starts>>
  /\ \/ /\ disk' = [disk EXCEPT !.kubelet = IF External THEN @ ELSE "direct", !.pki = TRUE]
        /\ succeeded' = TRUE
        /\ Go("exit-0") /\ UNCHANGED faults
     \/ /\ \E k \in {"direct", "none"} :
             disk' = [disk EXCEPT !.kubelet = IF External THEN @ ELSE k]
        /\ Fault("tool") /\ Go("failed") /\ UNCHANGED succeeded

(* The join path is removed, and the join files; a path that cannot be     *)
(* removed turns a successful invocation into a failed one.                *)
removeJoinPath ==
  /\ (At("exit-0") \/ At("failed")) /\ Still /\ UNCHANGED <<ops, disk, gens, tool>>
  /\ \/ /\ run' = [run EXCEPT !.path = {}, !.join = @ \ {ex.op}]
        /\ Go(IF ex.pc = "exit-0" THEN "record-0" ELSE "record-failed")
        /\ UNCHANGED faults
     \/ /\ run.path # {} /\ Fault("tool")
        /\ \E broken \in SUBSET run.path \ {{}} :
             run' = [run EXCEPT !.path = cleanup(@, broken), !.join = @ \ {ex.op}]
        /\ Go("record-failed")

CompleteInvocation ==
  /\ Still /\ UNCHANGED <<run, disk, gens, tool, faults>>
  /\ \/ /\ At("record-0") /\ Go("access")
        /\ Set(ex.op, [Op EXCEPT !.inv = "exit-0", !.done = TRUE])
     \/ /\ At("record-failed") /\ Return
        /\ Set(ex.op, Repair([Op EXCEPT !.inv = "failed"]))

(* finishBootstrap: the node's clients are moved to the local API proxy.   *)
configureLocalAPIAccess ==
  /\ At("access") /\ ~External /\ Still /\ UNCHANGED <<run, gens, tool>>
  /\ \/ /\ disk' = [disk EXCEPT !.kubelet = "proxy"]
        /\ Go("accessed") /\ UNCHANGED <<ops, faults>>
     \/ Fault("tool") /\ failRecordPhase("configure-local-api-access")
RecordLocalAPIAccess ==
  /\ At("accessed") /\ Still /\ UNCHANGED <<run, disk, gens, tool, faults>>
  /\ Set(ex.op, [Op EXCEPT !.phase = "configure-local-api-access"]) /\ Go("health")

(* refreshExternalBootstrap, after the runtime is linked again.            *)
refreshExternalBootstrap ==
  /\ At("access") /\ External /\ Op.resume # 0 /\ Still /\ UNCHANGED <<gens, tool>>
  /\ \/ /\ run' = [run EXCEPT !.sysext = TRUE]
        /\ disk' = IF ex.op \in run.join /\ ~disk.cert THEN [disk EXCEPT !.cred = Op.mat] ELSE disk
        /\ Go("wait") /\ UNCHANGED <<ops, faults>>
     \/ /\ Fault("tool") /\ failRecordPhase("configure-local-api-access") /\ UNCHANGED run

FirstEnrollment ==
  /\ At("access") /\ External /\ Op.resume = 0 /\ Still
  /\ Go("wait") /\ UNCHANGED <<ops, run, disk, gens, tool, faults>>

(* waitExternalWorkerCertificate polls until the certificate is there and  *)
(* the Node is ready, or ten minutes have passed.                          *)
waitExternalWorkerCertificate ==
  /\ At("wait") /\ Still /\ UNCHANGED <<run, disk, gens, tool, faults>>
  /\ Set(ex.op, [Op EXCEPT !.phase = "post-kubeadm-health"]) /\ Go("poll")
CertificateReady ==
  /\ At("poll") /\ Still /\ UNCHANGED <<ops, run, gens, tool, faults>>
  /\ disk.cert /\ externalKubeletAccess
  /\ disk' = [disk EXCEPT !.cred = 0] /\ Go("health")
CertificateTimeout ==
  /\ At("poll") /\ Still /\ UNCHANGED <<run, gens, tool>>
  /\ Fault("tool") /\ failRecordPhase("post-kubeadm-health")

(* The external cluster signs the kubelet's request, which kubelet made    *)
(* with the bootstrap credentials it was started with.                     *)
ApproveCSR ==
  /\ External /\ run.sysext /\ disk.cred # 0 /\ ~disk.cert /\ succeeded
  /\ disk' = [disk EXCEPT !.cert = TRUE, !.kubelet = "external"]
  /\ UNCHANGED <<kind, ops, ex, agent, boot, run, gens, tool, faults>>

postKubeadmHealth ==
  /\ At("health") /\ Still /\ UNCHANGED <<run, disk, gens, tool>>
  /\ \/ /\ Set(ex.op, [Op EXCEPT !.phase = "post-kubeadm-health"])
        /\ Go("promote") /\ UNCHANGED faults
     \/ /\ Set(ex.op, Repair([Op EXCEPT !.phase = "post-kubeadm-health"]))
        /\ Fault("tool") /\ Return

(* A candidate committed by an earlier attempt keeps its owner.            *)
Promoter ==
  LET c == cand[Op.cand] IN
  IF c.state = "committed" /\ Op.resume # 0 THEN c.owner ELSE ex.op

(* promoteLiveGeneration: the records first, the boot default after them.  *)
PromoteRecords ==
  /\ At("promote") /\ Still /\ UNCHANGED <<run, disk, default, tool>>
  /\ LET c == cand[Op.cand] IN
     \/ /\ c.state = "candidate" \/ (c.state = "committed" /\ c.owner = Promoter)
        /\ cand' = [cand EXCEPT ![Op.cand] = [state |-> "committed", owner |-> Promoter]]
        /\ Go("default") /\ UNCHANGED <<ops, faults>>
     \/ /\ UNCHANGED cand
        /\ (IF c.state = "committed" /\ c.owner # Promoter THEN UNCHANGED faults ELSE Fault("tool"))
        /\ Set(ex.op, Repair([Op EXCEPT !.phase = "post-kubeadm-health"])) /\ Return

PromoteBootDefault ==
  /\ At("default") /\ Still /\ UNCHANGED <<run, disk, cand, tool>>
  /\ \/ default' = Op.cand /\ Go("finish") /\ UNCHANGED <<ops, faults>>
     \/ /\ Fault("tool") /\ UNCHANGED default
        /\ Set(ex.op, Repair([Op EXCEPT !.phase = "post-kubeadm-health"])) /\ Return

CompleteLiveGeneration ==
  /\ At("finish") /\ Still /\ UNCHANGED <<run, disk, gens, tool, faults>>
  /\ Set(ex.op, [Op EXCEPT !.terminal = TRUE, !.result = "ok",
                           !.phase = "record-operation-complete"])
  /\ Return

(* A record update fails: the executor returns and the failure is recorded *)
(* in a phase of its own, if that update succeeds; its error is ignored.   *)
UpdatePoints == {"prepare", "gate", "external", "mark", "record-0", "record-failed",
                 "accessed", "wait", "health", "finish"}
StoreUpdateFails ==
  /\ agent = "up" /\ ex.pc \in UpdatePoints /\ Fault("store")
  /\ Go("unhandled")
  /\ UNCHANGED <<kind, ops, agent, boot, run, disk, gens, tool>>
recordUnhandledExecutionFailure ==
  /\ At("unhandled") /\ Still /\ UNCHANGED <<run, gens, tool>>
  /\ \/ failRecordPhase("executor-unhandled-failure") /\ UNCHANGED faults
     \/ /\ Fault("store") /\ Return /\ UNCHANGED ops
        /\ \/ UNCHANGED disk
           \/ disk' = [disk EXCEPT !.staged = @ \ {ex.op}]

----------------------------------------------------------------------------
(* Faults and the startup audit                                            *)

Crash ==
  /\ agent = "up" /\ Fault("crash") /\ agent' = "down" /\ Return
  /\ UNCHANGED <<kind, ops, boot, run, disk, gens, tool>>

Reboot ==
  /\ Fault("reboot") /\ agent' = "down" /\ Return
  /\ boot' = boot + 1 /\ run' = [sysext |-> FALSE, path |-> {}, join |-> {}]
  /\ UNCHANGED <<kind, ops, disk, gens, tool>>

(* What AuditStartup makes of a record whose executor is gone; kept: its   *)
(* staged identity could not be removed.                                   *)
NotStarted(r) == ~r.terminal /\ ~r.marked
Audited(r, kept) ==
  IF r.terminal THEN r
  ELSE IF r.marked
    THEN IF bootstrapInvocationComplete(r) THEN Fail(r) ELSE r
    ELSE Repair([r EXCEPT !.phase = "startup-audit-not-started", !.asks = kept])

(* An identity that cannot be removed ends the start, after the record was *)
(* written: the next start finds the record ended.                         *)
AuditStartup ==
  LET fresh == {o \in DOMAIN ops : NotStarted(ops[o])} IN
  \E kept \in SUBSET (fresh \cap disk.staged) :
    /\ agent = "down"
    /\ (IF kept = {} THEN UNCHANGED faults ELSE Fault("tool"))
    /\ agent' = IF kept = {} THEN "up" ELSE "down"
    /\ ops' = [o \in DOMAIN ops |-> Audited(ops[o], o \in kept)]
    /\ disk' = [disk EXCEPT !.staged = @ \ (fresh \ kept)]
    /\ UNCHANGED <<kind, ex, boot, run, gens, tool>>

Execute ==
  \/ executorPlan \/ prepareBootstrapRuntime \/ Prepare \/ prepareKubernetesIdentity
  \/ gateBootstrapReadiness \/ prepareExternalWorker \/ WriteEnrollment
  \/ expiredJoinMaterial \/ installJoinPath \/ MarkInvocation \/ StartTool \/ ToolReturns
  \/ removeJoinPath \/ CompleteInvocation \/ configureLocalAPIAccess
  \/ RecordLocalAPIAccess \/ refreshExternalBootstrap
  \/ FirstEnrollment \/ waitExternalWorkerCertificate \/ CertificateReady
  \/ postKubeadmHealth \/ PromoteRecords \/ PromoteBootDefault
  \/ CompleteLiveGeneration \/ recordUnhandledExecutionFailure

Continue == \E o \in DOMAIN ops : acceptBootstrapContinuation(o)

Next ==
  \/ Submit \/ SubmitFails \/ Continue \/ Execute \/ CertificateTimeout \/ ApproveCSR
  \/ StoreUpdateFails \/ Crash \/ Reboot \/ AuditStartup

Spec == Init /\ [][Next]_vars

----------------------------------------------------------------------------
TypeOK ==
  /\ kind \in Kinds /\ agent \in {"up", "down"} /\ boot \in 0..MaxFaults
  /\ Len(ops) <= MaxOps
  /\ \A o \in DOMAIN ops :
       /\ ops[o].resume < o /\ ops[o].cand \in 1..o
       /\ ops[o].inv \in {"none", "started", "exit-0", "failed"}
       /\ ops[o].result \in {"", "ok", "failed", "needs-repair"}
       /\ ops[o].terminal <=> ops[o].result # ""
       /\ {ops[o].mat, ops[o].prev} \subseteq bootstrapKubeconfigDigest
  /\ ex.op \in 0..Len(ops) /\ (ex.op = 0 <=> ex.pc = "idle")
  /\ disk.cred \in bootstrapKubeconfigDigest
  /\ disk.kubelet \in {"none", "direct", "proxy", "external"}
  /\ default \in 0..Len(ops) /\ faults \in 0..MaxFaults

(* Two attempts never both start kubeadm (or an external worker's kubelet) *)
(* on a node: whatever died in between, the evidence the first start left, *)
(* recorded before it, refuses the second.                                 *)
ToolStartedOnce == starts <= 1

(* The private keys of a shared Kubernetes identity stay in the operation  *)
(* store of an operation that has ended only when they could not be        *)
(* removed, and then its record needs repair and asks for their removal:   *)
(* whoever ended it, executor, server or the audit of a later start.       *)
StagedIdentityGone ==
  \A o \in DOMAIN ops : ops[o].terminal /\ o \in disk.staged =>
    ops[o].asks /\ ops[o].result = "needs-repair"

(* While an external worker's certificate is pending, the newest receipt   *)
(* that may be continued knows the credentials on disk: interrupting a     *)
(* credential refresh on either side of the file replacement never         *)
(* strands the enrollment.                                                 *)
RefreshNeverStrands ==
  \A o \in DOMAIN ops :
    /\ External /\ ~disk.cert /\ disk.cred # 0 /\ o = Len(ops)
    /\ bootstrapContinuationEligible(ops[o])
    => EnrollmentReceipt(ops[o])

(* The loader's default becomes a bootstrap candidate only when the tool   *)
(* of its own chain of receipts succeeded and health was checked, and the  *)
(* recorded owner of the promotion belongs to that chain.                  *)
PromotionOwned ==
  \A c \in DOMAIN ops : cand[c].state = "committed" =>
    /\ ops[c].inv = "exit-0" /\ ops[c].resume = 0
    /\ cand[c].owner \in DOMAIN ops /\ c \in Chain[cand[c].owner]

(* An ended bootstrap that succeeded is what the node boots next.          *)
SuccessIsDefault ==
  \A o \in DOMAIN ops : ops[o].result = "ok" => default = ops[o].cand /\ succeeded

(* The temporary route, hosts mount and redirect of a control-plane join   *)
(* do not outlive an operation that recorded the tool's success.           *)
JoinPathRemoved ==
  \A o \in DOMAIN ops : ops[o].inv = "exit-0" => run.path = {}
============================================================================
