-------------------------- MODULE AgentOperations --------------------------
(***************************************************************************)
(* The node agent as its callers see it: concurrent SubmitOperation,       *)
(* Reboot and join-material requests, one executor goroutine for each      *)
(* dispatched operation, and the audit a restarted agent makes before it   *)
(* serves again.  A record is written by atomic Create and Update steps    *)
(* (OperationStore checks that they are); what an operation does inside    *)
(* is left to the modules of the operation kinds.                          *)
(***************************************************************************)
EXTENDS Naturals, Sequences, FiniteSets

CONSTANTS Clients,      \* concurrent callers of the agent's API
          ReqIds,       \* the clientRequestIDs they use
          Kinds,        \* the operation kinds they submit
          MaxOps,       \* bound: operations created
          MaxFaults,    \* bound: crashes, reboots and failed record updates
          PidReuse      \* may a dead child's pid belong to another process?

(* The operation kinds of the agent, and the bounds.                       *)
ASSUME AgentAssumption ==
  /\ Kinds \subseteq {"bootstrap-init", "bootstrap-join-worker", "generation-apply",
                      "host-upgrade", "destructive-reset"}
  /\ "none" \notin Clients
  /\ MaxOps \in Nat /\ MaxFaults \in Nat /\ PidReuse \in BOOLEAN

VARIABLES ops,          \* the operation records, oldest first
          agent,        \* "down", the startup step, "serving" or "stopping"
          mu,           \* submitMu: the client inside, or None
          pc, req,      \* each client's place in its call, and its request
          worker,       \* executor goroutine of each operation
          mlock,        \* the executor's mutation lock: an operation, or 0
          gen,          \* the current generation
          kubelet,      \* does /etc/kubernetes/kubelet.conf exist?
          boot,         \* the boot id
          reboot,       \* a reboot is scheduled
          runs,         \* how often each operation's tool was started
          faults

vars == <<ops, agent, mu, pc, req, worker, mlock, gen, kubelet, boot, reboot,
          runs, faults>>
client == <<mu, pc, req>>
node == <<gen, kubelet, boot, reboot>>

None == "none"
OpIds == 1..MaxOps
IsJoin(k) == k = "bootstrap-join-worker"
IsBootstrap(k) == k \in {"bootstrap-init", "bootstrap-join-worker"}
MutatingOperationKind(k) == k \notin {"generation-apply", "host-upgrade"}

(* The digest of a normalized request is what two requests must share to   *)
(* be the same request: here its kind and the generation it expects.       *)
Requests == [id : ReqIds, kind : Kinds, base : 0..MaxOps]

NewRecord(r) ==
  [id |-> r.id, kind |-> r.kind, base |-> r.base, phase |-> "accepted",
   marked |-> FALSE, inv |-> "none", invBoot |-> 0, terminal |-> FALSE,
   class |-> ""]

Init ==
  /\ ops = <<>> /\ agent = "serving" /\ mu = None
  /\ pc = [c \in Clients |-> "idle"] /\ req = [c \in Clients |-> None]
  /\ worker = [o \in OpIds |-> "none"] /\ mlock = 0
  /\ gen = 0 /\ kubelet = FALSE /\ boot = 0 /\ reboot = FALSE
  /\ runs = [o \in OpIds |-> 0] /\ faults = 0

Set(o, r) == ops' = [ops EXCEPT ![o] = r]
Fail(r) == [r EXCEPT !.terminal = TRUE]
MaterialReady(r) == [r EXCEPT !.phase = "join-material-ready"]

(* The store refuses a write of a record, before or after its event was    *)
(* linked, and the attempt to record that as well: the record keeps what   *)
(* it got, r, and the process has nobody left who works on it.             *)
WriteFails == faults < MaxFaults /\ faults' = faults + 1
Loses(o, r) == Set(o, r) /\ worker' = [worker EXCEPT ![o] = "lost"]

(* Every kind's locks include generation-state.lock, so any two conflict.  *)
ResourceLocks(k) == {"generation-state.lock"} \cup
                    (IF MutatingOperationKind(k) THEN {"kubeadm-state.lock"} ELSE {})
FindClientRequest(id) == {o \in DOMAIN ops : ops[o].id = id}
ConflictingOperation(k) ==
  {o \in DOMAIN ops : /\ ~ops[o].terminal
                      /\ ResourceLocks(ops[o].kind) \cap ResourceLocks(k) # {}}

ActiveOperationIDs == {o \in DOMAIN ops : ~ops[o].terminal}

----------------------------------------------------------------------------
(* SubmitOperation                                                         *)

(* validateSubmit: the expected generation is compared with the current    *)
(* one here, before submitMu is taken.                                     *)
ValidateSubmit(c) ==
  /\ agent = "serving" /\ pc[c] = "idle"
  /\ \E r \in Requests :
       /\ r.base = gen
       /\ req' = [req EXCEPT ![c] = r]
  /\ pc' = [pc EXCEPT ![c] = "submit"]
  /\ UNCHANGED <<ops, agent, mu, worker, mlock, node, runs, faults>>

(* M: submitMu is not taken.                                               *)
LockSubmitNever(c) ==
  /\ pc[c] = "submit"
  /\ pc' = [pc EXCEPT ![c] = "admit"]
  /\ UNCHANGED <<ops, agent, mu, req, worker, mlock, node, runs, faults>>
LockSubmit(c) ==
  /\ pc[c] = "submit" /\ mu = None
  /\ mu' = c /\ pc' = [pc EXCEPT ![c] = "admit"]
  /\ UNCHANGED <<ops, agent, req, worker, mlock, node, runs, faults>>

(* M: the second comparison is dropped.                                    *)
MutationBaseUnchecked(r) == TRUE
(* ValidateMutationBase: the base is compared again, inside submitMu.      *)
ValidateMutationBase(r) ==
  r.kind \in {"generation-apply", "host-upgrade"} => r.base = gen

(* What acceptOperation refuses, or answers from an existing record: a     *)
(* repeated request, a lock conflict, a stale base, a bootstrap of a node  *)
(* that has Kubernetes state.                                              *)
Known(r) == FindClientRequest(r.id) # {}
Admissible(r) ==
  /\ ~Known(r)
  /\ ConflictingOperation(r.kind) = {}
  /\ ValidateMutationBase(r)
  /\ ~(IsBootstrap(r.kind) /\ kubelet)

Answer(c) ==
  /\ mu' = IF mu = c THEN None ELSE mu
  /\ pc' = [pc EXCEPT ![c] = "idle"] /\ req' = [req EXCEPT ![c] = None]

(* A repeated request is answered with its record and not dispatched.      *)
AnswerExisting(c) ==
  /\ pc[c] = "admit" /\ Known(req[c])
  /\ Answer(c)
  /\ UNCHANGED <<ops, agent, worker, mlock, node, runs, faults>>

Refuse(c) ==
  /\ pc[c] = "admit" /\ ~Known(req[c]) /\ ~Admissible(req[c])
  /\ Answer(c)
  /\ UNCHANGED <<ops, agent, worker, mlock, node, runs, faults>>

Admit(c) ==
  /\ pc[c] = "admit" /\ Admissible(req[c])
  /\ pc' = [pc EXCEPT ![c] = "create"]
  /\ UNCHANGED <<ops, agent, mu, req, worker, mlock, node, runs, faults>>

(* The record is created some time after the checks, still inside submitMu. *)
Created(c) ==
  /\ ops' = Append(ops, NewRecord(req[c]))
  /\ pc' = [pc EXCEPT ![c] = IF IsJoin(req[c].kind) THEN "materialize" ELSE "dispatch"]
  /\ mu' = IF IsJoin(req[c].kind) \/ mu # c THEN mu ELSE None
  /\ UNCHANGED <<req, worker, faults>>

(* A Create that errs after its event was linked leaves a record that is   *)
(* never dispatched: the caller gets the error.                            *)
CreateErrs(c) ==
  /\ WriteFails /\ Answer(c)
  /\ \/ UNCHANGED <<ops, worker>>
     \/ /\ ops' = Append(ops, NewRecord(req[c]))
        /\ worker' = [worker EXCEPT ![Len(ops) + 1] = "lost"]

AcceptOperation(c) ==
  /\ pc[c] = "create" /\ Len(ops) < MaxOps
  /\ Created(c) \/ CreateErrs(c)
  /\ UNCHANGED <<agent, mlock, node, runs>>

MyOp(c) == CHOOSE o \in DOMAIN ops : ops[o].id = req[c].id

(* A join writes its temporary kubeadm configuration before submitMu is    *)
(* released; a failure ends the operation (markMaterializationFailed).     *)
(* When either record update errs, the caller gets the error and nobody    *)
(* dispatches the record.                                                  *)
MaterializeJoinConfig(c) ==
  /\ pc[c] = "materialize"
  /\ \/ /\ Set(MyOp(c), MaterialReady(ops[MyOp(c)]))
        /\ pc' = [pc EXCEPT ![c] = "dispatch"] /\ mu' = IF mu = c THEN None ELSE mu
        /\ UNCHANGED <<req, worker, faults>>
     \/ Set(MyOp(c), Fail(ops[MyOp(c)])) /\ Answer(c) /\ UNCHANGED <<worker, faults>>
     \/ /\ WriteFails /\ Answer(c)
        /\ \/ Loses(MyOp(c), ops[MyOp(c)]) \/ Loses(MyOp(c), MaterialReady(ops[MyOp(c)]))
           \/ Set(MyOp(c), Fail(ops[MyOp(c)])) /\ UNCHANGED worker
  /\ UNCHANGED <<agent, mlock, node, runs>>

(* Dispatch starts a worker; a stopped executor ends the operation, unless *)
(* markDispatchFailed cannot write that either.                            *)
Dispatch(c) ==
  /\ pc[c] = "dispatch"
  /\ IF agent = "stopping"
     THEN \/ Set(MyOp(c), Fail(ops[MyOp(c)])) /\ UNCHANGED <<worker, faults>>
          \/ WriteFails /\ Loses(MyOp(c), ops[MyOp(c)])
     ELSE worker' = [worker EXCEPT ![MyOp(c)] = "begin"] /\ UNCHANGED <<ops, faults>>
  /\ pc' = [pc EXCEPT ![c] = "idle"] /\ req' = [req EXCEPT ![c] = None]
  /\ UNCHANGED <<mu, agent, mlock, node, runs>>

(* CreateWorkerJoinMaterial holds submitMu while it runs kubeadm, and      *)
(* refuses while an operation is active.                                   *)
CreateWorkerJoinMaterial(c) ==
  /\ agent = "serving" /\ pc[c] = "idle" /\ mu = None /\ ActiveOperationIDs = {}
  /\ mu' = c /\ pc' = [pc EXCEPT ![c] = "material"]
  /\ UNCHANGED <<ops, req, agent, worker, mlock, node, runs, faults>>
JoinMaterialCreated(c) ==
  /\ pc[c] = "material" /\ mu' = None /\ pc' = [pc EXCEPT ![c] = "idle"]
  /\ UNCHANGED <<ops, req, agent, worker, mlock, node, runs, faults>>

(* Reboot looks for active operations without submitMu, and the reboot it  *)
(* schedules comes two seconds later.                                      *)
RebootCheck(c) ==
  /\ agent = "serving" /\ pc[c] = "idle" /\ ActiveOperationIDs = {}
  /\ faults < MaxFaults
  /\ pc' = [pc EXCEPT ![c] = "reboot"]
  /\ UNCHANGED <<ops, mu, req, agent, worker, mlock, node, runs, faults>>
ScheduleReboot(c) ==
  /\ pc[c] = "reboot" /\ reboot' = TRUE /\ pc' = [pc EXCEPT ![c] = "idle"]
  /\ UNCHANGED <<ops, mu, req, agent, worker, mlock, gen, kubelet, boot, runs, faults>>

----------------------------------------------------------------------------
(* Execute                                                                 *)

Work(o, from) == agent \in {"serving", "stopping"} /\ worker[o] = from

(* A worker that meets an error records it as the end of its operation     *)
(* (failRecord, or recordUnhandledExecutionFailure, which ignores an error *)
(* of its own).                                                            *)
EndsWithError(o, r) ==
  \/ Set(o, Fail(r)) /\ worker' = [worker EXCEPT ![o] = "release"] /\ UNCHANGED <<mlock, faults>>
  \/ WriteFails /\ Loses(o, r) /\ mlock' = 0

(* The mutation lock is tried once; a lock that is held ends the operation. *)
AcquireMutationLock(o) ==
  /\ Work(o, "begin")
  /\ IF mlock = 0
     THEN mlock' = o /\ worker' = [worker EXCEPT ![o] = "prepare"] /\ UNCHANGED <<ops, faults>>
     ELSE /\ UNCHANGED mlock
          /\ \/ /\ Set(o, Fail(ops[o]))
                /\ worker' = [worker EXCEPT ![o] = "none"] /\ UNCHANGED faults
             \/ WriteFails /\ Loses(o, ops[o])
  /\ UNCHANGED <<agent, client, node, runs>>

PrepareFails(o) ==
  /\ Work(o, "prepare") /\ EndsWithError(o, ops[o])
  /\ UNCHANGED <<agent, client, node, runs>>

(* The pre-exec marker is recorded before the tool is started; an update   *)
(* that errs, with the marker linked or not, starts no tool.               *)
Marked(r) == [r EXCEPT !.marked = TRUE, !.phase = "mutating"]
MarkMutation(o) ==
  /\ Work(o, "prepare")
  /\ \/ Set(o, Marked(ops[o])) /\ worker' = [worker EXCEPT ![o] = "start"]
        /\ UNCHANGED <<mlock, faults>>
     \/ \E r \in {ops[o], Marked(ops[o])} :
          /\ WriteFails
          /\ \/ Set(o, Fail(r)) /\ worker' = [worker EXCEPT ![o] = "release"] /\ UNCHANGED mlock
             \/ Loses(o, r) /\ mlock' = 0
  /\ UNCHANGED <<agent, client, node, runs>>

(* The tool runs whether its pid could be recorded or not.                 *)
RunTool(o) ==
  /\ Work(o, "start")
  /\ runs' = [runs EXCEPT ![o] = @ + 1]
  /\ \/ Set(o, [ops[o] EXCEPT !.inv = "open", !.invBoot = boot]) /\ UNCHANGED faults
     \/ WriteFails /\ UNCHANGED ops
  /\ worker' = [worker EXCEPT ![o] = "running"]
  /\ UNCHANGED <<agent, client, mlock, node>>

(* What the tool did to the node: a killed one did not succeed.            *)
ToolEffect(k) ==
  \E ok \in IF agent = "stopping" THEN {FALSE} ELSE BOOLEAN :
    /\ gen' = IF ok /\ k \in {"generation-apply"} THEN gen + 1 ELSE gen
    /\ kubelet' = CASE IsBootstrap(k) -> TRUE
                    [] k = "destructive-reset" /\ ok -> FALSE
                    [] OTHER -> kubelet

(* The tool ends, or is killed when the agent stops; its completion makes  *)
(* the record terminal.  A completion that cannot be recorded leaves the   *)
(* invocation open, and the end to recordUnhandledExecutionFailure.        *)
ToolDone(o) ==
  /\ Work(o, "running")
  /\ \/ Set(o, Fail([ops[o] EXCEPT !.inv = "closed"]))
        /\ worker' = [worker EXCEPT ![o] = "release"] /\ UNCHANGED <<mlock, faults>>
     \/ /\ WriteFails
        /\ \/ Set(o, Fail(ops[o])) /\ worker' = [worker EXCEPT ![o] = "release"] /\ UNCHANGED mlock
           \/ Loses(o, ops[o]) /\ mlock' = 0
  /\ ToolEffect(ops[o].kind)
  /\ UNCHANGED <<agent, client, boot, reboot, runs>>

ReleaseMutationLock(o) ==
  /\ Work(o, "release") /\ mlock' = 0
  /\ worker' = [worker EXCEPT ![o] = "none"]
  /\ UNCHANGED <<ops, agent, client, node, runs, faults>>

----------------------------------------------------------------------------
(* Stopping, crashing, rebooting, starting                                 *)

Stopped ==
  /\ agent' = "down" /\ mu' = None
  /\ pc' = [c \in Clients |-> "idle"] /\ req' = [c \in Clients |-> None]
  /\ worker' = [o \in OpIds |-> "none"] /\ mlock' = 0

Stop ==
  /\ agent = "serving" /\ faults < MaxFaults /\ faults' = faults + 1
  /\ agent' = "stopping"
  /\ UNCHANGED <<ops, client, worker, mlock, node, runs>>
Exit ==
  /\ agent = "stopping" /\ \A o \in OpIds : worker[o] \in {"none", "lost"}
  /\ \A c \in Clients : pc[c] = "idle"
  /\ Stopped /\ UNCHANGED <<ops, node, runs, faults>>

(* The agent is killed: systemd kills its children with it.                *)
Crash ==
  /\ agent # "down" /\ faults < MaxFaults /\ faults' = faults + 1
  /\ Stopped /\ UNCHANGED <<ops, node, runs>>
NodeReboot ==
  /\ reboot /\ reboot' = FALSE /\ boot' = boot + 1 /\ faults' = faults + 1
  /\ Stopped /\ UNCHANGED <<ops, gen, kubelet, runs>>

Serve ==
  /\ agent = "down" /\ agent' = "reconcile"
  /\ UNCHANGED <<ops, client, worker, mlock, node, runs, faults>>

ClassifyStale(r) ==
  CASE r.terminal -> "terminal"
    [] ~r.terminal /\ r.marked -> "post-mutation"
    [] ~r.terminal /\ ~r.marked /\ MutatingOperationKind(r.kind) -> "ambiguous"
    [] OTHER -> "pre-mutation"

(* A record is left alone while an unfinished invocation of this boot      *)
(* seems alive: its pid answers, though another process may own it by now. *)
HasLiveInvocation(r, alive) == r.inv = "open" /\ r.invBoot = boot /\ alive

(* Every unfinished record is classified; the class decides its next action. *)
ReconcileBoot ==
  /\ agent = "reconcile" /\ agent' = "audit"
  /\ \E alive \in IF PidReuse THEN BOOLEAN ELSE {FALSE} :
       ops' = [o \in DOMAIN ops |->
                 IF ops[o].terminal \/ HasLiveInvocation(ops[o], alive) THEN ops[o]
                 ELSE [ops[o] EXCEPT !.class = ClassifyStale(ops[o])]]
  /\ UNCHANGED <<client, worker, mlock, node, runs, faults>>

(* A record the audit cannot read or write ends the start: the agent does  *)
(* not serve, and systemd starts it again.                                 *)
AuditFails ==
  /\ agent \in {"reconcile", "audit"} /\ WriteFails
  /\ agent' = "down"
  /\ UNCHANGED <<ops, client, worker, mlock, node, runs>>

(* A bootstrap that was accepted and never started is ended here.          *)
FailAcceptedButNotStarted ==
  /\ agent = "audit" /\ agent' = "recover"
  /\ ops' = [o \in DOMAIN ops |->
               IF /\ ~ops[o].terminal /\ IsBootstrap(ops[o].kind)
                  /\ ~ops[o].marked /\ ops[o].inv = "none"
               THEN Fail(ops[o]) ELSE ops[o]]
  /\ UNCHANGED <<client, worker, mlock, node, runs, faults>>

(* M: operations that never ran a tool are dispatched again at startup.    *)
RedispatchAtStartup ==
  /\ agent = "recover" /\ agent' = "serving"
  /\ worker' = [o \in OpIds |-> IF o \in ActiveOperationIDs THEN "begin" ELSE "none"]
  /\ UNCHANGED <<ops, client, mlock, node, runs, faults>>
(* A configuration apply that was stopped before its candidate was         *)
(* committed is ended; an error here is only logged.                       *)
RecoverInterruptedConfigApplies ==
  /\ agent = "recover" /\ agent' = "serving"
  /\ \/ /\ ops' = [o \in DOMAIN ops |->
               IF /\ ops[o].kind = "generation-apply" /\ ~ops[o].terminal
                  /\ ops[o].class # "" /\ ops[o].phase = "accepted" /\ ~ops[o].marked
               THEN Fail(ops[o]) ELSE ops[o]]
        /\ UNCHANGED faults
     \/ WriteFails /\ UNCHANGED ops
  /\ UNCHANGED <<client, worker, mlock, node, runs>>

ClientStep(c) ==
  \/ ValidateSubmit(c) \/ LockSubmit(c) \/ AnswerExisting(c) \/ Refuse(c)
  \/ Admit(c) \/ AcceptOperation(c) \/ MaterializeJoinConfig(c) \/ Dispatch(c)
  \/ CreateWorkerJoinMaterial(c) \/ JoinMaterialCreated(c)
  \/ RebootCheck(c) \/ ScheduleReboot(c)
WorkerStep(o) ==
  \/ AcquireMutationLock(o) \/ PrepareFails(o) \/ MarkMutation(o)
  \/ RunTool(o) \/ ToolDone(o) \/ ReleaseMutationLock(o)
StartStep ==
  Serve \/ ReconcileBoot \/ AuditFails \/ FailAcceptedButNotStarted \/ RecoverInterruptedConfigApplies

(* The store is full and every call has returned.                          *)
Quiet == Len(ops) = MaxOps /\ agent = "serving" /\ UNCHANGED vars

Next ==
  \/ \E c \in Clients : ClientStep(c)
  \/ \E o \in OpIds : WorkerStep(o)
  \/ StartStep \/ Stop \/ Exit \/ Crash \/ NodeReboot \/ Quiet

Spec == Init /\ [][Next]_vars

----------------------------------------------------------------------------

TypeOK ==
  /\ \A o \in DOMAIN ops :
       /\ ops[o].id \in ReqIds /\ ops[o].kind \in Kinds
       /\ ops[o].inv \in {"none", "open", "closed"}
       /\ ops[o].class \in {"", "post-mutation", "ambiguous", "pre-mutation"}
  /\ Len(ops) <= MaxOps
  /\ agent \in {"down", "reconcile", "audit", "recover", "serving", "stopping"}
  /\ mu \in Clients \cup {None} /\ mlock \in 0..MaxOps
  /\ worker \in [OpIds -> {"none", "begin", "prepare", "start", "running", "release", "lost"}]

(* However submissions interleave, with crashes and restarts between them, *)
(* no two operations are unfinished at once: every kind reserves           *)
(* generation-state.lock through its record.                               *)
OneActiveOperation == Cardinality(ActiveOperationIDs) <= 1

(* A client request creates at most one operation: a retry after a lost    *)
(* answer, even one that races the first call, finds the record.           *)
OneOperationPerRequest ==
  \A i, j \in DOMAIN ops : ops[i].id = ops[j].id => i = j

(* However submissions interleave, with crashes and restarts between them, *)
(* no two operations are unfinished at once, and a request repeated after  *)
(* a lost answer creates no second one.                                    *)
OneOperation == OneActiveOperation /\ OneOperationPerRequest

CreatedOnCurrentBase ==
  \A o \in DOMAIN ops' \ DOMAIN ops :
    ops'[o].kind \in {"generation-apply", "host-upgrade"} => ops'[o].base = gen

(* A host-generation operation is created on the generation the node has   *)
(* at that moment, although the request was validated before submitMu.     *)
AcceptedOnCurrentBase == [][CreatedOnCurrentBase]_vars

(* No operation runs its tool twice, and a tool that ran left its marker   *)
(* first: not across retries, crashes or the startup audit.                *)
ToolRunsOnceMarked ==
  \A o \in OpIds : runs[o] <= 1 /\ (runs[o] = 1 => ops[o].marked)

(* Once the agent serves, an unfinished operation is in a caller's or a    *)
(* worker's hands, or was classified by the startup audit.  Two kinds are  *)
(* in nobody's hands: a record the store refused to write in this very     *)
(* process ("lost": it keeps its lock until the agent starts again, and no *)
(* longer), and one with an open invocation of this boot whose pid is in   *)
(* use.                                                                    *)
NoForgottenOperation ==
  agent = "serving" =>
    \A o \in ActiveOperationIDs :
      \/ worker[o] # "none" \/ ops[o].class # ""
      \/ \E c \in Clients : pc[c] \in {"materialize", "dispatch"} /\ req[c].id = ops[o].id
      \/ PidReuse /\ ops[o].inv = "open" /\ ops[o].invBoot = boot

(* No operation runs its tool twice, the marker precedes the tool, and     *)
(* once the agent serves every unfinished operation is in somebody's hands *)
(* or was classified by the startup audit, except while the process that   *)
(* could not write its record, or the owner of a reused pid, still lives.  *)
OperationAccounted == ToolRunsOnceMarked /\ NoForgottenOperation

(* A record told "resubmit operation request" can be resubmitted: nothing  *)
(* holds its locks against the new request.                                *)
ResubmitAdmitted ==
  agent = "serving" =>
    \A o \in DOMAIN ops : ops[o].class = "pre-mutation" => ConflictingOperation(ops[o].kind) = {}

=============================================================================
