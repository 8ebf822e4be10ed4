----------------------------- MODULE NodeCommands -----------------------------
(***************************************************************************)
(* The katlctl commands that change one node: host upgrade, configuration  *)
(* apply, reboot, shutdown, join, and following an operation               *)
(* (cmd/katlctl).  A command is a series of calls to the agent that        *)
(* answers at the node's address; between any two of them the agent        *)
(* restarts, the machine reboots, is installed anew or loses its address   *)
(* to another one, and other operators change it.                          *)
(*                                                                         *)
(* Abstracted: an enrollment is the number of the installation; a          *)
(* generation is known by who makes it; boot state good and health healthy *)
(* are one field, and a generation whose slot was written over has commit  *)
(* state unavailable.  Versions, flavours and architectures appear as an image *)
(* that fits the node, or is installed already.  Output formats, progress  *)
(* and poll intervals are left out; a timeout may strike any wait.         *)
(***************************************************************************)
EXTENDS Naturals, Sequences

CONSTANTS Commands,    \* the commands operators run
          MaxSteps     \* bound on what happens to the machine from outside;
                       \* an invocation of katlctl counts for two

VARIABLES hosts,   \* "a", the machine the commands are about, and another one
          at,      \* the machine that has the node's address
          cmd,     \* the running command, where it is and what it has read
          out,     \* what the last command reported
          runs, events

vars == <<hosts, at, cmd, out, runs, events>>

(* Generations: the one installed, the candidates of an upgrade, of a      *)
(* configuration and of a join, and one of somebody else.                  *)
Gens == {"base", "image", "config", "join", "foreign"}
Absent == [commit |-> "none", health |-> "unknown"]
Pending == [commit |-> "committed", health |-> "unknown"]
Good == [commit |-> "committed", health |-> "healthy"]
IsKnownGood(g) == g.commit \in {"committed", "superseded"} /\ g.health = "healthy"

Installed(name, inst, start, k8s, handoff) ==
  [name |-> name, inst |-> inst, start |-> start, sel |-> "base", cur |-> "base", next |-> "base",
   def |-> "base", bh |-> "healthy", k8s |-> k8s, up |-> TRUE, boots |-> 0, handoff |-> handoff, ops |-> <<>>, due |-> "",
   gens |-> [g \in Gens |-> IF g = "base" THEN Good ELSE Absent]]

Nothing == [name |-> ""]
Idle == [name |-> "", pc |-> "idle"]

(* A target as resolveManagementTarget leaves it: a node's name, how it is *)
(* authenticated, and the installation a saved context knows, if any.      *)
Target(auth, pinned) == [name |-> "n1", auth |-> auth, pinned |-> pinned]
Targets == {Target("tls", 0), Target("network", 1), Target("none", 0)}

(* The options that matter to a command: whether what it sends fits the    *)
(* node; upgrade --local, apply --mode, join from a saved context; and     *)
(* whether it waits (upgrade: is not a dry run).                           *)
Options(n) ==
  [fits : IF n \in {"upgrade", "apply", "join"} THEN BOOLEAN ELSE {TRUE},
   special : IF n \in {"upgrade", "apply", "join"} THEN BOOLEAN ELSE {FALSE},
   wait : IF n \in {"join", "watch"} THEN {TRUE} ELSE BOOLEAN]

-----------------------------------------------------------------------------
(* The agent, as its callers see it                                        *)

(* What a boot of the node runs and how it is: the kernel command line may *)
(* be unreadable, or tell nothing.                                         *)
readNodeBootHealth(h) ==
  {[sel |-> h.sel, bh |-> h.bh], [sel |-> "", bh |-> ""], [sel |-> "", bh |-> "unknown"]}

GetNodeStatus(h) ==
  [name |-> h.name, inst |-> h.inst, start |-> h.start, sel |-> h.sel, cur |-> h.cur,
   next |-> h.next, bh |-> h.bh, k8s |-> h.k8s]

Active(h) == {i \in DOMAIN h.ops : ~h.ops[i].terminal}

(* What a mutating request expects must be what the agent finds.           *)
(* M: the installation is not compared.                                    *)
validateNameOnly(h, s) == h.name = s.name /\ h.cur = s.cur
validateMutationTarget(h, s) == h.inst = s.inst /\ h.name = s.name /\ h.cur = s.cur

GetOperation(h, o) == [seq |-> h.ops[o].seq, terminal |-> h.ops[o].terminal, result |-> h.ops[o].result]

(* A watch sends the events after the one the caller names, in order.      *)
WatchOperation(h, o, seq) ==
  IF seq + 1 = h.ops[o].seq THEN GetOperation(h, o)
  ELSE [seq |-> seq + 1, terminal |-> FALSE, result |-> ""]

(* Newest first.                                                           *)
ListOperations(h, activeOnly) ==
  LET n == Len(h.ops) newest == [i \in 1..n |-> n + 1 - i]
  IN SelectSeq(newest, LAMBDA o : activeOnly => ~h.ops[o].terminal)

-----------------------------------------------------------------------------
(* Whom a command talks to                                                 *)

(* Mutual TLS is established only with the node that has the name.         *)
dialKatlcAgentTCP(t) ==
  t.auth # "none" /\ hosts[at].up /\ (t.auth = "tls" => hosts[at].name = t.name)

ObserveNode(t, s) == s.name = t.name
Verify(seen, s) == s.name = seen.name /\ s.inst = seen.inst
requireEnrolledTarget(t) == t.auth # "none" \/ t.pinned # 0

bindManagementStatus(t, seen, s) ==
  /\ requireEnrolledTarget(t) /\ ObserveNode(t, s)
  /\ seen # Nothing => Verify(seen, s)

(* A join is bound to the installation it was planned for.                 *)
verifyPlannedStatus(t, s) ==
  t.pinned # 0 /\ bindManagementStatus(t, [name |-> t.name, inst |-> t.pinned], s)

-----------------------------------------------------------------------------
(* What a command makes of a status                                        *)

nodeRecoveryRequirementFor(s) == [configured |-> s.k8s # "none", ready |-> s.k8s = "ready"]

(* Kubernetes is back when it is as good as it was before.                 *)
nodeUpgradeRecovery(s, need) ==
  IF s.k8s = "none" THEN ~need.configured
  ELSE s.k8s = "ready" \/ (s.k8s = "kubelet" /\ ~need.ready)

(* What the status does not report is not held against the boot.           *)
healthyOn(s, g, target) ==
  s.cur = target /\ s.sel \in {"", target} /\ s.bh \in {"", "healthy"} /\ g = Good

(* What a poll after the reboot shows: the generation asked for is healthy *)
(* and Kubernetes is back; or it was rejected, and the fallback is healthy *)
(* or nothing will come back; or it is too early to say.                   *)
waitNodeBootHealth(s, g, target, need) ==
  LET unhealthy == g.health = "unhealthy"
      fallback == unhealthy /\ s.sel \notin {"", target} /\ s.bh = "healthy"
      rollback == unhealthy /\ ~fallback /\ s.sel # "" /\ s.next # target
  IN IF unhealthy /\ ~fallback /\ ~rollback THEN "error"
     ELSE IF (fallback \/ healthyOn(s, g, target)) /\ nodeUpgradeRecovery(s, need)
          THEN IF fallback THEN "error" ELSE "healthy"
     ELSE "wait"

(* The latest join of this source or candidate that is not over.           *)
unfinishedNodeJoin(h, cur) ==
  LET joins == SelectSeq(ListOperations(h, FALSE),
                 LAMBDA o : h.ops[o].kind = "join" /\ cur \in {h.ops[o].prev, h.ops[o].cand})
      over(o) == h.ops[o].terminal /\ h.ops[o].result = "failed"
      rest == SelectSeq(joins, LAMBDA o : ~over(o))
  IN rest # <<>> /\ h.ops[rest[1]].result # "succeeded"

validateJoinedNode(s, g) ==
  g = Good /\ nodeUpgradeRecovery(s, [configured |-> TRUE, ready |-> FALSE])

(* One active operation, else the newest one.                              *)
selectOperationID(h) ==
  LET active == ListOperations(h, TRUE) all == ListOperations(h, FALSE)
  IN IF Len(active) > 1 \/ all = <<>> THEN 0 ELSE IF active # <<>> THEN active[1] ELSE all[1]

-----------------------------------------------------------------------------
(* Running a command                                                       *)

Here(pc) == cmd.pc = pc
Step(pc) == cmd' = [cmd EXCEPT !.pc = pc] /\ UNCHANGED out
Report(result) == out' = [name |-> cmd.name, result |-> result] /\ cmd' = Idle
Error == Report("error")
Calm == UNCHANGED <<hosts, at, runs, events>>
Bounds == UNCHANGED <<at, runs, events>>
Host == hosts[at]
Dial == dialKatlcAgentTCP(cmd.target)

(* A mutating call checks the request first and does the rest later: on    *)
(* the machine that took it, while that agent runs.  The caller may be     *)
(* refused, or hear nothing, at any step.                                  *)
Taken(pc) == cmd' = [cmd EXCEPT !.pc = pc, !.on = [machine |-> at, start |-> Host.start]] /\ UNCHANGED out
Agent == hosts[cmd.on.machine]
Alive == Agent.up /\ Agent.start = cmd.on.start
Check(pc, ok, next) == Here(pc) /\ Calm /\ ((Alive /\ ok /\ Step(next)) \/ Error)

More == 2 * (runs + 1) + events <= MaxSteps

(* A command checks its options; its target is resolved.                   *)
Invoke ==
  /\ Here("idle") /\ More
  /\ \E n \in Commands, t \in Targets, id \in {1, runs + 1} : \E o \in Options(n) :
       cmd' = [name |-> n, pc |-> IF n = "join" THEN "refresh" ELSE "status", target |-> t, id |-> id,
               fits |-> o.fits, special |-> o.special, wait |-> o.wait, seen |-> Nothing, start |-> 0, boots |-> 0,
               need |-> [configured |-> TRUE, ready |-> FALSE], goal |-> "", op |-> 0, seq |-> 0,
               read |-> Nothing, doubt |-> FALSE, on |-> [machine |-> "a", start |-> 0]]
  /\ runs' = runs + 1 /\ UNCHANGED <<hosts, at, out, events>>

(* A command with a configuration that names an identity observes the      *)
(* installation now; otherwise the saved context is all it has.            *)
refreshConfiguredManagement ==
  /\ Here("refresh") /\ Calm
  /\ IF ~Dial \/ ~ObserveNode(cmd.target, Host) THEN Error
     ELSE cmd' = [cmd EXCEPT !.pc = "status", !.target.pinned = IF cmd.special THEN @ ELSE Host.inst]
          /\ UNCHANGED out

(* The first status is read and bound; what must come back is noted.       *)
ReadStatus ==
  /\ Here("status") /\ Calm
  /\ LET s == GetNodeStatus(Host)
         bound == CASE cmd.name = "watch" -> TRUE
                    [] cmd.name = "join" -> verifyPlannedStatus(cmd.target, s)
                    [] OTHER -> bindManagementStatus(cmd.target, Nothing, s)
         next == CASE cmd.name = "upgrade" -> "generation" [] cmd.name = "apply" -> "validate"
                   [] cmd.name = "join" -> "pending" [] cmd.name = "watch" -> "select"
                   [] OTHER -> cmd.name
         goal == CASE cmd.name = "upgrade" -> "image" [] cmd.name = "apply" -> "config"
                   [] cmd.name = "join" -> "join" [] OTHER -> s.next
     IN IF ~Dial \/ ~bound THEN Error
        ELSE /\ cmd' = [cmd EXCEPT !.pc = next, !.seen = s, !.start = s.start, !.goal = goal, !.boots = Host.boots,
                          !.need = IF cmd.name = "join" THEN @ ELSE nodeRecoveryRequirementFor(s)]
             /\ UNCHANGED out

(* --- host upgrade --- *)

(* The image must fit the node; one that runs and is healthy is done.      *)
CheckGeneration ==
  /\ Here("generation") /\ Calm
  /\ IF ~Dial \/ ~cmd.fits THEN Error
     ELSE IF ~cmd.special /\ cmd.seen.cur = "image" /\ Host.gens["image"] = Good THEN Step("recover")
     ELSE Step(IF cmd.special THEN "upload" ELSE "plan")

(* A local image is sent to the node it was meant for.                     *)
stageLocalUpgradeArtifact ==
  /\ Here("upload") /\ Calm
  /\ (Dial /\ validateMutationTarget(Host, cmd.seen) /\ Step("plan")) \/ Error

(* A dry run: no change, a plan to show, or on to the request.             *)
PlanUpgrade ==
  /\ Here("plan") /\ Calm
  /\ \/ Error
     \/ /\ Dial /\ validateMutationTarget(Host, cmd.seen)
        /\ IF Host.cur = "image" THEN Step("recover")
           ELSE IF ~cmd.wait THEN Report("planned") ELSE Step("submit")

(* An installed release is reported when Kubernetes is back.               *)
reportInstalledHostUpgrade ==
  /\ Here("recover") /\ Calm
  /\ \/ Dial /\ nodeUpgradeRecovery(GetNodeStatus(Host), cmd.need)
        /\ Report(IF cmd.name = "join" THEN "joined" ELSE "installed")
     \/ Error

(* --- configuration --- *)

(* A rejected change is an error, unless a mode was asked for, which keeps *)
(* a receipt.                                                              *)
runConfigApply ==
  /\ Here("validate") /\ Calm
  /\ IF ~Dial \/ ~validateMutationTarget(Host, cmd.seen) \/ (~cmd.fits /\ ~cmd.special) THEN Error
     ELSE IF cmd.seen.cur = "config" /\ ~cmd.special THEN Report("unchanged") ELSE Step("submit")

(* --- an operation --- *)

(* The node must be what the caller saw.                                   *)
SubmitOperation ==
  /\ Here("submit") /\ Calm
  /\ IF Dial /\ validateMutationTarget(Host, cmd.seen) THEN Taken("accept") ELSE Error

(* Then, one at a time, the agent takes the request up again, or accepts   *)
(* it when nothing is unfinished; an upgrade or a change of configuration  *)
(* also only on the generation it was planned for, with no other selected  *)
(* and no trial pending.                                                   *)
ValidateMutationBase(h, cur) == h.cur = cur /\ h.next = cur /\ h.bh # "pending" /\ h.gens[cur].health # "unknown"

acceptOperation ==
  /\ Here("accept") /\ Bounds
  /\ LET h == Agent
         known == {o \in DOMAIN h.ops : h.ops[o].kind = cmd.name /\ h.ops[o].id = cmd.id}
         record == [kind |-> cmd.name, id |-> cmd.id, cand |-> cmd.goal, prev |-> cmd.seen.cur, seq |-> 1,
                    terminal |-> FALSE, result |-> "", live |-> cmd.special, ok |-> cmd.fits]
     IN \/ UNCHANGED hosts /\ Error
        \/ /\ Alive /\ known # {} /\ UNCHANGED <<hosts, out>>
           /\ \E o \in known : cmd' = [cmd EXCEPT !.pc = "follow", !.op = o]
        \/ /\ Alive /\ known = {} /\ Active(h) = {}
           /\ cmd.name \in {"upgrade", "apply"} => ValidateMutationBase(h, cmd.seen.cur)
           /\ cmd.name = "upgrade" => h.cur # "image"
           /\ hosts' = [hosts EXCEPT ![cmd.on.machine].ops = Append(@, record)]
           /\ \/ Error
              \/ cmd.name = "apply" /\ ~cmd.wait /\ Report("accepted")
              \/ /\ cmd.name = "apply" => cmd.wait
                 /\ cmd' = [cmd EXCEPT !.pc = "follow", !.op = Len(h.ops) + 1] /\ UNCHANGED out

(* What follows an operation that ended.                                   *)
operationResultError(st) ==
  IF st.result # "succeeded" THEN Error
  ELSE CASE cmd.name = "upgrade" -> Step("staged") [] cmd.name = "join" -> Step("finish")
         [] OTHER -> Report("succeeded")

(* An event of the stream, or a poll when it ended; a poll that fails ends *)
(* the command.                                                            *)
followOperation ==
  /\ Here("follow") /\ Calm
  /\ \/ ~Dial /\ Error
     \/ Dial /\ (cmd.op \notin DOMAIN Host.ops) /\ Error
     \/ /\ Dial /\ cmd.op \in DOMAIN Host.ops
        /\ \E st \in {GetOperation(Host, cmd.op)} \cup
                     (IF Host.ops[cmd.op].seq > cmd.seq THEN {WatchOperation(Host, cmd.op, cmd.seq)} ELSE {}) :
             IF st.terminal THEN operationResultError(st)
             ELSE cmd' = [cmd EXCEPT !.seq = IF st.seq > @ THEN st.seq ELSE @] /\ UNCHANGED out

runOperationStatus ==
  /\ Here("select") /\ Calm
  /\ LET o == selectOperationID(Host)
     IN IF ~Dial \/ o = 0 THEN Error
        ELSE cmd' = [cmd EXCEPT !.pc = "follow", !.op = o] /\ UNCHANGED out

(* --- reboot and shutdown --- *)

(* Before the reboot: the same installation, with the candidate staged.    *)
CheckStaged ==
  /\ Here("staged") /\ Calm
  /\ LET s == GetNodeStatus(Host)
     IN IF ~Dial \/ ~bindManagementStatus(cmd.target, cmd.seen, s)
           \/ (IF Host.handoff THEN s.next ELSE s.cur) # cmd.goal THEN Error
        ELSE cmd' = [cmd EXCEPT !.pc = "reboot", !.seen = s] /\ UNCHANGED out

(* The agent reads the generation, which must be committed or known good,  *)
(* then whether it is selected, for the next boot or for all, then whether *)
(* an operation is unfinished, and schedules the reboot; nothing keeps     *)
(* others from changing these meanwhile.                                   *)
requestNodeReboot ==
  /\ Here("reboot") /\ Calm
  /\ IF Dial /\ validateMutationTarget(Host, cmd.seen) THEN Taken("reboot target") ELSE Error
RebootTarget ==
  Check("reboot target", Agent.gens[cmd.goal].commit = "committed" \/ IsKnownGood(Agent.gens[cmd.goal]), "reboot selected")
RebootSelected == Check("reboot selected", cmd.goal \in {Agent.next, Agent.def}, "nothing active")
activeOperationIDs == Check("nothing active", Active(Agent) = {}, "schedule")

(* Scheduled, with the answer or without it, or not.                       *)
Schedule ==
  /\ Here("schedule") /\ Bounds
  /\ LET due == IF cmd.name = "shutdown" THEN "poweroff" ELSE "reboot"
     IN \/ UNCHANGED hosts /\ Error
        \/ /\ Alive /\ hosts' = [hosts EXCEPT ![cmd.on.machine].due = due]
           /\ \/ Error
              \/ cmd.name \in {"reboot", "shutdown"} /\ ~cmd.wait /\ Report("scheduled")
              \/ /\ cmd.name \in {"reboot", "shutdown"} => cmd.wait
                 /\ Step(IF cmd.name = "shutdown" THEN "offline" ELSE "poll")

(* A status of another agent process than the one before the reboot.       *)
(* M: a status of the same process is taken.                               *)
PollAnyAgent ==
  /\ Here("poll") /\ Calm /\ Dial /\ UNCHANGED out
  /\ \E b \in readNodeBootHealth(Host) :
       cmd' = [cmd EXCEPT !.pc = "look", !.read = [GetNodeStatus(Host) EXCEPT !.sel = b.sel, !.bh = b.bh]]
PollBoot ==
  /\ Here("poll") /\ Calm /\ Dial /\ Host.start # cmd.start /\ UNCHANGED out
  /\ \E b \in readNodeBootHealth(Host) :
       cmd' = [cmd EXCEPT !.pc = "look", !.read = [GetNodeStatus(Host) EXCEPT !.sel = b.sel, !.bh = b.bh]]

(* Then the generation, by a second call.                                  *)
JudgeBoot ==
  /\ Here("look") /\ Calm
  /\ LET g == Host.gens[cmd.goal]
         verdict == waitNodeBootHealth(cmd.read, g, cmd.goal, cmd.need)
     IN IF ~Dial \/ g.commit = "none" \/ verdict = "wait" THEN Step("poll")
        ELSE IF verdict = "error" THEN Error
        ELSE Report(CASE cmd.name = "upgrade" -> "succeeded" [] cmd.name = "join" -> "joined"
                      [] OTHER -> "rebooted")

runHostShutdown ==
  /\ Here("shutdown") /\ Calm
  /\ IF Dial /\ validateMutationTarget(Host, cmd.seen) THEN Taken("nothing active") ELSE Error

(* Any failure to reach the agent counts as off.                           *)
waitNodeOffline == Here("offline") /\ Calm /\ ~Dial /\ Report("offline")

(* --- join --- *)

(* Where a join stands: its generation needs a reboot, it has to be run or *)
(* resumed by a coordinator, or it is complete.                            *)
runNodeJoin ==
  /\ Here("pending") /\ Calm
  /\ LET g == Host.gens[cmd.seen.cur]
         pending == unfinishedNodeJoin(Host, cmd.seen.cur)
     IN IF ~Dial \/ ~cmd.fits THEN Error
        ELSE IF cmd.seen.cur = "join" /\ g # Good THEN Step("finish")
        ELSE IF cmd.seen.k8s = "none" \/ pending
             THEN IF (~pending /\ g # Good)
                     \/ (cmd.seen.next # cmd.seen.cur /\ ~(pending /\ cmd.seen.next = "join"))
                  THEN Error ELSE Step("coordinator")
        ELSE IF validateJoinedNode(cmd.seen, g) THEN Report("unchanged") ELSE Error

(* The first control plane that is healthy and ready, if any.              *)
joinCoordinator == Here("coordinator") /\ Calm /\ (Step("submit") \/ Error)

(* A joined generation that is not yet good is rebooted into.              *)
finishNodeJoin ==
  /\ Here("finish") /\ Calm
  /\ LET s == GetNodeStatus(Host) g == Host.gens[s.cur]
     IN IF ~Dial \/ ~verifyPlannedStatus(cmd.target, s) THEN Error
        ELSE IF g = Good THEN Step("recover")
        ELSE IF s.cur # "join" \/ g.health = "unhealthy" THEN Error
        ELSE cmd' = [cmd EXCEPT !.pc = "reboot", !.seen = s, !.start = s.start] /\ UNCHANGED out

(* A wait runs out of time; the operator stops the command.                *)
Timeout == cmd.pc \in {"follow", "poll", "look", "offline"} /\ Calm /\ Error

-----------------------------------------------------------------------------
(* The machine and the others                                              *)

Event == 2 * runs + events < MaxSteps /\ events' = events + 1
Quiet == UNCHANGED <<cmd, out, runs, at>>
Update(h) == hosts' = [hosts EXCEPT !["a"] = h]
A == hosts["a"]
Retry == UNCHANGED events

(* A generation that takes over supersedes the one that was the default.   *)
Superseding(h, g) == [h EXCEPT !.gens[h.def].commit = IF @ = "committed" /\ h.def # g THEN "superseded" ELSE @]

(* The executor of the agent finishes an operation.                        *)
Finish(o) ==
  LET op == A.ops[o]
      done(r) == [A EXCEPT !.ops[o].terminal = TRUE, !.ops[o].result = r, !.ops[o].seq = @ + 1]
      ok == done("succeeded")
  IN \/ Update(done("failed"))
     \/ op.kind = "join" /\ Update([done("failed-needs-repair") EXCEPT !.k8s = "kubelet"])
     \/ op.ok /\ op.kind = "upgrade"
        /\ Update([ok EXCEPT !.gens["image"] = Pending, !.next = "image",
                             !.cur = IF A.handoff THEN @ ELSE "image"])
     \/ op.ok /\ op.kind = "apply"
        /\ Update(IF op.live
                  THEN [Superseding(ok, "config") EXCEPT !.gens["config"] = Good, !.cur = "config", !.next = "config", !.def = "config"]
                  ELSE [ok EXCEPT !.gens["config"] = Pending, !.next = "config"])
     \/ op.kind = "join"
        /\ \E g \in {Good, Pending} :
             Update([ok EXCEPT !.gens["join"] = g, !.cur = "join", !.next = "join", !.def = "join", !.k8s = "kubelet"])

Execute ==
  /\ A.up /\ Quiet /\ Retry
  /\ \E o \in Active(A) :
       \/ A.ops[o].seq = 1 /\ Update([A EXCEPT !.ops[o].seq = 2])
       \/ A.ops[o].seq = 2 /\ Finish(o)

(* A scheduled reboot or power-off, and the boot that follows.             *)
GoDown == A.up /\ A.due # "" /\ Quiet /\ Retry /\ Update([A EXCEPT !.up = FALSE])
BootUp ==
  /\ ~A.up /\ Quiet /\ (IF A.due = "reboot" THEN Retry ELSE Event)
  /\ Update([A EXCEPT !.up = TRUE, !.due = "", !.start = @ + 1, !.boots = @ + 1, !.sel = A.next,
                      !.bh = "pending", !.k8s = IF @ = "none" THEN "none" ELSE "down"])

(* Boot health commits the generation, or rejects it and reboots into the  *)
(* fallback.                                                               *)
BootHealth ==
  /\ A.up /\ A.bh = "pending" /\ Quiet
  /\ \/ Retry /\ Update([Superseding(A, A.sel) EXCEPT !.bh = "healthy", !.gens[A.sel] = Good, !.cur = A.sel, !.def = A.sel])
     \/ Event /\ A.sel # "base"
        /\ Update([A EXCEPT !.bh = "failed", !.gens[A.sel].health = "unhealthy", !.cur = "base",
                            !.next = "base", !.def = "base", !.due = "reboot"])

KubernetesUp ==
  /\ A.up /\ A.k8s \in {"down", "kubelet"} /\ Quiet /\ Retry
  /\ Update([A EXCEPT !.k8s = IF @ = "down" THEN "kubelet" ELSE "ready"])

(* The agent starts anew without a reboot.                                 *)
AgentRestart ==
  /\ A.up /\ Event /\ UNCHANGED <<out, runs, at>>
  /\ Update([A EXCEPT !.start = @ + 1])
  /\ cmd' = IF cmd.pc = "idle" THEN cmd ELSE [cmd EXCEPT !.doubt = TRUE]

(* Another operator stages a generation, which may write over the slot of  *)
(* one that is not in use, or reboots the machine.                         *)
OtherOperator ==
  /\ A.up /\ Active(A) = {} /\ Event /\ Quiet
  /\ \/ \E lost \in SUBSET {g \in Gens \ {"foreign", A.sel, A.cur, A.def} : A.gens[g].commit # "none"} :
          Update([A EXCEPT !.gens = [g \in Gens |-> IF g = "foreign" THEN Pending
                                                   ELSE IF g \in lost THEN [@[g] EXCEPT !.commit = "unavailable"] ELSE @[g]],
                           !.next = "foreign"])
     \/ Update([A EXCEPT !.due = "reboot"])
Reinstall ==
  /\ Event /\ Quiet /\ A.inst = 1 /\ Update(Installed("n1", 2, A.start + 1, "none", A.handoff))
KubernetesGone == A.k8s # "none" /\ A.up /\ Event /\ Quiet /\ Update([A EXCEPT !.k8s = "none"])
AddressMoves ==
  /\ Event /\ at' = (IF at = "a" THEN "b" ELSE "a") /\ UNCHANGED <<hosts, cmd, out, runs>>

Init ==
  /\ \E k8s \in {"none", "ready"}, handoff \in BOOLEAN :
       hosts = [m \in {"a", "b"} |-> IF m = "a" THEN Installed("n1", 1, 0, k8s, handoff)
                                     ELSE Installed("n2", 7, 0, "none", handoff)]
  /\ at = "a" /\ cmd = Idle /\ out = [name |-> "", result |-> ""] /\ runs = 0 /\ events = 0

Client ==
  \/ Invoke \/ refreshConfiguredManagement \/ ReadStatus \/ CheckGeneration \/ stageLocalUpgradeArtifact
  \/ PlanUpgrade \/ reportInstalledHostUpgrade \/ runConfigApply \/ SubmitOperation \/ acceptOperation
  \/ followOperation \/ runOperationStatus \/ CheckStaged \/ requestNodeReboot \/ RebootTarget \/ RebootSelected
  \/ activeOperationIDs \/ Schedule \/ PollBoot \/ JudgeBoot \/ runHostShutdown
  \/ waitNodeOffline \/ runNodeJoin \/ joinCoordinator \/ finishNodeJoin \/ Timeout
Machine ==
  \/ Execute \/ GoDown \/ BootUp \/ BootHealth \/ KubernetesUp \/ AgentRestart \/ OtherOperator
  \/ Reinstall \/ KubernetesGone \/ AddressMoves

(* Nothing more is followed once the last command is over.                 *)
Next == Client \/ ((Here("idle") => More) /\ Machine)
Spec == Init /\ [][Next]_vars

-----------------------------------------------------------------------------
(* Whatever happens between its calls, and while an agent serves one, a    *)
(* command changes only the installation whose status it read; an upgrade  *)
(* or a change of configuration is accepted only while the generation is   *)
(* the one of that status, which a join, a reboot and a shutdown compare   *)
(* before the last checks and no more.  The machine that took over the     *)
(* address is never changed (the Expected fields of every request,         *)
(* bindManagementStatus before the reboot).                                *)
MutationsAimed ==
  /\ hosts'["b"] = hosts["b"]
  /\ cmd # Idle /\ (A.ops # hosts'["a"].ops \/ A.due # hosts'["a"].due) /\ A.up /\ cmd' # cmd
       => /\ cmd.seen.inst = A.inst
          /\ cmd.name \in {"upgrade", "apply"} /\ A.ops # hosts'["a"].ops => cmd.seen.cur = A.cur
          /\ cmd.name = "join" => cmd.target.pinned = A.inst

(* A command that reports success is right: an upgrade has booted its own  *)
(* candidate on the installation it started on, which health committed,    *)
(* and Kubernetes that ran before was seen to run again; after a reboot    *)
(* the machine has booted since the first status.  Two cases are excepted, *)
(* where the code reports a reboot that may not have happened: the agent   *)
(* alone started anew meanwhile (doubt), and, without mutual TLS, another  *)
(* machine answers (waitNodeBootHealth tells a boot by the agent's start   *)
(* and compares no identity, and the reboot is two seconds away).          *)
CommandsTruthful ==
  out' # out \/ (cmd # Idle /\ cmd' = Idle) =>
    /\ out'.name = "upgrade" /\ out'.result = "succeeded" =>
         /\ A.inst = cmd.seen.inst /\ A.gens["image"] = Good /\ A.boots > 0
         /\ cmd.read.sel \in {"", "image"} /\ (cmd.need.ready => cmd.read.k8s = "ready")
         /\ cmd.need.configured => cmd.read.k8s # "none"
    /\ out'.result = "rebooted" /\ at = "a" /\ A.inst = cmd.seen.inst /\ ~cmd.doubt => A.boots > cmd.boots
=============================================================================
