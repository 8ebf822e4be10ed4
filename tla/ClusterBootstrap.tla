--------------------------- MODULE ClusterBootstrap ---------------------------
(* The client that makes a cluster out of installed nodes                    *)
(* (internal/bootstrap/cluster/agent_bootstrap.go, cluster.go,               *)
(* kubeconfig/kubeconfig.go), against the agents of the nodes.  All its       *)
(* memory is on the nodes: a rerun finds the operation of the last run by its *)
(* client request id and adopts, continues or retries it.                     *)
(*                                                                            *)
(* Several clients may run at once, each may be cut off between two calls and *)
(* be run again, and a node may be reinstalled meanwhile.  An agent is what   *)
(* the client sees of it (AgentOperations and BootstrapOperation model it):   *)
(* the operations it lists, the conditions under which it accepts one, and    *)
(* how one ends.                                                              *)
EXTENDS Naturals, Sequences, FiniteSets, SequencesExt

CONSTANTS Clients,
          ControlPlanes, Workers,  \* sequences of nodes, in the order of the plan
          InitNode,        \* client -> its init node, or its coordinator
          JoinOnly,        \* client -> the node that `node join` joins, or NoNode
          NoNode,
          Stable,          \* a stable endpoint is declared
          Before,          \* it is awaited before the manifests
          Overwrite,       \* client -> --overwrite-kubeconfig
          Foreign,         \* the output path holds another cluster's kubeconfig
          MaxRepeats, MaxCuts, MaxFails, MaxReinstalls  \* bounds on the environment

(* The values given to the constants satisfy                               *)
(*   /\ InitNode \in [Clients -> Range(ControlPlanes)]                    *)
(*   /\ NoNode \notin Range(ControlPlanes \o Workers)                     *)
(*   /\ MaxRepeats \in Nat /\ MaxCuts \in Nat /\ MaxFails \in Nat /\ MaxReinstalls \in Nat*)

VARIABLES node,      \* node -> what its agent knows
          cl,        \* client -> what the running command knows
          file,      \* the operator's kubeconfig
          stableUp,  \* the stable endpoint answers
          cuts, fails, reinstalls

vars == <<node, cl, file, stableUp, cuts, fails, reinstalls>>

Nodes == Range(ControlPlanes \o Workers)
None == <<"none", 0>>                   \* no cluster
Cluster(n, machine) == <<n, machine>>   \* the cluster that n's kubeadm init made

-----------------------------------------------------------------------------
(* The plan *)

controlPlaneJoinNodes(c) == SelectSeq(ControlPlanes, LAMBDA n : n # InitNode[c])
workerNodes == Workers

(* The nodes a command works through; `node join` starts behind the first. *)
Order(c) ==
  IF JoinOnly[c] = NoNode THEN <<InitNode[c]>> \o controlPlaneJoinNodes(c) \o workerNodes
  ELSE <<InitNode[c], JoinOnly[c]>>
First(c) == IF JoinOnly[c] = NoNode THEN 1 ELSE 2

Target(c) == Order(c)[cl[c].at]
KindOf(c, n) == IF n = InitNode[c] THEN "init" ELSE "join"

(* All clients use the same configuration: a request id is its kind and       *)
(* attempt.                                                                   *)
clientRequestID(kind, attempt) == <<kind, attempt>>

Latest(n, kind) ==
  LET mine == {i \in DOMAIN node[n].ops : node[n].ops[i].id[1] = kind}
  IN {i \in mine : \A j \in mine : node[n].ops[j].id[2] <= node[n].ops[i].id[2]}

Active(n) == \E i \in DOMAIN node[n].ops : node[n].ops[i].state = "running"

-----------------------------------------------------------------------------
Fresh(machine) == [machine |-> machine, gen |-> 0, kube |-> FALSE, ops |-> <<>>, member |-> None, ran |-> 0]

Idle == [pc |-> "idle", at |-> 1, bound |-> <<>>, mat |-> None, id |-> <<"", 0>>, resume |-> 0,
         op |-> 0, stable |-> FALSE, why |-> "", repeats |-> 0]

Init ==
  /\ node = [n \in Nodes |-> Fresh(1)]
  /\ cl = [c \in Clients |-> Idle]
  /\ file = IF Foreign THEN [ep |-> "foreign", cluster |-> None] ELSE [ep |-> "none", cluster |-> None]
  /\ stableUp = FALSE
  /\ cuts = 0 /\ fails = 0 /\ reinstalls = 0

Goto(c, pc) == cl' = [cl EXCEPT ![c].pc = pc]
Fail(c, why) == cl' = [cl EXCEPT ![c].pc = "failed", ![c].why = why]
ClientStep(c, pc) == cl[c].pc = pc /\ UNCHANGED <<stableUp, cuts, fails, reinstalls>>

(* The operator runs the command, for the first time, after a failure, or     *)
(* once more.                                                                 *)
RunAgentBootstrap(c) ==
  /\ cl[c].pc \in {"idle", "failed", "done"}
  /\ cl[c].pc = "done" => cl[c].repeats < MaxRepeats
  /\ cl' = [cl EXCEPT ![c] = [Idle EXCEPT !.pc = "status",
                                           !.repeats = cl[c].repeats + (IF cl[c].pc = "done" THEN 1 ELSE 0)]]
  /\ UNCHANGED <<node, file, stableUp, cuts, fails, reinstalls>>

(* The status of the next node is read, and binds the plan to its machine. *)
checkAgentReadiness(c) ==
  LET known == DOMAIN cl[c].bound
      next == IF \E n \in Nodes : n \notin known THEN CHOOSE n \in Nodes : n \notin known ELSE NoNode
  IN /\ ClientStep(c, "status")
     /\ UNCHANGED <<node, file>>
     /\ IF next # NoNode
        THEN cl' = [cl EXCEPT ![c].bound =
                      [n \in known \cup {next} |->
                         IF n = next THEN [machine |-> node[n].machine, gen |-> node[n].gen, kube |-> node[n].kube]
                         ELSE cl[c].bound[n]]]
        ELSE cl' = [cl EXCEPT ![c].at = First(c), ![c].pc = IF First(c) = 1 THEN "list" ELSE "material"]

verifyPlannedNodeIdentity(c, n) == node[n].machine = cl[c].bound[n].machine

(* The agent of the init node mints join material, for the cluster the node   *)
(* is a member of, when it is idle.                                           *)
createJoinMaterial(c) ==
  LET n == InitNode[c] IN
  /\ ClientStep(c, "material")
  /\ UNCHANGED <<node, file>>
  /\ IF verifyPlannedNodeIdentity(c, n) /\ ~Active(n) /\ node[n].member # None
     THEN cl' = [cl EXCEPT ![c].mat = node[n].member, ![c].pc = "list"]
     ELSE Fail(c, "material")

Adoptable(o) == o.state \in {"running", "succeeded"}

(* The latest operation for this request decides: adopt it, continue it,      *)
(* retry under the next id, or submit under the first one.                    *)
resumeBootstrapOperation(c) ==
  LET n == Target(c)
      kind == KindOf(c, n)
      latest == Latest(n, kind)
  IN /\ ClientStep(c, "list")
     /\ UNCHANGED <<node, file>>
     /\ IF latest = {}
        THEN IF kind = "init" /\ cl[c].bound[n].kube
             THEN Fail(c, "already has Kubernetes state")
             ELSE cl' = [cl EXCEPT ![c].id = clientRequestID(kind, 0), ![c].resume = 0, ![c].pc = "submit"]
        ELSE LET i == CHOOSE j \in latest : TRUE
                 o == node[n].ops[i]
             IN IF Adoptable(o)
                THEN cl' = [cl EXCEPT ![c].op = i, ![c].pc = "wait"]
                ELSE IF kind = "init" /\ ~o.resume /\ cl[c].bound[n].kube
                THEN Fail(c, "already has Kubernetes state")
                ELSE cl' = [cl EXCEPT ![c].id = clientRequestID(kind, o.id[2] + 1), ![c].pc = "submit",
                                      ![c].resume = IF o.resume THEN i ELSE 0]

(* The agent refuses a bootstrap on a node with Kubernetes state, except the  *)
(* continuation of an operation that can be continued.                        *)
AcceptBootstrap(n, resume) ==
  IF resume # 0 THEN node[n].ops[resume].resume ELSE ~node[n].kube

Known(n, id) == {i \in DOMAIN node[n].ops : node[n].ops[i].id = id}

(* A request the agent knows is answered with its operation if it is the same *)
(* request; join material is new each time, so a join never is.               *)
submitOperation(c) ==
  LET n == Target(c)
      kind == KindOf(c, n)
      known == Known(n, cl[c].id)
      op == [id |-> cl[c].id, state |-> "running", resume |-> FALSE, fresh |-> cl[c].resume = 0,
             cluster |-> IF kind = "init" THEN Cluster(n, node[n].machine) ELSE cl[c].mat,
             planned |-> Cluster(InitNode[c], cl[c].bound[InitNode[c]].machine)]
  IN /\ ClientStep(c, "submit")
     /\ UNCHANGED file
     /\ IF node[n].machine = cl[c].bound[n].machine /\ node[n].gen = cl[c].bound[n].gen
        THEN IF known # {}
             THEN /\ UNCHANGED node
                  /\ IF kind = "init"
                     THEN cl' = [cl EXCEPT ![c].op = CHOOSE i \in known : TRUE, ![c].pc = "wait"]
                     ELSE Fail(c, "already used with a different requestDigest")
             ELSE IF ~Active(n) /\ AcceptBootstrap(n, cl[c].resume)
             THEN /\ node' = [node EXCEPT ![n].ops = Append(@, op)]
                  /\ cl' = [cl EXCEPT ![c].op = Len(node[n].ops) + 1, ![c].pc = "wait"]
             ELSE Fail(c, "refused") /\ UNCHANGED node
        ELSE Fail(c, "target changed") /\ UNCHANGED node

(* M: an operation that has ended is one that has succeeded. *)
AnyResult(o) == o.state # "running"

Succeeded(o) == o.state = "succeeded"

(* The watch, or the poll after it, brings the terminal status.  An agent     *)
(* that has no such operation any more answers with an error.                 *)
waitOperationTerminal(c) ==
  LET n == Target(c) IN
  /\ ClientStep(c, "wait")
  /\ UNCHANGED <<node, file>>
  /\ IF node[n].machine # cl[c].bound[n].machine THEN Fail(c, "operation not found")
     ELSE LET o == node[n].ops[cl[c].op] IN
       /\ o.state # "running"
       /\ IF ~Succeeded(o) THEN Fail(c, "operation failed")
          ELSE IF cl[c].at < Len(Order(c))
               THEN cl' = [cl EXCEPT ![c].at = @ + 1, ![c].pc = "material"]
               ELSE Goto(c, IF JoinOnly[c] = NoNode THEN "proxy" ELSE "done")

-----------------------------------------------------------------------------
(* The kubeconfig and the user bootstrap *)

(* Every wait is bounded: what is not there in time is a failure. *)
verifyProxyAccess(c) ==
  /\ ClientStep(c, "proxy")
  /\ IF node[InitNode[c]].member # None THEN Goto(c, "write") ELSE Fail(c, "api proxy")
  /\ UNCHANGED <<node, file>>

SelectEndpoint(ready) == IF Stable /\ ready THEN "stable" ELSE "proxy"

Content(c, ready) ==
  [ep |-> SelectEndpoint(ready), cluster |-> Cluster(InitNode[c], cl[c].bound[InitNode[c]].machine)]

(* A file that is already there is left alone unless it may be overwritten. *)
Writable(content, overwrite) == file.ep = "none" \/ file = content \/ overwrite

writeOperatorKubeconfig(c) ==
  LET content == Content(c, FALSE) IN
  /\ ClientStep(c, "write")
  /\ UNCHANGED node
  /\ IF Writable(content, Overwrite[c])
     THEN file' = content /\ Goto(c, "pre-wait")
     ELSE Fail(c, "kubeconfig exists") /\ UNCHANGED file

(* The wait for the stable endpoint, before or after the manifests. *)
StableEndpointWait(c, before, next) ==
  IF Stable /\ Before = before
  THEN \/ /\ stableUp
          /\ cl' = [cl EXCEPT ![c].stable = TRUE, ![c].pc = next]
       \/ ~stableUp /\ Fail(c, "timed out")
  ELSE Goto(c, next)

PreWaits(c) == ClientStep(c, "pre-wait") /\ StableEndpointWait(c, TRUE, "apply") /\ UNCHANGED <<node, file>>

ApplyManifests(c) == ClientStep(c, "apply") /\ Goto(c, "post-wait") /\ UNCHANGED <<node, file>>

Waits(c) == ClientStep(c, "post-wait") /\ StableEndpointWait(c, FALSE, "refresh") /\ UNCHANGED <<node, file>>

(* The kubeconfig is written again, whatever is there, when the stable        *)
(* endpoint has become ready.                                                 *)
RefreshKubeconfig(c) ==
  /\ ClientStep(c, "refresh")
  /\ file' = IF cl[c].stable THEN Content(c, TRUE) ELSE file
  /\ Goto(c, "done")
  /\ UNCHANGED node

-----------------------------------------------------------------------------
(* The environment *)

(* The command is killed, times out, or one of its calls fails. *)
CutOff(c) ==
  /\ cl[c].pc \notin {"idle", "failed", "done"} /\ cuts < MaxCuts
  /\ cuts' = cuts + 1
  /\ Fail(c, "cut off")
  /\ UNCHANGED <<node, file, stableUp, fails, reinstalls>>

End(n, i, state, resume, kube) ==
  node' = [node EXCEPT ![n].ops[i].state = state, ![n].ops[i].resume = resume, ![n].kube = kube,
                       ![n].gen = IF state = "succeeded" THEN @ + 1 ELSE @,
                       ![n].member = IF state = "succeeded" \/ resume THEN node[n].ops[i].cluster ELSE @,
                       ![n].ran = @ + (IF kube /\ node[n].ops[i].fresh THEN 1 ELSE 0)]

Founder(k) == node[k[1]].machine = k[2] /\ node[k[1]].member = k

(* The agent ends the operation: kubeadm succeeded, which a join can only     *)
(* while its cluster exists; kubeadm succeeded but a later step did not, so   *)
(* that it can be continued; nothing was changed; or kubeadm left a mess.     *)
OperationEnds(n) ==
  \E i \in DOMAIN node[n].ops :
    LET o == node[n].ops[i]
        alive == o.id[1] = "init" \/ Founder(o.cluster)
    IN /\ o.state = "running"
       /\ \/ alive /\ End(n, i, "succeeded", FALSE, TRUE)
          \/ (~alive \/ fails < MaxFails) /\ (alive \/ ~o.fresh) /\ End(n, i, "failed", TRUE, TRUE)
          \/ (~alive \/ fails < MaxFails) /\ o.fresh /\ End(n, i, "failed", FALSE, FALSE)
       /\ fails' = IF alive /\ node'[n].ops[i].state = "failed" THEN fails + 1 ELSE fails
       /\ UNCHANGED <<cl, file, stableUp, cuts, reinstalls>>

KubeadmBreaks(n) ==
  \E i \in DOMAIN node[n].ops :
    /\ node[n].ops[i].state = "running" /\ fails < MaxFails
    /\ End(n, i, "failed", FALSE, TRUE)
    /\ fails' = fails + 1
    /\ UNCHANGED <<cl, file, stableUp, cuts, reinstalls>>

Reinstall(n) ==
  /\ reinstalls < MaxReinstalls
  /\ reinstalls' = reinstalls + 1
  /\ node' = [node EXCEPT ![n] = Fresh(node[n].machine + 1)]
  /\ UNCHANGED <<cl, file, stableUp, cuts, fails>>

StableComesUp ==
  /\ Stable /\ ~stableUp /\ \E n \in Range(ControlPlanes) : node[n].member # None
  /\ stableUp' = TRUE
  /\ UNCHANGED <<node, cl, file, cuts, fails, reinstalls>>

ClientNext(c) ==
  \/ RunAgentBootstrap(c) \/ checkAgentReadiness(c) \/ createJoinMaterial(c)
  \/ resumeBootstrapOperation(c) \/ submitOperation(c) \/ waitOperationTerminal(c)
  \/ verifyProxyAccess(c) \/ writeOperatorKubeconfig(c)
  \/ PreWaits(c) \/ ApplyManifests(c) \/ Waits(c) \/ RefreshKubeconfig(c)

(* Nothing is left to run. *)
Rest == /\ \A c \in Clients : cl[c].pc = "done" /\ cl[c].repeats = MaxRepeats
        /\ UNCHANGED vars

Next ==
  \/ \E c \in Clients : ClientNext(c) \/ CutOff(c)
  \/ \E n \in Nodes : OperationEnds(n) \/ KubeadmBreaks(n) \/ Reinstall(n)
  \/ StableComesUp \/ Rest

Spec == Init /\ [][Next]_vars

-----------------------------------------------------------------------------
(* Properties *)

Pcs == {"idle", "status", "material", "list", "submit", "wait", "proxy", "write", "pre-wait", "apply",
        "post-wait", "refresh", "done", "failed"}

(* Every variable holds a value of its kind, and no two operations of a node  *)
(* share a request id.                                                        *)
TypeOK ==
  /\ \A n \in Nodes :
       /\ node[n].machine \in Nat \ {0} /\ node[n].kube \in BOOLEAN
       /\ \A i, j \in DOMAIN node[n].ops : node[n].ops[i].id = node[n].ops[j].id => i = j
  /\ \A c \in Clients : cl[c].pc \in Pcs /\ cl[c].at \in 1..Len(Order(c))
  /\ file.ep \in {"none", "foreign", "proxy", "stable"}
  /\ stableUp \in BOOLEAN

(* While no node is reinstalled, a join runs only when every node before it   *)
(* in the plan is a member, whoever brought it in: control planes join one at *)
(* a time and workers after all of them, also with two clients at work.       *)
JoinsInOrder ==
  reinstalls = 0 =>
    \A c \in Clients : JoinOnly[c] = NoNode =>
      \A k \in DOMAIN Order(c) : Active(Order(c)[k]) =>
        \A j \in 1..(k - 1) : node[Order(c)[j]].member # None /\ ~Active(Order(c)[j])

(* A node joins the cluster of the machine its client planned with, never one *)
(* that a reinstalled init node has started since.                            *)
JoinsPlannedCluster ==
  \A n \in Nodes : \A i \in DOMAIN node[n].ops : node[n].ops[i].cluster = node[n].ops[i].planned

(* Success means success: while no node is reinstalled, a command that has    *)
(* ended well leaves every node of its plan in the cluster of its init node.  *)
SuccessMeansMembers ==
  reinstalls = 0 =>
    \A c \in Clients : cl[c].pc = "done" =>
      \A n \in Range(Order(c)) : node[n].member = Cluster(InitNode[c], cl[c].bound[InitNode[c]].machine)

(* kubeadm changes an installation once: what a retry runs again is only what *)
(* left nothing behind, or the steps after kubeadm.                           *)
KubeadmOnce == \A n \in Nodes : node[n].ran <= 1

===============================================================================
