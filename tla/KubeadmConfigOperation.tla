----------------------- MODULE KubeadmConfigOperation -----------------------
(***************************************************************************)
(* katlctl cluster apply: a kubeadm configuration is activated on every    *)
(* node, or on those --node names, and then applied component by component *)
(* (static pods, kubelet, kube-proxy), node by node, by                    *)
(* kubeadm-control-plane-config operations.                                *)
(* The shared ConfigMaps are uploaded by one coordinator.  Agents, kubelet *)
(* and client may stop between any two steps, and the user may apply the   *)
(* same or another configuration afterwards.                               *)
(*                                                                         *)
(* A configuration is the set of fields it sets.  A ConfigMap, a manifest, *)
(* a running pod, the kubelet's file and the running kubelet are the       *)
(* configuration they were made from.                                      *)
(***************************************************************************)
EXTENDS Naturals, Sequences, FiniteSets, SequencesExt

CONSTANTS Nodes,         \* the cluster's nodes, as numbers: names sort like them
          ControlPlanes, \* those with static pods
          Coordinators,  \* who may be named with --coordinator
          Clients, Configs, Components,
          Selections,    \* what --node may select; all nodes without it
          CNI,           \* may the network plugin come and go?
          MaxApplies,    \* bound: applies started
          MaxFaults      \* bound: failures and environment events

(* The values given to the constants satisfy                               *)
(*   Nodes \subseteq Nat /\ ControlPlanes \subseteq Nodes                 *)
(*   /\ Coordinators \subseteq ControlPlanes                              *)
(*   /\ Selections \subseteq SUBSET Nodes \ {{}}                          *)
(*   /\ \A c \in Configs : IsFiniteSet(c)                                 *)

VARIABLES want,          \* the configuration each node's generation selects
          live,          \* the ConfigMaps, by component
          h,             \* the nodes
          ops,           \* each node's operation records, oldest first
          ex,            \* each node's executor
          cl,            \* the clients
          cni, applies, faults

env == <<cni, applies, faults>>
vars == <<want, live, h, ops, ex, cl, env>>

Order == SelectSeq(<<"control-plane", "kubelet", "kube-proxy">>, LAMBDA x : x \in Components)

Idle == [pc |-> "idle", rebind |-> FALSE, before |-> {}, backup |-> {}, sched |-> TRUE,
         upload |-> FALSE, restart |-> FALSE, eff |-> {}]
NoApply == [pc |-> "idle", rollout |-> 0, v |-> {}, sel |-> {}, coord |-> 0, comp |-> 0,
            todo |-> <<>>, result |-> ""]

Init ==
  \E v0 \in Configs :
    /\ want = [n \in Nodes |-> v0]
    /\ live = [c \in {"control-plane", "kubelet", "kube-proxy"} |-> v0]
    /\ cni \in IF CNI THEN BOOLEAN ELSE {TRUE}
    /\ h = [n \in Nodes |-> [manifest |-> v0, mirror |-> v0, cordoned |-> FALSE, kfile |-> v0,
                             krun |-> v0, kup |-> TRUE, fresh |-> TRUE,
                             rep |-> IF cni THEN "ready" ELSE "cni"]]
    /\ ops = [n \in Nodes |-> <<>>] /\ ex = [n \in Nodes |-> Idle]
    /\ cl = [c \in Clients |-> NoApply]
    /\ applies = 0 /\ faults = 0

Rec(n) == ops[n][Len(ops[n])]
Active(n) == ex[n].pc # "idle"
Fault == faults < MaxFaults /\ faults' = faults + 1
SetRec(n, r) == ops' = [ops EXCEPT ![n][Len(ops[n])] = r]
Host(n, x) == h' = [h EXCEPT ![n] = x]
Goto(n, pc) == ex' = [ex EXCEPT ![n].pc = pc]

----------------------------------------------------------------------------
(* Operations: what the agent reads from its records                       *)

(* The latest other operation on this component that started to mutate.    *)
lastKubeadmConfigMutation(n, comp) ==
  LET S == {i \in 1..Len(ops[n]) - 1 : ops[n][i].comp = comp /\ ops[n][i].started}
  IN IF S = {} THEN 0 ELSE CHOOSE i \in S : \A j \in S : j <= i
Incomplete(n, comp) ==
  LET i == lastKubeadmConfigMutation(n, comp)
  IN i # 0 /\ ops[n][i].result # "succeeded"

(* The configuration of the latest upload receipt on this node; a failed   *)
(* coordinator hides the older ones.                                       *)
lastSharedKubeletUpload(n) ==
  LET Failed(r) == r.coord /\ r.started /\ r.result # "succeeded"
      Receipt(r) == r.uploaded /\ r.result = "succeeded"
      S == {i \in 1..Len(ops[n]) - 1 : /\ ops[n][i].comp = "kubelet"
                                       /\ Failed(ops[n][i]) \/ Receipt(ops[n][i])}
      r == ops[n][CHOOSE i \in S : \A j \in S : j <= i]
  IN IF S = {} THEN {} ELSE IF Failed(r) THEN {} ELSE {r.want}

(* The live configuration sets every field the desired one sets.           *)
KubeletConfigurationContains(lv, desired) == desired \subseteq lv

(* A kubelet that is down, or started before the node configuration was    *)
(* last refreshed.                                                         *)
kubeletNeedsRestart(n) == ~h[n].kup \/ ~h[n].fresh

RestartKubelet(x) == [x EXCEPT !.kup = TRUE, !.krun = x.kfile, !.fresh = TRUE, !.rep = "none"]

----------------------------------------------------------------------------
(* Outcomes                                                                *)

End(n, result) ==
  /\ SetRec(n, [Rec(n) EXCEPT !.result = result])
  /\ ex' = [ex EXCEPT ![n] = Idle]

(* A failure after the first mutation needs repair.                        *)
failControlPlaneConfig(n, started) ==
  /\ SetRec(n, [Rec(n) EXCEPT !.started = started,
                              !.result = IF started THEN "needs-repair" ELSE "failed"])
  /\ ex' = [ex EXCEPT ![n] = Idle]

Mutating == {"cordon", "manifests", "rebind", "cp-upload", "uncordon",
             "k-upload", "k-write", "k-restart", "p-apply"}

(* Any step may fail, time out, or lose its agent.  A mutating command is  *)
(* marked before it runs; one that took effect and then failed is a break  *)
(* at the step after it.                                                   *)
Break(n) ==
  /\ Active(n) /\ Fault
  /\ \E s \in {Rec(n).started} \cup (IF ex[n].pc \in Mutating THEN {TRUE} ELSE {}) :
       failControlPlaneConfig(n, s)
  /\ UNCHANGED <<want, live, h, cl, cni, applies>>

(* One mutating command that turns the node into x.                        *)
runControlPlaneConfigCommand(n, step, x, next) ==
  /\ ex[n].pc = step
  /\ SetRec(n, [Rec(n) EXCEPT !.started = TRUE])
  /\ Host(n, x) /\ Goto(n, next)
  /\ UNCHANGED <<want, live, cl, env>>

At(n, comp, step) == ex[n].pc = step /\ Rec(n).comp = comp

(* The report of the running invocation suffices, and that invocation      *)
(* started after /etc was last refreshed.                                  *)
verifyKubeletCompletion(n, req) ==
  /\ h[n].kup /\ h[n].fresh
  /\ h[n].rep = "ready" \/ (h[n].rep = "cni" /\ req = "cni")

(* Nothing to do: the component's health decides, except that a control    *)
(* plane whose last mutation failed is refused.                            *)
completeUnchangedKubeadmConfig(n) ==
  /\ ex[n].pc = "unchanged"
  /\ \/ /\ Rec(n).comp = "control-plane" /\ Incomplete(n, "control-plane")
        /\ failControlPlaneConfig(n, FALSE)
     \/ /\ Rec(n).comp = "control-plane" => ~Incomplete(n, "control-plane")
        /\ Rec(n).comp = "kubelet" => verifyKubeletCompletion(n, Rec(n).req)
        /\ End(n, "succeeded")
  /\ UNCHANGED <<want, live, h, cl, env>>

----------------------------------------------------------------------------
(* The control plane's static pods                                         *)

(* What is missing is read off the shared ConfigMap, not off the node.     *)
executeKubeadmControlPlaneConfig(n) ==
  /\ At(n, "control-plane", "start")
  /\ ex' = [ex EXCEPT ![n] =
       IF live["control-plane"] = Rec(n).want THEN [@ EXCEPT !.pc = "unchanged"]
       ELSE [@ EXCEPT !.pc = "cordon", !.rebind = kubeletNeedsRestart(n),
                      !.before = h[n].mirror, !.sched = ~h[n].cordoned]]
  /\ UNCHANGED <<want, live, h, ops, cl, env>>

Cordon(n) == runControlPlaneConfigCommand(n, "cordon", [h[n] EXCEPT !.cordoned = TRUE], "backup")

backupControlPlaneManifests(n) ==
  /\ ex[n].pc = "backup"
  /\ ex' = [ex EXCEPT ![n].pc = "manifests", ![n].backup = h[n].manifest]
  /\ UNCHANGED <<want, live, h, ops, cl, env>>

writeEffectiveControlPlaneConfig(n) ==
  runControlPlaneConfigCommand(n, "manifests", [h[n] EXCEPT !.manifest = Rec(n).want],
                               IF ex[n].rebind THEN "rebind" ELSE "converge")
Rebind(n) == runControlPlaneConfigCommand(n, "rebind", RestartKubelet(h[n]), "converge")

(* Only manifests that differ from this operation's backup are waited for. *)
Converged(n) == ex[n].backup # h[n].manifest => h[n].mirror # ex[n].before
waitControlPlaneManifests(n) ==
  /\ ex[n].pc = "converge" /\ Converged(n)
  /\ Goto(n, IF Rec(n).coord THEN "cp-upload" ELSE "uncordon")
  /\ UNCHANGED <<want, live, h, ops, cl, env>>

UploadControlPlane(n) ==
  /\ ex[n].pc = "cp-upload"
  /\ live' = [live EXCEPT !["control-plane"] = Rec(n).want]
  /\ SetRec(n, [Rec(n) EXCEPT !.uploaded = TRUE]) /\ Goto(n, "uncordon")
  /\ UNCHANGED <<want, h, cl, env>>

(* The node is made schedulable only if it was before.                     *)
Uncordon(n) ==
  /\ ex[n].pc = "uncordon"
  /\ Host(n, [h[n] EXCEPT !.cordoned = @ /\ ~ex[n].sched])
  /\ End(n, "succeeded") /\ UNCHANGED <<want, live, cl, env>>

----------------------------------------------------------------------------
(* The kubelet                                                             *)

uploadNeeded(n) ==
  /\ Rec(n).coord
  /\ \/ Rec(n).want \notin lastSharedKubeletUpload(n)
     \/ ~KubeletConfigurationContains(live["kubelet"], Rec(n).want)

(* What the node must be at the end: a missing network plugin is accepted  *)
(* if that is how the node was before the first mutation.                  *)
requirement(n) ==
  LET repair == Incomplete(n, "kubelet")
  IN CASE h[n].kup /\ h[n].rep = "ready" -> "ready"
       [] h[n].kup /\ h[n].rep = "cni" /\ ~repair -> "cni"
       [] OTHER -> IF repair THEN ops[n][lastKubeadmConfigMutation(n, "kubelet")].req ELSE "ready"
(* A kubelet that has not reported since it started is an error, and ends  *)
(* anything but a repair.                                                  *)
captureKubeletHealth(n) ==
  /\ At(n, "kubelet", "start")
  /\ IF h[n].kup /\ h[n].rep = "none" /\ ~Incomplete(n, "kubelet")
     THEN failControlPlaneConfig(n, FALSE)
     ELSE /\ SetRec(n, [Rec(n) EXCEPT !.req = requirement(n)])
          /\ ex' = [ex EXCEPT ![n].upload = uploadNeeded(n), ![n].restart = kubeletNeedsRestart(n),
                              ![n].pc = IF uploadNeeded(n) THEN "k-upload" ELSE "k-preview"]
  /\ UNCHANGED <<want, live, h, cl, env>>

UploadKubelet(n) ==
  /\ ex[n].pc = "k-upload"
  /\ live' = [live EXCEPT !["kubelet"] = Rec(n).want]
  /\ SetRec(n, [Rec(n) EXCEPT !.started = TRUE, !.uploaded = TRUE]) /\ Goto(n, "k-preview")
  /\ UNCHANGED <<want, h, cl, env>>

(* M: an interrupted predecessor is not repeated.                          *)
RestartIfChanged(n, eff) == ex[n].restart \/ h[n].kfile # eff
restartNeeded(n, eff) == ex[n].restart \/ Incomplete(n, "kubelet") \/ h[n].kfile # eff

(* The file kubeadm would write comes from the shared ConfigMap.           *)
effective(n) == live["kubelet"]
previewKubeletConfig(n) ==
  /\ ex[n].pc = "k-preview"
  /\ LET eff == effective(n) r == restartNeeded(n, eff)
     IN ex' = [ex EXCEPT ![n].eff = eff, ![n].restart = r,
                 ![n].pc = IF ~ex[n].upload /\ ~r THEN "unchanged"
                           ELSE IF h[n].kfile # eff THEN "k-write"
                           ELSE IF r THEN "k-restart" ELSE "k-health"]
  /\ UNCHANGED <<want, live, h, ops, cl, env>>

(* kubeadm downloads the ConfigMap again; a file that is not the previewed *)
(* one ends the operation.                                                 *)
executeKubeletConfig(n) ==
  /\ ex[n].pc = "k-write"
  /\ Host(n, [h[n] EXCEPT !.kfile = effective(n)])
  /\ IF effective(n) = ex[n].eff
     THEN SetRec(n, [Rec(n) EXCEPT !.started = TRUE]) /\ Goto(n, "k-restart")
     ELSE failControlPlaneConfig(n, TRUE)
  /\ UNCHANGED <<want, live, cl, env>>

RestartForConfig(n) == runControlPlaneConfigCommand(n, "k-restart", RestartKubelet(h[n]), "k-health")

(* A report of the running invocation is awaited; one that says Ready      *)
(* withdraws the exception for good.                                       *)
runKubeletConfigHealth(n) ==
  /\ ex[n].pc = "k-health" /\ h[n].kup
  /\ LET req == IF h[n].rep = "ready" THEN "ready" ELSE Rec(n).req
         ok == verifyKubeletCompletion(n, req)
     IN /\ ok \/ req # Rec(n).req
        /\ SetRec(n, [Rec(n) EXCEPT !.req = req, !.result = IF ok THEN "succeeded" ELSE @])
        /\ ex' = [ex EXCEPT ![n] = IF ok THEN Idle ELSE @]
  /\ UNCHANGED <<want, live, h, cl, env>>

----------------------------------------------------------------------------
(* kube-proxy                                                              *)

executeKubeProxyConfig(n) ==
  /\ At(n, "kube-proxy", "start")
  /\ Goto(n, IF KubeletConfigurationContains(live["kube-proxy"], Rec(n).want)
             THEN "unchanged" ELSE "p-apply")
  /\ UNCHANGED <<want, live, h, ops, cl, env>>
ApplyKubeProxy(n) ==
  /\ ex[n].pc = "p-apply"
  /\ live' = [live EXCEPT !["kube-proxy"] = Rec(n).want]
  /\ SetRec(n, [Rec(n) EXCEPT !.started = TRUE]) /\ Goto(n, "p-rollout")
  /\ UNCHANGED <<want, h, cl, env>>
(* The ConfigMap is read back before the rollout is awaited.               *)
RolloutKubeProxy(n) ==
  /\ ex[n].pc = "p-rollout"
  /\ IF KubeletConfigurationContains(live["kube-proxy"], Rec(n).want)
     THEN End(n, "succeeded") ELSE failControlPlaneConfig(n, TRUE)
  /\ UNCHANGED <<want, live, h, cl, env>>

----------------------------------------------------------------------------
(* katlctl cluster apply                                                   *)

Sorted(S) == SetToSortSeq(S, <)

orderControlPlanes(coord) == Sorted(ControlPlanes \ {coord}) \o <<coord>>
orderKubeletNodes(coord) == <<coord>> \o Sorted(Nodes \ {coord})

(* Nodes that are not selected are dropped from the order; what is left    *)
(* may be nothing.                                                         *)
Targets(comp, coord, sel) ==
  SelectSeq(CASE comp = "control-plane" -> orderControlPlanes(coord)
              [] comp = "kubelet" -> orderKubeletNodes(coord)
              [] OTHER -> <<coord>>, LAMBDA n : n \in sel)

(* Without --coordinator it is the last selected control plane by name,    *)
(* and the last of all when none is selected.                              *)
defaultCoordinator(sel) ==
  LET S == IF ControlPlanes \cap sel = {} THEN ControlPlanes ELSE ControlPlanes \cap sel
  IN  Max(S)

SetClient(c, x) == cl' = [cl EXCEPT ![c] = x]
(* The first failure ends the apply; the user runs it again.               *)
Stop(c) == SetClient(c, [NoApply EXCEPT !.result = "failed"])

runClusterApply(c) ==
  /\ cl[c].pc = "idle" /\ applies < MaxApplies /\ applies' = applies + 1
  /\ \E v \in Configs, sel \in Selections :
     \E k \in (Coordinators \cap sel) \cup {defaultCoordinator(sel)} :
       SetClient(c, [pc |-> "config", rollout |-> applies', v |-> v, sel |-> sel, coord |-> k,
                     comp |-> 0, todo |-> Sorted(sel), result |-> ""])
  /\ UNCHANGED <<want, live, h, ops, ex, cni, faults>>

(* Every selected node first gets a generation with the configuration,     *)
(* unless it has one already; a node with an operation under way refuses.  *)
(* A new generation refreshes /etc under the running kubelet.              *)
activateClusterConfig(c) ==
  /\ cl[c].pc = "config" /\ cl[c].todo # <<>>
  /\ LET n == Head(cl[c].todo) IN
     IF Active(n) /\ want[n] # cl[c].v THEN Stop(c) /\ UNCHANGED <<want, h>>
     ELSE /\ want' = [want EXCEPT ![n] = cl[c].v]
          /\ Host(n, [h[n] EXCEPT !.fresh = @ /\ want[n] = cl[c].v])
          /\ SetClient(c, [cl[c] EXCEPT !.todo = Tail(@)])
  /\ UNCHANGED <<live, ops, ex, env>>

(* M: operations under way do not refuse a dry run.                        *)
DryRunIdle(ts, v) == \A i \in DOMAIN ts : want[ts[i]] = v
(* A dry run passes the same checks as a submission.                       *)
DryRun(ts, v) == \A i \in DOMAIN ts : want[ts[i]] = v /\ ~Active(ts[i])

(* The next component: all its targets are inspected and dry-run before    *)
(* the first of them is changed.                                           *)
runKubeadmConfigComponent(c) ==
  /\ cl[c].pc \in {"config", "submit"} /\ cl[c].todo = <<>>
  /\ LET k == cl[c].comp + 1
         ts == Targets(Order[k], cl[c].coord, cl[c].sel)
     IN IF k > Len(Order) THEN SetClient(c, [NoApply EXCEPT !.result = "succeeded"])
        ELSE IF DryRun(ts, cl[c].v)
             THEN SetClient(c, [cl[c] EXCEPT !.pc = "submit", !.comp = k, !.todo = ts])
             ELSE Stop(c)
  /\ UNCHANGED <<want, live, h, ops, ex, env>>

NewOp(c, n) ==
  [comp |-> Order[cl[c].comp], coord |-> n = cl[c].coord, sel |-> cl[c].sel,
   rollout |-> cl[c].rollout, want |-> want[n],
   started |-> FALSE, uploaded |-> FALSE, req |-> "", result |-> ""]
(* The node must still run the generation the client activated, and have   *)
(* no other operation.                                                     *)
SubmitComponent(c) ==
  /\ cl[c].pc = "submit" /\ cl[c].todo # <<>>
  /\ LET n == Head(cl[c].todo) IN
     IF Active(n) \/ want[n] # cl[c].v THEN Stop(c) /\ UNCHANGED <<ops, ex>>
     ELSE /\ ops' = [ops EXCEPT ![n] = Append(@, NewOp(c, n))]
          /\ ex' = [ex EXCEPT ![n] = [Idle EXCEPT !.pc = "start"]]
          /\ SetClient(c, [cl[c] EXCEPT !.pc = "wait"])
  /\ UNCHANGED <<want, live, h, env>>

waitKubeadmControlPlaneConfig(c) ==
  /\ cl[c].pc = "wait"
  /\ LET n == Head(cl[c].todo) IN
     /\ ~Active(n)
     /\ IF Rec(n).result = "succeeded"
        THEN SetClient(c, [cl[c] EXCEPT !.pc = "submit", !.todo = Tail(@)])
        ELSE Stop(c)
  /\ UNCHANGED <<want, live, h, ops, ex, env>>

(* The client is interrupted, or gives up waiting; the operation goes on.  *)
ClientGone(c) ==
  /\ cl[c].pc # "idle" /\ Fault /\ Stop(c)
  /\ UNCHANGED <<want, live, h, ops, ex, cni, applies>>

----------------------------------------------------------------------------
(* The kubelet serves its manifests and reports its node                   *)

(* A kubelet that started before /etc was refreshed watches the old tree.  *)
SyncPods(n) ==
  /\ h[n].kup /\ h[n].fresh /\ n \in ControlPlanes /\ h[n].mirror # h[n].manifest
  /\ Host(n, [h[n] EXCEPT !.mirror = h[n].manifest]) /\ UNCHANGED <<want, live, ops, ex, cl, env>>
Report(n) ==
  LET r == IF cni THEN "ready" ELSE "cni"
  IN /\ h[n].kup /\ h[n].rep # r
     /\ Host(n, [h[n] EXCEPT !.rep = r]) /\ UNCHANGED <<want, live, ops, ex, cl, env>>
(* The kubelet stops, and systemd may start it again.                      *)
KubeletStops(n) ==
  /\ h[n].kup /\ Fault
  /\ Host(n, [h[n] EXCEPT !.kup = FALSE]) \/ Host(n, RestartKubelet(h[n]))
  /\ UNCHANGED <<want, live, ops, ex, cl, cni, applies>>
NetworkPlugin ==
  /\ CNI /\ Fault /\ cni' = ~cni
  /\ UNCHANGED <<want, live, h, ops, ex, cl, applies>>

Execute(n) ==
  \/ executeKubeadmControlPlaneConfig(n) \/ Cordon(n) \/ backupControlPlaneManifests(n)
  \/ writeEffectiveControlPlaneConfig(n) \/ Rebind(n) \/ waitControlPlaneManifests(n)
  \/ UploadControlPlane(n) \/ Uncordon(n)
  \/ captureKubeletHealth(n) \/ UploadKubelet(n) \/ previewKubeletConfig(n)
  \/ executeKubeletConfig(n) \/ RestartForConfig(n) \/ runKubeletConfigHealth(n)
  \/ executeKubeProxyConfig(n) \/ ApplyKubeProxy(n) \/ RolloutKubeProxy(n)
  \/ completeUnchangedKubeadmConfig(n)

Apply(c) ==
  \/ activateClusterConfig(c) \/ runKubeadmConfigComponent(c)
  \/ SubmitComponent(c) \/ waitKubeadmControlPlaneConfig(c)

Next ==
  \/ \E n \in Nodes : Execute(n) \/ Break(n) \/ SyncPods(n) \/ Report(n) \/ KubeletStops(n)
  \/ \E c \in Clients : runClusterApply(c) \/ Apply(c) \/ ClientGone(c)
  \/ NetworkPlugin

Spec == Init /\ [][Next]_vars

----------------------------------------------------------------------------
(* Properties                                                              *)

Results == {"", "succeeded", "failed", "needs-repair"}

(* Types, and: an executor runs exactly while its node's last record has   *)
(* no result, and only marked operations need repair.                      *)
TypeOK ==
  /\ want \in [Nodes -> Configs]
  /\ live \in [{"control-plane", "kubelet", "kube-proxy"} -> Configs]
  /\ \A n \in Nodes :
       /\ {h[n].manifest, h[n].mirror, h[n].kfile, h[n].krun} \subseteq Configs
       /\ \A i \in DOMAIN ops[n] :
            /\ ops[n][i].result \in Results
            /\ ops[n][i].result = "" <=> i = Len(ops[n]) /\ Active(n)
            /\ ops[n][i].result = "needs-repair" => ops[n][i].started

Succeeds(n, comp) ==
  /\ Active(n) /\ ex'[n].pc = "idle" /\ Rec(n).comp = comp
  /\ Rec(n)'.result = "succeeded"

(* kubeadm_control_plane_config.go:557: when a kubelet operation succeeds, *)
(* the running kubelet was started from the file on disk and after the     *)
(* last refresh of /etc, however many earlier attempts were cut off        *)
(* between writing the file and restarting.                                *)
KubeletRunsItsFile ==
  \A n \in Nodes : Succeeds(n, "kubelet") => h[n].krun = h[n].kfile /\ h[n].fresh

(* No later apply has reached the nodes of this node's apply.              *)
Latest(n) == \A m \in Rec(n).sel : ops[m] # <<>> => Rec(m).rollout <= Rec(n).rollout

(* kubeadm_control_plane_config.go:584: with one coordinator, a kubelet    *)
(* operation that succeeds leaves the node's file with the desired fields  *)
(* and no others: a field removed from the source is gone.  Not so where   *)
(* --node left the control planes out, or brought the coordinator another  *)
(* apply meanwhile: the file comes from the shared ConfigMap.              *)
KubeletFileIsDesired ==
  \A n \in Nodes :
    Succeeds(n, "kubelet") /\ ControlPlanes \cap Rec(n).sel # {} /\ Latest(n) =>
      h[n].kfile = want[n]

(* kubelet_config_health.go:63: once an attempt that changed the node was  *)
(* held to Ready, no retry of it succeeds on a node without network.       *)
ExceptionNotReopened ==
  \A n \in Nodes : Succeeds(n, "kubelet") /\ Rec(n)'.req = "cni" =>
     \A i \in 1..Len(ops[n]) - 1 :
       ops[n][i].comp = "kubelet" /\ ops[n][i].started /\ ops[n][i].req = "ready" =>
         \E j \in i..Len(ops[n]) - 1 : ops[n][j].comp = "kubelet" /\ ops[n][j].started
                                       /\ ops[n][j].result = "succeeded"

(* kubeadm_control_plane_config.go:389: the shared ClusterConfiguration is *)
(* uploaded only when every control plane the apply selected has the       *)
(* manifests made from it.  One that --node left out gets them from a      *)
(* later apply, or not at all, and after an interrupted client a later     *)
(* apply may have been at one of them already.                             *)
UploadFollowsManifests ==
  live'["control-plane"] # live["control-plane"] =>
     \A k \in ControlPlanes : ex[k].pc = "cp-upload" /\ ex'[k].pc # "cp-upload" =>
       \A n \in ControlPlanes \cap Rec(k).sel :
         Latest(k) => h[n].manifest = live'["control-plane"]

(* kubeadm_control_plane_config.go:775: a control plane whose last change  *)
(* failed cannot be reported unchanged: a success leaves no manifest of a  *)
(* failed attempt on that node.                                            *)
NoFailedManifestPasses ==
  \A n \in Nodes : Succeeds(n, "control-plane") /\ Incomplete(n, "control-plane") =>
     h[n].manifest = want[n]

(* control_plane_convergence.go:151: while no attempt has failed, a        *)
(* control-plane success means the static pods run the node's manifest.    *)
FirstSuccessRunsManifest ==
  \A n \in Nodes : Succeeds(n, "control-plane") /\ faults = 0 =>
     h[n].mirror = h[n].manifest

(* ADR-010:248: only one node at a time is in a mutating phase, even when  *)
(* the client is interrupted and the apply is run again, unless --node     *)
(* left one of the two out of the other's apply.                           *)
OneMutatingNode ==
  \A m, n \in Nodes :
    /\ Active(m) /\ Active(n) /\ Rec(m).started /\ Rec(n).started
    /\ m \in Rec(n).sel /\ n \in Rec(m).sel
    => m = n

=============================================================================
