----------------------------- MODULE ConfigPlan -----------------------------
(***************************************************************************)
(* How a node judges a configuration change: the overlays of a request are *)
(* applied to the current configuration one after the other, each changed  *)
(* field belongs to configuration domains, and the policies of the domains *)
(* decide whether the change is applied live, at the next boot, or not.    *)
(* A configuration gives each field a small number; an overlay is a        *)
(* configuration of some of the fields.                                    *)
(***************************************************************************)
EXTENDS Integers, FiniteSets, TLC

Fields == {"hostname", "keys", "role", "retention", "kernel", "host", "ext",
           "volumes", "kubeadm", "address", "endpoint"}
(* Only overlays have the API proxy ("proxy"), a changed kubeadm input     *)
(* ("kubeadmInput"), files outside the domains ("unsafeFiles"), who owns   *)
(* the control plane ("external") and the endpoint of an external worker   *)
(* ("externalEndpoint").                                                   *)

Policy(class, nextBoot, preflight) ==
  [class |-> class, nextBoot |-> nextBoot, preflight |-> preflight]
domainPolicies ==
  LET online == Policy("online", TRUE, FALSE)
      staged == Policy("staged", TRUE, FALSE)
      operation == Policy("operation", FALSE, FALSE)
  IN [GenerationRetention |-> online, APIProxy |-> online,
      BootstrapNodeMetadata |-> online, KubeadmConfig |-> online,
      SelectedKubeadmConfig |-> online, ControlPlaneEndpointVIP |-> online,
      HostConfiguration |-> Policy("online", TRUE, TRUE),
      Volumes |-> Policy("online", FALSE, FALSE),
      SystemExtensions |-> staged, KernelCommandLine |-> staged,
      NodeIdentity |-> staged, SSHOperatorAccess |-> staged,
      ControlPlaneEndpointBootstrap |-> staged,
      SystemRole |-> operation, KubeletNodeIdentity |-> operation,
      SelectedKubernetesSysext |-> operation,
      ControlPlaneEndpointIdentity |-> operation,
      ArbitraryEtc |-> Policy("rejected", FALSE, FALSE)]
DomainClassification(d) ==
  IF d \in DOMAIN domainPolicies THEN domainPolicies[d].class ELSE "rejected"

----------------------------------------------------------------------------
(* Merging                                                                 *)

(* Endpoints: 0 none, 1 and 2 share host, port and address, 3 does not.    *)
EndpointIdentity(e) == IF e \in {1, 2} THEN 1 ELSE e
classifyControlPlaneEndpointChange(b, a, initialized) ==
  IF b = 0 \/ a = 0 \/ EndpointIdentity(b) # EndpointIdentity(a)
  THEN IF initialized THEN {"ControlPlaneEndpointIdentity"}
       ELSE {"ControlPlaneEndpointBootstrap"}
  ELSE {"ControlPlaneEndpointVIP"}
(* An extension is a payload and its configuration.                        *)
extensionPayloadsEqual(b, a) == b \div 2 = a \div 2

DomainsOf(f, b, a, initialized) ==
  CASE f = "hostname" -> {"NodeIdentity", "BootstrapNodeMetadata"}
    [] f = "keys" -> {"SSHOperatorAccess"}
    [] f = "role" -> {"SystemRole", "BootstrapNodeMetadata"}
    [] f = "retention" -> {"GenerationRetention"}
    [] f = "kernel" -> {"KernelCommandLine"}
    [] f = "host" -> {"HostConfiguration"}
    [] f = "ext" -> IF extensionPayloadsEqual(b, a) THEN {"HostConfiguration"}
                    ELSE {"SystemExtensions"}
    [] f = "volumes" -> {"Volumes"}
    [] f = "kubeadm" -> {"SelectedKubeadmConfig", "BootstrapNodeMetadata"}
    [] f = "address" -> {"KubeletNodeIdentity"}
    [] f = "endpoint" -> classifyControlPlaneEndpointChange(b, a, initialized)

(* One overlay on m: the new configuration, and the domains it adds.       *)
applyOverlay(r, ov, initialized) ==
  [m |-> [f \in Fields |-> IF f \in DOMAIN ov THEN ov[f] ELSE r.m[f]],
   domains |-> r.domains \cup
     (IF "kubeadmInput" \in DOMAIN ov THEN {"KubeadmConfig"} ELSE {}) \cup
     (IF "unsafeFiles" \in DOMAIN ov THEN {"ArbitraryEtc"} ELSE {}) \cup
     UNION {DomainsOf(f, r.m[f], ov[f], initialized) :
              f \in {g \in Fields \cap DOMAIN ov : ov[g] # r.m[g]}}]

LastGiven(overlays, f) ==
  LET given == {i \in DOMAIN overlays : f \in DOMAIN overlays[i]}
  IN IF given = {} THEN {} ELSE {overlays[CHOOSE i \in given : \A j \in given : j <= i][f]}
lastAPIProxy(overlays) == LastGiven(overlays, "proxy")
apiProxyFiles(now, desired) == desired # {} /\ desired # {now}
(* Rendered endpoint files are compared with the current confext's.        *)
endpointRenderingDrifted(q, m) == m.endpoint # 0 /\ q.drifted

(* The request q: current configuration, overlays, whether Kubernetes is   *)
(* initialized, the proxy in place, whether rendered endpoint files differ, *)
(* whether volumes are bound anew, and whether the worker is external.     *)
MergedConfig(q, m, domains, overlays) ==
  LET refused == \/ \E i \in 1..3 : "externalEndpoint" \in DOMAIN overlays[i]
                                    /\ overlays[i].externalEndpoint # q.externalEndpoint
                 \/ LastGiven(overlays, "external") \cap {~q.external} # {}
                 \/ q.external /\ domains \cap {"KubeletNodeIdentity", "BootstrapNodeMetadata"} # {}
  IN [m |-> m, domains |-> domains,
      err |-> IF refused THEN "refused" ELSE IF domains = {} THEN "no-changes" ELSE ""]
(* What no field's change shows: volumes bound anew, endpoint files that    *)
(* differ from the rendered ones, the proxy.                               *)
WithVolumes(q, domains) == IF domains = {} /\ q.rebound THEN {"Volumes"} ELSE domains
WithEndpoint(q, m, domains) ==
  IF domains = {} /\ endpointRenderingDrifted(q, m) THEN {"ControlPlaneEndpointVIP"} ELSE domains
WithProxy(q, overlays) ==
  IF apiProxyFiles(q.proxy, lastAPIProxy(overlays)) THEN {"APIProxy"} ELSE {}
NodeLayer(q, r, overlays) ==
  MergedConfig(q, r.m, WithEndpoint(q, r.m, WithVolumes(q, r.domains)) \cup WithProxy(q, overlays),
               overlays)
RoleLayer(q, r, role) ==
  NodeLayer(q, applyOverlay(applyOverlay(r, role, q.initialized), q.node, q.initialized),
            <<q.cluster, role, q.node>>)
ClusterLayer(q, r) ==
  RoleLayer(q, r, IF r.m.role \in DOMAIN q.roles THEN q.roles[r.m.role] ELSE <<>>)
mergeRuntimeConfig(q) ==
  ClusterLayer(q, applyOverlay([m |-> q.current, domains |-> {}], q.cluster, q.initialized))

----------------------------------------------------------------------------
(* The matrix                                                              *)

normalizeRequestedMode(mode) == IF mode = "" THEN "auto" ELSE mode
(* M: a domain that has no live action is applied live.                    *)
StagedIsLive(mode, d, preflightOK) ==
  IF DomainClassification(d) = "staged" THEN "accepted"
  ELSE IF DomainClassification(d) = "online" THEN "accepted" ELSE "rejected"
diagnosticForChange(mode, d, preflightOK) ==
  LET p == domainPolicies[d]
  IN CASE mode = "next-boot" ->
            IF p.nextBoot THEN IF p.class = "operation" THEN "action-required" ELSE "accepted"
            ELSE "rejected"
       [] mode # "next-boot" /\ p.class = "online" ->
            IF ~p.preflight \/ preflightOK THEN "accepted" ELSE "staged-required"
       [] mode # "next-boot" /\ p.class = "staged" -> "staged-required"
       [] mode # "next-boot" /\ p.class = "operation" ->
            IF mode = "auto" /\ p.nextBoot THEN "action-required" ELSE "rejected"
       [] OTHER -> "rejected"

(* The accepted mode, or "rejected".                                       *)
Plan(requested, domains, preflightOK) ==
  LET mode == normalizeRequestedMode(requested)
      verdicts == {diagnosticForChange(mode, d, preflightOK) : d \in domains}
  IN IF \/ domains = {} \/ "rejected" \in verdicts
        \/ mode # "auto" /\ "staged-required" \in verdicts
     THEN "rejected"
     ELSE IF mode = "next-boot" \/ verdicts \cap {"staged-required", "action-required"} # {}
     THEN "next-boot" ELSE "live"

(* A change of host configuration is live unless a file needs the next     *)
(* boot (value 2); it is planned from the first to the last configuration. *)
HostLive(b, a) == b.host = a.host \/ (b.host # 2 /\ a.host # 2)

(* Volumes that a change stops or prepares keep it from being staged.      *)
changedVolumes(b, a) == b.volumes # a.volumes
validateApplyMode(mode, b, a) == mode = "live" \/ ~changedVolumes(b, a)

Decided(q, r, mode) ==
  [m |-> r.m, domains |-> r.domains,
   mode |-> IF r.err # "" THEN r.err
            ELSE IF ~validateApplyMode(mode, q.current, r.m) THEN "rejected"
            ELSE mode]
Judged(q, requested, r) ==
  Decided(q, r, Plan(requested, r.domains, HostLive(q.current, r.m)))
PlanTrustedBundle(q, requested) == Judged(q, requested, mergeRuntimeConfig(q))
=============================================================================
