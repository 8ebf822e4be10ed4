------------------------- MODULE BootstrapInventory -------------------------
(* What the bootstrap client computes before it contacts a node              *)
(* (internal/bootstrap/inventory, and the planning half of                   *)
(* internal/bootstrap/cluster): the plan of an inventory, the readiness       *)
(* report, the merged user bootstrap, and the kubeconfig endpoint.            *)
(*                                                                            *)
(* An empty string is a value that was not given; "bad" is one that no        *)
(* pattern of the code accepts.                                               *)
EXTENDS Naturals, Sequences, FiniteSets, SequencesExt

CONSTANTS Inventories,   \* the inventories to plan
          InitChoices,   \* values of --init-node
          Overrides,     \* address overrides: sets of <<node, address>>
          Facts          \* what a node reports in the readiness check

VARIABLES inv,     \* the inventory
          init,    \* the requested init node
          over,    \* the address overrides
          plan,    \* the plan, or Refused
          facts,   \* node -> reported facts
          report   \* the readiness report

vars == <<inv, init, over, plan, facts, report>>

Refused == [ok |-> FALSE]

-----------------------------------------------------------------------------
(* Validators: each is the condition under which the code returns no error *)

validateName(name) == name \notin {"", "bad"}
validateEndpoint(endpoint) == endpoint \notin {"bad", "https"}
validateKubeadmConfigPath(p) == p # "bad"

normalizeAccess(a) ==
  /\ a.method \in {"ssh", "vsock", "agent"}
  /\ a.method # "agent" => a.credential \notin {"", "inline-secret"}

Intent(role, c) == IF c.intent = "" THEN role ELSE c.intent

normalizeKubeadmConfig(role, c) ==
  /\ c.ref # "" \/ c.path # ""
  /\ c.ref # "" => validateName(c.ref)
  /\ c.path # "" => validateKubeadmConfigPath(c.path)
  /\ Intent(role, c) = role

(* The version a node gets while the inventory's is `inventoryVersion`, or "". *)
NodeVersion(version, inventoryVersion) ==
  CASE version = "" -> inventoryVersion
    [] inventoryVersion = "" \/ version = inventoryVersion -> version
    [] OTHER -> ""

normalizeNode(node, version) ==
  /\ validateName(node.name)
  /\ node.address # ""
  /\ node.role \in {"control-plane", "worker"}
  /\ normalizeAccess(node.access)
  /\ normalizeKubeadmConfig(node.role, node.config)
  /\ NodeVersion(node.version, version) # ""

(* A ref with a slash is an image and needs a digest; the others name a       *)
(* payload version, by tag or before the digest.                              *)
payloadVersionFromBundleRef(r) ==
  IF r.digest = "bad" \/ r.version = "" \/ (r.digest = "" /\ ~r.tag) THEN "" ELSE r.version

validateKubernetesBundleSelection(b, version) ==
  /\ b.source = "https"
  /\ IF b.ref.image THEN b.ref.digest = "ok"
     ELSE payloadVersionFromBundleRef(b.ref) = version

Names(nodes) == {n.name : n \in Range(nodes)}
ControlPlanes(nodes) == {n \in Range(nodes) : n.role = "control-plane"}

selectInitNode(requested, nodes) ==
  LET cps == {n.name : n \in ControlPlanes(nodes)}
  IN IF requested # "" THEN {requested} \cap cps
     ELSE IF Cardinality(cps) = 1 THEN cps ELSE {}

Action(node, initNode) ==
  IF node.role = "worker" THEN "kubeadm-worker-join"
  ELSE IF node.name = initNode THEN "kubeadm-init" ELSE "kubeadm-control-plane-join"

(* The address an override gives a node, else its own. *)
Address(node, overrides) ==
  IF \E o \in overrides : o[1] = node.name
  THEN (CHOOSE o \in overrides : o[1] = node.name)[2]
  ELSE node.address

(* The version of the plan: the inventory's, else the first node's. *)
PlanVersion(i) == IF i.version # "" THEN i.version ELSE i.nodes[1].version

PlanInventory(i, requested, overrides) ==
  LET nodes == [k \in DOMAIN i.nodes |-> [i.nodes[k] EXCEPT !.address = Address(i.nodes[k], overrides)]]
      chosen == IF i.external THEN {""} ELSE selectInitNode(requested, nodes)
      version == PlanVersion(i)
  IN IF /\ nodes # <<>>
        /\ \A o \in overrides : o[2] # "" /\ o[1] \in Names(nodes)
        /\ \A k \in DOMAIN nodes : normalizeNode(nodes[k], IF k = 1 THEN i.version ELSE version)
        /\ Cardinality(Names(nodes)) = Len(nodes)
        /\ i.external => (ControlPlanes(nodes) = {} /\ ~i.managed /\ requested = "")
        /\ ~i.external => ControlPlanes(nodes) # {}
        /\ chosen # {}
        /\ (Len(nodes) > 1 \/ i.external) => i.endpoint # ""
        /\ i.endpoint # "" => validateEndpoint(i.endpoint)
        /\ (i.bundle.source = "") = (i.bundle.ref.version = "" /\ ~i.bundle.ref.image)
        /\ i.bundle.source # "" => validateKubernetesBundleSelection(i.bundle, version)
     THEN LET initNode == CHOOSE c \in chosen : TRUE IN
          [ok |-> TRUE, init |-> initNode, version |-> version, endpoint |-> i.endpoint,
           nodes |-> [k \in DOMAIN nodes |->
             [name |-> nodes[k].name, address |-> nodes[k].address, role |-> nodes[k].role,
              action |-> Action(nodes[k], initNode), method |-> nodes[k].access.method,
              version |-> NodeVersion(nodes[k].version, version)]]]
     ELSE Refused

(* M: an inventory whose planning is refused is kept all the same. *)
AnyInventory(i) == Len(i.nodes) > 0

(* The durable inventory is checked with its first control plane as init node. *)
ValidateInventory(i) ==
  LET cps == SelectSeq(i.nodes, LAMBDA n : n.role = "control-plane")
  IN PlanInventory(i, IF cps = <<>> THEN "" ELSE cps[1].name, {}).ok

-----------------------------------------------------------------------------
(* Readiness.  What a node is like: `reached`, the probes that succeed        *)
(* (`up`), the version kubeadm prints, the kubeadm documents on disk, and the *)
(* metadata record, all of which may disagree with the plan.                  *)

Checks == {"target", "config", "containerd", "cri", "kubelet-binary", "kubelet-service", "writable", "metadata"}

(* The first document of a known kind decides. *)
detectKubeadmIntent(docs) ==
  LET known == SelectSeq(docs, LAMBDA d : d # "other")
  IN IF known = <<>> THEN "" ELSE IF known[1] = "join-worker" THEN "worker" ELSE "control-plane"

validKubernetesActivationPath(p) == p = "/run/extensions/kubernetes.raw"

(* /etc/kubernetes is the state directory itself, or its subdirectory of /var. *)
projectedKubernetesSourceMatches(source) == source \in {"state", "device[state]"}

(* The metadata fields that contradict the plan. *)
nodeMetadata(node, w) ==
  IF "metadata" \notin w.up THEN {"node-metadata"}
  ELSE IF /\ w.meta.role # "" /\ w.meta.version = node.version
          /\ validKubernetesActivationPath(w.meta.path) /\ w.meta.intent = node.role
       THEN {} ELSE {"node-metadata"}

(* What the checker reports of a node: the snapshot and its own diagnostics. *)
check(node, w) ==
  LET active == "metadata" \in w.up /\ validKubernetesActivationPath(w.meta.path) IN
  [role |-> IF "metadata" \in w.up THEN w.meta.role ELSE "",
   sysext |-> active /\ w.sysext,
   version |-> w.version,
   intent |-> IF "config" \in w.up THEN detectKubeadmIntent(w.docs) ELSE "",
   passed |-> w.up, projected |-> projectedKubernetesSourceMatches(w.source),
   diagnostics |-> nodeMetadata(node, w)
     \cup (IF w.version = "" THEN {"kubernetes-sysext"} ELSE {})
     \cup (IF "config" \in w.up /\ detectKubeadmIntent(w.docs) = "" THEN {"kubeadm-config"} ELSE {})]

(* The fields in which a snapshot falls short of the plan. *)
readinessDiagnostics(node, f) ==
  ((Checks \ {"metadata"}) \ f.passed)
  \cup (IF f.sysext THEN {} ELSE {"kubernetes-sysext"})
  \cup (IF f.projected THEN {} ELSE {"etc-kubernetes"})
  \cup (IF f.version \notin {"", node.version} THEN {"kubernetesVersion"} ELSE {})
  \cup (IF f.role \notin {"", node.role} THEN {"systemRole"} ELSE {})
  \cup (IF f.intent \notin {"", node.role} THEN {"kubeadm-config"} ELSE {})

NodeDiagnostics(node, w) ==
  IF w.reached THEN readinessDiagnostics(node, check(node, w)) \cup check(node, w).diagnostics
  ELSE {"access"}

VerifyReadiness(p, ws) ==
  [k \in DOMAIN p.nodes |-> NodeDiagnostics(p.nodes[k], ws[p.nodes[k].name])]

Error(r) == \E k \in DOMAIN r : r[k] # {}

-----------------------------------------------------------------------------
(* The steps of the client *)

Start == [k \in {} |-> {}]

Init ==
  /\ inv \in Inventories /\ init \in InitChoices /\ over \in Overrides
  /\ plan = [ok |-> FALSE, pending |-> TRUE]
  /\ facts = Start /\ report = Start

MakePlan ==
  /\ "pending" \in DOMAIN plan
  /\ plan' = PlanInventory(inv, init, over)
  /\ UNCHANGED <<inv, init, over, facts, report>>

CheckReadiness ==
  /\ plan.ok /\ report = Start
  /\ facts' \in [Names(inv.nodes) -> Facts]
  /\ report' = VerifyReadiness(plan, facts')
  /\ UNCHANGED <<inv, init, over, plan>>

Done == ("pending" \notin DOMAIN plan) /\ (~plan.ok \/ report # Start) /\ UNCHANGED vars

Next == MakePlan \/ CheckReadiness \/ Done

Spec == Init /\ [][Next]_vars

-----------------------------------------------------------------------------
(* Properties *)

(* Every variable holds a value of its kind: a plan has one planned node per  *)
(* node of the inventory, each with an action and an address, and a report    *)
(* one entry for each.                                                        *)
TypeOK ==
  /\ plan.ok \in BOOLEAN
  /\ plan.ok =>
       /\ Len(plan.nodes) = Len(inv.nodes)
       /\ \A k \in DOMAIN plan.nodes :
            /\ plan.nodes[k].action \in {"kubeadm-init", "kubeadm-control-plane-join", "kubeadm-worker-join"}
            /\ plan.nodes[k].address # ""
  /\ report # Start => DOMAIN report = DOMAIN plan.nodes

(* An accepted plan makes one cluster: one node initialises it, a control     *)
(* plane, unless the control plane is somebody else's; the others join in     *)
(* their roles, all with one version.                                         *)
OneCluster ==
  plan.ok =>
    /\ Cardinality({k \in DOMAIN plan.nodes : plan.nodes[k].action = "kubeadm-init"}) = (IF inv.external THEN 0 ELSE 1)
    /\ \A k \in DOMAIN plan.nodes :
         /\ (plan.nodes[k].action = "kubeadm-worker-join") = (plan.nodes[k].role = "worker")
         /\ plan.nodes[k].version = plan.version
    /\ \A k, l \in DOMAIN plan.nodes : plan.nodes[k].name = plan.nodes[l].name => k = l

(* A durable inventory that was accepted can be planned with any of its       *)
(* control planes as the init node: the choice is the operator's alone.       *)
AnyControlPlaneInits ==
  ValidateInventory(inv) =>
    \A n \in ControlPlanes(inv.nodes) : PlanInventory(inv, n.name, {}).ok

(* A report without a diagnostic means every planned node was reached, runs   *)
(* what kubeadm needs, and agrees with the plan in the version of its         *)
(* payload, its role and its kubeadm documents, whichever source says so.     *)
ReadyMeansReady ==
  (report # Start /\ ~Error(report)) =>
    \A k \in DOMAIN plan.nodes :
      LET w == facts[plan.nodes[k].name] IN
      /\ w.reached /\ w.up = Checks /\ w.sysext
      /\ w.version = plan.version /\ w.meta.version = plan.version
      /\ w.meta.role = plan.nodes[k].role
      /\ detectKubeadmIntent(w.docs) = plan.nodes[k].role

=============================================================================
