----------------------------- MODULE MCCluster ------------------------------
(* Instances of the components around a cluster: the inventory a bootstrap  *)
(* is planned from, the clients that carry it out, the API address and the  *)
(* API proxy of a node.                                                     *)
EXTENDS ApiVip, Sequences, FiniteSets, TLC

CONSTANTS c1, c2, n1, n2, w1, NoNode

(* Inventories that differ from good ones in one or two fields.             *)
AllChecks == {"target", "config", "containerd", "cri", "kubelet-binary", "kubelet-service",
              "writable", "metadata"}

Member(name, role) ==
  [name |-> name, address |-> "a", role |-> role, version |-> "",
   access |-> [method |-> "agent", credential |-> ""],
   config |-> [ref |-> "r", path |-> "", intent |-> ""]]

MemberVariants(n) ==
  {n, [n EXCEPT !.address = ""], [n EXCEPT !.version = "v1"], [n EXCEPT !.version = "v2"],
   [n EXCEPT !.role = "bad"], [n EXCEPT !.access.method = ""], [n EXCEPT !.access.method = "ssh"],
   [n EXCEPT !.access = [method |-> "ssh", credential |-> "inline-secret"]],
   [n EXCEPT !.access = [method |-> "vsock", credential |-> "key"]],
   [n EXCEPT !.config.intent = "worker"], [n EXCEPT !.config.ref = ""], [n EXCEPT !.config.ref = "bad"],
   [n EXCEPT !.config.path = "bad"]}

Pairs == {<<a, b>> : a \in MemberVariants(Member("n1", "control-plane")),
                     b \in MemberVariants(Member("n2", "control-plane")) \cup MemberVariants(Member("n2", "worker"))
                           \cup {Member("n1", "worker"), Member("bad", "worker")}}
Lists == Pairs \cup {<<>>, <<Member("n1", "control-plane")>>, <<Member("n1", "worker")>>,
                     <<Member("n2", "worker"), Member("n1", "control-plane")>>}

NoBundle == [source |-> "", ref |-> [image |-> FALSE, tag |-> FALSE, version |-> "", digest |-> ""]]
Bundles == {NoBundle,
            [source |-> "https", ref |-> [image |-> TRUE, tag |-> FALSE, version |-> "", digest |-> "ok"]],
            [source |-> "https", ref |-> [image |-> TRUE, tag |-> FALSE, version |-> "", digest |-> ""]],
            [source |-> "https", ref |-> [image |-> FALSE, tag |-> FALSE, version |-> "v1", digest |-> "ok"]],
            [source |-> "https", ref |-> [image |-> FALSE, tag |-> TRUE, version |-> "v2", digest |-> ""]],
            [source |-> "http", ref |-> [image |-> FALSE, tag |-> FALSE, version |-> "v1", digest |-> "ok"]],
            [source |-> "https", ref |-> [image |-> FALSE, tag |-> FALSE, version |-> "", digest |-> ""]]}

Inv(nodes, ver, e, bundle, external, managed) ==
  [nodes |-> nodes, version |-> ver, endpoint |-> e, bundle |-> bundle, external |-> external, managed |-> managed]

SomeInventories ==
  {Inv(l, v, "e", NoBundle, FALSE, FALSE) : l \in Lists, v \in {"", "v1"}}
  \cup {Inv(<<Member("n1", r), Member("n2", "worker")>>, "v1", e, b, x, m) :
          r \in {"control-plane", "worker"}, e \in {"", "e", "https"}, b \in Bundles, x \in BOOLEAN, m \in BOOLEAN}

NodeFacts(v, r, docs) ==
  [reached |-> TRUE, up |-> AllChecks, sysext |-> TRUE, version |-> v, docs |-> docs, source |-> "device[state]",
   meta |-> [role |-> r, version |-> "v1", path |-> "/run/extensions/kubernetes.raw", intent |-> r]]
ReadyNode(r) == NodeFacts("v1", r, IF r = "worker" THEN <<"other", "join-worker">> ELSE <<"init">>)
AllFacts ==
  {ReadyNode("control-plane"), ReadyNode("worker"), NodeFacts("v2", "worker", <<"join-worker">>), NodeFacts("", "worker", <<"join-worker">>),
   [ReadyNode("worker") EXCEPT !.reached = FALSE], [ReadyNode("worker") EXCEPT !.up = AllChecks \ {"cri"}],
   [ReadyNode("worker") EXCEPT !.up = AllChecks \ {"metadata"}], [ReadyNode("worker") EXCEPT !.docs = <<"other">>],
   [ReadyNode("worker") EXCEPT !.docs = <<"join-control-plane">>], [ReadyNode("worker") EXCEPT !.meta.version = "v2"],
   [ReadyNode("worker") EXCEPT !.meta.path = "/tmp"], [ReadyNode("worker") EXCEPT !.source = "tmpfs"],
   [ReadyNode("worker") EXCEPT !.sysext = FALSE], [ReadyNode("worker") EXCEPT !.meta.role = ""]}
SomeOverrides == {{}, {<<"n1", "b">>}, {<<"n1", "">>}, {<<"n3", "b">>}}

(* Configurations of the address, good and bad in one field.                *)
VipBase ==
  [endpoint |-> [host |-> "api", bits |-> 32, usable |-> TRUE, port |-> 6443, provenance |-> "", family |-> ""],
   interface |-> [kind |-> "", mtu |-> 0], roles |-> {}, enabled |-> TRUE,
   startReleased |-> TRUE, acquireAfterHealthy |-> TRUE, releaseOnFailure |-> TRUE,
   health |-> [host |-> "", port |-> 0, success |-> 0, failure |-> 0]]

VipGood ==
  {VipBase, [VipBase EXCEPT !.enabled = FALSE], [VipBase EXCEPT !.health.success = 1, !.health.failure = 1],
   [VipBase EXCEPT !.endpoint.bits = 128, !.health.host = "::1", !.health.success = 3]}
VipBad ==
  {[VipBase EXCEPT !.endpoint.host = ""], [VipBase EXCEPT !.endpoint.bits = 24], [VipBase EXCEPT !.endpoint.family = "ipv6"],
   [VipBase EXCEPT !.interface.kind = "bridge"], [VipBase EXCEPT !.interface.mtu = 40], [VipBase EXCEPT !.roles = {"worker"}],
   [VipBase EXCEPT !.startReleased = FALSE], [VipBase EXCEPT !.releaseOnFailure = FALSE],
   [VipBase EXCEPT !.health.host = "10.0.0.1"], [VipBase EXCEPT !.health.port = 80], [VipBase EXCEPT !.endpoint.port = 70000]}
VipAll == VipGood \cup VipBad

(* Configurations of the proxy.                                             *)
NodeLocal == [host |-> "127.0.0.1", port |-> 7445, exposure |-> "node-local"]
Peer(n, h) == [name |-> n, host |-> h, port |-> 6443, local |-> FALSE]
Local(n, h) == [name |-> n, host |-> h, port |-> 6443, local |-> TRUE]

TwoPeers ==
  [tls |-> "api", canonicalPort |-> 0, interval |-> 0, timeout |-> 0,
   listeners |-> <<NodeLocal>>, backends |-> <<Peer(2, "10.0.0.2"), Peer(1, "10.0.0.1")>>]
ProxyBad ==
  {[TwoPeers EXCEPT !.tls = ""], [TwoPeers EXCEPT !.interval = 100], [TwoPeers EXCEPT !.timeout = 61000],
   [TwoPeers EXCEPT !.canonicalPort = 443], [TwoPeers EXCEPT !.listeners = <<>>], [TwoPeers EXCEPT !.listeners = <<NodeLocal, NodeLocal>>],
   [TwoPeers EXCEPT !.listeners[1].exposure = "workstation"], [TwoPeers EXCEPT !.listeners[1].host = "127.0.0.2"],
   [TwoPeers EXCEPT !.backends = <<>>], [TwoPeers EXCEPT !.backends[2].name = 2], [TwoPeers EXCEPT !.backends[2].host = "10.0.0.2"],
   [TwoPeers EXCEPT !.backends[1].port = 443], [TwoPeers EXCEPT !.backends[1].host = "0.0.0.0"],
   [TwoPeers EXCEPT !.backends = <<Local(1, "10.0.0.1"), Local(2, "10.0.0.2")>>]}

OnePeer == [TwoPeers EXCEPT !.backends = <<Peer(1, "10.0.0.1")>>]

(* Two operators run the command for one control plane of two nodes.        *)
Operators == {c1, c2}
SameInit == [c \in Operators |-> n1]
BootstrapOnly == [c \in Operators |-> NoNode]
WithNodeJoin == [c \in Operators |-> IF c = c1 THEN NoNode ELSE w1]
SecondOverwrites == [c \in Operators |-> c = c2]

-----------------------------------------------------------------------------
(* The other components have variables of their own.  Only one component runs *)
(* in a behaviour: part says which.  The others stay as they are, or have no  *)
(* value at all.                                                              *)
VARIABLES
  part, inv, init, over, plan, facts, report, node, cl, file, stableUp,
  cuts, fails, reinstalls, cfg, proxyFaults, main, canceled, pool,
  canonical, at, conn, holder, draft, up, flaps, answer, ticks

Inventory == INSTANCE BootstrapInventory WITH
  Inventories <- SomeInventories, InitChoices <- {"", "n1", "n2", "n3"},
  Overrides <- SomeOverrides, Facts <- AllFacts
Bootstrap == INSTANCE ClusterBootstrap WITH
  Clients <- Operators, ControlPlanes <- <<n1, n2>>, Workers <- <<w1>>,
  InitNode <- SameInit, JoinOnly <- BootstrapOnly, NoNode <- NoNode,
  Stable <- TRUE, Before <- FALSE, Overwrite <- SecondOverwrites,
  Foreign <- TRUE, MaxRepeats <- 0, MaxCuts <- 1, MaxFails <- 1,
  MaxReinstalls <- 0
Reinstall == INSTANCE ClusterBootstrap WITH
  Clients <- Operators, ControlPlanes <- <<n1>>, Workers <- <<w1>>,
  InitNode <- SameInit, JoinOnly <- WithNodeJoin, NoNode <- NoNode,
  Stable <- TRUE, Before <- TRUE, Overwrite <- SecondOverwrites,
  Foreign <- FALSE, MaxRepeats <- 0, MaxCuts <- 0, MaxFails <- 1,
  MaxReinstalls <- 1
Proxy == INSTANCE ApiProxy WITH
  Configs <- {OnePeer} \cup ProxyBad, Conns <- {c1}, MaxFlaps <- 1,
  MaxFaults <- 1, MaxTicks <- 2, Endless <- FALSE,
  config <- cfg, faults <- proxyFaults, file <- file

inventoryVars == <<inv, init, over, plan, facts, report>>
bootstrapVars == <<node, cl, file, stableUp, cuts, fails, reinstalls>>
proxyVars == <<cfg, proxyFaults, main, canceled, pool, canonical, at, conn, holder, draft, up,
               flaps, answer, ticks>>

Off == "not used"
NoInventory == inv = Off /\ init = Off /\ over = Off /\ plan = Off /\ facts = Off /\ report = Off
NoBootstrap ==
  /\ node = Off /\ cl = Off /\ stableUp = Off
  /\ cuts = Off /\ fails = Off /\ reinstalls = Off
NoProxy ==
  /\ cfg = Off /\ proxyFaults = Off /\ main = Off /\ canceled = Off /\ pool = Off /\ canonical = Off
  /\ at = Off /\ conn = Off /\ holder = Off /\ draft = Off /\ up = Off /\ flaps = Off
  /\ answer = Off /\ ticks = Off
NoVip == config = VipBase /\ ~addr /\ ~iface /\ ~api

MCInit ==
  /\ Init
  /\ \/ part = "vip" /\ NoInventory /\ NoBootstrap /\ file = Off /\ NoProxy
     \/ part = "inventory" /\ Inventory!Init /\ NoBootstrap /\ file = Off /\ NoProxy /\ NoVip
     \/ part = "bootstrap" /\ Bootstrap!Init /\ NoInventory /\ NoProxy /\ NoVip
     \/ part = "reinstall" /\ Reinstall!Init /\ NoInventory /\ NoProxy /\ NoVip
     \/ part = "proxy" /\ Proxy!Init /\ NoInventory /\ NoBootstrap /\ NoVip

MCNext ==
  \/ part = "vip" /\ Next /\ UNCHANGED <<part, inventoryVars, bootstrapVars, proxyVars>>
  \/ part = "inventory" /\ Inventory!Next /\ UNCHANGED <<part, vars, bootstrapVars, proxyVars>>
  \/ part = "bootstrap" /\ Bootstrap!Next /\ UNCHANGED <<part, vars, inventoryVars, proxyVars>>
  \/ part = "reinstall" /\ Reinstall!Next /\ UNCHANGED <<part, vars, inventoryVars, proxyVars>>
  \/ /\ part = "proxy" /\ Proxy!Next
     /\ UNCHANGED <<part, vars, inventoryVars, node, cl, stableUp, cuts, fails, reinstalls>>

MCSpec == MCInit /\ [][MCNext]_<<part, vars, inventoryVars, bootstrapVars, proxyVars>>

-----------------------------------------------------------------------------
(* Properties; those of the API address are stated in ApiVip.              *)

(* An accepted plan makes one cluster, a durable inventory can be planned     *)
(* with any of its control planes as the first, and a readiness report        *)
(* without a diagnostic means what it says of every node.                     *)
PlanMeansOneCluster ==
  part = "inventory" => Inventory!OneCluster /\ Inventory!AnyControlPlaneInits /\ Inventory!ReadyMeansReady

(* With two commands at work, cut off and repeated, joins run in the order    *)
(* planned and one at a time, kubeadm changes an installation once, and a     *)
(* command that ended well left every node in the cluster of its init node;   *)
(* no node joins a cluster that a reinstalled init node has started since.    *)
BootstrapInOrder ==
  /\ part = "bootstrap" => Bootstrap!JoinsInOrder /\ Bootstrap!SuccessMeansMembers /\ Bootstrap!KubeadmOnce
  /\ part = "reinstall" => Reinstall!KubeadmOnce /\ Reinstall!JoinsPlannedCluster

(* When nobody is about to write, the proxy's status file says what the pool  *)
(* says, whatever the order in which monitors and connections changed it; no  *)
(* connection dials a backend twice; when Run returns nothing is left.        *)
ProxySettles ==
  part = "proxy" => Proxy!StatusSettles /\ Proxy!NoBackendTwice /\ Proxy!StoppedIsQuiet
=============================================================================
