-------------------------- MODULE MCConfiguration ---------------------------
(* Instances of the configuration of a node: planning a request, the requests *)
(* an agent accepts and carries out, the runtime changes of a live apply, the *)
(* volumes of a node, and the bundle of a ClusterConfig.                      *)
EXTENDS Integers, Sequences, FiniteSets, TLC

(* Requests of two layers of one or two fields each over a control plane,     *)
(* initialized or not, and an external worker.                                *)
Fields == {"hostname", "keys", "kernel", "ext", "address", "role", "endpoint", "host",
           "volumes", "retention", "kubeadm"}
SomeFields == [f \in Fields |-> IF f = "endpoint" THEN 1 ELSE 0]
OneField == {(f :> v) : f \in Fields, v \in {0, 1, 2}} \cup {"endpoint" :> 3}
       \cup {"proxy" :> 1, "kubeadmInput" :> 1, "externalEndpoint" :> 1, "unsafeFiles" :> 1,
             "external" :> TRUE, <<>>}
Pairs == {("hostname" :> 1) @@ ("volumes" :> 1), ("host" :> 1) @@ ("retention" :> 1),
          ("volumes" :> 1) @@ ("host" :> 1), ("ext" :> 1) @@ ("kubeadm" :> 1)}
PlanRequests ==
  {[current |-> SomeFields, cluster |-> c, roles |-> (0 :> r), node |-> n,
    initialized |-> i, proxy |-> 0, drifted |-> d, rebound |-> d,
    external |-> x, externalEndpoint |-> 0] :
     c \in OneField, r \in {<<>>, "host" :> 1, "role" :> 1, "volumes" :> 1}, n \in OneField \cup Pairs,
     i \in BOOLEAN, d \in BOOLEAN, x \in {FALSE, TRUE}}

(* A live change, its reversal, a change for the next boot, one that is       *)
(* refused, one of the network, and a change of volumes.                      *)
Changes == {"host" :> 1, "host" :> 0, "hostname" :> 1, "role" :> 1, "host" :> 3, "volumes" :> 1}

(* Pairs of host configurations: unit files, drop-ins, sysctls, masks,        *)
(* enablement, notifications and the domains with a service of their own      *)
(* change, alone and together.                                                *)
Paths == {"a_service", "j_conf", "n_network", "n_link", "m_conf", "s_conf", "t_conf",
          "c_toml", "r_rules", "o_conf"}
NoFiles == [p \in Paths |-> 0]
Quiet == [u \in {"a", "b", "j"} |-> ""]
HostBase == [files |-> [NoFiles EXCEPT !.s_conf = 1, !.j_conf = 1, !.a_service = 1],
         enabled |-> {}, masked |-> {}, notify |-> Quiet,
         svc |-> [d \in {"volumes", "bootstrap-node-metadata", "control-plane-endpoint-vip", "api-proxy"} |-> "v1"]]
HostConfigs ==
  [base |-> HostBase,
   sysctl |-> [HostBase EXCEPT !.files.s_conf = 2, !.files.j_conf = 2, !.svc["api-proxy"] = "v2"],
   unit |-> [HostBase EXCEPT !.files.a_service = 2,
                       !.svc["control-plane-endpoint-vip"] = "v2"],
   mask |-> [HostBase EXCEPT !.masked = {"a", "b"}, !.files.s_conf = 2],
   enable |-> [HostBase EXCEPT !.enabled = {"b"}, !.files.o_conf = 1,
                           !.notify = [Quiet EXCEPT !["a"] = "reload-or-restart"]],
   reload |-> [HostBase EXCEPT !.enabled = {"a"}, !.files.o_conf = 1, !.svc["volumes"] = "v2",
                           !.svc["bootstrap-node-metadata"] = "v2",
                           !.notify = [Quiet EXCEPT !["a"] = "restart"]],
   gone |-> [HostBase EXCEPT !.files.s_conf = 0, !.files.m_conf = 1]]

Part(n, uuid, label, fs, mnt) ==
  [n |-> n, uuid |-> uuid, fsuuid |-> uuid, label |-> label, fs |-> fs, data |-> {}, mnt |-> mnt]
Vol(kind, value, fs, wipe) == [sel |-> [kind |-> kind, value |-> value], fs |-> fs, wipe |-> wipe]
(* The system disk, a blank disk, and a disk with two partitions of which  *)
(* one carries the label of volume a.                                      *)
NodeDisks == {[path |-> "r", serial |-> 1, parts |-> {Part(1, 1, "KATL_STATE", "ext4", "other")}],
            [path |-> "d", serial |-> 2, parts |-> {}],
            [path |-> "e", serial |-> 3, parts |-> {Part(1, 2, "a", "ext4", ""), Part(2, 3, "", "xfs", "")}]}
VolumeSpecs == {Vol("serial", 2, "ext4", TRUE), Vol("label", 0, "ext4", FALSE),
            Vol("partuuid", 3, "ext4", TRUE)}

(* ClusterConfigs of a control plane a and a node b, each differing from the  *)
(* base in one setting of the defaults, of node a, or of the cluster.         *)
NoLayer == [keys |-> <<>>, units |-> <<>>, kubelet |-> <<>>, address |-> 0, labels |-> <<>>,
            sets |-> <<>>, exts |-> <<>>, disk |-> <<>>, vols |-> <<>>]
DiskFields(byID, serial, min) == <<[byID |-> byID, serial |-> serial, min |-> min]>>
BaseLayer(d) == [NoLayer EXCEPT !.keys = <<1>>, !.disk = DiskFields(<<>>, <<d>>, <<>>)]
BaseSource ==
  [external |-> <<>>, endpoint |-> <<>>, kubeadm |-> <<>>, version |-> 1, defaults |-> NoLayer,
   nodes |-> [n \in {"a", "b"} |-> [controlPlane |-> n = "a", manage |-> IF n = "a" THEN 1 ELSE 3,
                                     layer |-> BaseLayer(IF n = "a" THEN 1 ELSE 2)]]]
SourceWith(field, d, o) ==
  [BaseSource EXCEPT !.defaults[field] = d, !.nodes.a.layer[field] = o,
                     !.nodes.b.layer.vols = IF field = "vols" THEN <<{}>> ELSE <<>>]
(* One setting at a time, in the defaults and in the layer of node a.         *)
Vary(field, defaults, own) ==
  {SourceWith(field, d, o) : d \in defaults, o \in own}
FileSet(name, state, file, path) == [name |-> name, state |-> state, from |-> file, path |-> path]
SetOnes == {<<>>, <<{}>>, <<{FileSet("s", "present", "f", "p")}>>, <<{FileSet("s", "absent", "", "")}>>,
            <<{FileSet("t", "present", "g", "q")}>>}
Extension(name, state, pick, at) == [name |-> name, state |-> state, pick |-> pick, at |-> at]
ExtOnes == {<<>>, <<{}>>, <<{Extension("x", "present", "tag", 0)}>>, <<{Extension("x", "absent", "tag", 0)}>>,
            <<{Extension("x", "present", "pin", 2)}>>, <<{Extension("y", "present", "release", 0)}>>}
BundleVol(name, state, sel, fs, wipe) == [name |-> name, state |-> state, sel |-> sel, fs |-> fs, wipe |-> wipe]
DiskSel(serial, min) == <<[disk |-> DiskFields(<<>>, serial, min), part |-> <<>>]>>
PartSel(uuid, byName) == <<[disk |-> <<>>, part |-> <<[uuid |-> uuid, byName |-> byName]>>]>>
VolOnes == {<<>>, <<{}>>, <<{BundleVol("v", "present", DiskSel(<<>>, <<8>>), <<"ext4">>, <<>>)}>>,
            <<{BundleVol("v", "absent", <<>>, <<>>, <<>>)}>>,
            <<{BundleVol("v", "present", DiskSel(<<5>>, <<>>), <<>>, <<TRUE>>)}>>,
            <<{BundleVol("v", "present", PartSel(<<6>>, <<>>), <<"xfs">>, <<FALSE>>)}>>,
            <<{BundleVol("v", "present", PartSel(<<>>, <<TRUE>>), <<>>, <<>>)}>>,
            <<{BundleVol("w", "present", DiskSel(<<7>>, <<>>), <<"xfs">>, <<>>)}>>}
VolDefaults == {<<>>, <<{BundleVol("v", "present", DiskSel(<<>>, <<8>>), <<"ext4">>, <<>>)}>>,
                <<{BundleVol("v", "present", <<>>, <<"xfs">>, <<TRUE>>)}>>,
                <<{BundleVol("v", "absent", <<>>, <<>>, <<>>)}>>}
DiskDefaults == {<<>>, DiskFields(<<>>, <<1>>, <<>>), DiskFields(<<>>, <<>>, <<8>>)}
DiskOnes == {<<>>, DiskFields(<<>>, <<1>>, <<>>), DiskFields(<<>>, <<>>, <<8>>), DiskFields(<<3>>, <<1>>, <<>>), DiskFields(<<>>, <<4>>, <<9>>)}
Label(n, v) == [name |-> n, value |-> v]
LabelOnes == {<<>>, <<{}>>, <<{Label("l", 1)}>>, <<{Label("l", 2), Label("m", 1)}>>}
ClusterOnes ==
  {[BaseSource EXCEPT !.nodes.a.manage = x, !.nodes.a.layer.address = y, !.nodes.b.controlPlane = b,
                      !.endpoint = e] :
     x \in {0, 2}, y \in {0, 4}, b \in BOOLEAN, e \in {<<>>, <<[host |-> 9, managed |-> TRUE]>>}}
KubeletOnes ==
  {[BaseSource EXCEPT !.kubeadm = x, !.defaults.kubelet = d, !.nodes.a.layer.kubelet = o, !.endpoint = e,
                      !.version = v] :
     x \in {<<>>, <<"f">>}, d \in {<<>>, <<"g">>}, o \in {<<>>, <<"k">>}, v \in {1},
     e \in {<<[host |-> 9, managed |-> TRUE]>>}}
ExternalOnes ==
  {[BaseSource EXCEPT !.external = <<8>>, !.nodes.a.controlPlane = c, !.kubeadm = x, !.defaults.kubelet = d,
                      !.nodes.a.layer.kubelet = <<"k">>] :
     c \in BOOLEAN, x \in {<<>>, <<"f">>}, d \in {<<>>, <<"g">>}}
VersionOnes == {[BaseSource EXCEPT !.version = v, !.nodes.a.layer.units = u, !.defaults.address = x,
                                   !.nodes.a.layer.keys = y] :
                  v \in {1, 2}, u \in {<<>>, <<1>>}, x \in {0, 5}, y \in {<<1>>, <<0>>}}
(* An operator goes between each of them and one of their number.             *)
Between(base, all) == {{base, s} : s \in all}
TagX == <<{Extension("x", "present", "tag", 0)}>>
SourceFamilies ==
  Between(SourceWith("sets", <<>>, <<{FileSet("s", "present", "f", "p")}>>), Vary("sets", SetOnes \ {<<{}>>}, SetOnes))
  \cup Between(SourceWith("exts", TagX, <<>>), Vary("exts", ExtOnes \ {<<{}>>}, ExtOnes))
  \cup Between(SourceWith("vols", <<>>, <<{BundleVol("w", "present", DiskSel(<<7>>, <<>>), <<"xfs">>, <<>>)}>>), Vary("vols", VolDefaults, VolOnes))
  \cup Between(BaseSource, Vary("disk", DiskDefaults, DiskOnes) \cup Vary("labels", {<<>>, <<{Label("l", 1)}>>}, LabelOnes)
                \cup ClusterOnes \cup KubeletOnes \cup ExternalOnes \cup VersionOnes)

(* Two builds of extension x for both targets, one of x and one of y for t    *)
(* alone, and two builds of the Kubernetes version the catalog lacks.         *)
BundleArtifacts ==
  LET Art(repo, targets, payload) == [repo |-> repo, targets |-> targets, payload |-> payload]
  IN  <<Art("x", {"t", "u"}, 1), Art("x", {"t", "u"}, 2), Art("x", {"t"}, 3), Art("y", {"t"}, 4),
        Art("kubernetes", {2}, 5), Art("kubernetes", {2, 3}, 6)>>

-----------------------------------------------------------------------------
(* The variables of the components; a name two of them use is one variable,  *)
(* for only one component runs in a behaviour: part says which.               *)
VARIABLES
  part, q, mode, decision, from, applied, audit, gens, cur, trial, running,
  ops, job, faults, crashes, des, etc, linked, mgr, unit, sysctl,
  svc, seen, plan, pc, todo, enabling, status, outcome, writes, disks,
  shelf, volumes, bindings, ids, swaps, source, tree, registry, bundle,
  told, builds, changes

Planning == INSTANCE ConfigPlanning WITH
  Requests <- PlanRequests, Modes <- {"", "live", "next-boot"}
Requests == INSTANCE ConfigRequests WITH
  Versions <- {1, 2}, Bodies <- Changes, Candidates <- {-1, 4}, MaxOps <- 3,
  MaxFaults <- 1, MaxCrashes <- 1
Apply == INSTANCE HostConfigurationApply WITH
  Configs <- DOMAIN HostConfigs, Config <- HostConfigs,
  Units <- {"a", "b", "j"}, MaxFaults <- 2, MaxWrites <- 1
Volumes == INSTANCE VolumeTransitions WITH
  Names <- {"a", "b"}, RootDisk <- "r", Specs <- VolumeSpecs,
  InitialDisks <- NodeDisks, MaxOps <- 3, MaxSwaps <- 1,
  MaxFaults <- 1

Bundles == INSTANCE ConfigBundle WITH
  NodeList <- <<"a", "b">>, Families <- SourceFamilies, Selections <- {{"a"}, {"a", "b"}},
  Files <- {"f", "g", "k"}, Contents <- {0, 2, 3, 4}, Repos <- {"x", "y"}, Artifacts <- BundleArtifacts,
  Registry <- ("x" :> 1) @@ ("y" :> 4) @@ ("kubernetes" :> 5),
  Releases <- ("t" :> (("x" :> -1) @@ ("y" :> 4))) @@ ("u" :> (("x" :> -1) @@ ("y" :> -1))),
  Target <- ("a" :> "t") @@ ("b" :> "u"), Catalog <- <<7, 0>>,
  MaxBuilds <- 2, MaxChanges <- 1, MaxReads <- 2

Off == "not used"

OnlyPlanning ==
  /\ audit = Off /\ gens = Off /\ cur = Off /\ trial = Off
  /\ running = Off /\ ops = Off /\ job = Off
  /\ faults = Off /\ crashes = Off /\ des = Off /\ etc = Off
  /\ linked = Off /\ mgr = Off /\ unit = Off /\ sysctl = Off
  /\ svc = Off /\ seen = Off /\ plan = Off /\ pc = Off /\ todo = Off
  /\ enabling = Off /\ status = Off /\ outcome = Off /\ writes = Off
  /\ disks = Off /\ shelf = Off /\ volumes = Off /\ bindings = Off
  /\ ids = Off /\ swaps = Off
  /\ source = Off /\ tree = Off /\ registry = Off /\ bundle = Off
  /\ told = Off /\ builds = Off /\ changes = Off
KeepPlanning == UNCHANGED <<part, audit, gens, cur, trial, running, ops, job, faults, crashes, des,
  etc, linked, mgr, unit, sysctl, svc, seen, plan, pc, todo, enabling,
  status, outcome, writes, disks, shelf, volumes, bindings, ids, swaps,
  source, tree, registry, bundle, told, builds, changes>>

OnlyRequests ==
  /\ q = Off /\ mode = Off /\ decision = Off /\ from = Off
  /\ applied = Off /\ des = Off /\ etc = Off /\ linked = Off
  /\ mgr = Off /\ unit = Off /\ sysctl = Off /\ svc = Off /\ seen = Off
  /\ plan = Off /\ pc = Off /\ todo = Off /\ enabling = Off
  /\ status = Off /\ outcome = Off /\ writes = Off /\ disks = Off
  /\ shelf = Off /\ volumes = Off /\ bindings = Off /\ ids = Off
  /\ swaps = Off
  /\ source = Off /\ tree = Off /\ registry = Off /\ bundle = Off
  /\ told = Off /\ builds = Off /\ changes = Off
KeepRequests == UNCHANGED <<part, q, mode, decision, from, applied, des, etc, linked, mgr, unit, sysctl,
  svc, seen, plan, pc, todo, enabling, status, outcome, writes, disks,
  shelf, volumes, bindings, ids, swaps,
  source, tree, registry, bundle, told, builds, changes>>

OnlyApply ==
  /\ q = Off /\ mode = Off /\ decision = Off /\ from = Off
  /\ applied = Off /\ audit = Off /\ gens = Off /\ trial = Off
  /\ running = Off /\ ops = Off /\ job = Off
  /\ crashes = Off /\ disks = Off /\ shelf = Off /\ volumes = Off
  /\ bindings = Off /\ ids = Off /\ swaps = Off
  /\ source = Off /\ tree = Off /\ registry = Off /\ bundle = Off
  /\ told = Off /\ builds = Off /\ changes = Off
KeepApply == UNCHANGED <<part, q, mode, decision, from, applied, audit, gens, trial, running, ops, job,
  crashes, disks, shelf, volumes, bindings, ids, swaps,
  source, tree, registry, bundle, told, builds, changes>>

OnlyVolumes ==
  /\ q = Off /\ mode = Off /\ decision = Off /\ from = Off
  /\ applied = Off /\ audit = Off /\ gens = Off /\ cur = Off
  /\ trial = Off /\ running = Off /\ crashes = Off
  /\ des = Off /\ etc = Off /\ linked = Off /\ mgr = Off /\ unit = Off
  /\ sysctl = Off /\ svc = Off /\ seen = Off /\ plan = Off /\ pc = Off
  /\ todo = Off /\ enabling = Off /\ status = Off /\ outcome = Off
  /\ writes = Off
  /\ source = Off /\ tree = Off /\ registry = Off /\ bundle = Off
  /\ told = Off /\ builds = Off /\ changes = Off
KeepVolumes == UNCHANGED <<part, q, mode, decision, from, applied, audit, gens, cur, trial, running,
  crashes, des, etc, linked, mgr, unit, sysctl, svc, seen, plan, pc,
  todo, enabling, status, outcome, writes,
  source, tree, registry, bundle, told, builds, changes>>

OnlyBundle ==
  /\ q = Off /\ mode = Off /\ decision = Off /\ from = Off
  /\ applied = Off /\ audit = Off /\ gens = Off /\ cur = Off
  /\ trial = Off /\ running = Off /\ ops = Off
  /\ faults = Off /\ crashes = Off /\ des = Off /\ etc = Off
  /\ linked = Off /\ mgr = Off /\ unit = Off /\ sysctl = Off /\ svc = Off
  /\ plan = Off /\ pc = Off /\ todo = Off /\ enabling = Off
  /\ status = Off /\ outcome = Off /\ writes = Off /\ disks = Off
  /\ shelf = Off /\ volumes = Off /\ bindings = Off /\ ids = Off
  /\ swaps = Off
KeepBundle == UNCHANGED <<part, q, mode, decision, from, applied, audit, gens, cur, trial,
  running, ops, faults, crashes, des, etc, linked, mgr, unit,
  sysctl, svc, plan, pc, todo, enabling, status, outcome, writes, disks,
  shelf, volumes, bindings, ids, swaps>>

Init ==
  \/ part = "planning" /\ Planning!Init /\ OnlyPlanning
  \/ part = "requests" /\ Requests!Init /\ OnlyRequests
  \/ part = "apply" /\ Apply!Init /\ OnlyApply
  \/ part = "volumes" /\ Volumes!Init /\ OnlyVolumes
  \/ part = "bundle" /\ Bundles!Init /\ OnlyBundle

Next ==
  \/ part = "planning" /\ Planning!Next /\ KeepPlanning
  \/ part = "requests" /\ Requests!Next /\ KeepRequests
  \/ part = "apply" /\ Apply!Next /\ KeepApply
  \/ part = "volumes" /\ Volumes!Next /\ KeepVolumes
  \/ part = "bundle" /\ Bundles!Next /\ KeepBundle

vars == <<part, q, mode, decision, from, applied, audit, gens, cur, trial, running, ops,
  job, faults, crashes, des, etc, linked, mgr, unit, sysctl, svc,
  seen, plan, pc, todo, enabling, status, outcome, writes, disks, shelf,
  volumes, bindings, ids, swaps, source, tree, registry, bundle, told, builds,
  changes>>

Spec == Init /\ [][Next]_vars

-----------------------------------------------------------------------------
(* Properties.                                                             *)

(* The accepted mode suits everything that really changes and each field has  *)
(* the value of the last layer that gives one. A compiled node has the        *)
(* entries its layers give it, only its own layer identifies a disk or        *)
(* authorizes a wipe, and its extensions come with the payloads they name.    *)
PlannedModeSafe ==
  /\ part = "planning" => Planning!AcceptedModeSafe /\ Planning!MergedPrecedence
  /\ part = "bundle" => /\ Bundles!EntriesOfLayers /\ Bundles!TargetsAreOwn
                        /\ Bundles!PayloadsComplete /\ Bundles!FetchedOnlyUsed

(* A request that was applied changes nothing when it is submitted again, if  *)
(* its layers do not give one field different values, and a node never goes   *)
(* back to an older desired version.                                          *)
AppliesGoForward ==
  [][/\ part = "planning" => Planning!SecondApplyNoChanges
     /\ part = "requests" => Requests!VersionsIncrease]_vars

(* An operation reported successful has done what it says, unless it repeats  *)
(* a recorded request that did not succeed; one that failed without asking    *)
(* for repair left the node as it was but for its volumes, crashes included,  *)
(* and, when they share no disk, the same volumes can be asked for again. What is read of a bundle is one   *)
(* node of one compilation, a report names the layer a value comes from, and  *)
(* a comparison that lists nothing leaves the node as it is.                  *)
ResultsTell ==
  /\ part = "requests" => Requests!SuccessApplied /\ Requests!FailureRestored
  /\ part = "volumes" => Volumes!RetryPossible
  /\ part = "bundle" => /\ Bundles!ReadsOneBuild /\ Bundles!ProvenanceTrue
                        /\ Bundles!NothingListedNothingChanged

(* A live apply reported active is in force, but for units that a changed set *)
(* stops notifying; one reported rolled back has restored units, sysctls and  *)
(* services, a single failure is always rolled back, and a partial apply is   *)
(* silent only when a status write fails.                                     *)
LiveApplyAllOrNothing ==
  part = "apply" => /\ Apply!SuccessInForce /\ Apply!RollbackRestores
                    /\ Apply!NoSilentPartialApply /\ Apply!OneFailureRollsBack

(* A volume name moves to another device only with rebind authority, unless   *)
(* a wipe of the same request replaces the partition it was planned on; and   *)
(* data disappear only from a device prepared for a volume that was changed   *)
(* to ask for a wipe.                                                         *)
VolumesKeepData ==
  [][part = "volumes" => Volumes!RebindAuthorized /\ Volumes!WipeOnlyWhenChanged]_vars

(* docs/operations/configure-nodes.md says that changing only                 *)
(* management.address changes no state of the node. Refuted: it is the        *)
(* address API proxies are given for a control plane that states no           *)
(* Kubernetes address.                                                        *)
TargetOnlyKeepsNode == part = "bundle" => Bundles!TargetOnlyKeepsNode
=============================================================================
