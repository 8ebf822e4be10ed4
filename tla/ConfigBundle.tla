---------------------------- MODULE ConfigBundle -----------------------------
(* From a ClusterConfig to the configuration of one node: the layers of the   *)
(* source, what the compiler reads beside it and from the registry, the       *)
(* archive it writes, what a consumer accepts of that archive, and the report *)
(* and the comparison `katlctl config resolve` and `config diff` make of it.  *)
(*                                                                            *)
(* A setting that may be left out is a sequence: <<>> is not supplied, <<v>>  *)
(* is supplied with value v (the Optional of the source). A list or map of    *)
(* named entries is a set of records with a name and a state. The digest of   *)
(* a blob is the blob: two blobs are told apart exactly when they differ.     *)
EXTENDS Integers, Sequences, FiniteSets, SequencesExt

CONSTANTS
  NodeList,    \* the nodes of the cluster, in the order of the source
  Families,    \* sets of ClusterConfigs an operator edits between
  Selections,  \* sets of nodes a bundle is asked for
  Files,       \* files beside the ClusterConfig
  Contents,    \* what an operator may write into one
  Repos,       \* OCI repositories of system extensions
  Artifacts,   \* manifest digest -> [repo, targets, payload]
  Registry,    \* repository -> the digest its tag names at first
  Releases,    \* runtime target -> repository -> the release's pin, -1 if none
  Target,      \* node -> the runtime target of its KatlOS release
  Catalog,     \* Kubernetes version -> the embedded catalog's digest, 0 if none
  MaxBuilds,   \* compilations of a behaviour
  MaxChanges,  \* changes to source, files, registry and archive
  MaxReads     \* nodes read from the archive

VARIABLES
  source,    \* cluster.yaml
  tree,      \* file -> contents
  registry,  \* repository -> the digest its tag names, 0 if none
  job,       \* <<>> or the running compilation
  bundle,    \* <<>> or the archive last written
  told,      \* manifests of the bundles reported built
  seen,      \* nodes read, in order
  builds, changes

vars == <<source, tree, registry, job, bundle, told, seen, builds, changes>>

Nodes == Range(NodeList)
Defaults == "spec.defaults"

(* Contents of a file: unreadable or outside the source directory, refused as *)
(* kubeadm or kubelet input, at odds with a managed endpoint; others are fine.*)
Unreadable == 0
Refused == 3
OtherEndpoint == 4

-----------------------------------------------------------------------------
(* Layers: the node's layer over the defaults.                                *)

Value(opt, none) == IF opt = <<>> THEN none ELSE opt[1]
Override(base, next) == IF next = <<>> THEN base ELSE next
Entries(opt) == Value(opt, {})
Present(opt) == {e \in Entries(opt) : e.state # "absent"}

(* Named entries: an empty list clears the inherited ones, an absent entry    *)
(* removes one, any other replaces it.                                        *)
Overlay(base, next) ==
  IF next = <<>> \/ next = <<{}>> THEN Override(base, next)
  ELSE <<{b \in Present(base) : \A e \in next[1] : e.name # b.name} \cup Present(next)>>

MergeFields(base, next) ==
  IF base = <<>> \/ next = <<>> THEN Override(base, next)
  ELSE <<[f \in DOMAIN next[1] |-> Override(base[1][f], next[1][f])]>>

(* A selector that names a disk drops an inherited partition, and conversely. *)
MergeSelector(base, next) ==
  LET old == Value(base, [disk |-> <<>>, part |-> <<>>])
  IN  IF next = <<>> THEN base
      ELSE IF next[1].disk # <<>>
      THEN <<[disk |-> MergeFields(IF old.part # <<>> THEN <<>> ELSE old.disk, next[1].disk), part |-> <<>>]>>
      ELSE IF next[1].part # <<>>
      THEN <<[disk |-> <<>>, part |-> MergeFields(IF old.disk # <<>> THEN <<>> ELSE old.part, next[1].part)]>>
      ELSE <<old>>

MergeVolume(base, next) ==
  [name |-> next.name, state |-> next.state, sel |-> MergeSelector(base.sel, next.sel),
   fs |-> Override(base.fs, next.fs), wipe |-> Override(base.wipe, next.wipe)]

(* A volume of the node's layer completes the inherited one of its name.      *)
MergeVolumes(base, next) ==
  IF next = <<>> THEN base
  ELSE LET Named(e) == {b \in Present(base) : b.name = e.name}
           Complete(e) == IF e.state = "absent" \/ Named(e) = {} THEN e
                          ELSE MergeVolume(CHOOSE b \in Named(e) : TRUE, e)
       IN  Overlay(base, <<{Complete(e) : e \in next[1]}>>)

MergeLabels(base, next) ==
  IF base = <<>> \/ next = <<>> \/ next = <<{}>> THEN Override(base, next)
  ELSE <<{l \in base[1] : \A m \in next[1] : m.name # l.name} \cup next[1]>>

(* units stands for each setting a layer replaces whole: enabled and masked   *)
(* units, sysfs, kernel, retention and taints.                                *)
Merge(base, next) ==
  [keys |-> Override(base.keys, next.keys), units |-> Override(base.units, next.units),
   kubelet |-> Override(base.kubelet, next.kubelet),
   address |-> IF next.address # 0 THEN next.address ELSE base.address,
   labels |-> MergeLabels(base.labels, next.labels),
   sets |-> Overlay(base.sets, next.sets),
   exts |-> Overlay(base.exts, next.exts),
   disk |-> MergeFields(base.disk, next.disk),
   vols |-> MergeVolumes(base.vols, next.vols)]

-----------------------------------------------------------------------------
(* What a layer may say, and what a node must have in the end.                *)

Unique(opt) == \A d, e \in Entries(opt) : d.name = e.name => d = e
Given(opt) == opt # <<>> /\ opt[1] # 0

(* Owned paths belong to Katl; one path belongs to one set.                   *)
HostValid(layer) ==
  /\ \A e \in Present(layer.sets) : e.path \notin {"", "owned"}
  /\ \A d, e \in Present(layer.sets) : d.path = e.path => d = e

ExtensionsValid(layer) == Unique(layer.exts)

Identities(disk) == {f \in {"byID", "serial"} : disk # <<>> /\ Given(disk[1][f])}
PartIdentities(part) ==
  {f \in {"uuid"} : Given(part[1].uuid)} \cup {f \in {"byName"} : part[1].byName = <<TRUE>>}

VolumesValid(vols, complete) ==
  /\ \A d, e \in Entries(vols) : d.name = e.name => d = e
  /\ \A v \in Present(vols) :
       LET sel == Value(v.sel, [disk |-> <<>>, part |-> <<>>])
       IN  /\ sel.disk = <<>> \/ sel.part = <<>>
           /\ sel.part # <<>> => LET n == Cardinality(PartIdentities(sel.part))
                                 IN  n <= 1 /\ (complete => n = 1)
           /\ complete => /\ sel.disk # <<>> \/ sel.part # <<>>
                          /\ sel.disk # <<>> => Cardinality(Identities(sel.disk)) = 1
                          /\ v.fs # <<>>

(* The defaults identify no disk or partition and authorize no wipe.          *)
DefaultsNameNoTarget(layer) ==
  /\ Identities(layer.disk) = {}
  /\ \A v \in Entries(layer.vols) :
       /\ v.wipe # <<TRUE>>
       /\ v.sel # <<>> => v.sel[1].part = <<>> /\ Identities(v.sel[1].disk) = {}

LayerValid(layer) == HostValid(layer) /\ ExtensionsValid(layer) /\ VolumesValid(layer.vols, FALSE)

SourceValid(s) ==
  /\ s.external = <<>> => \E n \in Nodes : s.nodes[n].controlPlane
  /\ s.external # <<>> =>
       /\ s.kubeadm = <<>> /\ s.endpoint = <<>>
       /\ \A n \in Nodes : /\ ~s.nodes[n].controlPlane
                           /\ Override(s.defaults.kubelet, s.nodes[n].layer.kubelet) # <<>>
  /\ s.defaults.address = 0
  /\ DefaultsNameNoTarget(s.defaults)
  /\ LayerValid(s.defaults) /\ \A n \in Nodes : LayerValid(s.nodes[n].layer)

ResolvedValid(layer) ==
  /\ Given(layer.keys)
  /\ Cardinality(Identities(layer.disk)) = 1
  /\ VolumesValid(layer.vols, TRUE) /\ HostValid(layer) /\ ExtensionsValid(layer)

-----------------------------------------------------------------------------
(* What a compilation reads after the ClusterConfig, one file or artifact at  *)
(* a time: file sets, the extensions of the selected nodes, kubeadm input and *)
(* the kubelet file of each node.                                             *)

NoRef == [repo |-> "", pin |-> 0]
Task(kind, at, name, file, ref) ==
  [kind |-> kind, at |-> at, name |-> name, file |-> file, ref |-> ref]
ForNodes(Do(_)) == FlattenSeq([i \in DOMAIN NodeList |-> Do(NodeList[i])])

SetReads(at, layer) ==
  LET sets == SetToSeq(Present(layer.sets))
  IN  [i \in DOMAIN sets |-> Task("set", at, sets[i].name, sets[i].from, NoRef)]

(* The reference of a selection: the release's pin, the operator's pin, or    *)
(* the tag (pin 0). A release that does not offer the extension gives -1.     *)
Reference(n, e) ==
  [repo |-> e.name,
   pin |-> CASE e.pick = "release" -> Releases[Target[n]][e.name] [] e.pick = "pin" -> e.at [] OTHER -> 0]

(* The layers are merged first: a removed or replaced default is not fetched. *)
ExtensionReads(s, n) ==
  LET exts == SetToSeq(Present(Overlay(s.defaults.exts, s.nodes[n].layer.exts)))
  IN  [i \in DOMAIN exts |-> Task("ext", n, exts[i].name, "", Reference(n, exts[i]))]

KubeadmReads(s) ==
  IF s.kubeadm = <<>> THEN <<>> ELSE <<Task("kubeadm", "", "", s.kubeadm[1], NoRef)>>
KubeletFile(s, n) == Override(s.defaults.kubelet, s.nodes[n].layer.kubelet)
KubeletReads(s, n) ==
  IF KubeletFile(s, n) = <<>> THEN <<>>
  ELSE <<Task("kubelet", n, "", KubeletFile(s, n)[1], NoRef)>>

Reads(s, sel) ==
  LET Sets(n) == SetReads(n, s.nodes[n].layer)
      Exts(n) == IF n \in sel THEN ExtensionReads(s, n) ELSE <<>>
      Kubelet(n) == KubeletReads(s, n)
  IN  SetReads(Defaults, s.defaults) \o ForNodes(Sets) \o ForNodes(Exts)
      \o KubeadmReads(s) \o ForNodes(Kubelet)

(* cluster.yaml is read once; what it does not say is read later.             *)
StartBuild(sel) ==
  /\ job = <<>> /\ builds < MaxBuilds
  /\ builds' = builds + 1
  /\ job' = IF SourceValid(source)
            THEN <<[src |-> source, sel |-> sel, todo |-> Reads(source, sel), got |-> <<>>,
                    cache |-> {}, bundles |-> <<>>]>>
            ELSE <<>>
  /\ UNCHANGED <<source, tree, registry, bundle, told, seen, changes>>

Got(j, kind, at, name) ==
  LET t == CHOOSE t \in DOMAIN j.got : t.kind = kind /\ t.at = at /\ t.name = name IN j.got[t]
Advance(v) == [job[1] EXCEPT !.todo = Tail(@), !.got = (Head(job[1].todo) :> v) @@ @]

(* A file that cannot be read ends the compilation, as does kubeadm or        *)
(* kubelet input that sets what Katl manages.                                 *)
ReadFile ==
  /\ job # <<>> /\ job[1].todo # <<>> /\ Head(job[1].todo).kind # "ext"
  /\ LET t == Head(job[1].todo)
         content == tree[t.file]
         ok == content # Unreadable /\ (t.kind # "set" => content # Refused)
     IN  job' = IF ok THEN <<Advance(content)>> ELSE <<>>
  /\ UNCHANGED <<source, tree, registry, bundle, told, seen, builds, changes>>

(* An artifact is fetched by its pin or through the tag, and serves only the  *)
(* targets it was built for.                                                  *)
Fetch(ref) == IF ref.pin # 0 THEN ref.pin ELSE registry[ref.repo]
Serves(digest, target) == digest > 0 /\ target \in Artifacts[digest].targets

(* One fetch per reference and target; the bundle kept for a reference is the *)
(* one fetched last.                                                          *)
AcquireExtension ==
  /\ job # <<>> /\ job[1].todo # <<>> /\ Head(job[1].todo).kind = "ext"
  /\ LET t == Head(job[1].todo)
         had == {c \in job[1].cache : c.ref = t.ref /\ c.target = Target[t.at]}
         digest == IF had # {} THEN (CHOOSE c \in had : TRUE).digest ELSE Fetch(t.ref)
         done == [Advance(digest) EXCEPT
                   !.cache = @ \cup {[ref |-> t.ref, target |-> Target[t.at], digest |-> digest]},
                   !.bundles = (t.ref :> digest) @@ @]
     IN  job' = IF had # {} THEN <<Advance(digest)>>
                ELSE IF Serves(digest, Target[t.at]) THEN <<done>> ELSE <<>>
  /\ UNCHANGED <<source, tree, registry, bundle, told, seen, builds, changes>>

-----------------------------------------------------------------------------
(* Compilation proper, over what was read.                                    *)

(* The normalized source the archive carries: contents in place of files.     *)
ReadLayer(j, at, layer) ==
  [layer EXCEPT !.sets = IF @ = <<>> THEN <<>>
     ELSE <<{[name |-> e.name, state |-> e.state, path |-> e.path,
              content |-> IF e.state = "absent" THEN 0 ELSE Got(j, "set", at, e.name)] : e \in @[1]}>>]
Normalized(j) ==
  [j.src EXCEPT !.defaults = ReadLayer(j, Defaults, @),
                !.nodes = [n \in Nodes |-> [@[n] EXCEPT !.layer = ReadLayer(j, n, @)]]]

(* A node that was not selected is compiled without its extensions.           *)
ResolvedExtensions(j, n, exts) ==
  IF n \in j.sel
  THEN {[name |-> e.name, digest |-> Got(j, "ext", n, e.name),
         payload |-> Artifacts[Got(j, "ext", n, e.name)].payload] : e \in Present(exts)}
  ELSE {}
NodeLayer(j, n) == LET s == Normalized(j) IN Merge(s.defaults, s.nodes[n].layer)

ControlPlanes(s) == {n \in Nodes : s.nodes[n].controlPlane}

(* A cluster of several control planes needs an endpoint; one alone is        *)
(* reached at its management address.                                         *)
Endpoint(s) ==
  LET cps == ControlPlanes(s)
      only == s.nodes[CHOOSE n \in cps : TRUE].manage
  IN  CASE s.external # <<>> -> <<[host |-> s.external[1], managed |-> FALSE]>>
        [] s.external = <<>> /\ s.endpoint # <<>> -> s.endpoint
        [] s.external = <<>> /\ s.endpoint = <<>> ->
             IF Cardinality(cps) = 1 /\ only # 0 THEN <<[host |-> only, managed |-> FALSE]>> ELSE <<>>

(* The API proxy of every node lists every control plane, once the address of *)
(* each is known: its Kubernetes address, or its management address.          *)
DirectAddress(s, n) == IF s.nodes[n].layer.address # 0 THEN s.nodes[n].layer.address ELSE s.nodes[n].manage
Proxy(s) ==
  IF s.external # <<>> \/ \E n \in ControlPlanes(s) : DirectAddress(s, n) = 0 THEN {}
  ELSE {[name |-> n, address |-> DirectAddress(s, n)] : n \in ControlPlanes(s)}

(* The embedded catalog first, then the registry; pinned either way.          *)
KubernetesBundle(s) ==
  LET tagged == registry["kubernetes"]
  IN  IF Catalog[s.version] # 0 THEN Catalog[s.version]
      ELSE IF tagged # 0 /\ s.version \in Artifacts[tagged].targets THEN tagged ELSE 0

(* kubeadm input: the role's plan, or the node's own when a kubelet file      *)
(* applies, which then patches the shared base last. The base is Katl's (0)   *)
(* or the operator's; a node of this cluster gets its address written in.     *)
KubeadmBase(j) == IF j.src.kubeadm = <<>> THEN 0 ELSE Got(j, "kubeadm", "", "")
WithNodeAddress(j, n) == IF j.src.external = <<>> THEN NodeLayer(j, n).address ELSE 0
Plan(j, n) ==
  LET s == j.src
      own == KubeletFile(s, n) # <<>>
  IN  [ref |-> IF own THEN n ELSE IF s.nodes[n].controlPlane THEN "control-plane" ELSE "worker",
       base |-> KubeadmBase(j),
       patch |-> IF own THEN Got(j, "kubelet", n, "") ELSE 0,
       shared |-> own /\ s.external = <<>>,
       address |-> WithNodeAddress(j, n)]

LowerDisk(disk) ==
  IF disk = <<>> THEN <<>> ELSE <<[f \in DOMAIN disk[1] |-> Value(disk[1][f], 0)]>>
LowerVolumes(vols) ==
  {[name |-> v.name, fs |-> Value(v.fs, ""), wipe |-> Value(v.wipe, FALSE),
    disk |-> LowerDisk(v.sel[1].disk),
    uuid |-> IF v.sel[1].part = <<>> THEN 0 ELSE Value(v.sel[1].part[1].uuid, 0)] : v \in Present(vols)}

InstallManifest(j, n) ==
  LET s == j.src
      l == NodeLayer(j, n)
      endpoint == Endpoint(s)[1]
  IN  [node |-> n, controlPlane |-> s.nodes[n].controlPlane, manage |-> s.nodes[n].manage,
       external |-> s.external # <<>>, endpoint |-> endpoint.host,
       managed |-> s.nodes[n].controlPlane /\ endpoint.managed,
       keys |-> l.keys[1], units |-> Value(l.units, 0), address |-> l.address,
       labels |-> Entries(l.labels), exts |-> ResolvedExtensions(j, n, l.exts),
       disk |-> LowerDisk(l.disk), vols |-> LowerVolumes(l.vols),
       kubernetes |-> KubernetesBundle(s), kubeadm |-> Plan(j, n).ref]
(* What else the manifest renders into /etc follows from its fields.          *)
NativeEtcFiles(j, n) == [sets |-> Present(NodeLayer(j, n).sets), proxy |-> Proxy(j.src)]
Material(j, n) == InstallManifest(j, n) @@ NativeEtcFiles(j, n)

(* The manifest is validated once more on its own, lowered as it is.          *)
ManifestValid(m) ==
  LET One(disk) == Cardinality({f \in {"byID", "serial"} : disk[1][f] # 0}) = 1
  IN  /\ m.keys # 0 /\ m.disk # <<>> /\ One(m.disk)
      /\ m.external => ~m.controlPlane
      /\ \A v \in m.vols : v.fs # "" /\ (v.disk # <<>> => v.uuid = 0 /\ One(v.disk))
      /\ \A v, w \in m.vols : v.name = w.name => v = w

KubernetesSelected(j) == KubernetesBundle(j.src) # 0
Compiles(j) ==
  /\ \A n \in Nodes : ResolvedValid(NodeLayer(j, n))
  /\ KubernetesSelected(j)
  /\ Endpoint(j.src) # <<>>
  /\ Endpoint(j.src)[1].managed => KubeadmBase(j) # OtherEndpoint
  /\ \A n \in Nodes : ManifestValid(InstallManifest(j, n))

(* The blobs of the archive: the source, and for each selected node its       *)
(* material, its kubeadm input and the payloads of its extensions, which must *)
(* be among the bundles kept.                                                 *)
Embedded(j) == {Artifacts[j.bundles[r]].payload : r \in DOMAIN j.bundles}
Payloads(j, n) == {e.payload : e \in Material(j, n).exts}
Manifest(j) ==
  [source |-> Normalized(j), shared |-> \E n \in j.sel : Plan(j, n).shared,
   nodes |-> [n \in j.sel |-> [material |-> Material(j, n), plan |-> Plan(j, n), payloads |-> Payloads(j, n)]]]
Blobs(j) ==
  {[source |-> Normalized(j)], [manifest |-> Manifest(j)]}
  \cup {[material |-> Material(j, n)] : n \in j.sel} \cup {[plan |-> Plan(j, n)] : n \in j.sel}
  \cup {[payload |-> p] : p \in Embedded(j)}

(* The archive replaces the previous one by a rename, so a compilation that   *)
(* fails or is interrupted leaves that one.                                   *)
FinishBuild ==
  /\ job # <<>> /\ job[1].todo = <<>>
  /\ LET j == job[1]
         ok == Compiles(j) /\ \A n \in j.sel : Payloads(j, n) \subseteq Embedded(j)
     IN  IF ok
         THEN /\ bundle' = <<[index |-> Manifest(j), blobs |-> {[name |-> b, data |-> b] : b \in Blobs(j)},
                            altered |-> FALSE]>>
              /\ told' = told \cup {Manifest(j)}
         ELSE UNCHANGED <<bundle, told>>
  /\ job' = <<>>
  /\ UNCHANGED <<source, tree, registry, seen, builds, changes>>

Interrupt ==
  /\ job # <<>> /\ job' = <<>>
  /\ UNCHANGED <<source, tree, registry, bundle, told, seen, builds, changes>>

-----------------------------------------------------------------------------
(* Reading one node of an archive.                                            *)

(* Every blob has the digest its name states.                                 *)
Intact(a) == \A b \in a.blobs : b.name = b.data
Under(a, digest) == {b.data : b \in {x \in a.blobs : x.name = digest}}
(* The manifest is what is found under the digest the index states; the       *)
(* blobs a manifest names are compared with their digests once more.          *)
bundleManifest(a) == {d \in Under(a, [manifest |-> a.index]) : "manifest" \in DOMAIN d}
descriptorData(a, digest) == Under(a, digest) \cap {digest}
Holds(a, digest) == descriptorData(a, digest) # {}

(* The inputs of a node name a feature the manifest must declare.             *)
FeaturesDeclared(m, n) == m.nodes[n].plan.shared => m.shared

(* Payloads are those the node's material declares, each of them present.     *)
PayloadsHeld(a, record) ==
  /\ record.payloads \subseteq {e.payload : e \in record.material.exts}
  /\ \A p \in record.payloads : Holds(a, [payload |-> p])

ReadNode(n, expected) ==
  /\ bundle # <<>> /\ Len(seen) < MaxReads
  /\ LET a == bundle[1]
     IN  /\ Intact(a) /\ expected \in {<<>>, <<a.index>>}
         /\ \E d \in bundleManifest(a) :
              LET m == d.manifest
                  record == m.nodes[n]
              IN  /\ n \in DOMAIN m.nodes /\ FeaturesDeclared(m, n) /\ PayloadsHeld(a, record)
                  /\ \E s \in descriptorData(a, [source |-> m.source]),
                        t \in descriptorData(a, [material |-> record.material]),
                        p \in descriptorData(a, [plan |-> record.plan]) :
                       seen' = Append(seen, [node |-> n, digest |-> a.index, source |-> s.source,
                                             material |-> t.material, plan |-> p.plan,
                                             payloads |-> record.payloads])
  /\ UNCHANGED <<source, tree, registry, job, bundle, told, builds, changes>>

-----------------------------------------------------------------------------
(* Inspection: the effective configuration, where each value comes from, and  *)
(* what differs between two readings of a node.                               *)

Whole == {"endpoint", "version", "external", "controlPlane", "manage",
          "keys", "units", "disk", "address", "kubelet"}
ByName == {"sets", "exts", "vols", "labels"}
Effective(r) ==
  LET l == Merge(r.source.defaults, r.source.nodes[r.node].layer)
  IN  [endpoint |-> r.source.endpoint, version |-> r.source.version, external |-> r.source.external,
       controlPlane |-> r.source.nodes[r.node].controlPlane, manage |-> r.source.nodes[r.node].manage]
      @@ [f \in DOMAIN l |-> IF f \in ByName THEN Entries(l[f]) ELSE l[f]]

From(field, name, sub, used, own) ==
  IF used THEN {[field |-> field, name |-> name, sub |-> sub, own |-> own]} ELSE {}
Names(opt) == {e.name : e \in Entries(opt)}
HasField(sel, f) == sel # <<>> /\ sel[1][f] # <<>>
VolumeProvenance(v, own) ==
  LET Side(u, side) == IF u.sel = <<>> THEN <<>> ELSE u.sel[1][side]
      Own(Has(_)) == \E o \in own : Has(o)
      Disk(f) == LET Has(o) == HasField(Side(o, "disk"), f)
                 IN  From("vols", v.name, f, HasField(Side(v, "disk"), f), Own(Has))
      Part(f) == LET Has(o) == HasField(Side(o, "part"), f)
                 IN  From("vols", v.name, f, HasField(Side(v, "part"), f), Own(Has))
  IN  UNION {Disk(f) : f \in {"byID", "serial", "min"}} \cup UNION {Part(f) : f \in {"uuid", "byName"}}
      \cup From("vols", v.name, "fs", v.fs # <<>>, \E o \in own : o.fs # <<>>)
      \cup From("vols", v.name, "wipe", v.wipe # <<>>, \E o \in own : o.wipe # <<>>)
Provenance(own, all) ==
  UNION {From(f, "", "", all[f] # <<>>, own[f] # <<>>) : f \in {"keys", "units", "kubelet"}}
  \cup From("address", "", "", all.address # 0, own.address # 0)
  \cup UNION {UNION {From(f, m, "", TRUE, m \in Names(own[f])) : m \in Names(all[f])} : f \in {"sets", "exts", "labels"}}
  \cup UNION {From("disk", "", f, HasField(all.disk, f), HasField(own.disk, f)) : f \in {"byID", "serial", "min"}}
  \cup UNION {VolumeProvenance(v, {o \in Entries(own.vols) : o.name = v.name}) : v \in Entries(all.vols)}

(* publicEqual over each public path; named entries are compared one by one.  *)
Changes(a, b) ==
  {[field |-> f, name |-> ""] : f \in {f \in Whole : a[f] # b[f]}}
  \cup UNION {{[field |-> f, name |-> m] : m \in {m \in {e.name : e \in a[f] \cup b[f]} :
                 {e \in a[f] : e.name = m} # {e \in b[f] : e.name = m}}} : f \in ByName}
(* The class of a path, and that of a comparison: the strongest of its paths. *)
Class(field) ==
  CASE field \in {"external", "version", "endpoint", "controlPlane", "disk", "address", "kubelet", "labels"} -> 5
    [] field = "keys" -> 4
    [] field \in {"sets", "exts"} -> 3
    [] field \in {"vols", "units"} -> 2
    [] field = "manage" -> 1
TargetOnly == 1
Overall(diff) == CHOOSE k \in 0..5 : /\ \A c \in diff : Class(c.field) <= k
                                     /\ k = 0 \/ \E c \in diff : Class(c.field) = k

-----------------------------------------------------------------------------
(* Around the compiler: an operator edits the ClusterConfig and the files it  *)
(* names, tags move, and an archive is altered on its way.                    *)

MayChange == changes < MaxChanges /\ changes' = changes + 1
LayersOf(s) == {s.defaults} \cup {s.nodes[n].layer : n \in Nodes}
FilesOf(s) ==
  UNION {{e.from : e \in Present(l.sets)} : l \in LayersOf(s)} \cup Range(s.kubeadm)
  \cup UNION {Range(l.kubelet) : l \in LayersOf(s)}
ReposOf(s) == UNION {Names(l.exts) : l \in LayersOf(s)} \cup {"kubernetes"}

Edit(s) ==
  /\ MayChange /\ s # source
  /\ source' = s
  /\ UNCHANGED <<tree, registry, job, bundle, told, seen, builds>>

ChangeFile(f, content) ==
  /\ MayChange /\ f \in FilesOf(source) /\ tree[f] # content
  /\ tree' = [tree EXCEPT ![f] = content]
  /\ UNCHANGED <<source, registry, job, bundle, told, seen, builds>>

MoveTag(r, digest) ==
  /\ MayChange /\ r \in ReposOf(source) /\ registry[r] # digest
  /\ digest # 0 => Artifacts[digest].repo = r
  /\ registry' = [registry EXCEPT ![r] = digest]
  /\ UNCHANGED <<source, tree, job, bundle, told, seen, builds>>

(* Bound: only the last archive is altered, and once, after the changes.      *)
MayAlter == ~bundle[1].altered /\ job = <<>> /\ builds = MaxBuilds /\ changes = MaxChanges /\ seen = <<>>
Junk == [junk |-> 0]
Alter(b, data) ==
  /\ MayAlter /\ b \in bundle[1].blobs
  /\ bundle' = <<[bundle[1] EXCEPT !.blobs = (@ \ {b}) \cup data, !.altered = TRUE]>>
  /\ UNCHANGED <<source, tree, registry, job, told, seen, builds, changes>>
(* The blobs of another compilation are added, and its manifest stands under  *)
(* the digest of this one's.                                                  *)
BlobsOf(m) ==
  {[source |-> m.source]}
  \cup UNION {{[material |-> r.material], [plan |-> r.plan]} \cup {[payload |-> p] : p \in r.payloads} :
                r \in Range(m.nodes)}
Splice(m) ==
  LET a == bundle[1]
      name == [manifest |-> a.index]
  IN  /\ MayAlter /\ m # a.index
      /\ bundle' = <<[a EXCEPT !.altered = TRUE,
                         !.blobs = {b \in @ : b.name # name} \cup {[name |-> name, data |-> [manifest |-> m]]}
                                   \cup {[name |-> b, data |-> b] : b \in BlobsOf(m)}]>>
      /\ UNCHANGED <<source, tree, registry, job, told, seen, builds, changes>>
PointElsewhere(m) ==
  /\ MayAlter /\ m # bundle[1].index
  /\ bundle' = <<[bundle[1] EXCEPT !.index = m, !.altered = TRUE]>>
  /\ UNCHANGED <<source, tree, registry, job, told, seen, builds, changes>>

-----------------------------------------------------------------------------
Init ==
  /\ source \in UNION Families
  /\ tree = [f \in Files |-> 1] /\ registry = Registry
  /\ job = <<>> /\ bundle = <<>> /\ told = {} /\ seen = <<>>
  /\ builds = 0 /\ changes = 0

Next ==
  \/ \E sel \in Selections : StartBuild(sel)
  \/ ReadFile \/ AcquireExtension \/ FinishBuild \/ Interrupt
  \/ \E n \in Nodes, expected \in {<<>>} \cup {<<m>> : m \in told} : ReadNode(n, expected)
  \/ \E F \in Families : source \in F /\ \E s \in F : Edit(s)
  \/ \E f \in Files, c \in Contents : ChangeFile(f, c)
  \/ \E r \in Repos \cup {"kubernetes"}, d \in {0} \cup DOMAIN Artifacts : MoveTag(r, d)
  \/ bundle # <<>> /\ \E b \in bundle[1].blobs :
       \/ Alter(b, {})
       \/ Alter(b, {[b EXCEPT !.data = Junk]})
  \/ bundle # <<>> /\ \E m \in told : PointElsewhere(m) \/ Splice(m)

Spec == Init /\ [][Next]_vars

-----------------------------------------------------------------------------
(* Properties.                                                                *)

Readings == Range(seen)
OwnLayer(r) == r.source.nodes[r.node].layer

(* What a consumer accepts is, whole, one node of one bundle a compilation    *)
(* reported: an archive altered on its way, one whose parts come from two     *)
(* compilations, or whose manifest is another's under the digest the index    *)
(* states, is refused (consume.go readOCIArchive).                            *)
ReadsOneBuild ==
  \A r \in Readings : /\ r.digest \in told /\ r.source = r.digest.source
                      /\ r.node \in DOMAIN r.digest.nodes
                      /\ r.material = r.digest.nodes[r.node].material
                      /\ r.plan = r.digest.nodes[r.node].plan
                      /\ r.payloads = r.digest.nodes[r.node].payloads

(* The entries of a node, said without the merge: nothing when its own list   *)
(* is empty, else its own and the defaults it does not mention.               *)
LayeredNames(own, base) ==
  IF own = <<>> THEN Names(<<Present(base)>>)
  ELSE IF own[1] = {} THEN {}
  ELSE Names(<<Present(own)>>) \cup (Names(<<Present(base)>>) \ Names(own))
EntriesOfLayers ==
  \A r \in Readings, f \in {"sets", "exts", "vols"} :
    {e.name : e \in r.material[f]} = LayeredNames(OwnLayer(r)[f], r.source.defaults[f])

(* A disk is identified, and a wipe authorized, by the node's own layer and   *)
(* never by what it shares with others.                                       *)
TargetsAreOwn ==
  \A r \in Readings :
    /\ \A f \in {"byID", "serial"} :
         r.material.disk[1][f] # 0 => OwnLayer(r).disk # <<>> /\ OwnLayer(r).disk[1][f] = <<r.material.disk[1][f]>>
    /\ \A v \in r.material.vols :
         LET own == {o \in Present(OwnLayer(r).vols) : o.name = v.name}
         IN  /\ v.wipe => \E o \in own : o.wipe = <<TRUE>>
             /\ v.disk # <<>> /\ v.disk[1].serial # 0 =>
                  \E o \in own : o.sel # <<>> /\ o.sel[1].disk # <<>> /\ o.sel[1].disk[1].serial = <<v.disk[1].serial>>
             /\ v.uuid # 0 =>
                  \E o \in own : o.sel # <<>> /\ o.sel[1].part # <<>> /\ o.sel[1].part[1].uuid = <<v.uuid>>

(* Every extension of a node comes with its payload, built for the node's own *)
(* target, and is the artifact a pin names; a tag that moves while two nodes  *)
(* are resolved never yields a bundle with a payload missing.                 *)
PayloadsComplete ==
  \A r \in Readings : \A e \in r.material.exts :
    /\ e.payload \in r.payloads /\ Target[r.node] \in Artifacts[e.digest].targets
    /\ \A x \in Entries(Merge(r.source.defaults, OwnLayer(r)).exts) :
         x.name = e.name /\ x.pick # "tag" => e.digest = Reference(r.node, x).pin

(* Only an extension some selected node ends up with is fetched.              *)
FetchedOnlyUsed ==
  job # <<>> => \A c \in job[1].cache : \E n \in job[1].sel :
    c.ref.repo \in {e.name : e \in {e \in Present(Merge(job[1].src.defaults, job[1].src.nodes[n].layer).exts) :
                                      Reference(n, e) = c.ref}}

(* The layer a report names for a value is the layer that has that value.     *)
At(layer, p) ==
  LET Vol == {v \in Entries(layer.vols) : v.name = p.name}
      Side(side) == {v.sel[1][side][1][p.sub] : v \in {v \in Vol : v.sel # <<>> /\ v.sel[1][side] # <<>>}}
  IN  CASE p.field \in {"keys", "units", "kubelet", "address"} -> {layer[p.field]}
        [] p.field = "disk" -> {d[p.sub] : d \in Range(layer.disk)}
        [] p.field \in {"sets", "exts", "labels"} -> {e \in Entries(layer[p.field]) : e.name = p.name}
        [] p.field = "vols" /\ p.sub \in {"fs", "wipe"} -> {v[p.sub] : v \in Vol}
        [] p.field = "vols" /\ p.sub \in {"byID", "serial", "min"} -> Side("disk")
        [] p.field = "vols" /\ p.sub \in {"uuid", "byName"} -> Side("part")
ProvenanceTrue ==
  \A r \in Readings :
    LET all == Merge(r.source.defaults, OwnLayer(r))
    IN  \A p \in Provenance(OwnLayer(r), all) :
          At(IF p.own THEN OwnLayer(r) ELSE r.source.defaults, p) = At(all, p)

(* A comparison that lists nothing leaves the node as it is, but for what it  *)
(* does not look at: the kubeadm and kubelet input, the artifacts mutable     *)
(* references resolve to, and the control planes the API proxy lists.         *)
NothingListedNothingChanged ==
  \A i, k \in DOMAIN seen :
    LET a == seen[i] b == seen[k]
    IN  /\ a.node = b.node /\ Changes(Effective(a), Effective(b)) = {}
        /\ a.plan = b.plan /\ a.material.exts = b.material.exts
        /\ \A f \in {"kubernetes", "proxy", "endpoint"} : a.material[f] = b.material[f]
        => a.material = b.material

(* docs/operations/configure-nodes.md: changing only management.address       *)
(* changes workstation targeting and no state of the node. Refuted: without   *)
(* a Kubernetes address it is the address the API proxies are given.          *)
TargetOnlyKeepsNode ==
  \A i, k \in DOMAIN seen :
    LET a == seen[i] b == seen[k]
    IN  /\ a.node = b.node /\ Overall(Changes(Effective(a), Effective(b))) = TargetOnly
        => a.plan = b.plan /\ [a.material EXCEPT !.manage = 0] = [b.material EXCEPT !.manage = 0]
=============================================================================
