----------------------------- MODULE MCInstall ------------------------------
(* Instances of installing and upgrading a node: the installer's requests and *)
(* attempts, the disk it writes, the image both use, the host upgrade of an   *)
(* agent and the generation it plans.                                         *)
EXTENDS InstallerFlow, GenerationSpecs, Integers, TLC

CONSTANTS d1, d2, a1, oldBytes, foreign, blank

(* Layout requests around the limits of a small disk, on a machine with an    *)
(* old installation on the target; and one layout with volumes on the second  *)
(* disk, which is empty, carries volumes or data, or KatlOS labels.           *)
Layouts == [esp : {0, 1}, xbootldr : {0, 1}, rootA : {0, 1, 2}, rootB : {1, 2}, stateMin : {0, 1, 2},
             etcd : {-1, 0, 1}, runtime : {1, 2}, slot : {"", "root-b"}]

SmallLayout == [esp |-> 1, xbootldr |-> 0, rootA |-> 1, rootB |-> 1, stateMin |-> 1, etcd |-> -1,
                runtime |-> 1, slot |-> ""]

Labels(names, content) == [p \in names |-> content]
System == {"esp", "root-a", "root-b", "state"}

SecondDisks ==
  { Labels({}, blank), Labels(System, oldBytes), Labels({"esp"}, oldBytes), Labels({"state"}, oldBytes),
    Labels({"data", "u-v"}, oldBytes), Labels({"data", "u-v"}, foreign) }

Volume(name, kind, d, p, wipe) == [name |-> name, kind |-> kind, disk |-> d, part |-> p, wipe |-> wipe]

VolumeRequests ==
  LET one == {Volume("v", "disk", d, "", w) : d \in {d1, d2}, w \in BOOLEAN}
             \cup {Volume("v", "partition", d2, p, w) : p \in {"data", "esp"}, w \in BOOLEAN}
  IN {<<>>} \cup {<<v>> : v \in one}
     \cup {<<Volume("w", "partition", d2, "data", FALSE), v>> : v \in {x \in one : x.kind = "disk"}}

DiskRequests ==
  { [layout |-> l, volumes |-> <<>>, wipeTarget |-> TRUE,
     disks |-> [d \in {d1, d2} |-> IF d = d1 THEN Labels(System, oldBytes) ELSE Labels({}, blank)]] : l \in Layouts }
  \cup { [layout |-> SmallLayout, volumes |-> v, wipeTarget |-> w,
          disks |-> [d \in {d1, d2} |-> IF d = d1 THEN Labels({}, blank) ELSE s]] :
            v \in VolumeRequests, w \in BOOLEAN, s \in SecondDisks }

(* Images made of at most three components, sound ones and ones with a single *)
(* defect; every small download, upload and snapshot.                         *)
Sound(role) ==
  [role |-> role, digest |-> "d1", file |-> "d1", form |-> "ok", arch |-> "x86",
   iface |-> "i1", target |-> role, root |-> IF role = "runtime-uki" THEN "d1" ELSE "none",
   cmdline |-> TRUE]

Components ==
  LET root == Sound("runtime-root") uki == Sound("runtime-uki")
  IN  { root, uki, Sound("endpoint-advertiser"), Sound("kubernetes"), Sound("later-role"),
        [root EXCEPT !.digest = "d2", !.file = "d2"], [root EXCEPT !.file = "d2"],
        [root EXCEPT !.arch = "arm"], [uki EXCEPT !.root = "none"], [uki EXCEPT !.root = "d2"],
        [uki EXCEPT !.file = "d2"], [uki EXCEPT !.iface = "i2"], [uki EXCEPT !.iface = "none"],
        [uki EXCEPT !.cmdline = FALSE], [uki EXCEPT !.form = "dirty path"],
        [Sound("endpoint-advertiser") EXCEPT !.file = "d2"], [root EXCEPT !.target = "other"] }

Manifest == [header |-> TRUE, role |-> "upgrade", arch |-> "x86", iface |-> "i1",
          comps |-> <<>>, unknown |-> FALSE, release |-> "none"]

AllManifests ==
  { Manifest, [Manifest EXCEPT !.unknown = TRUE], [Manifest EXCEPT !.release = "index"],
    [Manifest EXCEPT !.release = "twice"], [Manifest EXCEPT !.release = "other"],
    [Manifest EXCEPT !.release = "unclosed"], [Manifest EXCEPT !.header = FALSE],
    [Manifest EXCEPT !.role = "install"], [Manifest EXCEPT !.iface = ""] }

AllTransfers ==
  [remote : BOOLEAN, measured : BOOLEAN, length : {0, 2, 6}, size : {0, 2, 6}, body : {2, 3, 6}, limit : {0, 2, 7},
   free : {3, 5, 7}, reserve : {3}, sha : {"none", "d1"}, digest : {"d1", "d2"}]

AllUploads ==
  [size : {0, 2, 3, 7}, chunks : SeqOf({0, 1, 2, 3}, 3), largest : {2}, most : {6}, free : {4, 6, 7},
   reserve : {3}, cut : BOOLEAN, metadataAgain : BOOLEAN, sha : {"d1"}, digest : {"d1", "d2"}]

AllSnapshots ==
  [first : 0..7, second : 0..7, reserve : {3}, most : {4}, bytes : 0..5]

(* Running generations with Kubernetes, an endpoint advertiser, extensions    *)
(* that follow the release or do not, and kernel modules; images with and     *)
(* without a release for them.                                                *)
FileOf(gen, dir, rel) == [gen |-> gen, dir |-> dir, rel |-> rel]
NoIndex == [runtime |-> "none", modules |-> {}]

Ref(name, dir, file, sha) ==
  [name |-> name, act |-> file, sha |-> sha, path |-> FileOf("g1", dir, <<file>>), version |-> "1",
   arch |-> "x86", ifaces |-> {"i1"}, kernel |-> "none", index |-> NoIndex]

Kubernetes == Ref("kubernetes", "sysext", "kubernetes.raw", "k1")
Generated == [name |-> "generated", act |-> "generated", sha |-> "c1", level |-> 1,
              path |-> FileOf("g1", "confext", <<"generated">>)]

(* System extensions: one follows the release, one is pinned, one is made  *)
(* of kernel modules.                                                      *)
Ext(repo, release, file, sha, kernel) ==
  [repo |-> repo, release |-> release, arch |-> "x86", ifaces |-> {"i1"}, kernel |-> kernel,
   payloads |-> {[file |-> file, sha |-> sha, role |-> "sysext"]}]

Follows == Ext("fol", TRUE, "f.raw", "f1", "none")
Pinned == Ext("pin", FALSE, "p.raw", "p1", "none")
Modules == Ext("mod", TRUE, "m.raw", "m1", "r1")

PinnedModules == [Modules EXCEPT !.release = FALSE]

ExtRef(d) == LET p == CHOOSE x \in d.payloads : TRUE
             IN  [Ref(d.repo \o "#" \o p.file, p.role, p.file, p.sha) EXCEPT !.kernel = d.kernel]

IndexRef == [Ref("katl-module-indexes", "sysext", "katl-module-indexes", "x1") EXCEPT
               !.index = [runtime |-> "r1", modules |-> {"m1"}]]

RootA == [slot |-> "root-a", uuid |-> "uuid-a", sha |-> "r1", iface |-> "i1", arch |-> "x86",
          flavour |-> "standard"]

Quiet == Opt("quiet", "")
Nosmt == Opt("nosmt", "")

Source(kubernetes, advertiser, selected, good, configured) ==
  LET mods == {d \in selected : d.kernel # "none"}
      sysexts == (IF kubernetes THEN <<Kubernetes>> ELSE <<>>)
                   \o (IF advertiser THEN <<Ref("katl-endpoint-advertiser", "sysext", "katl-endpoint-advertiser", "a1")>> ELSE <<>>)
                   \o [i \in DOMAIN SetToSeq(selected) |-> ExtRef(SetToSeq(selected)[i])]
                   \o (IF mods # {} THEN <<IndexRef>> ELSE <<>>)
      spec == [id |-> "g1", version |-> "v1", previous |-> "g0", root |-> RootA,
               boot |-> [uki |-> "katl-root-a", entry |-> "g1"],
               release |-> [runtime |-> "r1", iface |-> "i1"], sysexts |-> sysexts, bundled |-> <<>>,
               confexts |-> <<Generated>>,
               cmdline |-> <<Opt("root", "uuid-a"), Opt("katl.generation", "g1"), Nosmt>> \o configured,
               configured |-> configured, volumes |-> <<>>,
               upgrade |-> [op |-> "none", mode |-> "", gate |-> ""]]
  IN  [spec |-> spec, good |-> good, selected |-> selected,
       files |-> [p \in {l.source : l \in Range(AllLinks(spec))} |->
                    (CHOOSE l \in Range(AllLinks(spec)) : l.source = p).sha]]

SomeSources ==
  { Source(k, a, s, g, c) : k \in BOOLEAN, a \in BOOLEAN,
      s \in {{}, {Follows}, {Pinned}, {Pinned, Follows}, {Modules}, {Pinned, Modules}, {Follows, PinnedModules}},
      g \in {TRUE}, c \in {<<>>, <<Quiet>>} } \cup {Source(TRUE, FALSE, {}, FALSE, <<>>)}

Image(offers, cmdline, sha, advertiser, flavour) ==
  [role |-> "upgrade", version |-> "v2", sha |-> sha, iface |-> "i1", arch |-> "x86",
   flavour |-> flavour, cmdline |-> cmdline, advertiser |-> advertiser,
   release |-> [runtime |-> IF offers = {} THEN "none" ELSE sha, iface |-> "i1"], offers |-> offers]

Offered(repo, file, sha, kernel) == Ext(repo, TRUE, file, sha, kernel)

SomeImages ==
  { Image(o, c, "r2", a, f) :
      o \in {{}, {Offered("fol", "f.raw", "f2", "none"), Offered("mod", "m.raw", "m2", "r2")},
             {Offered("fol", "f.raw", "f2", "none"), Offered("mod", "m.raw", "m2", "r1")}},
      c \in {<<>>, <<Quiet>>, <<Opt("root", "uuid")>>}, a \in {"none", "a2"}, f \in {"standard"} }
  \cup {Image({}, <<>>, "r2", "a2", "lts")}
  \cup {[Image({}, <<>>, "r2", "a2", "standard") EXCEPT !.role = "install"],
        [Image({}, <<>>, "r2", "a2", "standard") EXCEPT !.iface = "i2"]}

Request(b, config, desired, domains, handoff, staged, late) ==
  [bootstrapped |-> b, config |-> config, desired |-> desired, domains |-> domains, etc |-> TRUE,
   configured |-> <<>>, handoff |-> handoff, staged |-> staged, late |-> late, records |-> TRUE]

SomeRequests ==
  { Request(b, FALSE, {}, {}, h, s, h) : b \in BOOLEAN, h \in BOOLEAN,
      s \in {"same", "other options", "other slot"} }
  \cup { Request(TRUE, TRUE, d, ds, h, "same", FALSE) : h \in BOOLEAN,
           d \in {{}, {Pinned}, {Pinned, Ext("two", FALSE, "p.raw", "p2", "none")}, {Ext("kub", FALSE, "q.raw", "q1", "none")}},
           ds \in {{}, {"host-configuration"}, {"kubernetes", "tmpfiles"}, {"kernel-command-line"}} }
  \cup { [Request(TRUE, TRUE, {Pinned}, {"tmpfiles"}, TRUE, "same", FALSE) EXCEPT !.etc = e, !.records = r] :
           e \in BOOLEAN, r \in BOOLEAN }

-----------------------------------------------------------------------------
(* The components do not share variables of the code, so a behaviour runs one *)
(* of them: part says which, and the variables of the others do not change.   *)
VARIABLES
  part, size, request, phase, disks, plan, done, mounted, rootUUID,
  input, answer, upgrade, slots, ws, rec, base, plans, faults, crashes,
  src, img, req, step, ext, store, receipt

diskVars == <<size, request, phase, disks, done, mounted, rootUUID>>
imageVars == <<input, answer>>
upgradeVars == <<upgrade, slots, ws, rec, base, plans, faults, crashes>>
planVars == <<src, img, req, step, ext, store, receipt>>

Disk == INSTANCE DiskInstall WITH
  Disks <- {d1, d2}, Target <- d1, SizesMiB <- {5, 6, 7, 8},
  Requests <- DiskRequests, Artifact <- a1, Kept <- oldBytes, Fresh <- blank, Torn <- HalfWritten
ImageChecks == INSTANCE KatlosImages WITH
  Word <- 8, Pool <- Components, MaxComponents <- 3,
  Indexes <- AllManifests, Transfers <- AllTransfers,
  Uploads <- AllUploads, Snapshots <- AllSnapshots
Upgrade == INSTANCE HostUpgrade WITH
  run <- upgrade, disk <- slots,
  Kinds <- {"plain", "handoff"}, Sources <- {"upload", "remote"},
  MaxOps <- 2, MaxPlans <- 3, MaxFaults <- 2, MaxCrashes <- 1,
  CrashModes <- {"plan", "exec", "prune"}
Plans == INSTANCE UpgradePlans WITH
  files <- store,
  Sources <- SomeSources, Images <- SomeImages, Requests <- SomeRequests,
  Candidate <- "g2", Machine <- "m"

Off == "not used"

NoInstaller == Init /\ disk = Blank /\ boot.action = "hold"
NoDisk ==
  /\ size = Off /\ request = Off /\ phase = Off /\ disks = Off
  /\ done = Off /\ mounted = Off /\ rootUUID = Off
NoImages == input = Off /\ answer = Off
NoUpgrade ==
  /\ upgrade = Off /\ slots = Off /\ ws = Off /\ rec = Off /\ base = Off
  /\ plans = Off /\ faults = Off /\ crashes = Off
NoPlans ==
  /\ src = Off /\ img = Off /\ req = Off /\ step = Off /\ ext = Off
  /\ store = Off /\ receipt = Off

(* The layout and the planned generation are both called plan.                *)
MCInit ==
  \/ part = "installer" /\ Init /\ NoDisk /\ NoImages /\ NoUpgrade /\ NoPlans /\ plan = Off
  \/ part = "disk" /\ NoInstaller /\ Disk!Init /\ NoImages /\ NoUpgrade /\ NoPlans
  \/ part = "images" /\ NoInstaller /\ NoDisk /\ ImageChecks!Init /\ NoUpgrade /\ NoPlans /\ plan = Off
  \/ part = "upgrade" /\ NoInstaller /\ NoDisk /\ NoImages /\ Upgrade!Init /\ NoPlans /\ plan = Off
  \/ part = "plans" /\ NoInstaller /\ NoDisk /\ NoImages /\ NoUpgrade /\ Plans!Init

MCNext ==
  /\ \/ part = "installer" /\ Next /\ UNCHANGED <<diskVars, imageVars, upgradeVars, planVars, plan>>
     \/ part = "disk" /\ Disk!Next /\ UNCHANGED <<vars, imageVars, upgradeVars, planVars>>
     \/ part = "images" /\ ImageChecks!Next /\ UNCHANGED <<vars, diskVars, upgradeVars, planVars, plan>>
     \/ part = "upgrade" /\ Upgrade!Next /\ UNCHANGED <<vars, diskVars, imageVars, planVars, plan>>
     \/ part = "plans" /\ Plans!Next /\ UNCHANGED <<vars, diskVars, imageVars, upgradeVars>>
  /\ UNCHANGED part

allVars == <<part, vars, diskVars, imageVars, upgradeVars, planVars, plan>>

MCSpec == MCInit /\ [][MCNext]_allVars

-----------------------------------------------------------------------------
(* Properties; those of the installer are stated in InstallerFlow.           *)

(* An attempt is retried only before the disk changed, a final status stays,  *)
(* a request under way is not replaced; the target is written only with       *)
(* permission, another disk only where a volume wipes it or by a KatlOS label *)
(* it carries.                                                                *)
InstallStepsSafe ==
  [][/\ part = "installer" => AttemptStepSafe
     /\ part = "disk" => Disk!WritesWherePermitted]_allVars

(* An accepted layout fits the disk and an installed disk boots, by a loader  *)
(* that may be on another disk only if that carries its label; an accepted    *)
(* image boots the root it names, an upload is the bytes it names, downloads  *)
(* keep the reserve, and so do snapshots unless the free space fell below it  *)
(* between their two readings.                                                *)
ImagesAndDisksSound ==
  /\ part = "disk" => Disk!LayoutFits /\ Disk!InstalledBoots
  /\ part = "images" => /\ ImageChecks!AcceptedBootsItsRoot /\ ImageChecks!OpaqueExtendsStrict
                        /\ ImageChecks!FetchedKeepsReserve /\ ImageChecks!UploadNamesItsBytes
                        /\ ImageChecks!SnapshotKeepsReserve

(* Whatever fails or dies during an upgrade, mounted images keep their        *)
(* backing, a failure is reported as far as it got, an entry the firmware is  *)
(* sent to has a verified slot, a success released its image, a handoff is    *)
(* published whole.                                                           *)
(* The generation it publishes keeps Kubernetes, has every file and only      *)
(* modules of its runtime, boots by its own entry, carries only host domains, *)
(* and is the one that was planned.                                           *)
UpgradeHonest ==
  /\ part = "upgrade" => /\ Upgrade!BackingKept /\ Upgrade!HonestFailure /\ Upgrade!ArmedIsVerified
                         /\ Upgrade!SucceededIsArmedAndReleased /\ Upgrade!HandoffPublishesWhole
  /\ part = "plans" => /\ Plans!KubernetesKept /\ Plans!CandidateIsWhole /\ Plans!ModulesFitRuntime
                       /\ Plans!EntryBootsCandidate /\ Plans!CarriesOnlyHostDomains
                       /\ Plans!PlannedIsPublished
=============================================================================
