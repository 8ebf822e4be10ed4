---------------------------- MODULE UpgradePlans ----------------------------
(***************************************************************************)
(* What a host upgrade plans to boot: the candidate generation made from   *)
(* the running one and a KatlOS image, the assets that back it, its        *)
(* publication, and, for an image newer than the running release, the      *)
(* handoff the image's own planner must fit into and the receipt by which  *)
(* the running release recognises the result.                              *)
(*                                                                         *)
(* The input is chosen in Init; each step is one function of the code.     *)
(* files maps the paths of the generation store to the bytes they hold.    *)
(***************************************************************************)
EXTENDS GenerationSpecs, TLC

CONSTANTS
  Sources,     \* running generations: spec, status, selections, machine
  Images,      \* images: release, runtime, contract, advertiser
  Requests,    \* requests: bootstrapped, configuration, way of planning
  Candidate,   \* the identifier of the generation to be made
  Machine      \* the machine-id of the node

VARIABLES
  src, img, req,   \* the input
  step,            \* where preparation is
  ext,             \* the planned system extensions
  plan,            \* the planned generation and its assets
  files,           \* the generation store: path -> bytes
  receipt          \* the target planner's receipt, and the source's verdict

vars == <<src, img, req, step, ext, plan, files, receipt>>

NoPlan == [ok |-> FALSE]
NoReceipt == [written |-> FALSE, accepted |-> FALSE]

Path(gen, dir, rel) == [gen |-> gen, dir |-> dir, rel |-> rel]

-----------------------------------------------------------------------------
(* Extensions that follow the release.                                     *)

(* PlanSystemExtensions with ValidateSystemExtensionMaterials: within the  *)
(* selections planned, payload names are owned once and fit the runtime.   *)
PlanSystemExtensions(desired, root) ==
  LET payloads == UNION {{[d |-> d, p |-> p] : p \in d.payloads} : d \in desired}
  IN  IF /\ \A d \in desired : d.arch = root.arch /\ root.iface \in d.ifaces
                               /\ (d.kernel # "none" => d.kernel = root.sha)
         /\ \A x, y \in payloads : x.p.role = y.p.role /\ x.p.file = y.p.file => x = y
        THEN [ok |-> TRUE,
              refs |-> {[name |-> x.d.repo \o "#" \o x.p.file, act |-> x.p.file, sha |-> x.p.sha,
                         path |-> Path(Candidate, x.p.role, <<x.p.file>>), version |-> "1",
                         arch |-> x.d.arch, ifaces |-> x.d.ifaces, kernel |-> x.d.kernel,
                         index |-> [runtime |-> "none", modules |-> {}]] : x \in payloads}]
        ELSE [ok |-> FALSE]

PayloadIDs(d) == {d.repo \o "#" \o p.file : p \in d.payloads}

(* planHostExtensions: an explicit selection keeps its artifact, one that  *)
(* names the release is resolved again from the image's.                   *)
PlanHostExtensions(selected, image, root) ==
  LET following == {d \in selected : d.release}
      resolved == {n \in image.offers : \E d \in following : d.repo = n.repo}
      planned == PlanSystemExtensions(resolved, root)
  IN  IF /\ following # {} => image.release.runtime # "none"
         /\ \A d \in following : \E n \in resolved : n.repo = d.repo
         /\ planned.ok
        THEN [ok |-> TRUE, refs |-> planned.refs, config |-> FALSE,
              replace |-> UNION {PayloadIDs(d) : d \in following}]
        ELSE NoPlan

AllowedDomains ==
  {"generation-retention", "ssh-operator-access", "system-extensions", "host-configuration",
   "modules-load", "tmpfiles", "resolved", "api-proxy"}

(* planUpgradeConfig of a document that changes something: the whole new   *)
(* selection replaces the whole old one, only domains that a host upgrade  *)
(* can carry may change, and the files must pass ValidateNativeEtcBundle.  *)
PlanUpgradeConfig(selected, desired, domains, etc, root) ==
  LET planned == PlanSystemExtensions(desired, root)
  IN  IF domains \subseteq AllowedDomains /\ etc /\ planned.ok
        THEN [ok |-> TRUE, refs |-> planned.refs, config |-> TRUE,
              replace |-> UNION {PayloadIDs(d) : d \in selected}] ELSE NoPlan

-----------------------------------------------------------------------------
(* HostUpgradePlan.                                                        *)

ValidateHostUpgradeSource(s) ==
  /\ ValidateGenerationSpec(s.spec) /\ s.good
  /\ req.bootstrapped => SelectedKubernetes(s.spec.sysexts) # {}

ValidateUpgradeCompatibility(root, image) ==
  image.arch = root.arch /\ image.iface = root.iface

RehomeGenerationPath(path, kind) ==
  IF path.gen = src.spec.id /\ path.dir = kind
    THEN Path(Candidate, kind, path.rel)
    ELSE Path(Candidate, kind, <<Last(path.rel)>>)

Rehomed(ref, kind) == [ref EXCEPT !.path = RehomeGenerationPath(@, kind)]

Asset(ref, kind) == [from |-> ref.path, to |-> RehomeGenerationPath(ref.path, kind), sha |-> ref.sha]

Root(image, slot, uuid) ==
  [slot |-> slot, uuid |-> uuid, sha |-> image.sha, iface |-> image.iface, arch |-> image.arch,
   flavour |-> image.flavour]

Advertiser == "katl-endpoint-advertiser"

Kept(refs, replace) ==
  LET Keep(r) == r.index.runtime = "none" /\ r.name \notin replace IN SelectSeq(refs, Keep)

(* upgradeSysexts: what it checks before it rehomes the kept ones.         *)
UpgradeSysextsChecks(kept, root) ==
  /\ req.bootstrapped => SelectedKubernetes(kept) # {}
  /\ \A k \in SelectedKubernetes(kept) : ValidatePair(root, k)
  /\ \A i, j \in DOMAIN kept : kept[i].name = Advertiser /\ kept[j].name = Advertiser => i = j
  /\ \A r \in Range(kept) : r.name = Advertiser => img.advertiser # "none"

EndpointAdvertiserExtensionRef(root) ==
  [name |-> Advertiser, act |-> Advertiser, sha |-> img.advertiser,
   path |-> Path(Candidate, "sysext", <<Advertiser>>), version |-> "1", arch |-> root.arch,
   ifaces |-> {root.iface}, kernel |-> "none", index |-> [runtime |-> "none", modules |-> {}]]

UpgradeSysexts(kept, root) ==
  [i \in DOMAIN kept |-> IF kept[i].name = Advertiser THEN EndpointAdvertiserExtensionRef(root)
                                                       ELSE Rehomed(kept[i], "sysext")]

PreservedSysexts(kept) == {Asset(r, "sysext") : r \in {x \in Range(kept) : x.name # Advertiser}}

(* prepareHostModuleIndexes: one index image for the modules selected.     *)
PrepareModuleIndexes(sysexts, root) ==
  IF WithModules(sysexts) = {} THEN sysexts
  ELSE Append(sysexts,
         [name |-> "katl-module-indexes", act |-> "katl-module-indexes", sha |-> "indexes",
          path |-> Path(Candidate, "sysext", <<"katl-module-indexes">>), version |-> "1",
          arch |-> root.arch, ifaces |-> {root.iface}, kernel |-> "none",
          index |-> IndexInputs(sysexts)])

RehomeConfexts(confexts) == [i \in DOMAIN confexts |-> Rehomed(confexts[i], "confext")]

(* prepareUpgradeConfig: the generated layer is rendered afresh, its asset *)
(* replaced, and the configured arguments are the desired manifest's.      *)
PrepareUpgradeConfig(confexts) ==
  [i \in DOMAIN confexts |-> IF confexts[i].name = "generated" THEN [confexts[i] EXCEPT !.sha = "rendered"]
                                                              ELSE confexts[i]]

(* The desired manifest's arguments: the running ones unless the document  *)
(* changes their domain.                                                   *)
DesiredConfigured == IF "kernel-command-line" \in req.domains THEN req.configured ELSE src.spec.configured

ByActivation(refs, role) == SetToSeq({r \in refs : r.path.dir = role})

HostUpgradePlan(slot, uuid, uki) ==
  LET previous == src.spec
      root == Root(img, slot, uuid)
      kept == Kept(previous.sysexts, ext.replace)
      bundled == Kept(previous.bundled, ext.replace)
      confexts == RehomeConfexts(previous.confexts)
      sysexts == UpgradeSysexts(kept, root) \o ByActivation(ext.refs, "sysext")
      merged == MergeCurrent(img.cmdline, previous.cmdline, <<>>)
      spec == [id |-> Candidate, version |-> img.version, previous |-> previous.id, root |-> root,
               boot |-> [uki |-> uki, entry |-> Candidate], release |-> img.release,
               sysexts |-> PrepareModuleIndexes(sysexts, root),
               bundled |-> [i \in DOMAIN bundled |-> Rehomed(bundled[i], "bundled-confext")]
                             \o ByActivation(ext.refs, "bundled-confext"),
               confexts |-> IF ext.config THEN PrepareUpgradeConfig(confexts) ELSE confexts,
               cmdline |-> IF ext.config THEN ReplaceConfigured(merged, previous.configured, DesiredConfigured)
                                         ELSE merged,
               configured |-> IF ext.config THEN DesiredConfigured ELSE previous.configured,
               volumes |-> previous.volumes, upgrade |-> [op |-> "none", mode |-> "", gate |-> ""]]
  IN  IF /\ img.role = "upgrade" /\ ValidateHostUpgradeSource(src)
         /\ Candidate # previous.id /\ slot # previous.root.slot /\ uuid # "" /\ uki # ""
         /\ ValidateUpgradeCompatibility(previous.root, img)
         /\ ValidateRequiredCompatibility(previous.configured, img.cmdline)
         /\ UpgradeSysextsChecks(kept, root)
         /\ \A r \in Range(bundled) : ValidatePair(root, r)
         /\ WithModules(sysexts) # {} => img.release.runtime # "none"
         /\ ext.config => \E c \in Range(confexts) : c.name = "generated"
         /\ ValidateGenerationSpec(spec)
        THEN [ok |-> TRUE, spec |-> spec,
              preserved |-> PreservedSysexts(kept)
                              \cup {Asset(r, "bundled-confext") : r \in Range(bundled)}
                              \cup {Asset(c, "confext") : c \in
                                      {x \in Range(previous.confexts) : ~ext.config \/ x.name # "generated"}},
              default |-> previous.id, trial |-> Candidate]
        ELSE NoPlan

(* ValidateUpgradeAssets: the sources hold what the plan says.             *)
Holds(path, sha) == path \in DOMAIN files /\ files[path] = sha
ValidateUpgradeAssets(p) == \A a \in p.preserved : Holds(a.from, a.sha)

-----------------------------------------------------------------------------
(* Steps.                                                                  *)

InactiveRoot(slot) == IF slot = "root-a" THEN "root-b" ELSE "root-a"
PlannedUKI == "katl-" \o InactiveRoot(src.spec.root.slot)

Init ==
  /\ src \in Sources /\ img \in Images /\ req \in Requests
  /\ step = "extensions" /\ ext = NoPlan /\ plan = NoPlan /\ receipt = NoReceipt
  /\ files = src.files

Refuse == step' = "refused" /\ UNCHANGED <<src, img, req, ext, plan, files, receipt>>

(* The domains the document changes: PlanTrustedBundle compares it with    *)
(* the running configuration.                                              *)
ChangedDomains ==
  req.domains \cup (IF req.desired # src.selected THEN {"system-extensions"} ELSE {})

(* planHostUpgradeWithHandoff, up to the extensions.  A document that      *)
(* changes no domain (ErrNoChanges) is planned as if there were none.      *)
NoChanges == ~req.config \/ ChangedDomains = {}

PlanExtensions ==
  /\ step = "extensions"
  /\ LET root == Root(img, InactiveRoot(src.spec.root.slot), "uuid")
         e == IF NoChanges THEN PlanHostExtensions(src.selected, img, root)
              ELSE PlanUpgradeConfig(src.selected, req.desired, ChangedDomains, req.etc, root)
     IN  IF e.ok THEN ext' = e /\ step' = "plan" /\ UNCHANGED <<src, img, req, plan, files, receipt>>
                 ELSE Refuse

(* ... and the plan with its assets.                                       *)
PlanHostUpgrade ==
  /\ step = "plan"
  /\ LET p == HostUpgradePlan(InactiveRoot(src.spec.root.slot), "uuid", PlannedUKI)
     IN  IF p.ok /\ PlannedUKI # src.spec.boot.uki /\ ValidateUpgradeAssets(p)
           THEN plan' = p /\ step' = "commit" /\ UNCHANGED <<src, img, req, ext, files, receipt>>
           ELSE Refuse

(* The boot record executeHostUpgradeHandoff makes before it knows what    *)
(* the target will plan, and the entry it writes into the private view     *)
(* (with the image's flavour) and later to the ESP (without).              *)
BootRecord(flavour) ==
  LET slot == InactiveRoot(src.spec.root.slot)
  IN  [id |-> Candidate, version |-> img.version, boot |-> [uki |-> PlannedUKI, entry |-> Candidate],
       root |-> [slot |-> slot, uuid |-> "uuid", flavour |-> flavour],
       cmdline |-> IF req.staged = "other options" THEN img.cmdline
                   ELSE MergeCurrent(img.cmdline, src.spec.cmdline, <<>>)]

PrivateEntry == RenderEntry(BootRecord(img.flavour), Machine)
LiveEntry == RenderEntry(BootRecord("standard"), Machine)

Staged == [slot |-> IF req.staged = "other slot" THEN src.spec.root.slot
                    ELSE InactiveRoot(src.spec.root.slot),
           uuid |-> "uuid", uki |-> PlannedUKI, entry |-> Candidate, rendered |-> PrivateEntry,
           source |-> src.spec.id, image |-> img.sha, config |-> req.config]

(* The boot contract the source staged before the target planned.          *)

HandoffContract(h) ==
  /\ plan.spec.root.slot = h.slot /\ plan.spec.root.uuid = h.uuid /\ plan.spec.boot.uki = h.uki
  /\ plan.spec.boot.entry = h.entry
  /\ RenderEntry(plan.spec, Machine) = h.rendered

(* StagePreservedAssets, StageBundledAssets and MaterializeSystemExtensions:*)
(* the bytes of the candidate's own directory.                             *)
StagedFiles ==
  LET preserved == [p \in {a.to : a \in plan.preserved} |->
                      files[(CHOOSE a \in plan.preserved : a.to = p).from]]
      others == {r \in Range(plan.spec.sysexts) \cup Range(plan.spec.bundled) \cup Range(plan.spec.confexts) :
                   r.path \notin DOMAIN preserved \/ r \in ext.refs}
  IN  [p \in {r.path : r \in others} |-> (CHOOSE r \in others : r.path = p).sha] @@ preserved @@ files

(* ... and its records.  On the handoff the target's own release writes    *)
(* them: the source takes nothing of what it left for granted.             *)
Records == {Path(Candidate, "record", <<n>>) : n \in {"spec.json", "status.json"}}
Recorded == [p \in Records |-> IF req.handoff /\ ~req.records THEN "" ELSE "record"]

(* commitPreparedHostUpgrade (and stageHostUpgrade's end on the plain way).*)
CommitPreparedHostUpgrade ==
  /\ step = "commit"
  /\ IF (req.handoff => HandoffContract(Staged))
       THEN /\ files' = IF PlanActivation(plan.spec) THEN Recorded @@ StagedFiles ELSE StagedFiles
            /\ step' = IF PlanActivation(plan.spec) THEN "committed" ELSE "unpublished"
            /\ UNCHANGED <<src, img, req, ext, plan, receipt>>
       ELSE Refuse

(* writePreparedUpgradeResult, then whatever happens to the candidate's    *)
(* directory, then readPreparedUpgradeResult by the running release, which *)
(* also meets a planner that ended without a result.                       *)
CandidateFiles(fs) == {<<p, fs[p]>> : p \in {q \in DOMAIN fs : q.gen = Candidate}}

WritePreparedUpgradeResult ==
  /\ step = "committed" /\ req.handoff /\ ~receipt.written
  /\ receipt' = [written |-> TRUE, accepted |-> FALSE, slot |-> Staged.slot,
                 uuid |-> Staged.uuid, uki |-> Staged.uki, entry |-> Staged.entry,
                 source |-> Staged.source, image |-> Staged.image, config |-> Staged.config,
                 version |-> plan.spec.version, runtime |-> plan.spec.root.sha,
                 digest |-> CandidateFiles(files)]
  /\ UNCHANGED <<src, img, req, step, ext, plan, files>>

LateWrite ==
  /\ step = "committed" /\ receipt.written /\ req.late
  /\ \E p \in {q \in DOMAIN files : q.gen = Candidate} :
       files[p] # "torn" /\ files' = [files EXCEPT ![p] = "torn"]
  /\ UNCHANGED <<src, img, req, step, ext, plan, receipt>>

ReceiptMatches(r) ==
  /\ r.slot = Staged.slot /\ r.uuid = Staged.uuid /\ r.uki = Staged.uki /\ r.entry = Staged.entry
  /\ r.source = Staged.source /\ r.image = Staged.image /\ r.config = Staged.config
  /\ r.version = img.version /\ r.runtime = img.sha
  /\ \A p \in Records : p \in DOMAIN files /\ files[p] # ""
  /\ r.digest = CandidateFiles(files)

ReadPreparedUpgradeResult ==
  /\ step = "committed" /\ req.handoff
  /\ step' = "read"
  /\ receipt' = [receipt EXCEPT !.accepted = receipt.written /\ ReceiptMatches(receipt)]
  /\ UNCHANGED <<src, img, req, ext, plan, files>>

Next ==
  \/ PlanExtensions \/ PlanHostUpgrade \/ CommitPreparedHostUpgrade
  \/ WritePreparedUpgradeResult \/ LateWrite \/ ReadPreparedUpgradeResult

Spec == Init /\ [][Next]_vars

-----------------------------------------------------------------------------
(* Properties.                                                             *)

(* What the running release makes bootable: its own plan, or the target's  *)
(* once its receipt is accepted.                                           *)
Published == (step = "committed" /\ ~req.handoff) \/ (step = "read" /\ receipt.accepted)

(* A bootstrapped node never boots an upgrade without the Kubernetes it    *)
(* runs: the candidate carries the same payload, byte for byte, whatever   *)
(* extensions the release or the operator replaces on the way.             *)
KubernetesKept ==
  plan.ok /\ req.bootstrapped =>
    {k.sha : k \in SelectedKubernetes(plan.spec.sysexts)}
      = {k.sha : k \in SelectedKubernetes(src.spec.sysexts)}

(* A published candidate is self-contained: it has its records, and all it *)
(* activates lies in its own directory and holds the bytes it declares, so *)
(* removing the generation it was made from cannot break it.               *)
CandidateIsWhole ==
  Published => /\ \A p \in Records : Holds(p, "record")
               /\ \A l \in Range(AllLinks(plan.spec)) :
                    l.source.gen = Candidate /\ Holds(l.source, l.sha)

(* Every kernel module and index the candidate activates was built for the *)
(* runtime it boots.                                                       *)
ModulesFitRuntime ==
  Published => \A r \in Range(plan.spec.sysexts) :
    /\ r.kernel # "none" => r.kernel = img.sha /\ \E x \in Range(plan.spec.sysexts) :
                                                    r.sha \in x.index.modules
    /\ r.index.runtime # "none" => r.index.runtime = img.sha

(* The entry on the ESP: the plan's, or the one the source made itself     *)
(* before the handoff, which does not know the image's flavour.            *)
EspEntry == IF req.handoff THEN LiveEntry ELSE RenderEntry(plan.spec, Machine)

(* The entry on the ESP boots the candidate: whatever the running boot and *)
(* the image put on the command line, the root, the generation and the     *)
(* machine are named once, and configured arguments are on it.  But for    *)
(* the title of an LTS image after a handoff, it is the planned entry.     *)
EntryBootsCandidate ==
  Published /\ EspEntry.ok =>
    /\ \A k \in IdentityKeys :
         Cardinality({i \in DOMAIN EspEntry.options : EspEntry.options[i].key = k}) = 1
    /\ Opt("root", plan.spec.root.uuid) \in Range(EspEntry.options)
    /\ Range(plan.spec.configured) \subseteq Range(EspEntry.options)
    /\ \E t \in {EspEntry.title} \cup (IF req.handoff /\ img.flavour = "lts" THEN {"-lts"} ELSE {}) :
         [EspEntry EXCEPT !.title = t] = RenderEntry(plan.spec, Machine)

(* An upgrade carries no configuration change that needs another workflow. *)
CarriesOnlyHostDomains ==
  plan.ok /\ req.config => ChangedDomains \cap {"kubernetes", "volumes", "kernel-command-line"} = {}

(* Planning accepts only what can be published: a refusal comes before the *)
(* inactive slot is written.                                               *)
PlannedIsPublished == step # "unpublished"
=============================================================================
