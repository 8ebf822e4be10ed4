-------------------------- MODULE GenerationSpecs --------------------------
(***************************************************************************)
(* The immutable part of a generation: which root it boots, which          *)
(* extensions and configuration layers it activates, and the loader entry  *)
(* rendered from it.  Pure definitions, shared by the modules that plan,   *)
(* publish and activate generations.                                       *)
(*                                                                         *)
(* A path below the generation directory is a record [gen, dir, rel]: the  *)
(* generation that owns it, the kind directory and the segments below it.  *)
(* A kernel option is a record [key, val].  "none" stands for an absent    *)
(* value or marks an absent record, "" for an empty string.                *)
(***************************************************************************)
EXTENDS Naturals, Sequences, FiniteSets, SequencesExt

-----------------------------------------------------------------------------
(* Kernel command line (internal/kernelcmdline).                           *)

ProtectedKeys ==
  {"ro", "rw", "console=tty", "root", "rootfstype", "init", "rdinit", "usr", "mount.usr",
   "systemd.machine_id", "systemd.getty_auto", "systemd.gpt_auto", "systemd.unit",
   "rd.systemd.unit", "systemd.volatile", "systemd.verity", "systemd.image_policy",
   "katl.generation", "katl.root-slot"}

Protected(o) == o.key \in ProtectedKeys

Once(options) == \A i, j \in DOMAIN options : options[i] = options[j] => i = j

(* An empty or spaced argument has the form "bad".                         *)
ValidateConfigured(options) ==
  Once(options) /\ \A o \in Range(options) : o.val # "bad" /\ ~Protected(o)

ValidateRequiredCompatibility(configured, required) ==
  Range(configured) \cap Range(required) = {}

ValidateEffective(configured, effective) ==
  ValidateConfigured(configured) /\ Range(configured) \subseteq Range(effective)

AppendNew(out, o) == IF o \in Range(out) THEN out ELSE Append(out, o)

ReplaceConfigured(base, previous, desired) ==
  LET Keep(o) == o \notin Range(previous)
  IN  FoldLeft(AppendNew, <<>>, SelectSeq(base, Keep) \o desired)

MergeCurrent(base, current, replaced) ==
  LET Keep(o) == ~Protected(o) /\ o \notin Range(replaced)
  IN  FoldLeft(AppendNew, base, SelectSeq(current, Keep))

-----------------------------------------------------------------------------
(* Extensions.  A reference: name, path, activation name (in the directory *)
(* of its kind), digest, version, architecture, runtime interfaces, and    *)
(* for kernel modules the contract: the runtime build it was made for.     *)

ValidatePair(root, ref) ==
  /\ ref.index.runtime # "none" => ref.index.runtime = root.sha /\ ref.kernel = "none"
  /\ ref.kernel # "none" => ref.kernel = root.sha
  /\ root.iface # "" /\ root.arch # "" /\ ref.name # ""
  /\ ref.arch = root.arch
  /\ root.iface \in ref.ifaces

WithModules(refs) == {r \in Range(refs) : r.kernel # "none"}
WithIndexes(refs) == {i \in DOMAIN refs : refs[i].index.runtime # "none"}

(* kernelmodule.IndexInputs: the build and the set of contracts selected.  *)
IndexInputs(refs) == [runtime |-> (CHOOSE r \in WithModules(refs) : TRUE).kernel,
                      modules |-> {r.sha : r \in WithModules(refs)}]

ValidateModuleIndexes(refs) ==
  /\ Cardinality(WithIndexes(refs)) <= 1
  /\ WithModules(refs) = {} => WithIndexes(refs) = {}
  /\ WithModules(refs) # {} =>
       /\ \A r, s \in WithModules(refs) : r.kernel = s.kernel
       /\ \E i \in WithIndexes(refs) : refs[i].index = IndexInputs(refs)

NormalizeGeneratedConfext(c) == c.path.rel # <<>> /\ c.sha # "bad" /\ c.level >= 1

(* The directory digests of generated layers and the digest of a file are  *)
(* the identity of the bytes.                                              *)
ValidateExtensionRelease(root, release) ==
  release.runtime # "none" => release.runtime = root.sha /\ release.iface = root.iface

CleanVolumeBindings(bindings) ==
  /\ \A b \in Range(bindings) : b.name # "" /\ {b.part, b.fs} # {""}
  /\ \A i, j \in DOMAIN bindings : bindings[i].name = bindings[j].name => i = j

ValidateRecord(s) ==
  /\ ValidateExtensionRelease(s.root, s.release)
  /\ s.root.flavour # "unknown"
  /\ ValidateEffective(s.configured, s.cmdline)
  /\ \A r \in Range(s.sysexts) \cup Range(s.bundled) : ValidatePair(s.root, r)
  /\ CleanVolumeBindings(s.volumes)

ValidateGenerationSpec(s) ==
  /\ ValidateRecord(s)
  /\ "" \notin {s.id, s.version, s.root.slot, s.root.uuid, s.root.iface, s.root.arch, s.boot.uki}
  /\ s.root.sha # "bad"
  /\ \A c \in Range(s.confexts) : NormalizeGeneratedConfext(c)
  /\ s.upgrade.op # "none" => s.upgrade.op # "" /\ s.upgrade.mode # "" /\ s.upgrade.gate # ""

(* The digest of a specification is the specification itself.              *)
CanonicalSpecDigest(s) == s

-----------------------------------------------------------------------------
(* PlanActivation: what the boot links into /run/extensions and            *)
(* /run/confexts.  Every source is below this generation's directory of    *)
(* its kind and no two share an activation path.                           *)

CleanGenerationPath(id, path, kind) == path.gen = id /\ path.dir = kind

ActivationPath(kind, ref) ==
  <<IF kind = "sysext" THEN "extensions" ELSE "confexts", ref.act>>

Links(kind, refs) ==
  [i \in DOMAIN refs |-> [source |-> refs[i].path, sha |-> refs[i].sha,
                          at |-> ActivationPath(kind, refs[i])]]

AllLinks(s) == Links("sysext", s.sysexts) \o Links("bundled-confext", s.bundled)
                 \o Links("confext", s.confexts)

PlanActivation(s) ==
  /\ ValidateRecord(s) /\ ValidateModuleIndexes(s.sysexts)
  /\ \A r \in Range(s.sysexts) : CleanGenerationPath(s.id, r.path, "sysext")
  /\ \A r \in Range(s.bundled) : CleanGenerationPath(s.id, r.path, "bundled-confext")
  /\ \A r \in Range(s.confexts) : CleanGenerationPath(s.id, r.path, "confext")
  /\ \A r \in Range(s.sysexts) \cup Range(s.bundled) \cup Range(s.confexts) : r.act # ""
  /\ LET links == AllLinks(s)
     IN  \A i, j \in DOMAIN links : links[i].at = links[j].at => i = j

SelectedKubernetes(refs) == {r \in Range(refs) : r.name = "kubernetes"}

-----------------------------------------------------------------------------
(* Loader entries.  entryOptions puts the identity of the generation first *)
(* and refuses an option of the record that contradicts it.                *)

Opt(k, v) == [key |-> k, val |-> v]

IdentityOptions(s, machine) ==
  << Opt("root", s.root.uuid), Opt("rootfstype", "squashfs"), Opt("ro", ""),
     Opt("systemd.gpt_auto", "no"), Opt("systemd.machine_id", machine),
     Opt("katl.generation", s.id), Opt("katl.root-slot", s.root.slot) >>

IdentityKeys == {"root", "rootfstype", "ro", "systemd.gpt_auto", "systemd.machine_id",
                 "katl.generation", "katl.root-slot"}

EntryOptions(s, machine) ==
  LET base == IdentityOptions(s, machine)
      Extra(o) == o.key \notin IdentityKeys
  IN  IF \A o \in Range(s.cmdline) :
            o.val # "bad" /\ o.key # "rw" /\ (o.key \in IdentityKeys => o \in Range(base))
        THEN [ok |-> TRUE, options |-> base \o SelectSeq(s.cmdline, Extra)]
        ELSE [ok |-> FALSE]

(* The title carries the flavour of the kernel.                            *)
FlavourSuffix(flavour) == IF flavour = "lts" THEN "-lts" ELSE ""

RenderEntry(s, machine) ==
  LET options == EntryOptions(s, machine)
  IN  IF "" \notin {s.id, s.version, s.root.slot, s.root.uuid, s.boot.uki, machine} /\ options.ok
        THEN [ok |-> TRUE, name |-> s.id, title |-> FlavourSuffix(s.root.flavour),
              version |-> s.version, efi |-> s.boot.uki, options |-> options.options]
        ELSE [ok |-> FALSE]
=============================================================================
