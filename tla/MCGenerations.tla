--------------------------- MODULE MCGenerations ----------------------------
(* Instances of what a boot is made of: the units of a boot, and the records  *)
(* of the generations with the activation of one.                             *)
EXTENDS GenerationStore, TLC

CONSTANTS w1, w2

(* Any one unit that Katl starts fails, or hangs.                             *)
Payload == {"kubeadm", "kubelet", "crictl"}
NoFault == [fails |-> {}, hangs |-> {}]
One(units) == UNION {{[fails |-> {u}, hangs |-> {}], [fails |-> {}, hangs |-> {u}]} : u \in units}

(* A failure or a hang at each stage of the boot.                          *)
SomeOne == One({"generation-activate", "host-config-prepare", "volumes", "boot-health", "kubelet",
                "networkd", "etc-kubernetes"})
SomeKubernetes == {NoFault} \cup One({"containerd"})

(* A running generation with a legacy record, and two candidates under one    *)
(* id: one changes the configuration, one the Kubernetes version.             *)
P(g, dir, file) == [gen |-> g, dir |-> dir, rel |-> <<file>>]

KubernetesRef(g, v) ==
  [name |-> "kubernetes", act |-> "kubernetes.raw", sha |-> v, path |-> P(g, "sysext", "kubernetes.raw"),
   version |-> v, arch |-> "x86", ifaces |-> {"i1"}, kernel |-> "none",
   index |-> [runtime |-> "none", modules |-> {}]]

SpecOf(g, previous, k, c, op) ==
  [id |-> g, version |-> "v1", previous |-> previous,
   root |-> [slot |-> "root-a", uuid |-> "ua", sha |-> "r1", iface |-> "i1", arch |-> "x86", flavour |-> "standard"],
   boot |-> [uki |-> "katl-root-a", entry |-> g], release |-> [runtime |-> "r1", iface |-> "i1"],
   sysexts |-> <<KubernetesRef(g, k)>>, bundled |-> <<>>,
   confexts |-> <<[name |-> "generated", act |-> "generated", sha |-> c, level |-> 1,
                   path |-> P(g, "confext", "generated")]>>,
   cmdline |-> <<>>, configured |-> <<>>, volumes |-> <<>>,
   upgrade |-> [op |-> op, mode |-> IF op = "none" THEN "" ELSE "operation-private-sysext",
                gate |-> IF op = "none" THEN "" ELSE "operation-released-target-kubelet"]]

G0 == [configApply |-> FALSE, bootState |-> "good", healthState |-> "healthy"]
        @@ SpecOf("g0", "", "k1", "c0", "none")

MCCandidates == {SpecOf("g2", "g0", "k1", "c2", "none"), SpecOf("g2", "g0", "k2", "c0", "op1")}
MCExisting == ("g0" :> [spec |-> G0, status |-> None])
MCSelection == <<"">>

Symmetry == Permutations({w1, w2})

-----------------------------------------------------------------------------
(* Units and records do not share variables, so a behaviour runs one of them: *)
(* part says which. The records stay as they are before anything happens, or  *)
(* the units are not used at all.                                             *)
VARIABLES part, rewritten, state, files, trial, fails, hangs, rebooted

unitVars == <<rewritten, state, files, trial, fails, hangs, rebooted>>

Units == INSTANCE SystemUnits
UnitGraph == Units!UnitGraph

Boot == INSTANCE BootUnits WITH
  Graph <- UnitGraph, Faults <- SomeOne, Rewritten <- {TRUE},
  Kubernetes <- {Payload \cup {"kubelet-config"}}
KubernetesBoot == INSTANCE BootUnits WITH
  Graph <- UnitGraph, Faults <- SomeKubernetes, Rewritten <- BOOLEAN,
  Kubernetes <- {{}, Payload, Payload \cup {"kubelet-config"}}

NotUsed ==
  /\ rewritten = "" /\ state = "" /\ files = "" /\ trial = ""
  /\ fails = "" /\ hangs = "" /\ rebooted = ""

MCInit ==
  /\ Init
  /\ \/ part = "records" /\ NotUsed
     \/ part = "units" /\ Boot!Init
     \/ part = "kubernetes units" /\ KubernetesBoot!Init

MCNext ==
  \/ part = "records" /\ Next /\ UNCHANGED <<part, unitVars>>
  \/ part = "units" /\ Boot!Next /\ UNCHANGED <<part, vars>>
  \/ part = "kubernetes units" /\ KubernetesBoot!Next /\ UNCHANGED <<part, vars>>

MCSpec == MCInit /\ [][MCNext]_<<part, vars, unitVars>>

-----------------------------------------------------------------------------
(* Properties; those of the records are stated in GenerationStore.         *)

(* In every order systemd may start the units in, with any one failing or     *)
(* hanging, a boot that is marked healthy activated its generation and        *)
(* volumes, the network and the kubelet see the configuration made for them,  *)
(* and the boot is good without Kubernetes.  The boot settles, a trial that   *)
(* settles was resolved, and only a trial asks for a reboot.                  *)
UnitsInOrder ==
  /\ part = "units" => /\ Boot!HealthyMeansActivated /\ Boot!NetworkSeesConfiguration
                       /\ Boot!KubeletSeesProjection /\ Boot!BootSettles
                       /\ Boot!TrialResolved /\ Boot!OnlyTrialsReboot
  /\ part = "kubernetes units" => /\ KubernetesBoot!KubeletSeesProjection
                                  /\ KubernetesBoot!KubernetesOptional
=============================================================================
