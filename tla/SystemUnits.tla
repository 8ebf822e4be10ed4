---------------------------- MODULE SystemUnits -----------------------------
(***************************************************************************)
(* The units that internal/generation/state.go renders and enables, and    *)
(* the dependency graph systemd makes of them with its own units.          *)
(***************************************************************************)
EXTENDS Naturals, FiniteSets, TLC

-----------------------------------------------------------------------------
(* Units.  RequiresMountsFor is written out as the mounts it stands for.   *)
(* early: DefaultDependencies=no, or a mount, which systemd does not order *)
(* behind sysinit.target.                                                  *)

Unit(requires, after, before) ==
  [requires |-> requires, wants |-> {}, after |-> after, before |-> before,
   cond |-> {}, onFailure |-> {}, early |-> FALSE]

Early(u) == [u EXCEPT !.early = TRUE]

VarMount == Early(Unit({}, {}, {"local-fs"}))
EFIMount == Early(Unit({}, {}, {"local-fs"}))
ExtraMount == Early(Unit({"var"}, {"var"}, {"local-fs"}))
EtcKubernetesMount == Early(Unit({"var"}, {"var", "confext"}, {"kubelet", "kubeadm-ready"}))

GenerationActivate == Early(Unit({"var"}, {"var"}, {"sysext", "confext"}))

(* M: host configuration is prepared whenever systemd comes to it *)
HostConfigPrepareAnyTime == Early(Unit({"sysext", "confext"}, {"sysext", "confext"}, {}))

HostConfigPrepare == Early(Unit({"sysext", "confext"}, {"sysext", "confext"}, {"networkd"}))
HostConfigVerify == Early(Unit({"host-config-prepare"}, {"host-config-prepare"}, {"boot-health"}))

ExtensionReload == Unit({"sysext", "confext"}, {"sysext", "confext", "host-config-prepare"},
                        {"extensions-activate"})
ExtensionActivate ==
  LET deps == {"extensions-reload", "host-config-verify"} IN Unit(deps, deps, {"boot-health"})

VolumesTarget == Unit({}, {}, {})
VolumesActivate == Unit({"extensions-reload"}, {"extensions-reload"}, {"boot-health"})

KubeadmActivate == [Unit({"extensions-reload"}, {"extensions-reload"}, {})
                      EXCEPT !.cond = {"kubeadm", "kubelet"}]

KubeadmReadyTarget ==
  LET deps == {"sysext", "confext", "containerd", "kubelet", "etc-kubernetes", "state-check", "agent"}
  IN  [Unit(deps, deps, {}) EXCEPT !.cond = {"kubeadm", "crictl"}]

BootCompleteTarget ==
  LET deps == {"runtime-status", "boot-health"} IN Unit(deps, deps, {})

HealthNeeds == {"runtime-status", "extensions-activate", "volumes-activate", "agent", "networkd", "sshd"}

BootHealthService ==
  LET deps == HealthNeeds \cup {"efi", "var"}
  IN  [Unit(deps, deps, {"boot-complete"}) EXCEPT !.onFailure = {"boot-recovery"}]

BootRecoveryService == Unit({"var", "efi"}, {"var", "efi"}, {})

BootDeadmanService == [Unit({"var", "efi"}, {"var", "efi"}, {}) EXCEPT !.cond = {"pending"}]
BootDeadmanTimer == Unit({}, {}, {"timers"})

ContainerdDropIn == Unit({"var"}, {"var"}, {"kubeadm-ready"})

KubeletDropIn ==
  LET deps == {"containerd", "etc-kubernetes", "var"}
  IN  [Unit(deps, deps, {"kubeadm-ready"}) EXCEPT !.cond = {"kubelet-config"}]

StateCheckService ==
  LET deps == {"var", "etc-kubernetes"} IN Unit(deps, deps, {"kubeadm-ready"})

RuntimeStatus ==
  LET deps == {"agent", "etc-kubernetes", "var"} IN Unit(deps, deps, {"boot-complete"})

AgentService ==
  LET deps == {"var", "efi", "generation-activate"}
  IN  [Unit(deps, deps \cup {"local-fs", "network-online"}, {"kubeadm-ready"})
         EXCEPT !.wants = {"network-online"}]

RenderState ==
  [var |-> VarMount, efi |-> EFIMount, extra |-> ExtraMount] @@
  ("etc-kubernetes" :> EtcKubernetesMount) @@ ("generation-activate" :> GenerationActivate) @@
  ("host-config-prepare" :> HostConfigPrepare) @@ ("host-config-verify" :> HostConfigVerify) @@
  ("extensions-reload" :> ExtensionReload) @@ ("extensions-activate" :> ExtensionActivate) @@
  ("volumes" :> VolumesTarget) @@ ("volumes-activate" :> VolumesActivate) @@
  ("kubeadm-activate" :> KubeadmActivate) @@ ("kubeadm-ready" :> KubeadmReadyTarget) @@
  ("boot-complete" :> BootCompleteTarget) @@ ("boot-health" :> BootHealthService) @@
  ("boot-recovery" :> BootRecoveryService) @@ ("boot-deadman" :> BootDeadmanService) @@
  ("deadman-timer" :> BootDeadmanTimer) @@ ("containerd" :> ContainerdDropIn) @@
  ("kubelet" :> KubeletDropIn) @@ ("state-check" :> StateCheckService) @@
  ("runtime-status" :> RuntimeStatus) @@ ("agent" :> AgentService)

(* systemd's own units, as far as Katl's are ordered against them.         *)
SystemdUnits ==
  ("local-fs" :> Early(Unit({}, {}, {"sysinit"}))) @@
  ("sysext" :> Early(Unit({}, {"local-fs"}, {"sysinit"}))) @@
  ("confext" :> Early(Unit({}, {"local-fs"}, {"sysinit"}))) @@
  ("sysinit" :> Early([Unit({}, {}, {}) EXCEPT !.wants = {"local-fs", "sysext", "confext"}])) @@
  ("timers" :> Unit({}, {}, {})) @@
  ("networkd" :> Early(Unit({}, {}, {"network-online"}))) @@
  ("network-online" :> Unit({}, {}, {})) @@
  ("sshd" :> Unit({}, {}, {})) @@
  ("multi-user" :> [Unit({"sysinit"}, {"sysinit"}, {})
                      EXCEPT !.wants = {"networkd", "sshd", "timers"}])

Defs == RenderState @@ SystemdUnits
Units == DOMAIN Defs

-----------------------------------------------------------------------------
(* WriteState enables units by links; earlier versions left others.     *)

Link(from, kind, to) == [from |-> from, kind |-> kind, to |-> to]

LegacyOperationUnits ==
  { Link("kubeadm-ready", "requires", "runtime-status"), Link("multi-user", "wants", "kubeadm-ready"),
    Link("multi-user", "wants", "state-check") }

EnabledLinks ==
  { Link("local-fs", "wants", "efi"), Link("local-fs", "wants", "extra"),
    Link("multi-user", "wants", "kubeadm-activate"), Link("multi-user", "wants", "boot-complete"),
    Link("boot-complete", "requires", "boot-health"), Link("timers", "wants", "deadman-timer"),
    Link("sysext", "requires", "generation-activate"), Link("confext", "requires", "generation-activate"),
    Link("boot-complete", "requires", "runtime-status"), Link("multi-user", "wants", "agent") }

WriteState(installed) == (installed \ LegacyOperationUnits) \cup EnabledLinks

-----------------------------------------------------------------------------
(* What systemd adds: implied, default and target dependencies.            *)

Linked(enabled, u, kind) == {l.to : l \in {m \in enabled : m.from = u /\ m.kind = kind}}
Implied(u) == IF Defs[u].early THEN {} ELSE {"sysinit"}

RequiredBy(enabled, u) == Defs[u].requires \cup Linked(enabled, u, "requires") \cup Implied(u)
PulledBy(enabled, u) == RequiredBy(enabled, u) \cup Defs[u].wants \cup Linked(enabled, u, "wants")

(* A target is ordered behind what it wants or requires.                   *)
Targets == {"multi-user", "timers", "boot-complete", "local-fs", "sysinit", "kubeadm-ready"}

OrderedBehind(enabled, u) ==
  Defs[u].after \cup {v \in Units : u \in Defs[v].before} \cup Implied(u)
    \cup (IF u \in Targets THEN {v \in PulledBy(enabled, u) : u \notin Defs[v].after} ELSE {})

(* A transaction: a unit and, recursively, everything it pulls in.         *)
Grow(enabled, S) == S \cup UNION {PulledBy(enabled, u) : u \in S}
Closure(enabled, S) ==
  LET grown[n \in 0..6] == IF n = 0 THEN S ELSE LET s == grown[n - 1] IN Grow(enabled, s) IN grown[6]

Load(units, enabled) ==
  [u \in units |-> [requires |-> RequiredBy(enabled, u), after |-> OrderedBehind(enabled, u),
                     job |-> Closure(enabled, {u}), cond |-> Defs[u].cond, onFailure |-> Defs[u].onFailure]]

LoadUnits(enabled) == Load(DOMAIN RenderState, enabled) @@ Load(DOMAIN SystemdUnits, enabled)

(* What systemd loads at a boot: from a state partition this version wrote *)
(* alone (FALSE), or one an earlier version had written before.            *)
UnitGraph ==
  FALSE :> LoadUnits(WriteState({})) @@ TRUE :> LoadUnits(WriteState(LegacyOperationUnits))
=============================================================================
