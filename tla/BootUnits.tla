----------------------------- MODULE BootUnits -----------------------------
(***************************************************************************)
(* A boot through the units of SystemUnits, in every order systemd allows. *)
(* One step starts one unit; a unit whose command fails, or never ends, is *)
(* chosen when the node boots.                                             *)
(*                                                                         *)
(* systemd itself (start jobs, ordering, dependency failures, conditions,  *)
(* OnFailure, and its own units) is external and modelled by what the      *)
(* rendered units use of it.  A unit is started at most once in a boot.    *)
(***************************************************************************)
EXTENDS Naturals, FiniteSets, TLC

CONSTANTS
  Graph,        \* the units by whether the disk was rewritten: SystemUnits
  Faults,       \* which units fail and which hang: {[fails, hangs]}
  Rewritten,    \* whether an earlier version wrote the state partition
  Kubernetes    \* sets of files of the Kubernetes payload a node may have

VARIABLES
  rewritten, \* an earlier version wrote the state partition first
  state,     \* the start job of each unit
  files,     \* which files the conditions look at exist
  trial,     \* this boot is a trial with a valid fallback
  fails,     \* the units whose command fails
  hangs,     \* the units whose command never ends
  rebooted   \* the node was rebooted to its fallback

vars == <<rewritten, state, files, trial, fails, hangs, rebooted>>

-----------------------------------------------------------------------------
(* systemd.                                                                *)

Units == DOMAIN Graph[rewritten]
Loaded(u) == Graph[rewritten][u]
Requires(u) == Loaded(u).requires
After(u) == Loaded(u).after

Settled == {"done", "failed", "skipped", "off"}

(* A start job for each unit of a transaction that has none yet.           *)
Queue(st, S) == LET all == UNION {Loaded(u).job : u \in S} IN [u \in Units |-> IF u \in all /\ st[u] = "off" THEN "waiting" ELSE st[u]]

Ready(u) ==
  /\ ~rebooted /\ state[u] = "waiting"
  /\ \A v \in After(u) : state[v] \in Settled
  /\ \A v \in Requires(u) : state[v] # "failed"

ConditionsHold(u) == Loaded(u).cond \subseteq files

(* The end of a start job; a failure starts what OnFailure names.          *)
Ended(u, result) ==
  LET st == [state EXCEPT ![u] = result]
  IN  state' = IF result = "failed" THEN Queue(st, Loaded(u).onFailure) ELSE st

(* Units whose command does more than succeed or fail.                     *)
Special == {"generation-activate", "volumes-activate", "kubeadm-activate", "boot-health",
            "boot-recovery", "boot-deadman"}

Succeeds(u) == u \notin fails

Init ==
  /\ rewritten \in Rewritten
  /\ files \in Kubernetes /\ trial \in BOOLEAN /\ rebooted = FALSE
  /\ \E f \in Faults : fails = f.fails /\ hangs = f.hangs
  /\ state = Queue([u \in Units |-> "off"], {"multi-user"})

Same == UNCHANGED <<rewritten, trial, fails, hangs>>

(* A unit whose condition does not hold is skipped, which is no failure.   *)
Skip(u) ==
  /\ Ready(u) /\ ~ConditionsHold(u) /\ Ended(u, "skipped")
  /\ UNCHANGED <<files, rebooted>> /\ Same

Run(u) ==
  /\ u \notin Special \cup hangs /\ Ready(u) /\ ConditionsHold(u)
  /\ Ended(u, IF Succeeds(u) THEN "done" ELSE "failed")
  /\ UNCHANGED <<files, rebooted>> /\ Same

FailDependency(u) ==
  /\ ~rebooted /\ state[u] = "waiting" /\ \E v \in Requires(u) : state[v] = "failed"
  /\ Ended(u, "failed")
  /\ UNCHANGED <<files, rebooted>> /\ Same

(* katl-generation-activate arms recovery first, then activates.           *)
ArmBootRecovery ==
  /\ Ready("generation-activate")
  /\ state' = [state EXCEPT !["generation-activate"] = "running"]
  /\ files' = IF trial THEN files \cup {"pending"} ELSE files \ {"pending"}
  /\ UNCHANGED rebooted /\ Same

(* "systemctl start T" waits for T's job.                                  *)
Started == [u \in {"volumes-activate", "kubeadm-activate"} |->
              IF u = "volumes-activate" THEN "volumes" ELSE "kubeadm-ready"]

StartTarget(u) ==
  /\ Ready(u) /\ ConditionsHold(u) /\ u \notin hangs
  /\ state' = Queue([state EXCEPT ![u] = "running"], {Started[u]})
  /\ UNCHANGED <<files, rebooted>> /\ Same

TargetStarted(u) ==
  /\ ~rebooted /\ state[u] = "running" /\ state[Started[u]] \in Settled
  /\ Ended(u, IF Succeeds(u) /\ state[Started[u]] # "failed" THEN "done" ELSE "failed")
  /\ UNCHANGED <<files, rebooted>> /\ Same

FinishActivation ==
  /\ ~rebooted /\ state["generation-activate"] = "running" /\ "generation-activate" \notin hangs
  /\ Ended("generation-activate", IF Succeeds("generation-activate") THEN "done" ELSE "failed")
  /\ UNCHANGED <<files, rebooted>> /\ Same

(* katl-boot-health --result=success clears the authorization.             *)
RecordHealth ==
  /\ Ready("boot-health") /\ "boot-health" \notin hangs
  /\ IF Succeeds("boot-health")
       THEN Ended("boot-health", "done") /\ files' = files \ {"pending"}
       ELSE Ended("boot-health", "failed") /\ UNCHANGED files
  /\ UNCHANGED rebooted /\ Same

(* --force-failure --request-reboot: refused without the authorization;    *)
(* SuccessAction=reboot otherwise.                                         *)
RequestReboot(u) ==
  /\ Ready(u) /\ ConditionsHold(u) /\ u \notin hangs
  /\ IF Succeeds(u) /\ "pending" \in files
       THEN rebooted' = TRUE /\ Ended(u, "done")
       ELSE Ended(u, "failed") /\ UNCHANGED rebooted
  /\ UNCHANGED files /\ Same

(* OnBootSec=10min.                                                        *)
TimerElapses ==
  /\ ~rebooted /\ state["deadman-timer"] = "done" /\ state["boot-deadman"] = "off"
  /\ state' = Queue(state, {"boot-deadman"})
  /\ UNCHANGED <<files, rebooted>> /\ Same

Next ==
  \/ \E u \in Units : Skip(u) \/ Run(u) \/ FailDependency(u)
  \/ ArmBootRecovery \/ FinishActivation \/ RecordHealth \/ TimerElapses
  \/ \E u \in {"volumes-activate", "kubeadm-activate"} : StartTarget(u) \/ TargetStarted(u)
  \/ \E u \in {"boot-recovery", "boot-deadman"} : RequestReboot(u)

Spec == Init /\ [][Next]_vars

(* Every step moves a job forward, so a boot always comes to rest; what    *)
(* must eventually happen is what has happened by then.                    *)
Runnable(u) ==
  \/ Ready(u) /\ (u \notin hangs \/ u = "generation-activate" \/ ~ConditionsHold(u))
  \/ state[u] = "waiting" /\ \E v \in Requires(u) : state[v] = "failed"
  \/ state[u] = "running" /\ (IF u \in DOMAIN Started THEN state[Started[u]] \in Settled ELSE u \notin hangs)

AtRest ==
  rebooted \/ ~(\/ \E u \in Units : Runnable(u)
                \/ state["deadman-timer"] = "done" /\ state["boot-deadman"] = "off")

-----------------------------------------------------------------------------
(* Properties.                                                             *)

TypeOK ==
  /\ state \in [Units -> {"off", "waiting", "running", "done", "failed", "skipped"}]
  /\ rebooted \in BOOLEAN /\ fails \cup hangs \subseteq Units
  /\ \A u \in Units : state[u] = "running" => u \in Special

(* Health is recorded only for a boot in which everything that makes the   *)
(* node manageable came up: the generation's extensions and configuration  *)
(* were merged, applied and verified, its volumes mounted, and the agent,  *)
(* the network and sshd run, however the units interleave.                 *)
HealthyMeansActivated ==
  state["boot-health"] = "done" =>
    \A u \in {"var", "efi", "generation-activate", "sysext", "confext", "host-config-prepare",
              "host-config-verify", "extensions-reload", "extensions-activate", "volumes",
              "runtime-status", "agent", "networkd", "sshd"} : state[u] = "done"

(* networkd reads link configuration that the generation's layers already  *)
(* replaced; a failed preparation does not keep the network down.          *)
NetworkSeesConfiguration ==
  state["networkd"] = "done" => state["host-config-prepare"] \in {"done", "failed"}

(* The kubelet and its target start on the projected configuration, with   *)
(* the unit definitions of the selected Kubernetes payload loaded.         *)
KubeletSeesProjection ==
  state["kubelet"] = "done" =>
    \A u \in {"etc-kubernetes", "containerd", "confext", "extensions-reload"} : state[u] = "done"

(* Only an unproven trial is ever rebooted, and never once it is healthy.  *)
OnlyTrialsReboot == rebooted => trial /\ state["boot-health"] # "done"

(* Every start job ends unless a unit hangs: the ordering has no cycle,    *)
(* and no unit waits for the target that starts it.                        *)
BootSettles ==
  AtRest /\ ~rebooted /\ hangs = {} => \A u \in Units : state[u] \notin {"waiting", "running"}

(* Whatever fails or hangs once the system is initialised, an armed trial  *)
(* either becomes healthy or falls back; losing the state partition or the *)
(* ESP, or the recovery units themselves, is beyond them.                  *)
Unrecoverable == {"var", "efi", "boot-recovery", "boot-deadman", "deadman-timer", "timers", "sysinit"}
BeforeSysinit == {"generation-activate", "sysext", "confext", "local-fs", "extra"}

TrialResolved ==
  AtRest /\ "pending" \in files /\ fails \cap Unrecoverable = {}
         /\ hangs \cap (Unrecoverable \cup BeforeSysinit) = {} => rebooted

(* A node whose Kubernetes cannot start, or that has none, is still a      *)
(* healthy node.  The mount of /etc/kubernetes is not among the units that *)
(* may fail: katl-runtime-status requires it on every node.                *)
KubernetesOptional ==
  AtRest /\ ~rebooted /\ fails \cup hangs \subseteq {"containerd", "kubelet", "state-check",
                              "kubeadm-ready", "kubeadm-activate"} => state["boot-health"] = "done"
=============================================================================
