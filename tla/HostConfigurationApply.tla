----------------------- MODULE HostConfigurationApply -----------------------
(***************************************************************************)
(* A live configuration apply on one node: how a change of the host        *)
(* configuration is planned, and how the executor activates it, runs the   *)
(* commands of each changed domain and, when one fails, restores what it   *)
(* found.  A configuration is the set of files of its generated confext,   *)
(* its enabled and masked units and the endpoint settings.                 *)
(***************************************************************************)
EXTENDS Integers, Sequences, FiniteSets, SequencesExt

CONSTANTS Configs,      \* the configurations, by name
          Config,       \* name -> [files, enabled, masked, notify, svc]
          Units,        \* systemd units
          MaxFaults,    \* bound: commands that fail
          MaxWrites     \* bound: status writes that fail

(* What each path of a configuration configures, and which unit reads it.  *)
(* A file's content is a number; 0 is no file.                             *)
PathKind == [a_service |-> "unit", j_conf |-> "component", n_network |-> "networkd",
             n_link |-> "link", m_conf |-> "module", s_conf |-> "sysctl",
             t_conf |-> "sysctl", c_toml |-> "containerd", r_rules |-> "udev",
             o_conf |-> "other"]
Paths == DOMAIN PathKind
PathUnit == [a_service |-> "a", j_conf |-> "j"]
(* The domains a live apply hands to a service of their own, in the order  *)
(* a layer changes them.                                                   *)
ServiceDomains == <<"volumes", "bootstrap-node-metadata", "control-plane-endpoint-vip", "api-proxy">>
Ambiguous == 9          \* a sysctl file whose assignments are not concrete

VARIABLES cur, des,     \* names of the current and the desired configuration
          etc,          \* the configuration merged into /etc
          linked,       \* the configuration whose confext is linked
          mgr,          \* the configuration the systemd manager has loaded
          unit,         \* unit -> [state, en, uf, cf]
          sysctl, svc,  \* sysctl values, and what the service of each domain uses
          seen,         \* the runtime as the apply found it
          plan,         \* planHostConfigurationChange and prepareHostSystemd
          pc, todo,     \* the executor's place, and the commands left in it
          enabling,     \* enablementStarted
          status,       \* phase of the status file
          outcome,      \* what ExecuteLive returned
          faults, writes

vars == <<cur, des, etc, linked, mgr, unit, sysctl, svc, seen, plan, pc, todo,
          enabling, status, outcome, faults, writes>>
runtime == <<etc, linked, mgr, unit, sysctl, svc>>
fixed == <<cur, des, seen>>

----------------------------------------------------------------------------
(* Planning                                                                *)

changedUnit(p) == IF PathKind[p] = "unit" THEN {PathUnit[p]} ELSE {}
changedSystemdComponent(p) == IF PathKind[p] = "component" THEN {PathUnit[p]} ELSE {}
unitDifference(l, r) == l \ r

(* What a changed file asks of the unit it belongs to, given what the      *)
(* change's sets ask already.                                              *)
deriveSystemdNotification(n, p) ==
  [u \in Units |->
     IF u \in changedUnit(p)
     THEN IF n[u] \in {"restart", "reload-or-restart"} THEN "restart" ELSE "try-restart"
     ELSE IF u \in changedSystemdComponent(p) /\ n[u] = "" THEN "try-reload-or-restart"
     ELSE n[u]]

parseConcreteSysctl(content) == IF content \in {0, Ambiguous} THEN {} ELSE {content}
liveSysctlDiff(b, a) == parseConcreteSysctl(b) # {} /\ parseConcreteSysctl(a) # {}

ChangedPaths(b, a) == {p \in Paths : b.files[p] # a.files[p]}
IsLive(kind, b, a, p) ==
  CASE kind \in {"unit", "component", "networkd", "link", "udev"} -> TRUE
    [] kind = "sysctl" -> liveSysctlDiff(b.files[p], a.files[p])
    [] kind = "other" -> LET owner == IF a.files[p] # 0 THEN a ELSE b
                         IN \E u \in Units : owner.notify[u] # ""
    [] OTHER -> FALSE

Cmd(do, us) == [do |-> do, units |-> us]
addUnitMasks(us) == SetToSeq({Cmd("stop", {u}) : u \in us}) \o
                    SetToSeq({Cmd("verify-masked", {u}) : u \in us})
Reload(need) == IF need THEN <<Cmd("daemon-reload", {})>> ELSE <<>>
unitCommands(do, us) == IF us = {} THEN <<>> ELSE <<Cmd(do, us)>>

(* What the changed sets ask: the new set's notifications while it exists. *)
SetNotifications(b, a) ==
  IF ChangedPaths(b, a) = {} /\ b.notify = a.notify THEN [u \in Units |-> ""]
  ELSE IF \E p \in Paths : a.files[p] # 0 THEN a.notify ELSE b.notify
systemdReload(b, a) ==
  \/ b.masked # a.masked \/ b.enabled # a.enabled
  \/ \E p \in ChangedPaths(b, a) : PathKind[p] = "unit"

planHostConfigurationChange(b, a) ==
  LET changed == ChangedPaths(b, a)
      enable == unitDifference(a.enabled, b.enabled)
      disable == unitDifference(b.enabled, a.enabled)
      all == FoldSet(LAMBDA p, n : deriveSystemdNotification(n, p),
                     SetNotifications(b, a), changed)
      sysctls == {p \in changed : PathKind[p] = "sysctl"}
      reloads == Reload(systemdReload(b, a))
      toStop == unitDifference(a.masked, b.masked)
  IN [live |-> /\ \A p \in changed : IsLive(PathKind[p], b, a, p)
               /\ Cardinality(sysctls) <= 1,
      toStop |-> toStop,
      toEnable |-> enable \cup {u \in a.enabled : \E p \in changed : u \in changedUnit(p)},
      toDisable |-> disable,
      notify |-> [u \in Units |-> IF u \in a.masked \cup disable THEN "" ELSE all[u]],
      sysctls |-> sysctls,
      domains |-> SelectSeq(ServiceDomains, LAMBDA d : a.svc[d] # b.svc[d]),
      commands |-> reloads \o addUnitMasks(toStop),
      rollback |-> reloads \o (IF systemdReload(b, a) THEN addUnitMasks(b.masked) ELSE <<>>)]

(* The units are observed, and the commands that change and that restore   *)
(* them are chosen from what is observed; a unit that is between two       *)
(* states refuses the apply.                                               *)
Concerned(p) == p.toStop \cup p.toEnable \cup p.toDisable \cup
                {u \in Units : p.notify[u] # ""}
ActionOn(p, us, u) ==
  IF p.notify[u] \in {"try-reload-or-restart", "reload-or-restart"} /\ us[u].state = "active"
  THEN IF u = "j" THEN "reload" ELSE "try-restart"    \* CanReload
  ELSE p.notify[u]
prepareHostSystemdOK(p, us) ==
  \A u \in Concerned(p) :
    /\ us[u].state \in {"active", "inactive", "failed"}
    /\ ~(p.notify[u] = "reload" /\ us[u].state # "active" /\ u \notin p.toEnable)
prepareHostSystemd(p, us) ==
  LET active(u) == us[u].state = "active"
      act(u) == ActionOn(p, us, u)
      force(u) == p.notify[u] \in {"restart", "reload-or-restart"}
      C == Concerned(p)
      restart == {u \in C : \/ u \in p.toEnable \/ act(u) = "restart"
                            \/ ~active(u) /\ force(u)
                            \/ active(u) /\ act(u) = "try-restart"}
      reload == {u \in C \ restart : active(u) /\ act(u) = "reload"}
      switched == p.toEnable \cup p.toDisable
      restoreEnable == {u \in switched : us[u].en}
      cleared == {u \in p.toStop \cup p.toDisable : us[u].state = "failed"}
  IN [before |-> unitCommands("stop", p.toStop \cup p.toDisable) \o
                 unitCommands("disable", p.toDisable) \o
                 unitCommands("reset-failed", cleared),
      commands |-> p.commands \o unitCommands("enable", p.toEnable) \o
                   Reload(switched # {}) \o unitCommands("restart", restart) \o
                   unitCommands("reload", reload),
      beforeRollback |-> unitCommands("stop-any", {u \in C : ~active(u)}),
      resetFailures |-> {u \in C : us[u].state = "inactive"},
      rollback |-> p.rollback \o unitCommands("enable", restoreEnable) \o
                   Reload(switched # {}) \o
                   unitCommands("restart", {u \in C : active(u) /\ act(u) # "reload"}) \o
                   unitCommands("reload", {u \in C : active(u) /\ act(u) = "reload"})]

----------------------------------------------------------------------------
(* Commands                                                                *)

Of(c) == Config[c]
(* The unit file a start uses is the manager's; other files are read from  *)
(* /etc by the unit when it starts or reloads.                             *)
UnitFile(c, u) == IF u = "a" THEN Of(c).files.a_service ELSE 0
ConfFile(c, u) == CASE u = "j" -> Of(c).files.j_conf
                    [] u = "a" -> Of(c).files.o_conf [] OTHER -> 0
Started(u) == [unit[u] EXCEPT !.state = "active", !.uf = UnitFile(mgr, u),
                              !.cf = ConfFile(etc, u)]
(* M: a stop is not waited for.                                            *)
Halting(u) == [unit[u] EXCEPT !.state = "deactivating"]
Halted(u) == [unit[u] EXCEPT !.state = IF @ = "failed" THEN @ ELSE "inactive"]
Change(us, f(_)) == unit' = [u \in Units |-> IF u \in us THEN f(u) ELSE unit[u]]

(* Commands whose success depends on the state they find.                  *)
Possible(c) ==
  /\ c.do = "restart" => c.units \cap Of(mgr).masked = {}
  /\ c.do = "reload" => \A u \in c.units : unit[u].state = "active"
  /\ c.do = "verify-masked" =>
       \A u \in c.units : u \in Of(mgr).masked /\ unit[u].state # "active"
Effect(c) ==
  /\ mgr' = IF c.do = "daemon-reload" THEN etc ELSE mgr
  /\ sysctl' = IF c.do = "sysctl" THEN [sysctl EXCEPT ![c.path] = c.value] ELSE sysctl
  /\ svc' = CASE c.do = "service-stop" -> [svc EXCEPT ![c.domain] = "down"]
              [] c.do = "service-start" -> [svc EXCEPT ![c.domain] = Of(etc).svc[c.domain]]
              [] OTHER -> svc
  /\ CASE c.do \in {"stop", "stop-any"} -> Change(c.units, Halted)
       [] c.do = "restart" -> Change(c.units, Started)
       [] c.do = "reload" -> Change(c.units, LAMBDA u : [unit[u] EXCEPT !.cf = ConfFile(etc, u)])
       [] c.do = "enable" -> Change(c.units, LAMBDA u : [unit[u] EXCEPT !.en = TRUE])
       [] c.do = "disable" -> Change(c.units, LAMBDA u : [unit[u] EXCEPT !.en = FALSE])
       [] c.do = "reset-failed" -> Change(c.units, LAMBDA u : [unit[u] EXCEPT !.state = "inactive"])
       [] OTHER -> UNCHANGED unit
(* A command that fails has done nothing, or left a unit failed or a       *)
(* service down.                                                           *)
Failure(c) ==
  /\ \/ UNCHANGED <<unit, svc>>
     \/ /\ c.do = "restart" /\ UNCHANGED svc
        /\ \E u \in c.units : unit' = [unit EXCEPT ![u].state = "failed"]
     \/ /\ c.do = "service-start" /\ UNCHANGED unit
        /\ svc' = [svc EXCEPT ![c.domain] = "down"]
  /\ UNCHANGED <<mgr, sysctl>>

(* The head of todo is run: `ok' continues, `failed' is the error path.    *)
Run(ok, failed) ==
  /\ todo # <<>>
  /\ \/ Possible(Head(todo)) /\ Effect(Head(todo)) /\ ok /\ UNCHANGED faults
     \/ /\ ~Possible(Head(todo)) /\ Failure(Head(todo)) /\ failed /\ UNCHANGED faults
     \/ /\ faults < MaxFaults /\ faults' = faults + 1
        /\ Failure(Head(todo)) /\ failed

(* A status write succeeds, or fails and takes the error path.             *)
writeStatus(phase, ok, failed) ==
  \/ status' = phase /\ ok /\ UNCHANGED writes
  \/ writes < MaxWrites /\ writes' = writes + 1 /\ failed /\ UNCHANGED status

Go(p, cmds) == pc' = p /\ todo' = cmds
End(o) == pc' = "done" /\ todo' = <<>> /\ outcome' = o

(* The commands of each changed domain, in the order of the domains.       *)
SysctlCommand(p, v) == [do |-> "sysctl", units |-> {}, path |-> p, value |-> v]
ServiceCommand(do, d) == [do |-> do, units |-> {}, domain |-> d]
(* The manager is reloaded and the service of the domain started again;    *)
(* the address is released before its link is reloaded.                    *)
commandsForDomain(d) ==
  <<Cmd("daemon-reload", {})>> \o
  (IF d = "control-plane-endpoint-vip"
   THEN <<ServiceCommand("service-stop", d), Cmd("endpoint-link-reload", {})>> ELSE <<>>) \o
  <<ServiceCommand("service-start", d)>>
ServiceCommands == FoldLeft(LAMBDA cmds, d : cmds \o commandsForDomain(d), <<>>, plan.domains)

(* M: sysctl values are left as the failed apply set them.                 *)
KeepHostSysctls == <<>>
restoreHostSysctls ==
  SetToSeq({SysctlCommand(p, seen.sysctl[p]) : p \in plan.sysctls})
applyHostSysctls ==
  SetToSeq({SysctlCommand(p, Of(des).files[p]) : p \in plan.sysctls})

----------------------------------------------------------------------------
(* ExecuteLive                                                             *)

Observed == [u \in Units |-> unit[u]]

Init ==
  /\ cur \in Configs /\ des \in Configs /\ cur # des
  /\ plan = planHostConfigurationChange(Of(cur), Of(des)) /\ plan.live
  /\ etc = cur /\ linked = cur /\ mgr = cur /\ svc = Of(cur).svc
  /\ \E st \in [Units -> {"active", "inactive", "failed", "activating"}] :
       /\ \A u \in Units : u \in Of(cur).masked => st[u] = "inactive"
       /\ unit = [u \in Units |-> [state |-> st[u], en |-> u \in Of(cur).enabled,
                                   uf |-> UnitFile(cur, u), cf |-> ConfFile(cur, u)]]
  /\ sysctl = [p \in {q \in Paths : PathKind[q] = "sysctl"} |-> 7]   \* drifted
  /\ seen = [unit |-> <<>>, sysctl |-> <<>>]
  /\ pc = "preflight" /\ todo = <<>> /\ enabling = FALSE
  /\ status = "rendered" /\ outcome = "" /\ faults = 0 /\ writes = 0

(* preflight, snapshotHostSysctls, prepareHostSystemd: a failure ends the  *)
(* apply before anything was changed (failBeforeActivation).               *)
snapshotHostSysctls ==
  /\ pc = "preflight"
  /\ seen' = [unit |-> Observed, sysctl |-> sysctl]
  /\ \/ /\ prepareHostSystemdOK(plan, unit)
        /\ plan' = [toEnable |-> plan.toEnable, toDisable |-> plan.toDisable,
                    toStop |-> plan.toStop, sysctls |-> plan.sysctls, domains |-> plan.domains]
                   @@ prepareHostSystemd(plan, unit)
        /\ Go("activating", <<>>) /\ UNCHANGED <<outcome, status, writes, faults>>
     \/ /\ \/ ~prepareHostSystemdOK(plan, unit) /\ UNCHANGED faults
           \/ faults < MaxFaults /\ faults' = faults + 1
        /\ UNCHANGED plan /\ End("failed")
        /\ writeStatus("failed", TRUE, TRUE)
  /\ UNCHANGED <<runtime, cur, des, enabling>>

MarkActivating ==
  /\ pc = "activating"
  /\ writeStatus("activating", Go("before", plan.before) /\ UNCHANGED outcome, End("failed"))
  /\ UNCHANGED <<runtime, fixed, plan, enabling, faults>>

(* failAndRollback with or without replaying the domain actions.           *)
Replays(replay) == IF replay THEN "fail-replay" ELSE "fail"
BeforeCommands ==
  /\ pc = "before"
  /\ \/ /\ Run(Go("before", Tail(todo)), Go(Replays(TRUE), <<>>))
        /\ UNCHANGED <<etc, linked>>
     \/ todo = <<>> /\ Go("activate", <<>>) /\ UNCHANGED <<runtime, faults>>
  /\ UNCHANGED <<fixed, plan, enabling, status, outcome, writes>>

HadBefore == plan.before # <<>>
Activate ==
  /\ pc = "activate"
  /\ \/ linked' = des /\ Go("refresh", <<>>) /\ UNCHANGED faults
     \/ /\ faults < MaxFaults /\ faults' = faults + 1
        /\ linked' \in {cur, des} /\ Go(Replays(HadBefore), <<>>)
  /\ UNCHANGED <<etc, mgr, unit, sysctl, svc, fixed, plan, enabling, status, outcome, writes>>

Forward == applyHostSysctls \o plan.commands \o ServiceCommands
refreshConfext ==
  /\ pc = "refresh"
  /\ \/ etc' = linked /\ Go("actions", Forward) /\ UNCHANGED faults
     \/ /\ faults < MaxFaults /\ faults' = faults + 1
        /\ etc' \in {etc, linked} /\ Go(Replays(HadBefore), <<>>)
  /\ UNCHANGED <<linked, mgr, unit, sysctl, svc, fixed, plan, enabling, status, outcome, writes>>

(* A command, its verification and the status write that follows it.       *)
runActions ==
  /\ pc = "actions"
  /\ \/ /\ todo # <<>>
        /\ enabling' = (enabling \/ Head(todo).do = "enable")
        /\ \/ Run(Go("actions", Tail(todo)), Go(Replays(TRUE), <<>>)) /\ UNCHANGED writes
           \/ /\ writes < MaxWrites /\ writes' = writes + 1
              /\ Possible(Head(todo)) /\ Effect(Head(todo))
              /\ Go(Replays(TRUE), <<>>) /\ UNCHANGED faults
        /\ UNCHANGED <<etc, linked, outcome, status>>
     \/ /\ todo = <<>> /\ UNCHANGED <<runtime, faults, enabling>>
        /\ writeStatus("active", End("active"), End("failed"))
  /\ UNCHANGED <<fixed, plan>>

(* The failure and the start of the rollback are recorded first; a write   *)
(* that fails here returns without rolling back.                           *)
failAndRollback ==
  /\ pc \in {"fail", "fail-replay"}
  /\ writeStatus("rolling-back",
       /\ IF pc = "fail" THEN Go("rollback", <<>>)
          ELSE Go("before-rollback", plan.beforeRollback \o
                  (IF enabling THEN unitCommands("disable", plan.toEnable) ELSE <<>>))
       /\ UNCHANGED outcome,
       End("failed"))
  /\ UNCHANGED <<runtime, fixed, plan, enabling, faults>>

markRollbackFailed == End("rollback-failed")
BeforeRollback ==
  /\ pc = "before-rollback"
  /\ \/ Run(Go("before-rollback", Tail(todo)) /\ UNCHANGED outcome, markRollbackFailed)
     \/ /\ todo = <<>>
        /\ unit' = [u \in Units |->
             IF u \in plan.resetFailures /\ unit[u].state = "failed"
             THEN [unit[u] EXCEPT !.state = "inactive"] ELSE unit[u]]
        /\ Go("rollback-replay", <<>>)
        /\ UNCHANGED <<mgr, sysctl, svc, outcome, faults>>
  /\ UNCHANGED <<etc, linked, fixed, plan, enabling, status, writes>>

(* The previous generation's confext is linked and merged again.           *)
Rollback ==
  /\ pc \in {"rollback", "rollback-replay"}
  /\ \/ /\ linked' = cur /\ etc' = cur /\ UNCHANGED <<outcome, faults>>
        /\ IF pc = "rollback" THEN Go("rolled-back", <<>>)
           ELSE Go("replay", restoreHostSysctls \o plan.rollback \o ServiceCommands)
     \/ /\ faults < MaxFaults /\ faults' = faults + 1
        /\ linked' \in {linked, cur} /\ etc' = etc /\ markRollbackFailed
  /\ UNCHANGED <<mgr, unit, sysctl, svc, fixed, plan, enabling, status, writes>>

replayRollbackActions ==
  /\ pc = "replay"
  /\ \/ Run(Go("replay", Tail(todo)) /\ UNCHANGED outcome, markRollbackFailed)
     \/ todo = <<>> /\ Go("rolled-back", <<>>) /\ UNCHANGED <<mgr, unit, sysctl, svc, outcome, faults>>
  /\ UNCHANGED <<etc, linked, fixed, plan, enabling, status, writes>>

MarkRolledBack ==
  /\ pc = "rolled-back"
  /\ writeStatus("rolled-back", End("rolled-back"), End("rolled-back"))
  /\ UNCHANGED <<runtime, fixed, plan, enabling, faults>>

Next ==
  \/ snapshotHostSysctls \/ MarkActivating \/ BeforeCommands \/ Activate
  \/ refreshConfext \/ runActions \/ failAndRollback \/ BeforeRollback
  \/ Rollback \/ replayRollbackActions \/ MarkRolledBack
  \/ pc = "done" /\ UNCHANGED vars

Spec == Init /\ [][Next]_vars

----------------------------------------------------------------------------
Phases == {"preflight", "activating", "before", "activate", "refresh", "actions",
           "fail", "fail-replay", "before-rollback", "rollback", "rollback-replay",
           "replay", "rolled-back", "done"}
(* Every variable keeps its type.                                          *)
TypeOK ==
  /\ {cur, des, etc, linked, mgr} \subseteq Configs
  /\ \A u \in Units : unit[u].state \in {"active", "inactive", "failed", "activating"}
  /\ pc \in Phases /\ enabling \in BOOLEAN
  /\ outcome \in {"", "active", "failed", "rolled-back", "rollback-failed"}
  /\ faults \in 0..MaxFaults /\ writes \in 0..MaxWrites

Active(u) == unit[u].state = "active"
WasActive(u) == seen.unit[u].state = "active"

(* The set stops notifying a unit.                                         *)
Dropped(u) == Of(cur).notify[u] # "" /\ Of(des).notify[u] = ""

(* An apply reported active is in force: each running unit uses the        *)
(* desired unit file and configuration, newly enabled units run, masked    *)
(* and disabled ones do not, nothing else was stopped, and sysctls and     *)
(* the services of the other domains have the desired values.  A unit the  *)
(* changed sets notified and do not notify any more is excepted: the plan  *)
(* takes the notifications of the new set, so such a unit runs on with the *)
(* file it read (host_configuration.go 120-126, 214-221).                  *)
SuccessInForce ==
  outcome = "active" =>
    /\ etc = des /\ linked = des /\ svc = Of(des).svc
    /\ \A u \in Units :
         /\ Active(u) => unit[u].uf = UnitFile(des, u)
         /\ Active(u) /\ ~Dropped(u) => unit[u].cf = ConfFile(des, u)
         /\ u \in Of(des).enabled \ Of(cur).enabled => Active(u) /\ unit[u].en
         /\ u \in Of(des).masked \cup (Of(cur).enabled \ Of(des).enabled) => ~Active(u)
         /\ WasActive(u) /\ u \notin Of(des).masked \cup (Of(cur).enabled \ Of(des).enabled)
              => Active(u)
    /\ \A p \in DOMAIN sysctl : Of(cur).files[p] # Of(des).files[p] =>
         sysctl[p] = Of(des).files[p]

(* An apply reported rolled back has restored what it found: the units     *)
(* that ran run again, with the files they used, enablement, sysctl values *)
(* and the services of the other domains are as before.                    *)
RollbackRestores ==
  outcome = "rolled-back" =>
    /\ etc = cur /\ linked = cur /\ sysctl = seen.sysctl /\ svc = Of(cur).svc
    /\ \A u \in Units :
         /\ Active(u) <=> WasActive(u)
         /\ unit[u].state = "failed" => seen.unit[u].state = "failed"
         /\ unit[u].en = seen.unit[u].en
         /\ Active(u) => unit[u].uf = seen.unit[u].uf /\ unit[u].cf = seen.unit[u].cf

(* A status write that fails is the only way an apply that touched the     *)
(* runtime ends neither active nor rolled back nor known to have failed to *)
(* roll back.                                                              *)
NoSilentPartialApply ==
  outcome = "failed" /\ writes = 0 =>
    etc = cur /\ linked = cur /\ mgr = cur /\ unit = seen.unit
    /\ sysctl = seen.sysctl /\ svc = Of(cur).svc

(* One failing command is recovered from: the rollback does not fail too.  *)
OneFailureRollsBack == outcome = "rollback-failed" => faults + writes > 1
=============================================================================
