----------------------------- MODULE ClusterWipe -----------------------------
(***************************************************************************)
(* katlctl cluster wipe and node wipe (cmd/katlctl/main.go, etcd.go) and   *)
(* the destructive reset they submit (internal/katlc/agent).  A wipe reads *)
(* every target first and changes none unless all of them will do; a node  *)
(* wipe takes the node out of etcd and of Kubernetes before it destroys    *)
(* it.  Operators wipe at the same time while nodes go down, are installed *)
(* anew, join, or run other operations.                                    *)
(*                                                                         *)
(* Abstracted: an enrollment is the number of the installation and a       *)
(* generation a number; the steps of an etcd member removal on its         *)
(* coordinator are one (EtcdChanges has them); cordon and drain, whose     *)
(* failure changes nothing that follows, are left out, and so are the      *)
(* report's texts.                                                         *)
(***************************************************************************)
EXTENDS Naturals, Sequences, FiniteSets

CONSTANTS Names,          \* the nodes of the inventory, by name
          ControlPlanes,  \* those that are control planes
          NotJoined,      \* nodes that may not have joined yet at first
          Selections,     \* the sets of targets that are tried
          Operators,      \* numbers; they are alike, so the first idle one begins
          MaxWipes, MaxEvents

NodeSet == {Names[i] : i \in DOMAIN Names}

VARIABLES host,      \* each machine
          members,   \* the etcd members
          api,       \* the Node objects
          cmd,       \* each operator's command
          done,      \* what its last one reported
          wipes, events

vars == <<host, members, api, cmd, done, wipes, events>>

Idle == [pc |-> "idle"]
Unseen == [inst |-> 0, gen |-> 0, k8s |-> "none", boots |-> 0]
NoOp == [kind |-> "none", for |-> "", count |-> 0, id |-> <<0, 0>>, phase |-> "done", ok |-> TRUE]

-----------------------------------------------------------------------------
(* The agent                                                               *)

Busy(h) == h.op.phase # "done"
status(h) == [inst |-> h.inst, gen |-> h.gen, k8s |-> h.k8s, boots |-> h.boots]
validateMutationTarget(h, seen) == h.inst = seen.inst /\ h.gen = seen.gen
Healthy == {n \in members : host[n].up /\ host[n].k8s = "enrolled"}
Quorum(s) == Cardinality(s) \div 2 + 1

-----------------------------------------------------------------------------
(* Targets                                                                 *)

(* --all, or the nodes named; a selection that is not the whole inventory  *)
(* is partial.                                                             *)
wipeClusterTargets(ns) == SelectSeq(Names, LAMBDA n : n \in ns)

(* What the inventory knows of a node: the identity of a saved context, or *)
(* the one the configuration's node shows now.                             *)
overlayWipeContext(saved, n) == IF saved THEN 1 ELSE host[n].inst

(* The first other control plane.                                          *)
selectEtcdCoordinator(target) ==
  LET others == SelectSeq(Names, LAMBDA n : n \in ControlPlanes \ {target})
  IN IF others = <<>> THEN "" ELSE others[1]

TargetSet(c) == {c.targets[i] : i \in DOMAIN c.targets}
Here(o, pc) == cmd[o].pc = pc
Set(o, c) == cmd' = [cmd EXCEPT ![o] = c]
Go(o, pc) == Set(o, [cmd[o] EXCEPT !.pc = pc]) /\ UNCHANGED done
Report(o, r) ==
  /\ Set(o, Idle)
  /\ done' = [done EXCEPT ![o] =
       [result |-> r, targets |-> IF r = "wiped" THEN {<<n, cmd[o].seen[n].inst>> : n \in TargetSet(cmd[o])} ELSE {}]]
Refuse(o) == Report(o, "error")
Calm == UNCHANGED <<host, members, api, wipes, events>>
Target(o) == cmd[o].targets[cmd[o].next]

(* verifyPlannedStatus: the node is the installation the inventory knows.  *)
Bound(n, inst) == host[n].inst = inst

Begin(o) ==
  /\ Here(o, "idle") /\ (\A p \in Operators : Here(p, "idle") => o <= p)
  /\ wipes < MaxWipes /\ wipes' = wipes + 1
  /\ \E name \in {"cluster", "node"}, saved \in BOOLEAN, ns \in Selections :
       /\ name = "node" => Cardinality(ns) = 1
       /\ Set(o, [pc |-> "preflight", name |-> name, targets |-> wipeClusterTargets(ns), next |-> 1,
                  saved |-> saved, pinned |-> 0, wait |-> FALSE, bad |-> FALSE,
                  seen |-> [n \in NodeSet |-> Unseen], coordinator |-> "", count |-> 0, boot |-> <<>>, id |-> wipes + 1])
  /\ UNCHANGED <<host, members, api, done, events>>

(* Every target is asked, also after one will not do: it must answer, by   *)
(* its name, and no operation may hold it.  Which installation a saved     *)
(* context knows is not compared: a node installed anew since then will    *)
(* do.  One that will not do ends the command once all were asked.         *)
preflightWipeCluster(o) ==
  /\ Here(o, "preflight") /\ Calm
  /\ LET c == cmd[o] h == host[Target(o)]
         ok == h.up /\ ~Busy(h)
         d == [c EXCEPT !.seen[Target(o)] = IF h.up THEN status(h) ELSE Unseen, !.bad = @ \/ ~ok]
     IN IF c.next < Len(c.targets) THEN Set(o, [d EXCEPT !.next = @ + 1]) /\ UNCHANGED done
        ELSE IF d.bad THEN Refuse(o)
        ELSE \/ Report(o, "planned")
             \/ \E wait \in BOOLEAN :
                  /\ Set(o, [d EXCEPT !.next = 1, !.wait = wait, !.pc = IF c.name = "node" THEN "plan" ELSE "submit"])
                  /\ UNCHANGED done

-----------------------------------------------------------------------------
(* A node wipe                                                             *)

Configured(o) == cmd[o].seen[Target(o)].k8s # "none"

(* The member of an enrolled control plane can be spared, or is gone       *)
(* already; an enrolled node needs --kubeconfig, or the plan is all.       *)
planWipeEtcdRemoval(o) ==
  LET t == Target(o) co == selectEtcdCoordinator(t)
  IN /\ co # "" /\ host[co].up /\ Bound(co, overlayWipeContext(cmd[o].saved, co)) /\ co \in Healthy
     /\ Cardinality(Healthy) >= Quorum(members)
     /\ t \in members => Cardinality(Healthy \ {t}) >= Quorum(members \ {t})

PlanNodeWipe(o) ==
  /\ Here(o, "plan") /\ Calm
  /\ LET t == Target(o) c == cmd[o]
     IN IF ~Configured(o) THEN Go(o, "submit")
        ELSE IF t \in ControlPlanes /\ ~planWipeEtcdRemoval(o) THEN Refuse(o)
        ELSE IF t \notin ControlPlanes THEN Refuse(o) \/ Go(o, "delete")
        ELSE \/ Refuse(o)
             \/ Set(o, [c EXCEPT !.pc = IF t \in members THEN "etcd" ELSE "delete",
                                 !.coordinator = selectEtcdCoordinator(t), !.count = Cardinality(members),
                                 !.pinned = overlayWipeContext(c.saved, selectEtcdCoordinator(t))])
                /\ UNCHANGED done

(* The removal is submitted to the coordinator.                            *)
submitEtcdRemoval(o) ==
  /\ Here(o, "etcd") /\ UNCHANGED <<members, api, wipes, events>>
  /\ LET c == cmd[o] co == c.coordinator
     IN \/ /\ host[co].up /\ Bound(co, c.pinned) /\ ~Busy(host[co])
           /\ host' = [host EXCEPT ![co].op = [kind |-> "remove", for |-> Target(o), count |-> c.count,
                                               id |-> <<o, c.id>>, phase |-> "accepted", ok |-> FALSE]]
           /\ Go(o, "removing")
        \/ Refuse(o) /\ UNCHANGED host

(* The command goes on when the removal has succeeded, and only then.      *)
waitEtcdRemoval(o) ==
  /\ Here(o, "removing") /\ Calm
  /\ LET op == host[cmd[o].coordinator].op mine == op.id = <<o, cmd[o].id>>
     IN \/ mine /\ op.phase = "done" /\ op.ok /\ Go(o, "delete")
        \/ Refuse(o)

(* The Node object is deleted, for a control plane through the             *)
(* coordinator's API server; without that the machine is left alone.       *)
deleteWipeNodeKubernetes(o) ==
  /\ Here(o, "delete") /\ UNCHANGED <<host, members, wipes, events>>
  /\ \/ /\ IF Target(o) \in ControlPlanes THEN cmd[o].coordinator \in Healthy ELSE Healthy # {}
        /\ api' = api \ {Target(o)} /\ Go(o, "submit")
     \/ Refuse(o) /\ UNCHANGED api

-----------------------------------------------------------------------------
(* The reset                                                               *)

(* The next target, also after one that failed; the end tells of failures. *)
NextTarget(o, bad) ==
  LET c == [cmd[o] EXCEPT !.bad = @ \/ bad]
  IN IF c.next < Len(c.targets) THEN Set(o, [c EXCEPT !.next = @ + 1, !.pc = "submit", !.boot = <<>>]) /\ UNCHANGED done
     ELSE Report(o, IF c.bad THEN "error" ELSE IF c.wait THEN "wiped" ELSE "accepted")

(* The agent compares the node with what preflight saw; then, one request  *)
(* at a time, it takes it when nothing else runs.                          *)
submitWipeCluster(o) ==
  /\ Here(o, "submit") /\ Calm
  /\ LET t == Target(o) h == host[t]
     IN IF h.up /\ cmd[o].seen[t] # Unseen /\ validateMutationTarget(h, cmd[o].seen[t])
        THEN Set(o, [cmd[o] EXCEPT !.pc = "accept", !.boot = <<h.inst, h.boots>>]) /\ UNCHANGED done
        ELSE NextTarget(o, TRUE)
acceptOperation(o) ==
  /\ Here(o, "accept") /\ UNCHANGED <<members, api, wipes, events>>
  /\ LET t == Target(o) h == host[t]
     IN IF h.up /\ <<h.inst, h.boots>> = cmd[o].boot /\ ~Busy(h)
        THEN /\ host' = [host EXCEPT ![t].op = [kind |-> "reset", for |-> t, count |-> 0, id |-> <<o, cmd[o].id>>,
                                                phase |-> "accepted", ok |-> FALSE]]
             /\ IF cmd[o].wait THEN Go(o, "follow") ELSE NextTarget(o, FALSE)
        ELSE NextTarget(o, TRUE) /\ UNCHANGED host

(* A reset that did not succeed, or of which nothing was heard any more,   *)
(* counts as failed.                                                       *)
followReset(o) ==
  /\ Here(o, "follow") /\ Calm
  /\ LET op == host[Target(o)].op mine == op.id = <<o, cmd[o].id>>
     IN \/ mine /\ host[Target(o)].up /\ op.phase = "done" /\ NextTarget(o, ~op.ok)
        \/ NextTarget(o, TRUE)

(* On the node: the reset is recorded as started, every boot artifact is   *)
(* removed, the power-off is scheduled, and then it has succeeded.  A      *)
(* failure is recorded, or that fails too and the record stays unfinished. *)
Phase(n, p) == host[n].up /\ host[n].op.phase = p
Work(n, h) == host' = [host EXCEPT ![n] = h] /\ UNCHANGED <<members, api, cmd, done, wipes, events>>
Failed(h) == [h EXCEPT !.op.phase = "done", !.op.ok = FALSE]
Unfinished(h) == [h EXCEPT !.op.phase = "left"]
Fails(h) == {Failed(h), Unfinished(h)}

executeDestructiveReset(n) ==
  /\ Phase(n, "accepted") /\ host[n].op.kind = "reset"
  /\ \E h \in {[host[n] EXCEPT !.op.phase = "invalidate"]} \cup Fails(host[n]) : Work(n, h)

(* One that cannot be removed does not keep the others; the ESP may not    *)
(* even be there.  Nothing is synced.                                      *)
removeKatlBootArtifacts(n) ==
  /\ Phase(n, "invalidate")
  /\ \/ Work(n, [host[n] EXCEPT !.esp = "gone", !.op.phase = "poweroff"])
     \/ \E left \in {host[n].esp, IF host[n].esp = "gone" THEN "gone" ELSE "part"} : \E h \in Fails([host[n] EXCEPT !.esp = left]) : Work(n, h)
schedulePoweroff(n) ==
  /\ Phase(n, "poweroff")
  /\ \E h \in {[host[n] EXCEPT !.due = TRUE, !.op.phase = "complete"]} \cup Fails(host[n]) : Work(n, h)
CompleteReset(n) ==
  /\ Phase(n, "complete")
  /\ \E h \in {[host[n] EXCEPT !.op.phase = "done", !.op.ok = TRUE]} \cup Fails(host[n]) : Work(n, h)

(* The coordinator removes the member when the cluster is the one that was *)
(* planned for and can spare it.                                           *)
executeEtcdMemberRemove(n) ==
  /\ Phase(n, "accepted") /\ host[n].op.kind = "remove" /\ UNCHANGED <<api, cmd, done, wipes, events>>
  /\ LET op == host[n].op
         ok == n \in Healthy /\ op.for \in members /\ Cardinality(members) = op.count
               /\ Cardinality(Healthy) >= Quorum(members)
               /\ Cardinality(Healthy \ {op.for}) >= Quorum(members \ {op.for})
     IN \/ ok /\ members' = members \ {op.for} /\ host' = [host EXCEPT ![n].op.phase = "done", ![n].op.ok = TRUE]
        \/ /\ members' \in {members, IF ok THEN members \ {op.for} ELSE members}
           /\ \E h \in Fails(host[n]) : host' = [host EXCEPT ![n] = h]

-----------------------------------------------------------------------------
(* What else happens                                                       *)

Event == events < MaxEvents /\ events' = events + 1
Elsewhere == UNCHANGED <<cmd, done, wipes>>

(* A node is powered off when it is due, which writes out what was removed *)
(* from its ESP; it loses power any time, and then what was removed in     *)
(* that boot may be there again.                                           *)
PowerOff(n) ==
  /\ host[n].up /\ host[n].due /\ host' = [host EXCEPT ![n].up = FALSE]
  /\ UNCHANGED <<members, api, events>> /\ Elsewhere
Survives(esp) ==
  CASE esp = "gone" -> {"gone", "part", "whole"} [] esp = "part" -> {"part", "whole"} [] OTHER -> {"whole"}
LosePower(n) ==
  /\ host[n].up /\ Event /\ UNCHANGED <<members, api>> /\ Elsewhere
  /\ \E esp \in Survives(host[n].esp) :
       host' = [host EXCEPT ![n].up = FALSE, ![n].esp = esp, ![n].cut = @ \/ host[n].esp # "whole"]

(* An operation it ran has failed when it is back, which it is only with   *)
(* something of a boot path.                                               *)
BootUp(n) ==
  /\ ~host[n].up /\ host[n].esp # "gone" /\ UNCHANGED events /\ Elsewhere /\ UNCHANGED members
  /\ host' = [host EXCEPT ![n] = [(IF Busy(host[n]) THEN Failed(host[n]) ELSE host[n]) EXCEPT !.up = TRUE, !.due = FALSE, !.boots = @ + 1]]
  /\ api' = IF host[n].k8s = "none" THEN api ELSE api \cup {n}

(* A new installation.                                                     *)
Reinstall(n) ==
  /\ ~host[n].up /\ host[n].inst = 1 /\ Event /\ Elsewhere /\ UNCHANGED <<members, api>>
  /\ host' = [host EXCEPT ![n] = [inst |-> 2, gen |-> host[n].gen + 1, up |-> TRUE, k8s |-> "none", esp |-> "whole",
                                  due |-> FALSE, cut |-> FALSE, boots |-> 0, op |-> NoOp]]

(* A node joins, or runs an operation that makes a generation.             *)
Join(n) ==
  /\ host[n].up /\ ~Busy(host[n]) /\ host[n].k8s = "none" /\ host[n].esp = "whole" /\ n \notin members \cup api
  /\ Healthy # {} /\ Event /\ Elsewhere
  /\ host' = [host EXCEPT ![n].k8s = "enrolled", ![n].gen = @ + 1]
  /\ api' = api \cup {n} /\ members' = IF n \in ControlPlanes THEN members \cup {n} ELSE members
OtherOperation(n) ==
  /\ host[n].up /\ Elsewhere /\ UNCHANGED <<members, api>>
  /\ \/ ~Busy(host[n]) /\ Event /\ host' = [host EXCEPT ![n].op = [NoOp EXCEPT !.kind = "other", !.phase = "running"]]
     \/ host[n].op.phase = "running" /\ UNCHANGED events
        /\ host' = [host EXCEPT ![n].op.phase = "done", ![n].gen = @ + 1]

Init ==
  /\ \E out \in SUBSET NotJoined :
       /\ ControlPlanes \ out # {}
       /\ host = [n \in NodeSet |-> [inst |-> 1, gen |-> 1, up |-> TRUE, k8s |-> IF n \in out THEN "none" ELSE "enrolled",
                                     esp |-> "whole", due |-> FALSE, cut |-> FALSE, boots |-> 0, op |-> NoOp]]
       /\ members = ControlPlanes \ out /\ api = NodeSet \ out
  /\ cmd = [o \in Operators |-> Idle] /\ wipes = 0 /\ events = 0
  /\ done = [o \in Operators |-> [result |-> "", targets |-> {}]]

Command(o) ==
  \/ Begin(o) \/ preflightWipeCluster(o) \/ PlanNodeWipe(o) \/ submitEtcdRemoval(o) \/ waitEtcdRemoval(o)
  \/ deleteWipeNodeKubernetes(o) \/ submitWipeCluster(o) \/ acceptOperation(o)
  \/ followReset(o)
Machine(n) ==
  \/ executeDestructiveReset(n) \/ removeKatlBootArtifacts(n) \/ schedulePoweroff(n) \/ CompleteReset(n)
  \/ executeEtcdMemberRemove(n) \/ PowerOff(n) \/ LosePower(n) \/ BootUp(n) \/ Reinstall(n) \/ Join(n) \/ OtherOperation(n)
Next == (\E o \in Operators : Command(o)) \/ (\E n \in NodeSet : Machine(n))
Spec == Init /\ [][Next]_vars

-----------------------------------------------------------------------------
(* Only an installation that the command looked at is destroyed, and only  *)
(* when every target of the command would do then; a node wipe destroys a  *)
(* node it saw in the cluster last, when it is out of etcd, and out of     *)
(* Kubernetes unless it started again since.  Whatever operators do at     *)
(* once, no member removal of a node wipe costs the rest of etcd its       *)
(* quorum; a cluster wipe removes no member, and one of some nodes may.    *)
WipesSafe ==
  /\ \A n \in NodeSet : host'[n].op # host[n].op /\ host'[n].op.kind = "reset" /\ host'[n].op.phase = "accepted" =>
       \E o \in {x \in Operators : cmd[x] # Idle} :
         LET c == cmd[o]
         IN /\ host'[n].op.id = <<o, c.id>>
            /\ c.seen[n].inst = host[n].inst
            /\ \A t \in TargetSet(c) : c.seen[t] # Unseen
            /\ c.name = "node" /\ c.seen[n].k8s # "none"
                 => n \notin members /\ (n \in api => host[n].boots > c.seen[n].boots)
  /\ members' \subseteq members /\ members' # members /\ Cardinality(Healthy) >= Quorum(members)
       => Cardinality(Healthy \cap members') >= Quorum(members')

(* "wiped" means it: none of the targets can boot from its disk, and it is *)
(* off or about to be, unless it was installed anew since, or lost power   *)
(* between the removal and its power-off, when nothing was synced (cut).   *)
WipesTruthful ==
  \A o \in Operators : done[o].result = "wiped" =>
    \A t \in done[o].targets :
      LET h == host[t[1]]
      IN h.inst = t[2] /\ ~h.cut => h.esp = "gone" /\ (h.due \/ ~h.up)
=============================================================================
