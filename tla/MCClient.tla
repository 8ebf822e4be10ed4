------------------------------ MODULE MCClient ------------------------------
(* Instances of what katlctl does to nodes: the authority that protects the   *)
(* management plane, the commands about one node, and wiping nodes.           *)
EXTENDS ManagementTrust

MCNodes == <<"n1", "n2">>

-----------------------------------------------------------------------------
(* The components do not share variables of the code, so a behaviour runs one *)
(* of them: part says which.  A name that node commands and wipes both use is *)
(* one variable.                                                              *)
VARIABLES part, hosts, at, call, told, out, runs, events, host, members, api, wipes

otherVars == <<hosts, at, call, told, out, runs, events, host, members, api, wipes>>

Node == INSTANCE NodeCommands WITH
  cmd <- call,
  Commands <- {"upgrade", "apply", "reboot", "shutdown", "join", "watch"}, MaxSteps <- 3
Reboots == INSTANCE NodeCommands WITH cmd <- call, Commands <- {"reboot", "shutdown"}, MaxSteps <- 4
Wiping == INSTANCE ClusterWipe WITH
  cmd <- call, done <- told,
  Names <- <<"n1", "n2">>, ControlPlanes <- {"n1", "n2"}, NotJoined <- {"n2"},
  Selections <- {{"n1"}, {"n2"}}, Operators <- {1, 2}, MaxWipes <- 2, MaxEvents <- 1
Several == INSTANCE ClusterWipe WITH
  cmd <- call, done <- told,
  Names <- <<"n1", "n2", "n3">>, ControlPlanes <- {"n1", "n2"}, NotJoined <- {"n2"},
  Selections <- {{"n2", "n3"}}, Operators <- {1}, MaxWipes <- 1, MaxEvents <- 2

Off == "not used"

NoTrust == Init /\ config.count = 1
NoNode == hosts = Off /\ at = Off /\ out = Off /\ runs = Off
NoWipe == host = Off /\ members = Off /\ api = Off /\ told = Off /\ wipes = Off
KeepNode == UNCHANGED <<hosts, at, out, runs>>
KeepWipe == UNCHANGED <<host, members, api, told, wipes>>

MCInit ==
  \/ part = "trust" /\ Init /\ NoNode /\ NoWipe /\ call = Off /\ events = Off
  \/ part = "node" /\ NoTrust /\ Node!Init /\ NoWipe
  \/ part = "reboots" /\ NoTrust /\ Reboots!Init /\ NoWipe
  \/ part = "wipe" /\ NoTrust /\ NoNode /\ Wiping!Init
  \/ part = "wipe several" /\ NoTrust /\ NoNode /\ Several!Init

MCNext ==
  \/ part = "trust" /\ Next /\ UNCHANGED <<part, otherVars>>
  \/ part = "node" /\ Node!Next /\ KeepWipe /\ UNCHANGED <<part, vars>>
  \/ part = "reboots" /\ Reboots!Next /\ KeepWipe /\ UNCHANGED <<part, vars>>
  \/ part = "wipe" /\ Wiping!Next /\ KeepNode /\ UNCHANGED <<part, vars>>
  \/ part = "wipe several" /\ Several!Next /\ KeepNode /\ UNCHANGED <<part, vars>>

MCSpec == MCInit /\ [][MCNext]_<<part, vars, otherVars>>

-----------------------------------------------------------------------------
(* Properties; those of the authority are stated in ManagementTrust.       *)

(* Whatever happens to machines, agents and addresses between the calls of a  *)
(* command and while one is served, it changes only the installation it read; *)
(* an upgrade or a change of configuration is accepted only on the generation *)
(* it read.  A wipe destroys only an installation it looked at, when every    *)
(* target would do, and a node wipe last of all: when the node is out of etcd *)
(* and Kubernetes.  The removal of a node's member never costs the rest of    *)
(* etcd its quorum; a cluster wipe of some nodes removes no member, and may.  *)
RequestsAimed ==
  [][/\ part = "node" => Node!MutationsAimed
     /\ part = "reboots" => Reboots!MutationsAimed
     /\ part = "wipe" => Wiping!WipesSafe
     /\ part = "wipe several" => Several!WipesSafe]_<<part, vars, otherVars>>

(* A command that reports an upgrade, a reboot or a wipe done is right,       *)
(* except where the code cannot tell: a reboot is also reported when only the *)
(* agent started anew, or when without mutual TLS another machine answers;    *)
(* and a wiped machine that loses power before its power-off may boot again,  *)
(* as nothing it removed was synced.                                          *)
ReportsTrue ==
  [][/\ part = "node" => Node!CommandsTruthful
     /\ part = "reboots" => Reboots!CommandsTruthful
     /\ part = "wipe" => Wiping!WipesTruthful'
     /\ part = "wipe several" => Several!WipesTruthful']_<<part, vars, otherVars>>
=============================================================================
