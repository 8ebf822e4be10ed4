--------------------------- MODULE ManagementTrust ---------------------------
(***************************************************************************)
(* The mutual-TLS authority of a cluster's management plane: the secrets   *)
(* files beside the ClusterConfig (internal/managementidentity), what the  *)
(* installer and a rotation leave on a node (internal/nodeidentity,        *)
(* cmd/katlc), and the katlctl commands that create, export, import and    *)
(* rotate it (cmd/katlctl/management_*.go).  A command may be stopped      *)
(* between any two steps, a node may lose power, and the operator edits    *)
(* the ClusterConfig meanwhile.                                            *)
(*                                                                         *)
(* Abstracted: an authority is its fingerprint; the server leaf of a node  *)
(* is 0 when the bundle stores it, else the number of the issue; a         *)
(* certificate, its key and the operator's pair are valid when they belong *)
(* to one authority.  Expiry, SOPS, file modes and the trusted-network     *)
(* mode, which has no credentials, are left out.                           *)
(***************************************************************************)
EXTENDS Naturals, Sequences

CONSTANTS Nodes,        \* inventory names, in the order of the ClusterConfig
          Authorities,  \* authorities that can be generated
          FirstAuthority,   \* the one the nodes were installed with
          Paths,        \* where secrets files may be
          Store,        \* the file of the installed authority
          MaxCommands, MaxFaults

None == "none"
NodeSet == {Nodes[i] : i \in DOMAIN Nodes}

(* The nodes are a list, an authority has a fingerprint, and the installed *)
(* one is in a file of the workstation.                                    *)
ASSUME TrustAssumption ==
  /\ Nodes \in Seq(NodeSet) /\ Store \in Paths
  /\ FirstAuthority \in Authorities /\ None \notin Authorities

VARIABLES files,    \* the bundle at each path, on the workstation
          config,   \* the ClusterConfig: reference, number of nodes, edits
          node,     \* what each node has on disk and serves
          cmd,      \* the running katlctl command
          done,     \* what the last command reported
          fresh,    \* the authorities not yet generated
          commands, faults

vars == <<files, config, node, cmd, done, fresh, commands, faults>>

Idle == [pc |-> "idle"]
NoFile == [ca |-> None, nodes |-> {}]
NoCert == <<None, 0>>
NoSession == [pc |-> None, ca |-> None, cert |-> NoCert, expected |-> None]

-----------------------------------------------------------------------------
(* Bundles                                                                 *)

Listed(n) == {Nodes[i] : i \in 1..n}

(* A new authority with no leaves; EnsureNode adds one for every node.     *)
Generate(ca) == [ca |-> ca, nodes |-> {}]
EnsureNodes(b, ns) == [b EXCEPT !.nodes = @ \cup ns]

(* The leaf of a node: the stored one, or one issued for this call alone.  *)
EnsureNode(b, n, issue) == <<b.ca, IF n \in b.nodes THEN 0 ELSE issue>>

Held(p) == files[p] # NoFile

-----------------------------------------------------------------------------
(* A node                                                                  *)

Blank ==
  [ca |-> None, cert |-> NoCert, key |-> NoCert, mode |-> None, versions |-> [a \in Authorities |-> NoCert], synced |-> {},
   active |-> None, durable |-> None, serving |-> NoCert, busy |-> FALSE, session |-> NoSession]
Provisioned(c) == [Blank EXCEPT !.ca = c[1], !.cert = c, !.key = c, !.mode = "mtls", !.serving = c]

(* The credential set a start of the agent reads: the active version,      *)
(* which may be lost, or the files the installer wrote.                    *)
ManagementCredentialsPaths(d) ==
  IF d.active = None THEN [ca |-> d.ca, cert |-> d.cert, key |-> d.key]
  ELSE [ca |-> d.versions[d.active][1], cert |-> d.versions[d.active], key |-> d.versions[d.active]]

(* A complete set, whose key fits its certificate, or the agent does not   *)
(* listen at all; a mode that is not recorded is mutual TLS.               *)
ServerTLSConfig(d) ==
  LET s == ManagementCredentialsPaths(d)
  IN IF s.ca = None \/ s.cert = NoCert \/ s.key # s.cert THEN NoCert ELSE <<s.ca, s.cert[2]>>

(* A client gets in when it and the node know the same authority.          *)
checkManagementCredential(n, ca) == node[n].serving[1] = ca

(* May this node be rotated by this request?                               *)
InspectManagementRotation(d, req) ==
  LET s == ManagementCredentialsPaths(d)
  IN /\ d.mode = "mtls" /\ req.ca # req.expected
     /\ s.ca \in {req.expected, req.ca}
     /\ s.ca = req.ca => s.cert = req.cert /\ s.key = req.cert
AlreadyRotated(d, req) == ManagementCredentialsPaths(d).ca = req.ca

(* WriteManagementIdentity: a file that exists must be the same; the mode  *)
(* is published last.  A node that was rotated keeps its active version,   *)
(* which must be the material of this installation.                        *)
WriteManagementIdentity(n, c) ==
  LET d == node[n] s == ManagementCredentialsPaths(d)
      next == IF d.active # None THEN IF <<s.ca, s.cert, s.key>> # <<c[1], c, c>> THEN d ELSE [d EXCEPT !.mode = "mtls"]
              ELSE IF d.ca \notin {None, c[1]} THEN d
              ELSE IF d.ca = None THEN [d EXCEPT !.ca = c[1]]
              ELSE IF d.cert \notin {NoCert, c} THEN d
              ELSE IF d.cert = NoCert THEN [d EXCEPT !.cert = c]
              ELSE IF d.key \notin {NoCert, c} THEN d
              ELSE IF d.key = NoCert THEN [d EXCEPT !.key = c]
              ELSE [d EXCEPT !.mode = "mtls"]
  IN next # d /\ node' = [node EXCEPT ![n] = next]

-----------------------------------------------------------------------------
(* The commands                                                            *)

Here(pc) == cmd.pc = pc
Step(pc) == cmd' = [cmd EXCEPT !.pc = pc] /\ UNCHANGED done
Report(r) == cmd' = Idle /\ done' = r
Error == Report("error")
Workstation == UNCHANGED <<node, commands, faults>>
Target == Nodes[cmd.next]

(* A secrets file is linked into place; one that exists is never replaced. *)
Write(p, b) == ~Held(p) /\ files' = [files EXCEPT ![p] = b]

(* The ClusterConfig is read again and compared with what the command      *)
(* started from; then that, with the new reference, is renamed over it,    *)
(* and an edit made in between is gone.                                    *)
compareManagementSecrets == config.edits = cmd.edits
referenceManagementSecrets(p) == config' = [ref |-> p, count |-> cmd.count, edits |-> cmd.edits]

Begin ==
  /\ Here("idle") /\ commands < MaxCommands /\ commands' = commands + 1
  /\ \E name \in {"create", "export", "import", "rotate"}, out \in Paths :
       cmd' = [pc |-> name, name |-> name, out |-> out, edits |-> config.edits, count |-> config.count, next |-> 1,
               old |-> files[config.ref], new |-> NoFile, touched |-> {}, late |-> 0]
  /\ UNCHANGED <<files, config, node, done, fresh, faults>>

(* create makes a new authority, export copies the one in use; both give   *)
(* every node a leaf, save and then reference the file.                    *)
managementSecretsCommand ==
  /\ cmd.pc \in {"create", "export"} /\ Workstation /\ UNCHANGED config
  /\ \/ \E ca \in IF Here("create") THEN fresh ELSE {cmd.old.ca} :
          LET b == EnsureNodes(IF Here("create") THEN Generate(ca) ELSE cmd.old, Listed(cmd.count))
          IN /\ fresh' = fresh \ {ca} /\ Write(cmd.out, b)
             /\ cmd' = [cmd EXCEPT !.pc = "reference", !.new = b] /\ UNCHANGED done
     \/ Error /\ UNCHANGED <<files, fresh>>

(* import restores a backup to the store, unless another authority is      *)
(* there.                                                                  *)
ImportIdentity ==
  /\ Here("import") /\ Workstation /\ UNCHANGED <<config, fresh>>
  /\ \/ Held(cmd.out) /\ Write(Store, files[cmd.out]) /\ Report("imported")
     \/ Held(Store) /\ Held(cmd.out) /\ UNCHANGED files
        /\ Report(IF files[Store].ca = files[cmd.out].ca THEN "available" ELSE "error")
     \/ ~Held(cmd.out) /\ Error /\ UNCHANGED files

(* A rotation towards the file in use only checks that every node accepts  *)
(* it.                                                                     *)
runManagementIdentityRotate ==
  /\ Here("rotate") /\ Workstation /\ UNCHANGED <<files, config, fresh>>
  /\ IF config.ref = cmd.out
     THEN Report(IF \A n \in Listed(cmd.count) : checkManagementCredential(n, cmd.old.ca) THEN "in use" ELSE "error")
     ELSE Step("replace")

(* The replacement: the file there, if it has every node, or a new         *)
(* authority, which is saved before any node changes.                      *)
(* M: it is kept in memory until the reference is written.                 *)
replacementInMemory ==
  /\ Here("replace") /\ Workstation /\ UNCHANGED <<config, files>>
  /\ \E ca \in fresh :
       /\ fresh' = fresh \ {ca} /\ UNCHANGED done
       /\ cmd' = [cmd EXCEPT !.pc = "preflight", !.new = EnsureNodes(Generate(ca), Listed(cmd.count))]
replacementManagementIdentity ==
  /\ Here("replace") /\ Workstation /\ UNCHANGED config
  /\ IF Held(cmd.out)
     THEN /\ IF Listed(cmd.count) \subseteq files[cmd.out].nodes /\ files[cmd.out].ca # cmd.old.ca
             THEN cmd' = [cmd EXCEPT !.pc = "preflight", !.new = files[cmd.out]] /\ UNCHANGED done
             ELSE Error
          /\ UNCHANGED <<files, fresh>>
     ELSE \/ \E ca \in fresh :
               LET b == EnsureNodes(Generate(ca), Listed(cmd.count))
               IN /\ fresh' = fresh \ {ca} /\ Write(cmd.out, b)
                  /\ cmd' = [cmd EXCEPT !.pc = "preflight", !.new = b] /\ UNCHANGED done
          \/ Error /\ UNCHANGED <<files, fresh>>

managementRotationNodes(n) ==
  [pc |-> "stage", ca |-> cmd.new.ca, cert |-> EnsureNode(cmd.new, n, 0), expected |-> cmd.old.ca]

(* Every node is asked first, over SSH, whether it can be rotated.         *)
Preflight ==
  /\ Here("preflight") /\ Workstation /\ UNCHANGED <<files, config, fresh>>
  /\ \/ /\ InspectManagementRotation(node[Target], managementRotationNodes(Target)) /\ UNCHANGED done
        /\ cmd' = IF cmd.next < cmd.count THEN [cmd EXCEPT !.next = @ + 1]
                  ELSE [cmd EXCEPT !.pc = "switch", !.next = 1]
     \/ Error

NextNode == IF cmd.next < cmd.count THEN [cmd EXCEPT !.pc = "switch", !.next = @ + 1] ELSE [cmd EXCEPT !.pc = "reference"]

(* Then one node after the other is switched: a session on the node, one   *)
(* at a time and never beside an operation.                                *)
(* M: a node that refuses the session is passed over.                      *)
sshPassingOver ==
  /\ Here("switch") /\ UNCHANGED <<files, config, fresh, commands, faults>>
  /\ LET d == node[Target] req == managementRotationNodes(Target)
     IN \/ /\ InspectManagementRotation(d, req) /\ d.session = NoSession /\ ~d.busy
           /\ node' = [node EXCEPT ![Target].session = IF AlreadyRotated(d, req) THEN [req EXCEPT !.pc = "restart"] ELSE req]
           /\ Step("wait")
        \/ cmd' = NextNode /\ UNCHANGED <<node, done>>
sshManagementRotation ==
  /\ Here("switch") /\ UNCHANGED <<files, config, fresh, commands, faults>>
  /\ LET d == node[Target] req == managementRotationNodes(Target)
     IN \/ /\ InspectManagementRotation(d, req) /\ d.session = NoSession /\ ~d.busy
           /\ node' = [node EXCEPT ![Target].session = IF AlreadyRotated(d, req) THEN [req EXCEPT !.pc = "restart"] ELSE req]
           /\ Step("wait")
        \/ Error /\ UNCHANGED node

(* The session's answer; a session that was lost gives an error.           *)
verifyRotatedManagement ==
  /\ Here("wait") /\ UNCHANGED <<files, config, fresh, commands, faults>>
  /\ node[Target].session.pc \in {None, "done", "failed"}
  /\ node' = [node EXCEPT ![Target].session = NoSession]
  /\ \/ /\ node[Target].session.pc = "done"
        /\ checkManagementCredential(Target, cmd.new.ca) /\ ~checkManagementCredential(Target, cmd.old.ca)
        /\ cmd' = NextNode /\ UNCHANGED done
     \/ Error

(* The ClusterConfig is changed last.                                      *)
PublishReference ==
  /\ Here("reference") /\ Workstation /\ UNCHANGED <<files, fresh>>
  /\ \/ compareManagementSecrets /\ Step("rename")
     \/ Error
  /\ UNCHANGED config
RenameReference ==
  /\ Here("rename") /\ Workstation /\ UNCHANGED <<files, fresh>>
  /\ \/ referenceManagementSecrets(cmd.out) /\ Report(cmd.name)
     \/ Error /\ UNCHANGED config

-----------------------------------------------------------------------------
(* The session on a node                                                   *)

Session(n, pc) == node[n].session.pc = pc
Local == UNCHANGED <<files, config, cmd, done, fresh, commands, faults>>
Put(n, d) == node' = [node EXCEPT ![n] = d]
Move(d, pc) == [d EXCEPT !.session.pc = pc]

(* Any step may fail.                                                      *)
Fails(n) == Put(n, Move(node[n], "failed"))

(* A version is written beside the others and renamed into place, then the *)
(* directory is synced; one that exists must be the same, and is not       *)
(* synced again.                                                           *)
stageManagementVersion(n) ==
  LET d == node[n] have == d.versions[d.session.ca]
  IN /\ Session(n, "stage") /\ Local
     /\ \/ have = NoCert /\ Put(n, Move([d EXCEPT !.versions[d.session.ca] = d.session.cert], "sync version"))
        \/ have = d.session.cert /\ Put(n, Move(d, "activate"))
        \/ Fails(n)
syncVersions(n) ==
  LET d == node[n]
  IN /\ Session(n, "sync version") /\ Local
     /\ Put(n, Move([d EXCEPT !.synced = @ \cup {d.session.ca}], "activate")) \/ Fails(n)

(* The link is renamed, and its directory synced.                          *)
RotateManagementIdentity(n) ==
  LET d == node[n]
  IN /\ Session(n, "activate") /\ Local
     /\ Put(n, Move([d EXCEPT !.active = d.session.ca], "sync")) \/ Fails(n)
syncManagementDirectory(n) ==
  LET d == node[n]
  IN /\ Session(n, "sync") /\ Local
     /\ Put(n, Move([d EXCEPT !.durable = d.active], "restart")) \/ Fails(n)

(* The agent starts with what it finds, or does not stay up.               *)
rotateManagementOnNode(n) ==
  /\ Session(n, "restart") /\ Local
  /\ LET d == node[n]
     IN \/ Put(n, Move([d EXCEPT !.serving = ServerTLSConfig(d)],
                       IF ServerTLSConfig(d) = NoCert THEN "failed" ELSE "done"))
        \/ Fails(n)

-----------------------------------------------------------------------------
(* What else happens                                                       *)

Fault == faults < MaxFaults /\ faults' = faults + 1
Elsewhere == UNCHANGED <<files, config, done, fresh, commands>>
Touch(n) == cmd' = IF Here("idle") THEN cmd ELSE [cmd EXCEPT !.touched = @ \cup {n}]

(* katlctl is stopped; the session on the node may go on without it.       *)
Stopped ==
  /\ ~Here("idle") /\ Fault /\ Report("error") /\ UNCHANGED <<files, config, fresh, commands>>
  /\ UNCHANGED node \/ (cmd.pc = "wait" /\ node' = [node EXCEPT ![Target].session = NoSession])

(* Power is lost: a rename that was not synced may be undone, that of the  *)
(* link and that of a version.                                             *)
Present(d) == {v \in Authorities : d.versions[v] # NoCert}
AfterPowerLoss(d, a, lost) ==
  [d EXCEPT !.active = a, !.durable = a, !.session = NoSession, !.busy = FALSE, !.synced = Present(d) \ lost,
            !.versions = [v \in Authorities |-> IF v \in lost THEN NoCert ELSE d.versions[v]]]
Booted(d) == [d EXCEPT !.serving = IF d.mode = "mtls" THEN ServerTLSConfig(d) ELSE NoCert]
PowerLoss(n) ==
  /\ Fault /\ Elsewhere /\ Touch(n)
  /\ \E a \in {node[n].active, node[n].durable}, lost \in SUBSET (Present(node[n]) \ node[n].synced) :
       Put(n, Booted(AfterPowerLoss(node[n], a, lost)))

AgentRestart(n) ==
  /\ Fault /\ Elsewhere /\ UNCHANGED cmd /\ node[n].mode = "mtls"
  /\ Put(n, [node[n] EXCEPT !.serving = ServerTLSConfig(node[n])])

(* A node operation starts, or ends; none starts beside a session.         *)
NodeOperation(n) ==
  /\ node[n].session = NoSession /\ Elsewhere /\ UNCHANGED cmd
  /\ IF node[n].busy THEN UNCHANGED faults ELSE Fault
  /\ Put(n, [node[n] EXCEPT !.busy = ~@])

(* The installer writes the identity a ClusterConfig was compiled with, on *)
(* a disk it wiped or, tried again, on what it left; then the node boots.  *)
Wipe(n) ==
  Fault /\ Elsewhere /\ Put(n, Blank) /\ Touch(n)
WriteIdentity(n) ==
  /\ node[n].mode = None /\ Elsewhere /\ UNCHANGED <<cmd, faults>>
  /\ \E p \in Paths : Held(p) /\ WriteManagementIdentity(n, EnsureNode(files[p], n, commands + 1))
FirstBoot(n) ==
  /\ node[n].mode = "mtls" /\ node[n].serving = NoCert /\ ServerTLSConfig(node[n]) # NoCert /\ Local
  /\ Put(n, [node[n] EXCEPT !.serving = ServerTLSConfig(node[n])])

(* The operator edits the ClusterConfig; late counts the edits made after  *)
(* it was compared.                                                        *)
Edit ==
  /\ Fault /\ UNCHANGED <<files, node, done, fresh, commands>>
  /\ cmd' = IF Here("rename") THEN [cmd EXCEPT !.late = @ + 1] ELSE cmd
  /\ \E c \in {config.count, Len(Nodes)} : config' = [config EXCEPT !.edits = @ + 1, !.count = c]

Init ==
  /\ files = [p \in Paths |-> IF p = Store THEN EnsureNodes(Generate(FirstAuthority), Listed(1)) ELSE NoFile]
  /\ \E c \in 1..Len(Nodes) : config = [ref |-> Store, count |-> c, edits |-> 0]
  /\ node = [n \in NodeSet |-> Provisioned(EnsureNode(files[Store], n, 1))]
  /\ cmd = Idle /\ done = "" /\ fresh = Authorities \ {FirstAuthority} /\ commands = 0 /\ faults = 0

Commands ==
  \/ Begin \/ managementSecretsCommand \/ ImportIdentity \/ runManagementIdentityRotate
  \/ replacementManagementIdentity \/ Preflight \/ sshManagementRotation \/ verifyRotatedManagement
  \/ PublishReference \/ RenameReference
OnNode(n) ==
  \/ stageManagementVersion(n) \/ syncVersions(n) \/ RotateManagementIdentity(n) \/ syncManagementDirectory(n)
  \/ rotateManagementOnNode(n) \/ PowerLoss(n) \/ AgentRestart(n) \/ NodeOperation(n)
  \/ Wipe(n) \/ WriteIdentity(n) \/ FirstBoot(n)
Next == Commands \/ Stopped \/ Edit \/ \E n \in NodeSet : OnNode(n)
Spec == Init /\ [][Next]_vars

-----------------------------------------------------------------------------
(* A node that serves lets its operator in: whatever it serves, and        *)
(* whatever it would serve after its next start, is one complete set of    *)
(* credentials, and a secrets file of that authority is on the             *)
(* workstation, however a command or a node was interrupted (the           *)
(* replacement is saved before any node changes, files are linked and      *)
(* never replaced, versions are switched as a whole).  A node that serves  *)
(* nothing is not promised to come back: one half installed, or one whose  *)
(* active version, found and not synced by a retry, a power loss took.     *)
AccessKept ==
  \A n \in NodeSet :
    \A a \in {node[n].active, node[n].durable} :
      LET start == [node[n] EXCEPT !.active = a] set == ManagementCredentialsPaths(start)
      IN /\ \A c \in {node[n].serving, ServerTLSConfig(start)} \ {NoCert} : \E p \in Paths : files[p].ca = c[1]
         /\ set.cert # NoCert => set.cert[1] = set.ca

(* When a rotation changes it, every node it was about has switched to the *)
(* authority of that file, unless it was installed anew or lost power      *)
(* meanwhile; and an edit of the operator is undone only when it was made  *)
(* after the ClusterConfig was compared and before the rename.  (A node    *)
(* killed between the rename and the sync of its directory is not synced   *)
(* by the retry, so a power loss may still bring its old set back.)        *)
SwitchedBefore ==
  /\ config'.edits < config.edits => Here("rename") /\ config.edits - config'.edits <= cmd.late
  /\ config'.ref # config.ref /\ cmd.name = "rotate" =>
       \A n \in Listed(cmd.count) \ cmd.touched :
         ManagementCredentialsPaths(node[n]).ca = files[config'.ref].ca

(* "The ClusterConfig reference changes only after every node succeeds":   *)
(* the reference names a new authority when every node has switched to it, *)
(* and of the operator's edits only one made in the moment between the     *)
(* comparison and the rename is lost.                                      *)
ReferenceLast == [][SwitchedBefore]_vars
=============================================================================
