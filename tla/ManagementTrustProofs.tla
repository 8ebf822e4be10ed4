----------------------- MODULE ManagementTrustProofs ------------------------
(***************************************************************************)
(* Proofs about ManagementTrust for every list of nodes, every set of      *)
(* authorities and paths, and any number of commands and faults.           *)
(***************************************************************************)
EXTENDS ManagementTrust, TLAPS

Known == {files[p].ca : p \in Paths} \ {None}

Bundles == [ca : Authorities \cup {None}, nodes : SUBSET NodeSet]
Certs == (Authorities \cup {None}) \X Nat
Sessions ==
  [pc : {None, "stage", "sync version", "activate", "sync", "restart", "done", "failed"},
   ca : Authorities \cup {None}, cert : Certs, expected : Authorities \cup {None}]
Disks ==
  [ca : Authorities \cup {None}, cert : Certs, key : Certs, mode : {None, "mtls"},
   versions : [Authorities -> Certs], synced : SUBSET Authorities, active : Authorities \cup {None},
   durable : Authorities \cup {None}, serving : Certs, busy : BOOLEAN, session : Sessions]

CommandRecords ==
  [pc : {"create", "export", "import", "rotate", "replace", "preflight", "switch", "wait", "reference", "rename"},
   name : {"create", "export", "import", "rotate"}, out : Paths, edits : Nat,
   count : 1..Len(Nodes), next : 1..Len(Nodes), old : Bundles, new : Bundles, touched : SUBSET NodeSet, late : Nat]

TypeInv ==
  /\ files \in [Paths -> Bundles]
  /\ config \in [ref : Paths, count : 1..Len(Nodes), edits : Nat]
  /\ node \in [NodeSet -> Disks]
  /\ cmd = Idle \/ cmd \in CommandRecords
  /\ fresh \subseteq Authorities /\ commands \in Nat

\* A file that is there holds an authority, and the ClusterConfig refers to one.
FilesInv ==
  /\ \A p \in Paths : files[p] = NoFile \/ files[p].ca # None
  /\ files[config.ref].ca # None

\* A command works with an authority that is on the workstation, and with a
\* replacement only when it is saved; once the ClusterConfig was compared,
\* only edits made since are unknown to it.
CommandInv ==
  cmd # Idle =>
    /\ cmd.next <= cmd.count /\ cmd.old.ca # None
    /\ cmd.pc \in {"preflight", "switch", "wait", "reference", "rename"} =>
         cmd.new = files[cmd.out] /\ cmd.new.ca # None
    /\ cmd.pc \in {"rotate", "replace", "preflight", "switch", "wait"} => cmd.name = "rotate"
    /\ cmd.pc \in {"create", "export", "import"} => cmd.name = cmd.pc
    /\ cmd.pc = "rename" => config.edits <= cmd.edits + cmd.late

\* What is on the disk of a node, with S the authorities on the workstation:
\* certificates lie beside their own authority, and a session carries one
\* whole set; past its switch the node uses that set.
DiskInv(d, S) ==
  /\ d.ca \in S \cup {None}
  /\ d.cert # NoCert => d.cert[1] = d.ca /\ d.ca # None
  /\ \A a \in Authorities : d.versions[a] # NoCert => d.versions[a][1] = a /\ a \in S
  /\ d.serving # NoCert => d.serving[1] \in S
  /\ d.session.pc # None =>
       /\ d.session.ca \in S /\ d.session.cert[1] = d.session.ca /\ d.mode = "mtls"
  /\ d.session.pc = None => d.session = NoSession
  /\ d.session.pc \in {"sync version", "activate"} => d.versions[d.session.ca] # NoCert
  /\ d.session.pc \in {"sync", "restart", "done"} =>
       ManagementCredentialsPaths(d).ca = d.session.ca

NodesInv == \A n \in NodeSet : DiskInv(node[n], Known)

\* A node that the running rotation switched, and that was not touched since.
Switched(n) ==
  \/ n \in cmd.touched
  \/ /\ node[n].mode = "mtls"
     /\ ManagementCredentialsPaths(node[n]).ca = cmd.new.ca
     /\ node[n].session.ca \in {None, cmd.new.ca}

\* The nodes before the next one are switched, and the session a rotation
\* waits for is its own or lost.
RotationInv ==
  cmd # Idle /\ cmd.name = "rotate" =>
    /\ cmd.pc \in {"switch", "wait"} => \A i \in 1..(cmd.next - 1) : Switched(Nodes[i])
    /\ cmd.pc = "wait" => node[Target].session.ca \in {None, cmd.new.ca}
    /\ cmd.pc \in {"reference", "rename"} => \A i \in 1..cmd.count : Switched(Nodes[i])

IInv == TypeInv /\ FilesInv /\ CommandInv /\ NodesInv /\ RotationInv

-----------------------------------------------------------------------------
(* Facts about the constants and about one disk.                           *)

LEMMA NodeNames ==
  /\ Len(Nodes) \in Nat
  /\ \A i \in 1..Len(Nodes) : Nodes[i] \in NodeSet
  /\ \A c \in 1..Len(Nodes) : Listed(c) \subseteq NodeSet
<1>1. Nodes \in Seq(NodeSet)
  BY TrustAssumption DEF TrustAssumption
<1>2. Len(Nodes) \in Nat /\ \A i \in 1..Len(Nodes) : Nodes[i] \in NodeSet
  BY <1>1
<1>3. ASSUME NEW c \in 1..Len(Nodes) PROVE Listed(c) \subseteq NodeSet
  BY <1>2 DEF Listed
<1> QED BY <1>2, <1>3

LEMMA Marks ==
  /\ None \notin Authorities /\ NoCert \in Certs /\ NoFile \in Bundles /\ NoSession \in Sessions
  /\ NoCert[1] = None /\ NoFile.ca = None /\ NoSession.ca = None /\ NoSession.pc = None
  BY TrustAssumption DEF TrustAssumption, None, NoCert, NoFile, NoSession, Certs, Bundles, Sessions

\* What the agent serves after a start is one authority of the workstation.
LEMMA ServerDisk ==
  ASSUME NEW S \in SUBSET Authorities, NEW d \in Disks, DiskInv(d, S)
  PROVE  /\ ServerTLSConfig(d) \in Certs
         /\ ServerTLSConfig(d) # NoCert => ServerTLSConfig(d)[1] \in S
<1> DEFINE s == ManagementCredentialsPaths(d)
<1>1. d.ca \in Authorities \cup {None} /\ d.active \in Authorities \cup {None}
  BY DEF Disks
<1>2. s.cert \in Certs /\ s.ca \in Authorities \cup {None}
  <2>1. \A c \in Certs : c[1] \in Authorities \cup {None}
    BY DEF Certs
  <2>2. d.cert \in Certs /\ \A a \in Authorities : d.versions[a] \in Certs
    BY DEF Disks
  <2> QED BY <1>1, <2>1, <2>2 DEF ManagementCredentialsPaths
<1>3. s.cert # NoCert => s.ca \in S \cup {None}
  BY <1>1 DEF Disks, ManagementCredentialsPaths, DiskInv
<1>4. s.cert[2] \in Nat
  BY <1>2 DEF Certs
<1> HIDE DEF s
<1>5. CASE s.ca = None \/ s.cert = NoCert \/ s.key # s.cert
  BY <1>5, Marks DEF ServerTLSConfig, s
<1>6. CASE ~(s.ca = None \/ s.cert = NoCert \/ s.key # s.cert)
  <2>1. ServerTLSConfig(d) = <<s.ca, s.cert[2]>>
    BY <1>6 DEF ServerTLSConfig, s
  <2> QED BY <2>1, <1>2, <1>3, <1>4, <1>6 DEF Certs
<1> QED BY <1>5, <1>6

LEMMA DiskGrows ==
  ASSUME NEW S \in SUBSET Authorities, NEW T, S \subseteq T, NEW d, DiskInv(d, S)
  PROVE  DiskInv(d, T)
  BY DEF DiskInv

\* What the agent serves changes nothing else of a disk.
LEMMA DiskServes ==
  ASSUME NEW S \in SUBSET Authorities, NEW d \in Disks, DiskInv(d, S),
         NEW c \in Certs, c # NoCert => c[1] \in S
  PROVE  /\ [d EXCEPT !.serving = c] \in Disks
         /\ DiskInv([d EXCEPT !.serving = c], S)
         /\ ManagementCredentialsPaths([d EXCEPT !.serving = c]) = ManagementCredentialsPaths(d)
  BY DEF Disks, DiskInv, ManagementCredentialsPaths

\* The result of a session that ends here.
LEMMA DiskSession ==
  ASSUME NEW S \in SUBSET Authorities, NEW d \in Disks, DiskInv(d, S), NEW s \in Sessions,
         s.pc # None => s.ca \in S /\ s.cert[1] = s.ca /\ d.mode = "mtls",
         s.pc = None => s = NoSession,
         s.pc \in {"sync version", "activate"} => d.versions[s.ca] # NoCert,
         s.pc \in {"sync", "restart", "done"} => ManagementCredentialsPaths(d).ca = s.ca
  PROVE  /\ [d EXCEPT !.session = s] \in Disks
         /\ DiskInv([d EXCEPT !.session = s], S)
         /\ ManagementCredentialsPaths([d EXCEPT !.session = s]) = ManagementCredentialsPaths(d)
  BY DEF Disks, DiskInv, ManagementCredentialsPaths

LEMMA BlankDisk ==
  ASSUME NEW S \in SUBSET Authorities
  PROVE  Blank \in Disks /\ DiskInv(Blank, S)
<1>1. Blank \in Disks
  BY Marks DEF Blank, Disks
<1>2. /\ Blank.ca = None /\ Blank.cert = NoCert /\ Blank.serving = NoCert /\ Blank.session = NoSession
      /\ \A a \in Authorities : Blank.versions[a] = NoCert
  BY DEF Blank
<1> QED BY <1>1, <1>2, Marks DEF DiskInv, None

\* A step of a session that fails.
LEMMA FailDisk ==
  ASSUME NEW S \in SUBSET Authorities, NEW d \in Disks, DiskInv(d, S), d.session.pc # None,
         NEW pc \in {"activate", "failed"}, pc = "activate" => d.versions[d.session.ca] # NoCert,
         NEW e, e = Move(d, pc)
  PROVE  /\ e \in Disks /\ DiskInv(e, S) /\ e.mode = d.mode /\ e.session.ca = d.session.ca
         /\ ManagementCredentialsPaths(e).ca = ManagementCredentialsPaths(d).ca
<1>1. d.session \in Sessions /\ d.session.ca \in S /\ d.session.cert[1] = d.session.ca /\ d.mode = "mtls"
  BY DEF Disks, DiskInv
<1> DEFINE s == [d.session EXCEPT !.pc = pc]
<1>2. e = [d EXCEPT !.session = s]
  BY DEF Move, Disks
<1>3. s \in Sessions /\ s.pc = pc /\ s.ca = d.session.ca /\ s.cert = d.session.cert
  BY <1>1 DEF Sessions
<1> HIDE DEF s
<1>4. e.session = s /\ e.mode = d.mode
  BY <1>2 DEF Disks
<1>5. /\ s.pc # None => s.ca \in S /\ s.cert[1] = s.ca /\ d.mode = "mtls"
      /\ s.pc = None => s = NoSession
      /\ s.pc \in {"sync version", "activate"} => d.versions[s.ca] # NoCert
      /\ s.pc \in {"sync", "restart", "done"} => ManagementCredentialsPaths(d).ca = s.ca
  BY <1>1, <1>3 DEF None
<1>6. /\ [d EXCEPT !.session = s] \in Disks /\ DiskInv([d EXCEPT !.session = s], S)
      /\ ManagementCredentialsPaths([d EXCEPT !.session = s]) = ManagementCredentialsPaths(d)
  BY <1>3, <1>5, DiskSession
<1> QED BY <1>2, <1>3, <1>4, <1>6

\* stageManagementVersion, when the version is not there.
LEMMA StageDisk ==
  ASSUME NEW S \in SUBSET Authorities, NEW d \in Disks, DiskInv(d, S), d.session.pc = "stage",
         d.versions[d.session.ca] = NoCert,
         NEW e, e = Move([d EXCEPT !.versions[d.session.ca] = d.session.cert], "sync version")
  PROVE  /\ e \in Disks /\ DiskInv(e, S) /\ e.mode = d.mode /\ e.session.ca = d.session.ca
         /\ \/ ManagementCredentialsPaths(e).ca = ManagementCredentialsPaths(d).ca
            \/ d.session.ca # None /\ ManagementCredentialsPaths(e).ca = d.session.ca
<1>1. d.session \in Sessions /\ d.session.ca \in S /\ d.session.cert[1] = d.session.ca /\ d.mode = "mtls"
  BY DEF Disks, DiskInv, None
<1>2. d.session.cert \in Certs /\ d.session.ca \in Authorities /\ d.session.ca # None /\ d.session.cert # NoCert
  BY <1>1, Marks DEF Sessions
<1> DEFINE v == [d.versions EXCEPT ![d.session.ca] = d.session.cert]
           s == [d.session EXCEPT !.pc = "sync version"]
<1>3. e = [d EXCEPT !.versions = v, !.session = s]
  BY DEF Move, Disks
<1>4. v \in [Authorities -> Certs] /\ v[d.session.ca] = d.session.cert
      /\ \A a \in Authorities : a # d.session.ca => v[a] = d.versions[a]
  BY <1>2 DEF Disks
<1>5. s \in Sessions /\ s.pc = "sync version" /\ s.ca = d.session.ca /\ s.cert = d.session.cert
  BY <1>1 DEF Sessions
<1> HIDE DEF v, s
<1>6. /\ e \in Disks /\ e.versions = v /\ e.session = s /\ e.ca = d.ca /\ e.cert = d.cert
      /\ e.mode = d.mode /\ e.active = d.active /\ e.serving = d.serving
  BY <1>3, <1>4, <1>5 DEF Disks
<1>7. \A a \in Authorities : v[a] # NoCert => v[a][1] = a /\ a \in S
  BY <1>1, <1>4 DEF DiskInv
<1>8. DiskInv(e, S)
  <2>1. /\ e.ca \in S \cup {None}
        /\ e.cert # NoCert => e.cert[1] = e.ca /\ e.ca # None
        /\ e.serving # NoCert => e.serving[1] \in S
    BY <1>6 DEF DiskInv
  <2>2. \A a \in Authorities : e.versions[a] # NoCert => e.versions[a][1] = a /\ a \in S
    BY <1>6, <1>7
  <2>3. /\ e.session.pc = "sync version" /\ e.session.ca \in S /\ e.session.cert[1] = e.session.ca
        /\ e.mode = "mtls"
    BY <1>1, <1>5, <1>6
  <2>4. e.versions[e.session.ca] # NoCert
    BY <1>2, <1>4, <1>5, <1>6
  <2> QED BY <2>1, <2>2, <2>3, <2>4 DEF DiskInv, None
<1>9. d.active \in Authorities \cup {None}
  BY DEF Disks
<1>10. \/ ManagementCredentialsPaths(e).ca = ManagementCredentialsPaths(d).ca
       \/ ManagementCredentialsPaths(e).ca = d.session.ca
  <2>1. CASE d.active = d.session.ca
    <3>1. e.active = d.session.ca /\ e.active # None
      BY <1>2, <1>6, <2>1
    <3>2. ManagementCredentialsPaths(e).ca = e.versions[e.active][1]
      BY <3>1 DEF ManagementCredentialsPaths
    <3>3. e.versions[e.active] = d.session.cert
      BY <1>4, <1>6, <3>1
    <3> QED BY <1>1, <3>2, <3>3
  <2>2. CASE d.active # d.session.ca
    BY <1>4, <1>6, <1>9, <2>2 DEF ManagementCredentialsPaths
  <2> QED BY <2>1, <2>2
<1> QED BY <1>2, <1>5, <1>6, <1>8, <1>10

\* syncVersions.
LEMMA SyncVersionDisk ==
  ASSUME NEW S \in SUBSET Authorities, NEW d \in Disks, DiskInv(d, S), d.session.pc = "sync version",
         NEW e, e = Move([d EXCEPT !.synced = d.synced \cup {d.session.ca}], "activate")
  PROVE  /\ e \in Disks /\ DiskInv(e, S) /\ e.mode = d.mode /\ e.session.ca = d.session.ca
         /\ ManagementCredentialsPaths(e).ca = ManagementCredentialsPaths(d).ca
<1>1. /\ d.session \in Sessions /\ d.session.ca \in S /\ d.session.cert[1] = d.session.ca /\ d.mode = "mtls"
      /\ d.versions[d.session.ca] # NoCert
  BY DEF Disks, DiskInv, None
<1> DEFINE s == [d.session EXCEPT !.pc = "activate"]
           y == d.synced \cup {d.session.ca}
<1>2. e = [d EXCEPT !.synced = y, !.session = s]
  BY DEF Move, Disks
<1>3. s \in Sessions /\ s.pc = "activate" /\ s.ca = d.session.ca /\ s.cert = d.session.cert
  BY <1>1 DEF Sessions
<1>4. y \in SUBSET Authorities
  BY <1>1 DEF Disks
<1> HIDE DEF s, y
<1>5. /\ e \in Disks /\ e.versions = d.versions /\ e.session = s /\ e.ca = d.ca /\ e.cert = d.cert
      /\ e.mode = d.mode /\ e.active = d.active /\ e.serving = d.serving
  BY <1>2, <1>3, <1>4 DEF Disks
<1>6. ManagementCredentialsPaths(e).ca = ManagementCredentialsPaths(d).ca
  BY <1>5 DEF ManagementCredentialsPaths
<1>7. DiskInv(e, S)
  BY <1>1, <1>3, <1>5 DEF DiskInv, None
<1> QED BY <1>3, <1>5, <1>6, <1>7

\* RotateManagementIdentity.
LEMMA ActivateDisk ==
  ASSUME NEW S \in SUBSET Authorities, NEW d \in Disks, DiskInv(d, S), d.session.pc = "activate",
         NEW e, e = Move([d EXCEPT !.active = d.session.ca], "sync")
  PROVE  /\ e \in Disks /\ DiskInv(e, S) /\ e.mode = d.mode /\ e.session.ca = d.session.ca
         /\ d.session.ca # None /\ ManagementCredentialsPaths(e).ca = d.session.ca
<1>1. d.session \in Sessions /\ d.session.ca \in S /\ d.session.cert[1] = d.session.ca /\ d.mode = "mtls"
  BY DEF Disks, DiskInv, None
<1> DEFINE s == [d.session EXCEPT !.pc = "sync"]
<1>2. e = [d EXCEPT !.active = d.session.ca, !.session = s]
  BY DEF Move, Disks
<1>3. s \in Sessions /\ s.pc = "sync" /\ s.ca = d.session.ca /\ s.cert = d.session.cert
  BY <1>1 DEF Sessions
<1> HIDE DEF s
<1>4. /\ e \in Disks /\ e.versions = d.versions /\ e.session = s /\ e.ca = d.ca /\ e.cert = d.cert
      /\ e.mode = d.mode /\ e.active = d.session.ca /\ e.serving = d.serving
  BY <1>1, <1>2, <1>3 DEF Disks
<1>5. d.session.ca # None /\ ManagementCredentialsPaths(e).ca = d.session.ca
  <2>1. d.versions[d.session.ca] # NoCert /\ d.versions[d.session.ca][1] = d.session.ca
    BY <1>1 DEF DiskInv
  <2> QED BY <1>1, <1>4, <2>1, Marks DEF ManagementCredentialsPaths
<1>6. DiskInv(e, S)
  BY <1>1, <1>3, <1>4, <1>5 DEF DiskInv, None
<1> QED BY <1>3, <1>4, <1>5, <1>6

\* syncManagementDirectory.
LEMMA SyncDisk ==
  ASSUME NEW S \in SUBSET Authorities, NEW d \in Disks, DiskInv(d, S), d.session.pc = "sync",
         NEW e, e = Move([d EXCEPT !.durable = d.active], "restart")
  PROVE  /\ e \in Disks /\ DiskInv(e, S) /\ e.mode = d.mode /\ e.session.ca = d.session.ca
         /\ ManagementCredentialsPaths(e).ca = ManagementCredentialsPaths(d).ca
<1>1. /\ d.session \in Sessions /\ d.session.ca \in S /\ d.session.cert[1] = d.session.ca /\ d.mode = "mtls"
      /\ ManagementCredentialsPaths(d).ca = d.session.ca
  BY DEF Disks, DiskInv, None
<1> DEFINE s == [d.session EXCEPT !.pc = "restart"]
<1>2. e = [d EXCEPT !.durable = d.active, !.session = s]
  BY DEF Move, Disks
<1>3. s \in Sessions /\ s.pc = "restart" /\ s.ca = d.session.ca /\ s.cert = d.session.cert
  BY <1>1 DEF Sessions
<1> HIDE DEF s
<1>4. /\ e \in Disks /\ e.versions = d.versions /\ e.session = s /\ e.ca = d.ca /\ e.cert = d.cert
      /\ e.mode = d.mode /\ e.active = d.active /\ e.serving = d.serving
  BY <1>1, <1>2, <1>3 DEF Disks
<1>5. ManagementCredentialsPaths(e).ca = ManagementCredentialsPaths(d).ca
  BY <1>4 DEF ManagementCredentialsPaths
<1>6. DiskInv(e, S)
  BY <1>1, <1>3, <1>4, <1>5 DEF DiskInv, None
<1> QED BY <1>3, <1>4, <1>5, <1>6

\* rotateManagementOnNode.
LEMMA RestartDisk ==
  ASSUME NEW S \in SUBSET Authorities, NEW d \in Disks, DiskInv(d, S), d.session.pc = "restart",
         NEW e, NEW pc \in {"failed", "done"}, e = Move([d EXCEPT !.serving = ServerTLSConfig(d)], pc)
  PROVE  /\ e \in Disks /\ DiskInv(e, S) /\ e.mode = d.mode /\ e.session.ca = d.session.ca
         /\ ManagementCredentialsPaths(e).ca = ManagementCredentialsPaths(d).ca
<1>1. /\ d.session \in Sessions /\ d.session.ca \in S /\ d.session.cert[1] = d.session.ca /\ d.mode = "mtls"
      /\ ManagementCredentialsPaths(d).ca = d.session.ca
  BY DEF Disks, DiskInv, None
<1> DEFINE s == [d.session EXCEPT !.pc = pc]
<1>2. PICK f : f = [d EXCEPT !.serving = ServerTLSConfig(d)]
  OBVIOUS
<1>3. /\ f \in Disks /\ DiskInv(f, S) /\ ManagementCredentialsPaths(f) = ManagementCredentialsPaths(d)
  BY <1>2, ServerDisk, DiskServes
<1>4. f.session = d.session /\ f.mode = d.mode
  BY <1>2 DEF Disks
<1>5. e = [f EXCEPT !.session = s]
  BY <1>2, <1>3, <1>4 DEF Move, Disks
<1>6. s \in Sessions /\ s.pc = pc /\ s.ca = d.session.ca /\ s.cert = d.session.cert
  BY <1>1 DEF Sessions
<1> HIDE DEF s
<1>7. e.session = s /\ e.mode = f.mode
  BY <1>3, <1>5 DEF Disks
<1>8. /\ s.pc # None => s.ca \in S /\ s.cert[1] = s.ca /\ f.mode = "mtls"
      /\ s.pc = None => s = NoSession
      /\ s.pc \in {"sync version", "activate"} => f.versions[s.ca] # NoCert
      /\ s.pc \in {"sync", "restart", "done"} => ManagementCredentialsPaths(f).ca = s.ca
  BY <1>1, <1>3, <1>4, <1>6 DEF None
<1>9. /\ [f EXCEPT !.session = s] \in Disks /\ DiskInv([f EXCEPT !.session = s], S)
      /\ ManagementCredentialsPaths([f EXCEPT !.session = s]) = ManagementCredentialsPaths(f)
  BY <1>3, <1>6, <1>8, DiskSession
<1> QED BY <1>3, <1>4, <1>5, <1>6, <1>7, <1>9

\* PowerLoss.
LEMMA PowerDisk ==
  ASSUME NEW S \in SUBSET Authorities, NEW d \in Disks, DiskInv(d, S), NEW a \in {d.active, d.durable}, NEW lost
  PROVE  /\ Booted(AfterPowerLoss(d, a, lost)) \in Disks /\ DiskInv(Booted(AfterPowerLoss(d, a, lost)), S)
         /\ Booted(AfterPowerLoss(d, a, lost)).session = NoSession
<1> PICK f : f = AfterPowerLoss(d, a, lost)
  OBVIOUS
<1> PICK e : e = Booted(f)
  OBVIOUS
<1> DEFINE v == [x \in Authorities |-> IF x \in lost THEN NoCert ELSE d.versions[x]]
           y == Present(d) \ lost
<1>1. /\ a \in Authorities \cup {None} /\ NoSession \in Sessions
      /\ v \in [Authorities -> Certs] /\ \A x \in Authorities : v[x] # NoCert => v[x] = d.versions[x]
      /\ y \in SUBSET Authorities
  <2>1. \A x \in Authorities : d.versions[x] \in Certs
    BY DEF Disks
  <2>2. v \in [Authorities -> Certs] /\ \A x \in Authorities : v[x] # NoCert => v[x] = d.versions[x]
    BY <2>1, Marks
  <2> QED BY <2>2, Marks DEF Disks, Present
<1>2. /\ f \in Disks /\ f.ca = d.ca /\ f.cert = d.cert /\ f.versions = v /\ f.serving = d.serving
      /\ f.session = NoSession
  <2>1. f = [d EXCEPT !.active = a, !.durable = a, !.session = NoSession, !.busy = FALSE, !.synced = y, !.versions = v]
    BY DEF AfterPowerLoss
  <2> HIDE DEF v, y
  <2> QED BY <1>1, <2>1 DEF Disks
<1> HIDE DEF v, y
<1>3. DiskInv(f, S)
  <2>1. \A x \in Authorities : f.versions[x] # NoCert => f.versions[x][1] = x /\ x \in S
    <3> SUFFICES ASSUME NEW x \in Authorities, v[x] # NoCert PROVE v[x][1] = x /\ x \in S
      BY <1>2
    <3>1. v[x] = d.versions[x]
      BY <1>1
    <3>2. d.versions[x] # NoCert => d.versions[x][1] = x /\ x \in S
      BY DEF DiskInv
    <3> QED BY <3>1, <3>2
  <2>2. /\ f.ca \in S \cup {None}
        /\ f.cert # NoCert => f.cert[1] = f.ca /\ f.ca # None
        /\ f.serving # NoCert => f.serving[1] \in S
    BY <1>2 DEF DiskInv
  <2> QED BY <1>2, <2>1, <2>2, Marks DEF DiskInv, None
<1>4. PICK c : c = IF f.mode = "mtls" THEN ServerTLSConfig(f) ELSE NoCert
  OBVIOUS
<1>5. c \in Certs /\ (c # NoCert => c[1] \in S)
  BY <1>2, <1>3, <1>4, ServerDisk, Marks
<1>6. e = [f EXCEPT !.serving = c]
  BY <1>4 DEF Booted
<1>7. e.session = NoSession
  BY <1>2, <1>6 DEF Disks
<1>8. e \in Disks /\ DiskInv(e, S)
  BY <1>2, <1>3, <1>5, <1>6, DiskServes
<1> QED BY <1>7, <1>8

\* NodeOperation.
LEMMA BusyDisk ==
  ASSUME NEW S \in SUBSET Authorities, NEW d \in Disks, DiskInv(d, S),
         NEW e, e = [d EXCEPT !.busy = ~d.busy]
  PROVE  /\ e \in Disks /\ DiskInv(e, S) /\ e.mode = d.mode /\ e.session.ca = d.session.ca
         /\ ManagementCredentialsPaths(e).ca = ManagementCredentialsPaths(d).ca
<1>1. /\ e \in Disks /\ e.ca = d.ca /\ e.cert = d.cert /\ e.key = d.key /\ e.versions = d.versions
      /\ e.serving = d.serving /\ e.session = d.session /\ e.mode = d.mode /\ e.active = d.active
  BY DEF Disks
<1>2. ManagementCredentialsPaths(e) = ManagementCredentialsPaths(d)
  BY <1>1 DEF ManagementCredentialsPaths
<1> QED BY <1>1, <1>2 DEF DiskInv

\* WriteManagementIdentity, one file at a time.
LEMMA WrittenDisk ==
  ASSUME NEW S \in SUBSET Authorities, NEW d \in Disks, DiskInv(d, S), d.mode = None,
         NEW c \in Certs, c[1] \in S,
         NEW e, \/ e = [d EXCEPT !.mode = "mtls"]
                \/ d.ca = None /\ e = [d EXCEPT !.ca = c[1]]
                \/ d.ca = c[1] /\ e = [d EXCEPT !.cert = c]
                \/ e = [d EXCEPT !.key = c]
  PROVE  e \in Disks /\ DiskInv(e, S)
<1>1. d.session = NoSession /\ NoSession.pc = None /\ None \notin S
  BY Marks DEF DiskInv, None
<1>2. CASE e = [d EXCEPT !.mode = "mtls"]
  <2>1. /\ e \in Disks /\ e.ca = d.ca /\ e.cert = d.cert /\ e.versions = d.versions
        /\ e.serving = d.serving /\ e.session = d.session
    BY <1>2 DEF Disks
  <2> QED BY <1>1, <2>1 DEF DiskInv, None
<1>3. CASE d.ca = None /\ e = [d EXCEPT !.ca = c[1]]
  <2>1. /\ e \in Disks /\ e.ca = c[1] /\ e.cert = d.cert /\ e.versions = d.versions
        /\ e.serving = d.serving /\ e.session = d.session
    BY <1>3 DEF Disks
  <2> QED BY <1>1, <1>3, <2>1 DEF DiskInv, None
<1>4. CASE d.ca = c[1] /\ e = [d EXCEPT !.cert = c]
  <2>1. /\ e \in Disks /\ e.ca = d.ca /\ e.cert = c /\ e.versions = d.versions
        /\ e.serving = d.serving /\ e.session = d.session
    BY <1>4 DEF Disks
  <2> QED BY <1>1, <1>4, <2>1 DEF DiskInv, None
<1>5. CASE e = [d EXCEPT !.key = c]
  <2>1. /\ e \in Disks /\ e.ca = d.ca /\ e.cert = d.cert /\ e.versions = d.versions
        /\ e.serving = d.serving /\ e.session = d.session
    BY <1>5 DEF Disks
  <2> QED BY <1>1, <2>1 DEF DiskInv, None
<1> QED BY <1>2, <1>3, <1>4, <1>5

-----------------------------------------------------------------------------
(* What a step of a node or of the workstation needs to show.              *)

LEMMA KnownAuthorities ==
  ASSUME TypeInv
  PROVE  /\ Known \in SUBSET Authorities
         /\ \A p \in Paths : files[p].ca # None => files[p].ca \in Known
  BY DEF TypeInv, Bundles, Known

\* A node becomes e, and the files stay.
LEMMA OneNode ==
  ASSUME TypeInv, NodesInv, files' = files, NEW n \in NodeSet, NEW e \in Disks, DiskInv(e, Known),
         node' = [node EXCEPT ![n] = e]
  PROVE  /\ node' \in [NodeSet -> Disks] /\ NodesInv' /\ node'[n] = e
         /\ \A m \in NodeSet : m # n => node'[m] = node[m]
<1>1. Known' = Known
  BY DEF Known
<1>2. node \in [NodeSet -> Disks]
  BY DEF TypeInv
<1>3. /\ node' \in [NodeSet -> Disks] /\ node'[n] = e /\ \A m \in NodeSet : m # n => node'[m] = node[m]
  BY <1>2
<1>4. ASSUME NEW m \in NodeSet PROVE DiskInv(node'[m], Known')
  BY <1>1, <1>3 DEF NodesInv
<1> QED BY <1>3, <1>4 DEF NodesInv

\* The files only grow, so what a node has stays known.
LEMMA FilesGrow ==
  ASSUME TypeInv, FilesInv, NodesInv, node' = node, NEW p \in Paths, NEW b \in Bundles, b.ca # None,
         Write(p, b)
  PROVE  /\ files' \in [Paths -> Bundles] /\ files'[p] = b
         /\ \A q \in Paths : files[q].ca # None => files'[q] = files[q]
         /\ \A q \in Paths : files'[q] = NoFile \/ files'[q].ca # None
         /\ NodesInv'
<1>1. files \in [Paths -> Bundles] /\ files[p] = NoFile /\ files' = [files EXCEPT ![p] = b]
  BY DEF TypeInv, Write, Held
<1>2. /\ files' \in [Paths -> Bundles] /\ files'[p] = b
      /\ \A q \in Paths : q # p => files'[q] = files[q]
  BY <1>1
<1>3. \A q \in Paths : files[q].ca # None => files'[q] = files[q]
  BY <1>1, <1>2, Marks
<1>4. Known \subseteq Known'
  BY <1>3 DEF Known
<1>5. ASSUME NEW n \in NodeSet PROVE DiskInv(node'[n], Known')
  <2>1. DiskInv(node[n], Known) /\ Known \in SUBSET Authorities
    BY KnownAuthorities DEF NodesInv
  <2> QED BY <1>4, <2>1, DiskGrows
<1> QED BY <1>2, <1>3, <1>5 DEF NodesInv, FilesInv

\* A command that runs.
LEMMA Running ==
  ASSUME TypeInv
  PROVE  /\ cmd.pc # "idle" => cmd \in CommandRecords
         /\ cmd # Idle => cmd \in CommandRecords
         /\ \A k \in CommandRecords : k # Idle /\ k.pc # "idle" /\ k.next \in 1..Len(Nodes)
                                      /\ k.touched \in SUBSET NodeSet
<1>1. Idle.pc = "idle"
  BY DEF Idle
<1>2. \A k \in CommandRecords : k.pc # "idle" /\ k.next \in 1..Len(Nodes) /\ k.touched \in SUBSET NodeSet
  BY DEF CommandRecords
<1> QED BY <1>1, <1>2 DEF TypeInv

LEMMA TargetIsNode ==
  ASSUME TypeInv, cmd # Idle
  PROVE  Target \in NodeSet /\ \A i \in 1..cmd.next : Nodes[i] \in NodeSet
<1>1. cmd.next \in 1..Len(Nodes)
  BY Running
<1> QED BY <1>1, NodeNames DEF Target

\* A step of one node that keeps its mode and what it uses, or turns to the
\* authority of its session, undoes no switch.
LEMMA RotationKept ==
  ASSUME TypeInv, CommandInv, RotationInv, cmd' = cmd, NEW n \in NodeSet, NEW e, node'[n] = e,
         \A m \in NodeSet : m # n => node'[m] = node[m],
         node[n].mode = "mtls" =>
           /\ e.mode = "mtls"
           /\ \/ ManagementCredentialsPaths(e).ca = ManagementCredentialsPaths(node[n]).ca
              \/ node[n].session.ca # None /\ ManagementCredentialsPaths(e).ca = node[n].session.ca,
         e.session.ca \in {None, node[n].session.ca}
  PROVE  RotationInv'
<1> SUFFICES ASSUME cmd # Idle, cmd.name = "rotate"
             PROVE  /\ cmd.pc \in {"switch", "wait"} => \A i \in 1..(cmd.next - 1) : Switched(Nodes[i])'
                    /\ cmd.pc = "wait" => node'[Target].session.ca \in {None, cmd.new.ca}
                    /\ cmd.pc \in {"reference", "rename"} => \A i \in 1..cmd.count : Switched(Nodes[i])'
  BY DEF RotationInv, Target
<1>1. ASSUME NEW m \in NodeSet, Switched(m) PROVE Switched(m)'
  <2>1. CASE m = n
    BY <1>1, <2>1 DEF Switched
  <2>2. CASE m # n
    BY <1>1, <2>2 DEF Switched
  <2> QED BY <2>1, <2>2
<1>2. Target \in NodeSet /\ cmd \in CommandRecords
  BY TargetIsNode, Running
<1>3. /\ cmd.next \in 1..Len(Nodes) /\ cmd.count \in 1..Len(Nodes) /\ Len(Nodes) \in Nat
      /\ \A i \in 1..Len(Nodes) : Nodes[i] \in NodeSet
  BY <1>2, NodeNames DEF CommandRecords
<1>4. \A i \in 1..(cmd.next - 1) : Nodes[i] \in NodeSet
  BY <1>3
<1>5. \A i \in 1..cmd.count : Nodes[i] \in NodeSet
  BY <1>3
<1>6. cmd.pc = "wait" => node'[Target].session.ca \in {None, cmd.new.ca}
  <2>1. cmd.pc = "wait" => node[Target].session.ca \in {None, cmd.new.ca}
    BY DEF RotationInv
  <2> QED BY <1>2, <2>1
<1>7. /\ cmd.pc \in {"switch", "wait"} => \A i \in 1..(cmd.next - 1) : Switched(Nodes[i])
      /\ cmd.pc \in {"reference", "rename"} => \A i \in 1..cmd.count : Switched(Nodes[i])
  BY DEF RotationInv
<1> HIDE DEF Switched, Target
<1> QED BY <1>1, <1>4, <1>5, <1>6, <1>7

\* A node that is installed anew or loses power is marked.
LEMMA RotationTouched ==
  ASSUME TypeInv, CommandInv, RotationInv, files' = files, config' = config, NEW n \in NodeSet, Touch(n),
         NEW e, node'[n] = e, \A m \in NodeSet : m # n => node'[m] = node[m], e.session.ca = None
  PROVE  (cmd' = Idle \/ cmd' \in CommandRecords) /\ CommandInv' /\ RotationInv'
<1>1. CASE cmd.pc = "idle"
  <2>1. cmd' = cmd /\ cmd = Idle
    BY <1>1, Running DEF Touch, Here
  <2> QED BY <2>1 DEF CommandInv, RotationInv
<1>2. CASE cmd.pc # "idle"
  <2>1. cmd \in CommandRecords /\ cmd # Idle
    BY <1>2, Running
  <2>2. cmd' = [cmd EXCEPT !.touched = cmd.touched \cup {n}]
    BY <1>2 DEF Touch, Here
  <2>3. /\ cmd' \in CommandRecords /\ cmd'.pc = cmd.pc /\ cmd'.name = cmd.name /\ cmd'.out = cmd.out
        /\ cmd'.count = cmd.count /\ cmd'.next = cmd.next /\ cmd'.old = cmd.old /\ cmd'.new = cmd.new
        /\ cmd'.touched = cmd.touched \cup {n} /\ cmd'.edits = cmd.edits /\ cmd'.late = cmd.late
    BY <2>1, <2>2 DEF CommandRecords
  <2>4. CommandInv'
    BY <2>1, <2>3 DEF CommandInv
  <2>5. ASSUME NEW m \in NodeSet, Switched(m) PROVE Switched(m)'
    <3>1. CASE m = n
      BY <2>3, <3>1 DEF Switched
    <3>2. CASE m # n
      BY <2>3, <2>5, <3>2 DEF Switched
    <3> QED BY <3>1, <3>2
  <2>6. /\ cmd.next \in 1..Len(Nodes) /\ cmd.count \in 1..Len(Nodes) /\ Len(Nodes) \in Nat
        /\ \A i \in 1..Len(Nodes) : Nodes[i] \in NodeSet
    BY <2>1, NodeNames DEF CommandRecords
  <2>7. \A i \in 1..(cmd.next - 1) : Nodes[i] \in NodeSet
    BY <2>6
  <2>8. \A i \in 1..cmd.count : Nodes[i] \in NodeSet
    BY <2>6
  <2>9. Target \in NodeSet /\ Target' = Target
    BY <2>1, <2>3, TargetIsNode DEF Target
  <2>10. cmd.name = "rotate" =>
           /\ cmd.pc \in {"switch", "wait"} => \A i \in 1..(cmd.next - 1) : Switched(Nodes[i])
           /\ cmd.pc = "wait" => node[Target].session.ca \in {None, cmd.new.ca}
           /\ cmd.pc \in {"reference", "rename"} => \A i \in 1..cmd.count : Switched(Nodes[i])
    BY <2>1 DEF RotationInv
  <2>11. cmd.name = "rotate" /\ cmd.pc = "wait" => node'[Target].session.ca \in {None, cmd.new.ca}
    BY <2>9, <2>10
  <2>12. cmd.name = "rotate" =>
           /\ cmd.pc \in {"switch", "wait"} => \A i \in 1..(cmd.next - 1) : Switched(Nodes[i])'
           /\ cmd.pc \in {"reference", "rename"} => \A i \in 1..cmd.count : Switched(Nodes[i])'
    <3> HIDE DEF Switched
    <3> QED BY <2>5, <2>7, <2>8, <2>10
  <2>13. RotationInv'
    BY <2>3, <2>9, <2>11, <2>12 DEF RotationInv
  <2> QED BY <2>3, <2>4, <2>13
<1> QED BY <1>1, <1>2

-----------------------------------------------------------------------------
(* The steps of a node.                                                    *)

LEMMA SessionSteps ==
  ASSUME IInv, NEW n \in NodeSet,
         \/ stageManagementVersion(n) \/ syncVersions(n) \/ RotateManagementIdentity(n)
         \/ syncManagementDirectory(n) \/ rotateManagementOnNode(n)
  PROVE  IInv'
<1>1. PICK d : d = node[n]
  OBVIOUS
<1>2. PICK S : S = Known
  OBVIOUS
<1>3. /\ d \in Disks /\ S \in SUBSET Authorities /\ DiskInv(d, S)
      /\ TypeInv /\ FilesInv /\ CommandInv /\ NodesInv /\ RotationInv
  BY <1>1, <1>2, KnownAuthorities DEF IInv, TypeInv, NodesInv
<1>4. UNCHANGED <<files, config, cmd, done, fresh, commands, faults>>
  BY DEF stageManagementVersion, syncVersions, RotateManagementIdentity, syncManagementDirectory,
     rotateManagementOnNode, Local
<1>5. \E e \in Disks :
        /\ DiskInv(e, S) /\ node' = [node EXCEPT ![n] = e] /\ e.mode = d.mode /\ e.session.ca = d.session.ca
        /\ \/ ManagementCredentialsPaths(e).ca = ManagementCredentialsPaths(d).ca
           \/ d.session.ca # None /\ ManagementCredentialsPaths(e).ca = d.session.ca
  <2>1. CASE Fails(n) /\ d.session.pc # None
    <3>1. PICK e : e = Move(d, "failed")
      OBVIOUS
    <3>2. node' = [node EXCEPT ![n] = e]
      BY <1>1, <2>1, <3>1, Zenon DEF Fails, Put
    <3> QED BY <1>3, <2>1, <3>1, <3>2, FailDisk
  <2>2. CASE stageManagementVersion(n)
    <3>1. d.session.pc = "stage"
      BY <1>1, <2>2 DEF stageManagementVersion, Session
    <3>2. CASE /\ d.versions[d.session.ca] = NoCert
               /\ Put(n, Move([d EXCEPT !.versions[d.session.ca] = d.session.cert], "sync version"))
      <4>1. PICK e : e = Move([d EXCEPT !.versions[d.session.ca] = d.session.cert], "sync version")
        OBVIOUS
      <4>2. node' = [node EXCEPT ![n] = e]
        BY <3>2, <4>1, Zenon DEF Put
      <4> QED BY <1>3, <3>1, <3>2, <4>1, <4>2, StageDisk
    <3>3. CASE d.versions[d.session.ca] = d.session.cert /\ Put(n, Move(d, "activate"))
      <4>1. PICK e : e = Move(d, "activate")
        OBVIOUS
      <4>2. node' = [node EXCEPT ![n] = e]
        BY <3>3, <4>1, Zenon DEF Put
      <4>3. d.session.pc # None /\ d.versions[d.session.ca] # NoCert
        BY <1>3, <3>1, <3>3, Marks DEF DiskInv, None
      <4> QED BY <1>3, <4>1, <4>2, <4>3, FailDisk
    <3>4. CASE Fails(n)
      BY <2>1, <3>1, <3>4 DEF None
    <3> QED BY <1>1, <2>2, <3>2, <3>3, <3>4, Zenon DEF stageManagementVersion
  <2>3. CASE syncVersions(n)
    <3>1. d.session.pc = "sync version"
      BY <1>1, <2>3 DEF syncVersions, Session
    <3>2. CASE Put(n, Move([d EXCEPT !.synced = d.synced \cup {d.session.ca}], "activate"))
      <4>1. PICK e : e = Move([d EXCEPT !.synced = d.synced \cup {d.session.ca}], "activate")
        OBVIOUS
      <4>2. node' = [node EXCEPT ![n] = e]
        BY <3>2, <4>1, Zenon DEF Put
      <4> QED BY <1>3, <3>1, <4>1, <4>2, SyncVersionDisk
    <3>3. CASE Fails(n)
      BY <2>1, <3>1, <3>3 DEF None
    <3> QED BY <1>1, <2>3, <3>2, <3>3, Zenon DEF syncVersions
  <2>4. CASE RotateManagementIdentity(n)
    <3>1. d.session.pc = "activate"
      BY <1>1, <2>4 DEF RotateManagementIdentity, Session
    <3>2. CASE Put(n, Move([d EXCEPT !.active = d.session.ca], "sync"))
      <4>1. PICK e : e = Move([d EXCEPT !.active = d.session.ca], "sync")
        OBVIOUS
      <4>2. node' = [node EXCEPT ![n] = e]
        BY <3>2, <4>1, Zenon DEF Put
      <4> QED BY <1>3, <3>1, <4>1, <4>2, ActivateDisk
    <3>3. CASE Fails(n)
      BY <2>1, <3>1, <3>3 DEF None
    <3> QED BY <1>1, <2>4, <3>2, <3>3, Zenon DEF RotateManagementIdentity
  <2>5. CASE syncManagementDirectory(n)
    <3>1. d.session.pc = "sync"
      BY <1>1, <2>5 DEF syncManagementDirectory, Session
    <3>2. CASE Put(n, Move([d EXCEPT !.durable = d.active], "restart"))
      <4>1. PICK e : e = Move([d EXCEPT !.durable = d.active], "restart")
        OBVIOUS
      <4>2. node' = [node EXCEPT ![n] = e]
        BY <3>2, <4>1, Zenon DEF Put
      <4> QED BY <1>3, <3>1, <4>1, <4>2, SyncDisk
    <3>3. CASE Fails(n)
      BY <2>1, <3>1, <3>3 DEF None
    <3> QED BY <1>1, <2>5, <3>2, <3>3, Zenon DEF syncManagementDirectory
  <2>6. CASE rotateManagementOnNode(n)
    <3>1. d.session.pc = "restart"
      BY <1>1, <2>6 DEF rotateManagementOnNode, Session
    <3>2. PICK pc \in {"failed", "done"} : pc = IF ServerTLSConfig(d) = NoCert THEN "failed" ELSE "done"
      OBVIOUS
    <3>3. CASE Put(n, Move([d EXCEPT !.serving = ServerTLSConfig(d)], pc))
      <4>1. node' = [node EXCEPT ![n] = Move([d EXCEPT !.serving = ServerTLSConfig(d)], pc)]
        BY <1>1, <3>3 DEF Put
      <4> QED BY <1>3, <3>1, <4>1, RestartDisk
    <3>4. CASE Fails(n)
      BY <2>1, <3>1, <3>4 DEF None
    <3> QED BY <1>1, <2>6, <3>2, <3>3, <3>4, Zenon DEF rotateManagementOnNode
  <2> QED BY <2>2, <2>3, <2>4, <2>5, <2>6
<1>6. PICK e \in Disks :
        /\ DiskInv(e, S) /\ node' = [node EXCEPT ![n] = e] /\ e.mode = d.mode /\ e.session.ca = d.session.ca
        /\ \/ ManagementCredentialsPaths(e).ca = ManagementCredentialsPaths(d).ca
           \/ d.session.ca # None /\ ManagementCredentialsPaths(e).ca = d.session.ca
  BY <1>5
<1>7. /\ node' \in [NodeSet -> Disks] /\ NodesInv' /\ node'[n] = e
      /\ \A m \in NodeSet : m # n => node'[m] = node[m]
  BY <1>2, <1>3, <1>4, <1>6, OneNode
<1>8. RotationInv'
  BY <1>1, <1>3, <1>4, <1>6, <1>7, RotationKept
<1> QED BY <1>3, <1>4, <1>7, <1>8 DEF IInv, TypeInv, FilesInv, CommandInv

LEMMA NodeTouched ==
  ASSUME IInv, NEW n \in NodeSet, PowerLoss(n) \/ Wipe(n)
  PROVE  IInv'
<1>1. PICK d : d = node[n]
  OBVIOUS
<1>2. PICK S : S = Known
  OBVIOUS
<1>3. /\ d \in Disks /\ S \in SUBSET Authorities /\ DiskInv(d, S)
      /\ TypeInv /\ FilesInv /\ CommandInv /\ NodesInv /\ RotationInv
  BY <1>1, <1>2, KnownAuthorities DEF IInv, TypeInv, NodesInv
<1>4. UNCHANGED <<files, config, done, fresh, commands>> /\ Touch(n)
  BY DEF PowerLoss, Wipe, Elsewhere
<1>5. \E e \in Disks : DiskInv(e, S) /\ node' = [node EXCEPT ![n] = e] /\ e.session.ca = None
  <2>1. CASE PowerLoss(n)
    <3>1. PICK a \in {node[n].active, node[n].durable}, lost \in SUBSET (Present(node[n]) \ node[n].synced) :
            node' = [node EXCEPT ![n] = Booted(AfterPowerLoss(node[n], a, lost))]
      BY <2>1, Zenon DEF PowerLoss, Put
    <3>2. PICK e : e = Booted(AfterPowerLoss(d, a, lost))
      OBVIOUS
    <3>3. a \in {d.active, d.durable} /\ node' = [node EXCEPT ![n] = e]
      BY <1>1, <3>1, <3>2
    <3>4. e \in Disks /\ DiskInv(e, S) /\ e.session = NoSession
      BY <1>3, <3>2, <3>3, PowerDisk
    <3> QED BY <3>3, <3>4, Marks
  <2>2. CASE Wipe(n)
    <3>1. node' = [node EXCEPT ![n] = Blank]
      BY <2>2 DEF Wipe, Put
    <3>2. Blank.session = NoSession
      BY DEF Blank
    <3> QED BY <1>3, <3>1, <3>2, BlankDisk, Marks
  <2> QED BY <2>1, <2>2
<1>6. PICK e \in Disks : DiskInv(e, S) /\ node' = [node EXCEPT ![n] = e] /\ e.session.ca = None
  BY <1>5
<1>7. /\ node' \in [NodeSet -> Disks] /\ NodesInv' /\ node'[n] = e
      /\ \A m \in NodeSet : m # n => node'[m] = node[m]
  BY <1>2, <1>3, <1>4, <1>6, OneNode
<1>8. (cmd' = Idle \/ cmd' \in CommandRecords) /\ CommandInv' /\ RotationInv'
  BY <1>3, <1>4, <1>6, <1>7, RotationTouched
<1> QED BY <1>3, <1>4, <1>7, <1>8 DEF IInv, TypeInv, FilesInv

\* The agent of a node starts again, or an operation of the node starts or ends.
LEMMA NodeRuns ==
  ASSUME IInv, NEW n \in NodeSet, AgentRestart(n) \/ NodeOperation(n) \/ FirstBoot(n)
  PROVE  IInv'
<1>1. PICK d : d = node[n]
  OBVIOUS
<1>2. PICK S : S = Known
  OBVIOUS
<1>3. /\ d \in Disks /\ S \in SUBSET Authorities /\ DiskInv(d, S)
      /\ TypeInv /\ FilesInv /\ CommandInv /\ NodesInv /\ RotationInv
  BY <1>1, <1>2, KnownAuthorities DEF IInv, TypeInv, NodesInv
<1>4. UNCHANGED <<files, config, cmd, done, fresh, commands>>
  BY DEF AgentRestart, NodeOperation, FirstBoot, Elsewhere, Local
<1>5. \E e \in Disks :
        /\ DiskInv(e, S) /\ node' = [node EXCEPT ![n] = e] /\ e.mode = d.mode /\ e.session.ca = d.session.ca
        /\ ManagementCredentialsPaths(e).ca = ManagementCredentialsPaths(d).ca
  <2>1. CASE AgentRestart(n) \/ FirstBoot(n)
    <3>1. PICK e : e = [d EXCEPT !.serving = ServerTLSConfig(d)]
      OBVIOUS
    <3>2. node' = [node EXCEPT ![n] = e]
      BY <1>1, <2>1, <3>1 DEF AgentRestart, FirstBoot, Put
    <3>3. /\ e \in Disks /\ DiskInv(e, S)
          /\ ManagementCredentialsPaths(e) = ManagementCredentialsPaths(d)
      BY <1>3, <3>1, ServerDisk, DiskServes
    <3>4. e.mode = d.mode /\ e.session = d.session
      BY <1>3, <3>1 DEF Disks
    <3> QED BY <3>2, <3>3, <3>4
  <2>2. CASE NodeOperation(n)
    <3>1. PICK e : e = [d EXCEPT !.busy = ~d.busy]
      OBVIOUS
    <3>2. node' = [node EXCEPT ![n] = e]
      BY <1>1, <2>2, <3>1, Zenon DEF NodeOperation, Put
    <3>3. /\ e \in Disks /\ DiskInv(e, S) /\ e.mode = d.mode /\ e.session.ca = d.session.ca
          /\ ManagementCredentialsPaths(e).ca = ManagementCredentialsPaths(d).ca
      BY <1>3, <3>1, BusyDisk, ZenonT(30)
    <3> QED BY <3>2, <3>3
  <2> QED BY <2>1, <2>2
<1>6. PICK e \in Disks :
        /\ DiskInv(e, S) /\ node' = [node EXCEPT ![n] = e] /\ e.mode = d.mode /\ e.session.ca = d.session.ca
        /\ ManagementCredentialsPaths(e).ca = ManagementCredentialsPaths(d).ca
  BY <1>5
<1>7. /\ node' \in [NodeSet -> Disks] /\ NodesInv' /\ node'[n] = e
      /\ \A m \in NodeSet : m # n => node'[m] = node[m]
  BY <1>2, <1>3, <1>4, <1>6, OneNode
<1>8. RotationInv'
  BY <1>1, <1>3, <1>4, <1>6, <1>7, RotationKept
<1> QED BY <1>3, <1>4, <1>7, <1>8 DEF IInv, TypeInv, FilesInv, CommandInv

LEMMA InstallerWrites ==
  ASSUME IInv, NEW n \in NodeSet, WriteIdentity(n)
  PROVE  IInv'
<1>1. PICK d : d = node[n]
  OBVIOUS
<1>2. PICK S : S = Known
  OBVIOUS
<1>3. /\ d \in Disks /\ S \in SUBSET Authorities /\ DiskInv(d, S)
      /\ TypeInv /\ FilesInv /\ CommandInv /\ NodesInv /\ RotationInv
  BY <1>1, <1>2, KnownAuthorities DEF IInv, TypeInv, NodesInv
<1>4. d.mode = None /\ UNCHANGED <<files, config, cmd, done, fresh, commands>>
  BY <1>1 DEF WriteIdentity, Elsewhere
<1>5. PICK p \in Paths : Held(p) /\ WriteManagementIdentity(n, EnsureNode(files[p], n, commands + 1))
  BY DEF WriteIdentity
<1>6. PICK c : c = EnsureNode(files[p], n, commands + 1)
  OBVIOUS
<1>7. files[p] \in Bundles /\ files[p].ca # None /\ files[p].ca \in S /\ commands \in Nat
  BY <1>2, <1>3, <1>5, KnownAuthorities DEF TypeInv, FilesInv, Held
<1>8. c \in Certs /\ c[1] \in S
  BY <1>6, <1>7 DEF EnsureNode, Certs, Bundles
<1>9. PICK e : /\ node' = [node EXCEPT ![n] = e]
               /\ \/ e = [d EXCEPT !.mode = "mtls"]
                  \/ d.ca = None /\ e = [d EXCEPT !.ca = c[1]]
                  \/ d.ca = c[1] /\ e = [d EXCEPT !.cert = c]
                  \/ e = [d EXCEPT !.key = c]
  BY <1>1, <1>5, <1>6, Zenon DEF WriteManagementIdentity
<1>10. e \in Disks /\ DiskInv(e, S)
  BY <1>3, <1>4, <1>8, <1>9, WrittenDisk
<1>11. e.session = d.session
  BY <1>3, <1>9 DEF Disks
<1>12. /\ node' \in [NodeSet -> Disks] /\ NodesInv' /\ node'[n] = e
       /\ \A m \in NodeSet : m # n => node'[m] = node[m]
  BY <1>2, <1>3, <1>4, <1>9, <1>10, OneNode
<1>13. RotationInv'
  BY <1>1, <1>3, <1>4, <1>11, <1>12, RotationKept DEF None
<1> QED BY <1>3, <1>4, <1>12, <1>13 DEF IInv, TypeInv, FilesInv, CommandInv

-----------------------------------------------------------------------------
(* The steps of a command.                                                 *)

\* A command that ends leaves nothing to show about it.
LEMMA Ends ==
  ASSUME cmd' = Idle
  PROVE  CommandInv' /\ RotationInv'
  BY DEF CommandInv, RotationInv

LEMMA BeginStep ==
  ASSUME IInv, Begin
  PROVE  IInv'
<1>1. TypeInv /\ FilesInv /\ NodesInv /\ UNCHANGED <<files, config, node, fresh>> /\ commands' = commands + 1
  BY DEF IInv, Begin
<1>2. PICK name \in {"create", "export", "import", "rotate"}, out \in Paths :
        cmd' = [pc |-> name, name |-> name, out |-> out, edits |-> config.edits, count |-> config.count,
                next |-> 1, old |-> files[config.ref], new |-> NoFile, touched |-> {}, late |-> 0]
  BY DEF Begin
<1>3. /\ config.edits \in Nat /\ config.count \in 1..Len(Nodes) /\ 1 \in 1..Len(Nodes) /\ 1 <= config.count
      /\ files[config.ref] \in Bundles /\ files[config.ref].ca # None
  BY <1>1, NodeNames DEF TypeInv, FilesInv
<1>4. /\ cmd' \in CommandRecords /\ cmd'.pc = name /\ cmd'.name = name /\ cmd'.next = 1 /\ cmd'.count = config.count
      /\ cmd'.old = files[config.ref]
  BY <1>2, <1>3, Marks DEF CommandRecords
<1>5. CommandInv' /\ RotationInv'
  BY <1>3, <1>4 DEF CommandInv, RotationInv
<1> QED BY <1>1, <1>4, <1>5 DEF IInv, TypeInv, FilesInv, NodesInv, Known

\* A new bundle, or one copied, with a leaf for every node.
LEMMA NewBundle ==
  ASSUME NEW b \in Bundles, NEW ca \in Authorities, NEW c \in 1..Len(Nodes)
  PROVE  /\ EnsureNodes(b, Listed(c)) \in Bundles /\ EnsureNodes(b, Listed(c)).ca = b.ca
         /\ Generate(ca) \in Bundles /\ Generate(ca).ca = ca
<1>1. Listed(c) \subseteq NodeSet
  BY NodeNames
<1>2. Generate(ca) \in Bundles /\ Generate(ca).ca = ca
  BY DEF Generate, Bundles
<1>3. EnsureNodes(b, Listed(c)) \in Bundles /\ EnsureNodes(b, Listed(c)).ca = b.ca
  BY <1>1 DEF EnsureNodes, Bundles
<1> QED BY <1>2, <1>3

\* A command saves a bundle and goes on with it.
LEMMA Saves ==
  ASSUME IInv, cmd # Idle, NEW b \in Bundles, b.ca # None, Write(cmd.out, b), UNCHANGED <<config, node, commands>>,
         fresh' \subseteq fresh, NEW pc \in {"reference", "preflight"},
         cmd' = [cmd EXCEPT !.pc = pc, !.new = b],
         pc = "preflight" <=> cmd.name = "rotate"
  PROVE  IInv'
<1>1. /\ cmd \in CommandRecords /\ TypeInv /\ FilesInv /\ NodesInv /\ CommandInv
  BY Running DEF IInv
<1>2. /\ cmd' \in CommandRecords /\ cmd'.pc = pc /\ cmd'.name = cmd.name /\ cmd'.new = b /\ cmd'.old = cmd.old
      /\ cmd'.next = cmd.next /\ cmd'.count = cmd.count /\ cmd'.out = cmd.out /\ cmd.out \in Paths
  BY <1>1 DEF CommandRecords
<1>3. /\ files' \in [Paths -> Bundles] /\ files'[cmd.out] = b
      /\ \A q \in Paths : files[q].ca # None => files'[q] = files[q]
      /\ \A q \in Paths : files'[q] = NoFile \/ files'[q].ca # None
      /\ NodesInv'
  BY <1>1, <1>2, FilesGrow
<1>4. TypeInv'
  BY <1>1, <1>2, <1>3 DEF TypeInv
<1>5. FilesInv'
  BY <1>1, <1>3 DEF FilesInv, TypeInv
<1>6. CommandInv'
  BY <1>1, <1>2, <1>3 DEF CommandInv
<1>7. RotationInv'
  BY <1>2 DEF RotationInv
<1> QED BY <1>3, <1>4, <1>5, <1>6, <1>7 DEF IInv

\* A step of the workstation that ends the command and writes at most a file.
LEMMA Reported ==
  ASSUME IInv, cmd' = Idle, UNCHANGED <<files, config, node, commands>>, fresh' \subseteq fresh
  PROVE  IInv'
  BY Ends DEF IInv, TypeInv, FilesInv, NodesInv, Known

LEMMA SecretsStep ==
  ASSUME IInv, managementSecretsCommand
  PROVE  IInv'
<1>1. /\ cmd.pc \in {"create", "export"} /\ UNCHANGED <<config, node, commands>> /\ TypeInv /\ CommandInv
  BY DEF managementSecretsCommand, Workstation, IInv
<1>2. cmd \in CommandRecords /\ cmd # Idle
  BY <1>1, Running
<1>3. /\ cmd.count \in 1..Len(Nodes) /\ cmd.old \in Bundles /\ cmd.old.ca # None /\ cmd.name # "rotate"
  <2>1. cmd.count \in 1..Len(Nodes) /\ cmd.old \in Bundles
    BY <1>2 DEF CommandRecords
  <2> QED BY <1>1, <1>2, <2>1 DEF CommandInv
<1>4. CASE Error /\ UNCHANGED <<files, fresh>>
  BY <1>1, <1>4, Reported DEF Error, Report
<1>5. CASE \E ca \in IF Here("create") THEN fresh ELSE {cmd.old.ca} :
             LET b == EnsureNodes(IF Here("create") THEN Generate(ca) ELSE cmd.old, Listed(cmd.count))
             IN /\ fresh' = fresh \ {ca} /\ Write(cmd.out, b)
                /\ cmd' = [cmd EXCEPT !.pc = "reference", !.new = b] /\ UNCHANGED done
  <2>1. PICK ca \in IF Here("create") THEN fresh ELSE {cmd.old.ca} :
             LET b == EnsureNodes(IF Here("create") THEN Generate(ca) ELSE cmd.old, Listed(cmd.count))
             IN /\ fresh' = fresh \ {ca} /\ Write(cmd.out, b)
                /\ cmd' = [cmd EXCEPT !.pc = "reference", !.new = b]
    BY <1>5
  <2>2. ca \in Authorities /\ None \notin Authorities
    BY <1>1, <1>3, Marks DEF TypeInv, Bundles
  <2>3. PICK a \in Bundles : a = (IF Here("create") THEN Generate(ca) ELSE cmd.old) /\ a.ca # None
    BY <1>3, <2>2, NewBundle
  <2>4. PICK b \in Bundles : b = EnsureNodes(a, Listed(cmd.count)) /\ b.ca # None
    BY <1>3, <2>2, <2>3, NewBundle
  <2>5. fresh' \subseteq fresh /\ Write(cmd.out, b) /\ cmd' = [cmd EXCEPT !.pc = "reference", !.new = b]
    BY <2>1, <2>3, <2>4
  <2> QED BY <1>1, <1>2, <1>3, <2>4, <2>5, Saves
<1> QED BY <1>4, <1>5 DEF managementSecretsCommand

LEMMA ImportStep ==
  ASSUME IInv, ImportIdentity
  PROVE  IInv'
<1>1. /\ cmd.pc = "import" /\ UNCHANGED <<config, node, commands, fresh>> /\ TypeInv /\ FilesInv /\ NodesInv
      /\ cmd' = Idle
  BY DEF ImportIdentity, Workstation, IInv, Report, Error, Here
<1>2. CASE UNCHANGED files
  BY <1>1, <1>2, Reported
<1>3. CASE Held(cmd.out) /\ Write(Store, files[cmd.out])
  <2>1. cmd.out \in Paths /\ Store \in Paths
    BY <1>1, Running, TrustAssumption DEF TrustAssumption, CommandRecords
  <2>2. PICK b \in Bundles : b = files[cmd.out] /\ b.ca # None
    BY <1>1, <1>3, <2>1 DEF TypeInv, FilesInv, Held
  <2>3. /\ files' \in [Paths -> Bundles]
        /\ \A q \in Paths : files[q].ca # None => files'[q] = files[q]
        /\ \A q \in Paths : files'[q] = NoFile \/ files'[q].ca # None
        /\ NodesInv'
    BY <1>1, <1>3, <2>1, <2>2, FilesGrow
  <2>4. TypeInv' /\ FilesInv'
    BY <1>1, <2>3 DEF TypeInv, FilesInv
  <2> QED BY <1>1, <2>3, <2>4, Ends DEF IInv
<1> QED BY <1>2, <1>3 DEF ImportIdentity

LEMMA RotateStep ==
  ASSUME IInv, runManagementIdentityRotate
  PROVE  IInv'
<1>1. /\ cmd.pc = "rotate" /\ UNCHANGED <<files, config, node, commands, fresh>> /\ TypeInv /\ CommandInv
      /\ FilesInv /\ NodesInv
  BY DEF runManagementIdentityRotate, Workstation, IInv, Here
<1>2. CASE cmd' = Idle
  BY <1>1, <1>2, Reported
<1>3. CASE cmd' = [cmd EXCEPT !.pc = "replace"]
  <2>1. cmd \in CommandRecords /\ cmd # Idle
    BY <1>1, Running
  <2>2. /\ cmd' \in CommandRecords /\ cmd'.pc = "replace" /\ cmd'.name = cmd.name /\ cmd'.old = cmd.old
        /\ cmd'.next = cmd.next /\ cmd'.count = cmd.count
    BY <1>3, <2>1 DEF CommandRecords
  <2>3. CommandInv' /\ RotationInv'
    BY <1>1, <2>1, <2>2 DEF CommandInv, RotationInv
  <2> QED BY <1>1, <2>2, <2>3 DEF IInv, TypeInv, FilesInv, NodesInv, Known
<1> QED BY <1>2, <1>3 DEF runManagementIdentityRotate, Report, Step

LEMMA ReplacementStep ==
  ASSUME IInv, replacementManagementIdentity
  PROVE  IInv'
<1>1. /\ cmd.pc = "replace" /\ UNCHANGED <<config, node, commands>> /\ TypeInv /\ CommandInv
      /\ FilesInv /\ NodesInv
  BY DEF replacementManagementIdentity, Workstation, IInv, Here
<1>2. /\ cmd \in CommandRecords /\ cmd # Idle
  BY <1>1, Running
<1>3. cmd.name = "rotate" /\ cmd.count \in 1..Len(Nodes) /\ cmd.out \in Paths
  <2>1. cmd.count \in 1..Len(Nodes) /\ cmd.out \in Paths
    BY <1>2 DEF CommandRecords
  <2> QED BY <1>1, <1>2, <2>1 DEF CommandInv
<1>4. CASE Held(cmd.out) /\ UNCHANGED <<files, fresh>> /\ cmd' = [cmd EXCEPT !.pc = "preflight", !.new = files[cmd.out]]
  <2>1. files[cmd.out] \in Bundles /\ files[cmd.out].ca # None
    BY <1>1, <1>3, <1>4 DEF TypeInv, FilesInv, Held
  <2>2. /\ cmd' \in CommandRecords /\ cmd'.pc = "preflight" /\ cmd'.name = cmd.name /\ cmd'.old = cmd.old
        /\ cmd'.next = cmd.next /\ cmd'.count = cmd.count /\ cmd'.out = cmd.out /\ cmd'.new = files[cmd.out]
    BY <1>2, <1>4, <2>1 DEF CommandRecords
  <2>3. CommandInv' /\ RotationInv'
    BY <1>1, <1>2, <1>3, <1>4, <2>1, <2>2 DEF CommandInv, RotationInv
  <2> QED BY <1>1, <1>4, <2>2, <2>3 DEF IInv, TypeInv, FilesInv, NodesInv, Known
<1>5. CASE Error /\ UNCHANGED <<files, fresh>>
  BY <1>1, <1>5, Reported DEF Error, Report
<1>6. ASSUME NEW ca \in fresh, NEW b, b = EnsureNodes(Generate(ca), Listed(cmd.count)),
             fresh' = fresh \ {ca}, Write(cmd.out, b), cmd' = [cmd EXCEPT !.pc = "preflight", !.new = b]
      PROVE  IInv'
  <2>1. ca \in Authorities /\ None \notin Authorities
    BY <1>1, <1>6, Marks DEF TypeInv
  <2>2. Generate(ca) \in Bundles /\ Generate(ca).ca # None
    BY <1>3, <2>1, Marks, NewBundle
  <2>3. b \in Bundles /\ b.ca # None
    BY <1>3, <1>6, <2>1, <2>2, NewBundle
  <2> QED BY <1>1, <1>2, <1>3, <1>6, <2>3, Saves
<1> QED BY <1>4, <1>5, <1>6 DEF replacementManagementIdentity

LEMMA PreflightStep ==
  ASSUME IInv, Preflight
  PROVE  IInv'
<1>1. /\ cmd.pc = "preflight" /\ UNCHANGED <<files, config, node, commands, fresh>> /\ TypeInv /\ CommandInv
      /\ FilesInv /\ NodesInv
  BY DEF Preflight, Workstation, IInv, Here
<1>2. /\ cmd \in CommandRecords /\ cmd # Idle
  BY <1>1, Running
<1>3. CASE cmd' = Idle
  BY <1>1, <1>3, Reported
<1>4. CASE cmd' = IF cmd.next < cmd.count THEN [cmd EXCEPT !.next = @ + 1] ELSE [cmd EXCEPT !.pc = "switch", !.next = 1]
  <2>1. cmd.next \in 1..Len(Nodes) /\ cmd.count \in 1..Len(Nodes) /\ Len(Nodes) \in Nat
    BY <1>2, NodeNames DEF CommandRecords
  <2>2. PICK k : k = IF cmd.next < cmd.count THEN cmd.next + 1 ELSE 1
    OBVIOUS
  <2>3. k \in 1..Len(Nodes) /\ k <= cmd.count
    BY <2>1, <2>2
  <2>4. /\ cmd' \in CommandRecords /\ cmd'.pc = (IF cmd.next < cmd.count THEN "preflight" ELSE "switch")
        /\ cmd'.name = cmd.name /\ cmd'.old = cmd.old /\ cmd'.new = cmd.new
        /\ cmd'.next = k /\ cmd'.count = cmd.count /\ cmd'.out = cmd.out
    BY <1>1, <1>2, <1>4, <2>2, <2>3 DEF CommandRecords
  <2>5. CommandInv'
    BY <1>1, <1>2, <2>3, <2>4 DEF CommandInv
  <2>6. cmd'.pc = "switch" => cmd'.next = 1
    BY <2>2, <2>4
  <2>7. RotationInv'
    BY <2>4, <2>6 DEF RotationInv
  <2> QED BY <1>1, <2>4, <2>5, <2>7 DEF IInv, TypeInv, FilesInv, NodesInv, Known
<1> QED BY <1>3, <1>4 DEF Preflight, Error, Report

\* What a rotation does to a node undoes no switch.
LEMMA SwitchStays ==
  ASSUME NEW n \in NodeSet, NEW e, node'[n] = e, \A m \in NodeSet : m # n => node'[m] = node[m],
         cmd'.touched = cmd.touched, cmd'.new = cmd.new, e.mode = node[n].mode,
         ManagementCredentialsPaths(e).ca = ManagementCredentialsPaths(node[n]).ca,
         e.session.ca \in {None, cmd.new.ca}, NEW m \in NodeSet, Switched(m)
  PROVE  Switched(m)'
<1>1. CASE m = n
  BY <1>1 DEF Switched
<1>2. CASE m # n
  BY <1>2 DEF Switched
<1> QED BY <1>1, <1>2

LEMMA SwitchStep ==
  ASSUME IInv, sshManagementRotation
  PROVE  IInv'
<1>1. /\ cmd.pc = "switch" /\ UNCHANGED <<files, config, commands, fresh>> /\ TypeInv /\ CommandInv
      /\ FilesInv /\ NodesInv /\ RotationInv
  BY DEF sshManagementRotation, IInv, Here
<1>2. /\ cmd \in CommandRecords /\ cmd # Idle
  BY <1>1, Running
<1>3. CASE Error /\ UNCHANGED node
  BY <1>1, <1>3, Reported DEF Error, Report
<1>4. CASE /\ InspectManagementRotation(node[Target], managementRotationNodes(Target))
           /\ node' = [node EXCEPT ![Target].session =
                         IF AlreadyRotated(node[Target], managementRotationNodes(Target))
                         THEN [managementRotationNodes(Target) EXCEPT !.pc = "restart"]
                         ELSE managementRotationNodes(Target)]
           /\ Step("wait")
  <2>1. PICK n \in NodeSet : n = Target
    BY <1>1, <1>2, TargetIsNode
  <2>2. PICK d : d = node[n]
    OBVIOUS
  <2>3. PICK S : S = Known
    OBVIOUS
  <2>4. d \in Disks /\ S \in SUBSET Authorities /\ DiskInv(d, S)
    BY <1>1, <2>2, <2>3, KnownAuthorities DEF TypeInv, NodesInv
  <2>5. PICK r : r = managementRotationNodes(n)
    OBVIOUS
  <2>6. /\ cmd.new \in Bundles /\ cmd.old \in Bundles /\ cmd.new.ca # None /\ cmd.new.ca \in S
        /\ cmd.out \in Paths
    <3>1. cmd.new \in Bundles /\ cmd.old \in Bundles /\ cmd.out \in Paths
      BY <1>2 DEF CommandRecords
    <3>2. cmd.new = files[cmd.out] /\ cmd.new.ca # None
      BY <1>1, <1>2 DEF CommandInv
    <3> QED BY <1>1, <2>3, <3>1, <3>2, KnownAuthorities
  <2>7. /\ r \in Sessions /\ r.pc = "stage" /\ r.ca = cmd.new.ca /\ r.cert[1] = r.ca
    <3>1. EnsureNode(cmd.new, n, 0) \in Certs /\ EnsureNode(cmd.new, n, 0)[1] = cmd.new.ca
      BY <2>6 DEF EnsureNode, Certs, Bundles
    <3> QED BY <2>5, <2>6, <3>1 DEF managementRotationNodes, Sessions, Bundles
  <2>8. PICK s : s = IF AlreadyRotated(d, r) THEN [r EXCEPT !.pc = "restart"] ELSE r
    OBVIOUS
  <2>9. /\ s \in Sessions /\ s.pc \in {"stage", "restart"} /\ s.ca = cmd.new.ca /\ s.cert[1] = s.ca
        /\ s.pc = "restart" => ManagementCredentialsPaths(d).ca = s.ca
    BY <2>7, <2>8 DEF Sessions, AlreadyRotated
  <2>10. d.mode = "mtls" /\ node' = [node EXCEPT ![n].session = s]
    BY <1>4, <2>1, <2>2, <2>5, <2>8 DEF InspectManagementRotation
  <2>11. PICK e : e = [d EXCEPT !.session = s]
    OBVIOUS
  <2>12. /\ e \in Disks /\ DiskInv(e, S) /\ ManagementCredentialsPaths(e) = ManagementCredentialsPaths(d)
    BY <2>4, <2>6, <2>9, <2>10, <2>11, DiskSession DEF None
  <2>13. e.mode = d.mode /\ e.session = s
    BY <2>4, <2>11 DEF Disks
  <2>14. node' = [node EXCEPT ![n] = e]
    BY <2>2, <2>10, <2>11
  <2>15. /\ node' \in [NodeSet -> Disks] /\ NodesInv' /\ node'[n] = e
         /\ \A m \in NodeSet : m # n => node'[m] = node[m]
    BY <1>1, <2>3, <2>12, <2>14, OneNode
  <2>16. /\ cmd' \in CommandRecords /\ cmd'.pc = "wait" /\ cmd'.name = cmd.name /\ cmd'.old = cmd.old
         /\ cmd'.new = cmd.new /\ cmd'.next = cmd.next /\ cmd'.count = cmd.count /\ cmd'.out = cmd.out
         /\ cmd'.touched = cmd.touched
    BY <1>2, <1>4 DEF CommandRecords, Step
  <2>17. CommandInv'
    BY <1>1, <1>2, <2>16 DEF CommandInv
  <2>18. \A i \in 1..(cmd.next - 1) : Switched(Nodes[i])
    BY <1>1, <1>2 DEF RotationInv, CommandInv
  <2>19. \A m \in NodeSet : Switched(m) => Switched(m)'
    BY <2>2, <2>9, <2>12, <2>13, <2>15, <2>16, SwitchStays
  <2>20. \A i \in 1..(cmd.next - 1) : Nodes[i] \in NodeSet
    <3>1. cmd.next \in 1..Len(Nodes)
      BY <1>2 DEF CommandRecords
    <3> QED BY <3>1, NodeNames
  <2>21. \A i \in 1..(cmd.next - 1) : Switched(Nodes[i])'
    <3> HIDE DEF Switched
    <3> QED BY <2>18, <2>19, <2>20
  <2>22. Target' = n /\ node'[n].session.ca = cmd.new.ca
    BY <2>1, <2>9, <2>13, <2>15, <2>16 DEF Target
  <2>23. RotationInv'
    BY <2>16, <2>21, <2>22 DEF RotationInv
  <2> QED BY <1>1, <2>15, <2>16, <2>17, <2>23 DEF IInv, TypeInv, FilesInv
<1> QED BY <1>3, <1>4 DEF sshManagementRotation

\* A session is forgotten.
LEMMA SessionLost ==
  ASSUME TypeInv, NodesInv, UNCHANGED files, NEW n \in NodeSet, node' = [node EXCEPT ![n].session = NoSession]
  PROVE  /\ node' \in [NodeSet -> Disks] /\ NodesInv' /\ node'[n].session = NoSession
         /\ node'[n].mode = node[n].mode
         /\ ManagementCredentialsPaths(node'[n]) = ManagementCredentialsPaths(node[n])
         /\ \A m \in NodeSet : m # n => node'[m] = node[m]
<1>1. PICK d : d = node[n]
  OBVIOUS
<1>2. PICK S : S = Known
  OBVIOUS
<1>3. d \in Disks /\ S \in SUBSET Authorities /\ DiskInv(d, S)
  BY <1>1, <1>2, KnownAuthorities DEF TypeInv, NodesInv
<1>4. PICK e : e = [d EXCEPT !.session = NoSession]
  OBVIOUS
<1>5. /\ e \in Disks /\ DiskInv(e, S) /\ ManagementCredentialsPaths(e) = ManagementCredentialsPaths(d)
  BY <1>3, <1>4, Marks, DiskSession DEF None
<1>6. e.mode = d.mode /\ e.session = NoSession
  BY <1>3, <1>4 DEF Disks
<1>7. node' = [node EXCEPT ![n] = e]
  BY <1>1, <1>4
<1>8. /\ node' \in [NodeSet -> Disks] /\ NodesInv' /\ node'[n] = e
      /\ \A m \in NodeSet : m # n => node'[m] = node[m]
  BY <1>2, <1>5, <1>7, OneNode
<1> QED BY <1>1, <1>5, <1>6, <1>8

LEMMA VerifyStep ==
  ASSUME IInv, verifyRotatedManagement
  PROVE  IInv'
<1>1. /\ cmd.pc = "wait" /\ UNCHANGED <<files, config, commands, fresh>> /\ TypeInv /\ CommandInv
      /\ FilesInv /\ NodesInv /\ RotationInv
  BY DEF verifyRotatedManagement, IInv, Here
<1>2. /\ cmd \in CommandRecords /\ cmd # Idle
  BY <1>1, Running
<1>3. PICK n \in NodeSet : n = Target
  BY <1>1, <1>2, TargetIsNode
<1>4. /\ node' \in [NodeSet -> Disks] /\ NodesInv' /\ node'[n].session = NoSession
      /\ node'[n].mode = node[n].mode
      /\ ManagementCredentialsPaths(node'[n]) = ManagementCredentialsPaths(node[n])
      /\ \A m \in NodeSet : m # n => node'[m] = node[m]
  BY <1>1, <1>3, SessionLost DEF verifyRotatedManagement
<1>5. CASE cmd' = Idle
  BY <1>1, <1>4, <1>5, Ends DEF IInv, TypeInv, FilesInv
<1>6. CASE node[Target].session.pc = "done" /\ cmd' = NextNode
  <2>1. /\ cmd.next \in 1..Len(Nodes) /\ cmd.count \in 1..Len(Nodes) /\ Len(Nodes) \in Nat
        /\ cmd.next <= cmd.count /\ cmd.name = "rotate"
        /\ \A i \in 1..Len(Nodes) : Nodes[i] \in NodeSet
    <3>1. cmd.next \in 1..Len(Nodes) /\ cmd.count \in 1..Len(Nodes)
      BY <1>2 DEF CommandRecords
    <3> QED BY <1>1, <1>2, <3>1, NodeNames DEF CommandInv
  <2>2. PICK k : k = IF cmd.next < cmd.count THEN cmd.next + 1 ELSE cmd.next
    OBVIOUS
  <2>3. k \in 1..Len(Nodes) /\ k <= cmd.count
    BY <2>1, <2>2
  <2>4. /\ cmd' \in CommandRecords /\ cmd'.pc = (IF cmd.next < cmd.count THEN "switch" ELSE "reference")
        /\ cmd'.name = cmd.name /\ cmd'.old = cmd.old /\ cmd'.new = cmd.new
        /\ cmd'.next = k /\ cmd'.count = cmd.count /\ cmd'.out = cmd.out /\ cmd'.touched = cmd.touched
    BY <1>2, <1>6, <2>2, <2>3 DEF CommandRecords, NextNode
  <2>5. CommandInv'
    BY <1>1, <1>2, <2>3, <2>4 DEF CommandInv
  <2>6. /\ node[n].mode = "mtls" /\ node[n].session.ca = cmd.new.ca
        /\ ManagementCredentialsPaths(node[n]).ca = cmd.new.ca
    <3>1. DiskInv(node[n], Known) /\ node[n].session.pc = "done"
      BY <1>1, <1>3, <1>6 DEF NodesInv
    <3>2. /\ node[n].mode = "mtls" /\ node[n].session.ca \in Known
          /\ ManagementCredentialsPaths(node[n]).ca = node[n].session.ca
      BY <3>1 DEF DiskInv, None
    <3>3. node[n].session.ca \in {None, cmd.new.ca}
      BY <1>1, <1>2, <1>3, <2>1 DEF RotationInv
    <3>4. None \notin Known
      BY DEF Known
    <3> QED BY <3>2, <3>3, <3>4
  <2>7. Switched(n)'
    BY <1>4, <2>4, <2>6, Marks DEF Switched
  <2>8. \A m \in NodeSet : Switched(m) => Switched(m)'
    BY <1>4, <2>4, Marks, SwitchStays
  <2>9. \A i \in 1..(cmd.next - 1) : Switched(Nodes[i])
    BY <1>1, <1>2, <2>1 DEF RotationInv
  <2>10. n = Nodes[cmd.next]
    BY <1>3 DEF Target
  <2>11. ASSUME NEW i \in 1..cmd.next PROVE Switched(Nodes[i])'
    <3> HIDE DEF Switched
    <3>1. CASE i = cmd.next
      BY <2>7, <2>10, <3>1
    <3>2. CASE i # cmd.next
      <4>1. i \in 1..(cmd.next - 1) /\ Nodes[i] \in NodeSet
        BY <2>1, <3>2
      <4> QED BY <2>8, <2>9, <4>1
    <3> QED BY <3>1, <3>2
  <2>12. RotationInv'
    <3> HIDE DEF Switched
    <3>1. CASE cmd.next < cmd.count
      BY <2>1, <2>2, <2>4, <2>11, <3>1 DEF RotationInv
    <3>2. CASE ~(cmd.next < cmd.count)
      <4>1. cmd.count = cmd.next
        BY <2>1, <3>2
      <4> QED BY <2>4, <2>11, <3>2, <4>1 DEF RotationInv
    <3> QED BY <3>1, <3>2
  <2> QED BY <1>1, <1>4, <2>4, <2>5, <2>12 DEF IInv, TypeInv, FilesInv
<1> QED BY <1>5, <1>6 DEF verifyRotatedManagement, Error, Report

LEMMA ReferenceStep ==
  ASSUME IInv, PublishReference
  PROVE  IInv'
<1>1. /\ cmd.pc = "reference" /\ UNCHANGED <<files, node, commands, fresh, config>> /\ TypeInv /\ CommandInv
      /\ FilesInv /\ NodesInv /\ RotationInv
  BY DEF PublishReference, Workstation, IInv, Here
<1>2. CASE cmd' = Idle
  BY <1>1, <1>2, Reported
<1>3. CASE compareManagementSecrets /\ Step("rename")
  <2>1. cmd \in CommandRecords /\ cmd # Idle /\ config.edits = cmd.edits
    BY <1>1, <1>3, Running DEF compareManagementSecrets
  <2>2. /\ cmd' \in CommandRecords /\ cmd'.pc = "rename" /\ cmd'.name = cmd.name /\ cmd'.out = cmd.out
        /\ cmd'.count = cmd.count /\ cmd'.next = cmd.next /\ cmd'.old = cmd.old /\ cmd'.new = cmd.new
        /\ cmd'.touched = cmd.touched /\ cmd'.edits = cmd.edits /\ cmd'.late \in Nat /\ cmd'.edits \in Nat
    BY <1>3, <2>1 DEF Step, CommandRecords
  <2>3. CommandInv'
    BY <1>1, <2>1, <2>2 DEF CommandInv
  <2>4. \A m \in NodeSet : Switched(m) => Switched(m)'
    BY <1>1, <2>2 DEF Switched
  <2>5. \A i \in 1..cmd.count : Nodes[i] \in NodeSet
    <3>1. cmd.count \in 1..Len(Nodes)
      BY <2>1 DEF CommandRecords
    <3> QED BY <3>1, NodeNames
  <2>6. cmd.name = "rotate" => \A i \in 1..cmd.count : Switched(Nodes[i])
    BY <1>1, <2>1 DEF RotationInv
  <2>7. RotationInv'
    <3> HIDE DEF Switched
    <3> QED BY <2>2, <2>4, <2>5, <2>6 DEF RotationInv
  <2> QED BY <1>1, <2>2, <2>3, <2>7 DEF IInv, TypeInv, FilesInv, NodesInv, Known
<1> QED BY <1>2, <1>3 DEF PublishReference, Error, Report

LEMMA RenameStep ==
  ASSUME IInv, RenameReference
  PROVE  IInv'
<1>1. /\ cmd.pc = "rename" /\ UNCHANGED <<files, node, commands, fresh>> /\ TypeInv /\ CommandInv
      /\ FilesInv /\ NodesInv /\ cmd' = Idle
  BY DEF RenameReference, Workstation, IInv, Here, Report, Error
<1>2. CASE UNCHANGED config
  BY <1>1, <1>2, Reported
<1>3. CASE referenceManagementSecrets(cmd.out)
  <2>1. cmd \in CommandRecords /\ cmd # Idle
    BY <1>1, Running
  <2>2. cmd.out \in Paths /\ files[cmd.out].ca # None /\ cmd.count \in 1..Len(Nodes) /\ cmd.edits \in Nat
    <3>1. cmd.out \in Paths /\ cmd.count \in 1..Len(Nodes) /\ cmd.edits \in Nat
      BY <2>1 DEF CommandRecords
    <3> QED BY <1>1, <2>1, <3>1 DEF CommandInv
  <2>3. config' \in [ref : Paths, count : 1..Len(Nodes), edits : Nat] /\ config'.ref = cmd.out
    BY <1>3, <2>2 DEF referenceManagementSecrets
  <2> QED BY <1>1, <2>2, <2>3, Ends DEF IInv, TypeInv, FilesInv, NodesInv, Known
<1> QED BY <1>2, <1>3 DEF RenameReference

LEMMA StoppedStep ==
  ASSUME IInv, Stopped
  PROVE  IInv'
<1>1. /\ UNCHANGED <<files, config, commands, fresh>> /\ TypeInv /\ FilesInv /\ NodesInv /\ cmd' = Idle
      /\ cmd.pc # "idle"
  BY DEF Stopped, IInv, Report, Here
<1>2. CASE UNCHANGED node
  BY <1>1, <1>2, Reported
<1>3. CASE node' = [node EXCEPT ![Target].session = NoSession]
  <2>1. PICK n \in NodeSet : n = Target
    BY <1>1, Running, TargetIsNode
  <2>2. node' \in [NodeSet -> Disks] /\ NodesInv'
    BY <1>1, <1>3, <2>1, SessionLost
  <2> QED BY <1>1, <2>2, Ends DEF IInv, TypeInv, FilesInv
<1> QED BY <1>2, <1>3 DEF Stopped

LEMMA EditStep ==
  ASSUME IInv, Edit
  PROVE  IInv'
<1>1. PICK c \in {config.count, Len(Nodes)} : config' = [config EXCEPT !.edits = @ + 1, !.count = c]
  BY DEF Edit
<1>2. config \in [ref : Paths, count : 1..Len(Nodes), edits : Nat] /\ Len(Nodes) \in Nat
  BY NodeNames DEF IInv, TypeInv
<1>3. c \in 1..Len(Nodes)
  BY <1>2
<1>4. config' \in [ref : Paths, count : 1..Len(Nodes), edits : Nat] /\ config'.ref = config.ref
  <2>1. config.edits + 1 \in Nat /\ config.ref \in Paths
    BY <1>2
  <2>2. config' = [ref |-> config.ref, count |-> c, edits |-> config.edits + 1]
    BY <1>1, <1>2
  <2> QED BY <1>3, <2>1, <2>2
<1>5. UNCHANGED <<files, node, fresh, commands>> /\ config'.edits = config.edits + 1 /\ config.edits \in Nat
  BY <1>1, <1>2 DEF Edit
<1>6. CASE cmd.pc # "rename"
  <2>1. cmd' = cmd
    BY <1>6 DEF Edit, Here
  <2> QED BY <1>4, <1>5, <1>6, <2>1 DEF IInv, TypeInv, FilesInv, CommandInv, NodesInv, Known, RotationInv, Switched, Target
<1>7. CASE cmd.pc = "rename"
  <2>1. /\ cmd \in CommandRecords /\ cmd # Idle /\ cmd' = [cmd EXCEPT !.late = @ + 1]
        /\ TypeInv /\ FilesInv /\ CommandInv /\ NodesInv /\ RotationInv
    BY <1>7, Running DEF Edit, Here, IInv
  <2>2. /\ cmd' \in CommandRecords /\ cmd'.pc = "rename" /\ cmd'.name = cmd.name /\ cmd'.out = cmd.out
        /\ cmd'.count = cmd.count /\ cmd'.next = cmd.next /\ cmd'.old = cmd.old /\ cmd'.new = cmd.new
        /\ cmd'.touched = cmd.touched /\ cmd'.edits = cmd.edits /\ cmd'.late = cmd.late + 1
        /\ cmd.late \in Nat /\ cmd.edits \in Nat
    <3>1. cmd.late \in Nat /\ cmd.late + 1 \in Nat
      BY <2>1 DEF CommandRecords
    <3> QED BY <1>7, <2>1, <3>1 DEF CommandRecords
  <2>3. config.edits <= cmd.edits + cmd.late
    BY <1>7, <2>1 DEF CommandInv
  <2>4. CommandInv'
    BY <1>5, <1>7, <2>1, <2>2, <2>3 DEF CommandInv
  <2>5. \A m \in NodeSet : Switched(m) => Switched(m)'
    BY <1>5, <2>2 DEF Switched
  <2>6. \A i \in 1..cmd.count : Nodes[i] \in NodeSet
    <3>1. cmd.count \in 1..Len(Nodes)
      BY <2>1 DEF CommandRecords
    <3> QED BY <3>1, NodeNames
  <2>7. cmd.name = "rotate" => \A i \in 1..cmd.count : Switched(Nodes[i])
    BY <1>7, <2>1 DEF RotationInv
  <2>8. RotationInv'
    <3> HIDE DEF Switched
    <3> QED BY <2>2, <2>5, <2>6, <2>7 DEF RotationInv
  <2> QED BY <1>4, <1>5, <2>1, <2>2, <2>4, <2>8 DEF IInv, TypeInv, FilesInv, NodesInv, Known
<1> QED BY <1>6, <1>7

-----------------------------------------------------------------------------
(* The theorems.                                                           *)

LEMMA InitInv == Init => IInv
<1> SUFFICES ASSUME Init PROVE IInv
  OBVIOUS
<1>1. PICK c \in 1..Len(Nodes) : config = [ref |-> Store, count |-> c, edits |-> 0]
  BY DEF Init
<1>2. 1 \in 1..Len(Nodes) /\ Store \in Paths /\ FirstAuthority \in Authorities
  BY <1>1, NodeNames, TrustAssumption DEF TrustAssumption
<1>3. PICK b \in Bundles : b = EnsureNodes(Generate(FirstAuthority), Listed(1)) /\ b.ca = FirstAuthority
  <2>1. Generate(FirstAuthority) \in Bundles /\ Generate(FirstAuthority).ca = FirstAuthority
    BY <1>2, Marks, NewBundle
  <2> QED BY <1>2, <2>1, NewBundle
<1>4. files = [p \in Paths |-> IF p = Store THEN b ELSE NoFile]
  BY <1>3 DEF Init
<1>5. /\ files \in [Paths -> Bundles] /\ files[Store] = b
      /\ \A p \in Paths : files[p] = NoFile \/ files[p].ca # None
  BY <1>2, <1>3, <1>4, Marks
<1>6. FilesInv
  BY <1>1, <1>2, <1>3, <1>5, Marks DEF FilesInv
<1>7. FirstAuthority \in Known /\ Known \in SUBSET Authorities
  BY <1>2, <1>3, <1>5, Marks DEF Known, Bundles
<1>8. ASSUME NEW n \in NodeSet
      PROVE  Provisioned(EnsureNode(files[Store], n, 1)) \in Disks
             /\ DiskInv(Provisioned(EnsureNode(files[Store], n, 1)), Known)
  <2>1. PICK k : k = EnsureNode(b, n, 1)
    OBVIOUS
  <2>2. k \in Certs /\ k[1] = FirstAuthority
    BY <1>2, <1>3, <2>1 DEF EnsureNode, Certs
  <2>3. PICK B : B = Blank
    OBVIOUS
  <2>4. /\ B \in Disks /\ B.session = NoSession /\ \A a \in Authorities : B.versions[a] = NoCert
    BY <2>3, BlankDisk DEF Blank
  <2>5. PICK e : e = [B EXCEPT !.ca = k[1], !.cert = k, !.key = k, !.mode = "mtls", !.serving = k]
    OBVIOUS
  <2>6. /\ e \in Disks /\ e.ca = FirstAuthority /\ e.cert = k /\ e.serving = k /\ e.session = NoSession
        /\ \A a \in Authorities : e.versions[a] = NoCert
    BY <1>2, <2>2, <2>4, <2>5 DEF Disks
  <2>7. DiskInv(e, Known)
    BY <1>2, <1>7, <2>2, <2>6, Marks DEF DiskInv, None
  <2>8. e = Provisioned(EnsureNode(files[Store], n, 1))
    BY <1>5, <2>1, <2>3, <2>5 DEF Provisioned
  <2> QED BY <2>6, <2>7, <2>8
<1>9. node = [n \in NodeSet |-> Provisioned(EnsureNode(files[Store], n, 1))]
  BY DEF Init
<1>10. node \in [NodeSet -> Disks] /\ NodesInv
  BY <1>8, <1>9 DEF NodesInv
<1>11. /\ config \in [ref : Paths, count : 1..Len(Nodes), edits : Nat] /\ cmd = Idle
       /\ fresh \subseteq Authorities /\ commands \in Nat
  BY <1>1, <1>2 DEF Init
<1> QED BY <1>5, <1>6, <1>10, <1>11 DEF IInv, TypeInv, CommandInv, RotationInv

LEMMA NextInv == IInv /\ [Next]_vars => IInv'
<1> SUFFICES ASSUME IInv, [Next]_vars PROVE IInv'
  OBVIOUS
<1>1. CASE UNCHANGED vars
  BY <1>1 DEF vars, IInv, TypeInv, FilesInv, CommandInv, NodesInv, Known, RotationInv, Switched, Target
<1>2. CASE Commands
  BY <1>2, BeginStep, SecretsStep, ImportStep, RotateStep, ReplacementStep, PreflightStep, SwitchStep,
     VerifyStep, ReferenceStep, RenameStep DEF Commands
<1>3. CASE Stopped \/ Edit
  BY <1>3, StoppedStep, EditStep
<1>4. ASSUME NEW n \in NodeSet, OnNode(n) PROVE IInv'
  BY <1>4, SessionSteps, NodeTouched, NodeRuns, InstallerWrites DEF OnNode
<1> QED BY <1>1, <1>2, <1>3, <1>4 DEF Next

\* What the workstation, a running command and the nodes hold fits together in
\* every state, wherever katlctl, a session or a node was interrupted.
THEOREM TrustInvariant == Spec => []IInv
<1> QED BY InitInv, NextInv, PTL DEF Spec

LEMMA InvAccess == IInv => AccessKept
<1> SUFFICES ASSUME IInv, NEW n \in NodeSet, NEW a \in {node[n].active, node[n].durable},
                    NEW start, start = [node[n] EXCEPT !.active = a]
             PROVE  /\ \A c \in {node[n].serving, ServerTLSConfig(start)} \ {NoCert} :
                         \E p \in Paths : files[p].ca = c[1]
                    /\ ManagementCredentialsPaths(start).cert # NoCert =>
                         ManagementCredentialsPaths(start).cert[1] = ManagementCredentialsPaths(start).ca
  BY DEF AccessKept
<1>1. PICK d : d = node[n]
  OBVIOUS
<1>2. PICK S : S = Known
  OBVIOUS
<1>3. d \in Disks /\ S \in SUBSET Authorities /\ DiskInv(d, S)
  BY <1>1, <1>2, KnownAuthorities DEF IInv, TypeInv, NodesInv
<1>4. a \in Authorities \cup {None} /\ NoSession \in Sessions
  BY <1>1, <1>3, Marks DEF Disks
<1>5. PICK f : f = [start EXCEPT !.session = NoSession]
  OBVIOUS
<1>6. /\ start \in Disks /\ start.ca = d.ca /\ start.cert = d.cert /\ start.key = d.key
      /\ start.versions = d.versions /\ start.active = a
  BY <1>1, <1>3, <1>4 DEF Disks
<1>7. /\ f \in Disks /\ f.ca = d.ca /\ f.cert = d.cert /\ f.key = d.key /\ f.versions = d.versions
      /\ f.active = a /\ f.session = NoSession /\ f.serving = d.serving
  BY <1>1, <1>3, <1>4, <1>5, <1>6 DEF Disks
<1>8. DiskInv(f, S)
  BY <1>3, <1>7, Marks DEF DiskInv, None
<1>9. ManagementCredentialsPaths(start) = ManagementCredentialsPaths(f)
  BY <1>6, <1>7 DEF ManagementCredentialsPaths
<1>10. ServerTLSConfig(start) # NoCert => ServerTLSConfig(start)[1] \in S
  BY <1>3, <1>7, <1>8, <1>9, ServerDisk DEF ServerTLSConfig
<1>11. node[n].serving # NoCert => node[n].serving[1] \in S
  BY <1>1, <1>3 DEF DiskInv
<1>12. \A x \in S : \E p \in Paths : files[p].ca = x
  BY <1>2 DEF Known
<1>13. ManagementCredentialsPaths(f).cert # NoCert =>
         ManagementCredentialsPaths(f).cert[1] = ManagementCredentialsPaths(f).ca
  BY <1>4, <1>7, <1>8 DEF ManagementCredentialsPaths, DiskInv
<1> QED BY <1>9, <1>10, <1>11, <1>12, <1>13

\* Whatever a node serves, or would serve after its next start, is one whole set
\* of credentials, and the operator has a secrets file of its authority.  A node
\* that serves nothing is not promised to come back.
THEOREM AccessAlwaysKept == Spec => []AccessKept
<1> QED BY TrustInvariant, InvAccess, PTL

LEMMA StepReference == IInv /\ [Next]_vars => [SwitchedBefore]_vars
<1> SUFFICES ASSUME IInv, Next PROVE SwitchedBefore
  OBVIOUS
<1>1. TypeInv /\ CommandInv /\ RotationInv /\ config.edits \in Nat /\ Len(Nodes) \in Nat
  BY NodeNames DEF IInv, TypeInv
<1>2. CASE UNCHANGED config
  BY <1>1, <1>2 DEF SwitchedBefore
<1>3. CASE Edit
  <2>1. PICK c \in {config.count, Len(Nodes)} : config' = [config EXCEPT !.edits = @ + 1, !.count = c]
    BY <1>3 DEF Edit
  <2>2. config'.edits = config.edits + 1 /\ config'.ref = config.ref
    BY <1>1, <2>1 DEF TypeInv
  <2> QED BY <1>1, <2>2 DEF SwitchedBefore
<1>4. CASE cmd.pc = "rename" /\ referenceManagementSecrets(cmd.out)
  <2>1. config'.ref = cmd.out /\ config'.edits = cmd.edits
    BY <1>4 DEF referenceManagementSecrets
  <2>2. /\ cmd \in CommandRecords /\ cmd # Idle /\ cmd.edits \in Nat /\ cmd.late \in Nat
        /\ config.edits - cmd.edits <= cmd.late
    <3>1. cmd \in CommandRecords /\ cmd # Idle
      BY <1>1, <1>4, Running
    <3>2. cmd.edits \in Nat /\ cmd.late \in Nat
      BY <3>1 DEF CommandRecords
    <3>3. config.edits <= cmd.edits + cmd.late
      BY <1>1, <1>4, <3>1 DEF CommandInv
    <3> QED BY <1>1, <3>1, <3>2, <3>3
  <2>3. ASSUME cmd.name = "rotate", NEW n \in Listed(cmd.count) \ cmd.touched
        PROVE  ManagementCredentialsPaths(node[n]).ca = files[cmd.out].ca
    <3>1. PICK i \in 1..cmd.count : n = Nodes[i]
      BY <2>3 DEF Listed
    <3>2. Switched(n)
      BY <1>1, <1>4, <2>2, <2>3, <3>1 DEF RotationInv
    <3>3. cmd.new = files[cmd.out]
      BY <1>1, <1>4, <2>2 DEF CommandInv
    <3> QED BY <2>3, <3>2, <3>3 DEF Switched
  <2> QED BY <1>1, <1>4, <2>1, <2>2, <2>3 DEF SwitchedBefore, Here
<1>5. ASSUME NEW n \in NodeSet, OnNode(n) PROVE UNCHANGED config
  BY <1>5 DEF OnNode, stageManagementVersion, syncVersions, RotateManagementIdentity, syncManagementDirectory,
     rotateManagementOnNode, PowerLoss, AgentRestart, NodeOperation, Wipe, WriteIdentity, FirstBoot,
     Local, Elsewhere
<1>6. ASSUME Commands PROVE UNCHANGED config \/ (cmd.pc = "rename" /\ referenceManagementSecrets(cmd.out))
  BY <1>6 DEF Commands, Begin, managementSecretsCommand, ImportIdentity, runManagementIdentityRotate,
     replacementManagementIdentity, Preflight, sshManagementRotation, verifyRotatedManagement,
     PublishReference, RenameReference, Here
<1>7. ASSUME Stopped PROVE UNCHANGED config
  BY <1>7 DEF Stopped
<1> QED BY <1>2, <1>3, <1>4, <1>5, <1>6, <1>7 DEF Next

\* The ClusterConfig names a new authority only when every node the rotation was
\* about has switched to it, and of the operator's edits only those made between
\* the comparison and the rename are lost.
THEOREM ReferenceSwitchedLast == Spec => ReferenceLast
<1> QED BY TrustInvariant, StepReference, PTL DEF Spec, ReferenceLast
=============================================================================
