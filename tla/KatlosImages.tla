---------------------------- MODULE KatlosImages ----------------------------
(***************************************************************************)
(* How a node takes in a KatlOS image: the upload or the download of the   *)
(* file with its size, digest and storage checks, and the two ways its     *)
(* index is resolved: strictly by the release that plans with it, and as   *)
(* an opaque boot envelope by an older release that only stages it.        *)
(*                                                                         *)
(* Sizes are machine words of Word values, so that sums wrap as uint64     *)
(* sums do.  Digests and names are small sets; the digest of a file is the *)
(* identity of its bytes.                                                  *)
(***************************************************************************)
EXTENDS Naturals, Sequences, FiniteSets, SequencesExt

CONSTANTS
  Word,        \* the number of values of an unsigned size
  Pool,        \* the components an image may be made of
  MaxComponents, \* bound: components of an image
  Indexes,     \* the indexes presented, without their components
  Transfers,   \* the downloads presented
  Uploads,     \* the upload streams presented
  Snapshots    \* the states of the storage when a source is snapshotted

(* The values given to the constants satisfy                               *)
(*   Word \in Nat \ {0, 1}                                                *)

VARIABLES input, answer

vars == <<input, answer>>

Refused == [ok |-> FALSE]

-----------------------------------------------------------------------------
(* Components.  A component has a role, the bytes its file holds, what the *)
(* index declares of it (digest, architecture, runtime interface, target), *)
(* and for the UKI the root it was built for and its command line.         *)

BootRoles == {"runtime-root", "runtime-uki"}

(* validateRelativePath, validateSHA256 and the required strings.          *)
WellFormed(c) == c.form = "ok"

ValidateComponentRole(c) ==
  /\ c.role \in BootRoles \cup {"endpoint-advertiser"}
  /\ c.target = c.role
  /\ c.role = "runtime-uki" => c.root # "none"
  /\ c.iface # "none"

VerifyComponentFile(c) == c.file = c.digest

(* M: the declared digest is not compared with the bytes *)
ComponentFileUnread(c) == TRUE

VerifyComponent(c) == VerifyComponentFile(c)

ValidateComponent(c, index) ==
  /\ WellFormed(c)
  /\ c.arch = index.arch
  /\ c.iface # "none" => c.iface = index.iface
  /\ ValidateComponentRole(c)
  /\ VerifyComponent(c)

(* validateIndex, for the role that was asked for.                         *)
ValidateIndex(index, expected) ==
  /\ index.header /\ index.role = expected.role
  /\ expected.arch = "" \/ index.arch = expected.arch
  /\ index.iface # ""
  /\ index.comps # <<>>

OfRole(comps, role) == {i \in DOMAIN comps : comps[i].role = role}

(* The boot contract both ways of resolving share: one root, one UKI made  *)
(* for that root, a command line.                                          *)
BootContract(comps) ==
  /\ Cardinality(OfRole(comps, "runtime-root")) = 1
  /\ Cardinality(OfRole(comps, "runtime-uki")) = 1
  /\ \A r \in OfRole(comps, "runtime-root"), u \in OfRole(comps, "runtime-uki") :
       comps[u].root = comps[r].digest /\ comps[u].cmdline

RolesOnce(comps) == \A i, j \in DOMAIN comps : comps[i].role = comps[j].role => i = j

The(comps, role) == comps[CHOOSE i \in OfRole(comps, role) : TRUE]

Resolved(comps) ==
  [ok |-> TRUE, runtime |-> The(comps, "runtime-root"), boot |-> The(comps, "runtime-uki")]

(* readIndex and the sidecar: fields it does not know are an error, and an *)
(* extension release is declared once.                                     *)
ReadIndex(index) == ~index.unknown /\ index.release # "twice"

(* The extension release is well formed, was made for this runtime, and    *)
(* every extension it names is in the image's own layout with its bytes.   *)
ValidateRelease(index) == index.release \notin {"broken", "other"}
ValidateExtensionClosure(index) == index.release # "unclosed"

ResolveDirectory(index, expected) ==
  IF /\ ReadIndex(index) /\ ValidateIndex(index, expected)
     /\ \A i \in DOMAIN index.comps : ValidateComponent(index.comps[i], index)
     /\ RolesOnce(index.comps) /\ BootContract(index.comps)
     /\ ValidateRelease(index) /\ ValidateExtensionClosure(index)
    THEN Resolved(index.comps) ELSE Refused

IsBoot(c) == c.role \in BootRoles

ResolveStagingDirectory(index, expected) ==
  LET boot == [index EXCEPT !.comps = SelectSeq(@, IsBoot)]
  IN  IF /\ ValidateIndex(boot, expected)
         /\ \A i \in DOMAIN boot.comps : ValidateComponent(boot.comps[i], boot)
         /\ RolesOnce(boot.comps) /\ BootContract(boot.comps)
        THEN Resolved(boot.comps) ELSE Refused

ResolveOpaque(index, expected) == ResolveStagingDirectory(index, expected)

-----------------------------------------------------------------------------
(* Storage.                                                                *)

Plus(a, b) == (a + b) % Word
Minus(a, b) == (a + Word - b) % Word

(* requireHostUpgradeStorage, also made by downloadImage.                  *)
RequireHostUpgradeStorage(free, bytes, reserve) ==
  LET required == Plus(bytes, reserve) IN ~(required < bytes \/ free < required)

(* downloadImage.  length is the Content-Length (0: not declared), body    *)
(* what the server sends; a body longer or shorter than a declared length  *)
(* is an error of the HTTP client.                                         *)
DownloadImage(t) ==
  LET declared == IF t.length > 0 THEN t.length ELSE t.size
  IN  IF /\ t.length > 0 /\ t.size > 0 => t.length = t.size
         /\ t.limit > 0 => declared # 0 /\ declared <= t.limit
         /\ t.measured => RequireHostUpgradeStorage(t.free, declared, t.reserve)
         /\ t.length > 0 => t.body = t.length
         /\ t.limit > 0 => t.body <= t.limit
         /\ t.size > 0 => t.body = t.size
         /\ t.sha # "none" => t.digest = t.sha
        THEN [ok |-> TRUE, digest |-> t.digest, bytes |-> t.body] ELSE Refused

(* imageFileIdentity of a local image.                                     *)
ImageFileIdentity(t) ==
  IF /\ t.size > 0 => t.body = t.size
     /\ t.sha # "none" => t.digest = t.sha
    THEN [ok |-> TRUE, digest |-> t.digest, bytes |-> t.body] ELSE Refused

-----------------------------------------------------------------------------
(* StageHostUpgradeArtifact: chunks are appended to a partial file until   *)
(* the stream ends; only then is it renamed to the digest it declared.     *)

WriteChunk(received, size, chunk, largest) ==
  chunk <= largest /\ received <= size /\ chunk <= size - received

ReceivedBefore(u, n) == FoldLeft(LAMBDA sum, c : sum + c, 0, SubSeq(u.chunks, 1, n - 1))

StageArtifact(u) ==
  IF /\ u.size > 0 /\ u.size <= u.most /\ RequireHostUpgradeStorage(u.free, u.size, u.reserve)
     /\ \A n \in DOMAIN u.chunks : WriteChunk(ReceivedBefore(u, n), u.size, u.chunks[n], u.largest)
     /\ ~u.cut /\ ~u.metadataAgain
     /\ ReceivedBefore(u, Len(u.chunks) + 1) = u.size
     /\ u.digest = u.sha
    THEN [ok |-> TRUE, name |-> u.sha, digest |-> u.digest, bytes |-> u.size] ELSE Refused

StageHostUpgradeArtifact(u) == StageArtifact(u)

-----------------------------------------------------------------------------
(* snapshotUpgradeSource: the reserve is checked on one reading of the     *)
(* free space and the budget computed from the next one.                   *)

SnapshotBudget(s) ==
  LET usable == Minus(s.second, s.reserve)
  IN  IF usable < s.most THEN usable ELSE s.most

(* copyUpgradeTreeBounded: each input must fit in what is left.            *)
SnapshotUpgradeSource(s) ==
  IF RequireHostUpgradeStorage(s.first, 0, s.reserve) /\ s.bytes <= SnapshotBudget(s)
    THEN [ok |-> TRUE, bytes |-> s.bytes] ELSE Refused

-----------------------------------------------------------------------------
Init ==
  /\ answer = Refused
  /\ \/ \E n \in 0..MaxComponents : \E comps \in [1..n -> Pool] :
        \E i \in Indexes, r \in {"install", "upgrade"}, a \in {"", "x86"} :
          input = [kind |-> "image", index |-> [i EXCEPT !.comps = comps],
                   expected |-> [role |-> r, arch |-> a]]
     \/ \E t \in Transfers : input = [kind |-> "transfer", t |-> t]
     \/ \E u \in Uploads : input = [kind |-> "upload", u |-> u]
     \/ \E s \in Snapshots : input = [kind |-> "snapshot", s |-> s]

Done == "done" \in DOMAIN answer

ResolveImage ==
  /\ ~Done /\ input.kind = "image"
  /\ answer' = [done |-> TRUE, strict |-> ResolveDirectory(input.index, input.expected),
                opaque |-> ResolveOpaque(input.index, input.expected)]
  /\ UNCHANGED input

FetchImage ==
  /\ ~Done /\ input.kind = "transfer"
  /\ answer' = [done |-> TRUE, fetched |-> IF input.t.remote THEN DownloadImage(input.t)
                                            ELSE ImageFileIdentity(input.t)]
  /\ UNCHANGED input

StageUpload ==
  /\ ~Done /\ input.kind = "upload"
  /\ answer' = [done |-> TRUE, staged |-> StageHostUpgradeArtifact(input.u)]
  /\ UNCHANGED input

TakeSnapshot ==
  /\ ~Done /\ input.kind = "snapshot"
  /\ answer' = [done |-> TRUE, copied |-> SnapshotUpgradeSource(input.s)]
  /\ UNCHANGED input

Next == ResolveImage \/ FetchImage \/ StageUpload \/ TakeSnapshot
Spec == Init /\ [][Next]_vars

-----------------------------------------------------------------------------
(* Properties.                                                             *)

Answered(k) == Done /\ input.kind = k

(* Whatever else an image carries, what is accepted to be written to the   *)
(* slot and to the ESP is one root and one UKI whose files hold the bytes  *)
(* the index declares, and the UKI was built for that very root.           *)
AcceptedBootsItsRoot ==
  Answered("image") => \A p \in {answer.strict, answer.opaque} : p.ok =>
    /\ p.boot.root = p.runtime.file /\ p.boot.file = p.boot.digest
    /\ p.runtime.arch = input.index.arch /\ p.boot.arch = input.index.arch
    /\ p.runtime.iface = input.index.iface /\ p.boot.iface = input.index.iface

(* An older release stages exactly the images whose root and UKI a strict  *)
(* reading accepts, whatever else a later release adds to the index; what  *)
(* the release itself accepts it stages with the same root and UKI.        *)
OpaqueExtendsStrict ==
  Answered("image") =>
    /\ answer.strict.ok => answer.opaque = answer.strict
    /\ answer.opaque = ResolveDirectory([input.index EXCEPT !.comps = SelectSeq(@, IsBoot),
                                           !.unknown = FALSE, !.release = "none"], input.expected)

(* A fetched image leaves the reserve to the running node, is within the   *)
(* limit, and is the one the request names.                                *)
FetchedKeepsReserve ==
  Answered("transfer") /\ answer.fetched.ok =>
    /\ input.t.remote /\ input.t.measured /\ input.t.limit > 0 =>
         input.t.free >= answer.fetched.bytes + input.t.reserve
    /\ input.t.remote /\ input.t.limit > 0 => answer.fetched.bytes <= input.t.limit
    /\ input.t.size > 0 => answer.fetched.bytes = input.t.size
    /\ input.t.sha # "none" => answer.fetched.digest = input.t.sha

(* A file is found under a digest's name only if it holds those bytes, all *)
(* of them, and the reserve was there for it.                              *)
UploadNamesItsBytes ==
  Answered("upload") /\ answer.staged.ok =>
    /\ answer.staged.digest = answer.staged.name /\ ~input.u.cut
    /\ FoldLeft(LAMBDA sum, c : sum + c, 0, input.u.chunks) = answer.staged.bytes
    /\ input.u.free >= answer.staged.bytes + input.u.reserve

(* The snapshot of the source is within its limit and leaves the reserve   *)
(* to the running node, unless the free space fell below the reserve       *)
(* between the two readings: the subtraction then wraps, and the snapshot  *)
(* eats into the reserve up to its limit.                                  *)
SnapshotKeepsReserve ==
  Answered("snapshot") /\ answer.copied.ok =>
    /\ answer.copied.bytes <= input.s.most
    /\ input.s.second >= input.s.reserve => input.s.second >= answer.copied.bytes + input.s.reserve
=============================================================================
