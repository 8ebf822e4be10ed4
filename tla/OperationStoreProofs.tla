------------------------ MODULE OperationStoreProofs ------------------------
(***************************************************************************)
(* Proofs about OperationStore for every set of processes, every journal   *)
(* length and every phase plan.                                            *)
(***************************************************************************)
EXTENDS OperationStore, FiniteSetTheorems, SequenceTheorems, TLAPS

\* A process that holds the flock: a writer past "lock".
Writing(p) == op[p] \in {"create", "update"} /\ pc[p] \notin {"idle", "mkdir", "lock"}

\* No two events of one number, none missing, each legal after the one before.
Linear(F) ==
  /\ \A f, g \in F : f.seq = g.seq => f = g
  /\ \A f \in F : \A k \in 1..f.seq : \E g \in F : g.seq = k
  /\ \A f, g \in F : g.seq = f.seq + 1 => ValidateTransition(f.rec, g.rec)

\* A set of events that misses no event older than one it has.
Prefix(E, F) == E \subseteq F /\ \A f \in E : UpTo(F, f) \subseteq E

\* The writer is alone, knows the whole journal, and prepares its successor.
WriterInv(p) ==
  /\ lock = p
  /\ pc[p] \in {"check", "journal", "snapshot", "mutate"} => file[p] = {}
  /\ pc[p] \in {"snapshot", "mutate"} => seen[p] = files /\ files # {}
  /\ pc[p] \in {"write", "fsync"} /\ file[p] = {} =>
       op[p] = "update" /\ seen[p] = files /\ files # {}
  /\ pc[p] = "link" =>
       \E f \in File : /\ file[p] = {f} /\ Linear(files \cup {f})
                       /\ \A g \in files : g.seq < f.seq
                       /\ files = {} => f.rec = NewRecord
  /\ pc[p] = "sync" => file[p] \subseteq files /\ file[p] # {}
  /\ pc[p] = "reread" => file[p] \subseteq durable /\ file[p] # {}
  /\ pc[p] \in {"write", "fsync", "return"} => file[p] \subseteq durable
  /\ pc[p] = "return" => file[p] # {}

\* A reader never has an event to acknowledge.
ReaderInv(p) == ~Writing(p) => file[p] = {}

\* Which call a process can be in at each of its steps.
OpInv(p) ==
  /\ pc[p] \in {"mkdir", "check"} => op[p] = "create"
  /\ pc[p] = "mutate" => op[p] = "update"
  /\ pc[p] \in {"journal", "snapshot"} => op[p] \in {"update", "read"}
  /\ pc[p] \in {"lock", "link", "sync", "reread"} => op[p] \in {"create", "update"}
  /\ pc[p] # "idle" => op[p] # "none"

\* The inductive invariant: JournalLinear, AckDurable and ReadFresh follow from
\* it, and it adds what the processes between two steps know.
IInv ==
  /\ TypeOK
  /\ Linear(files)
  /\ Prefix(durable, files)
  /\ Prefix(acked, durable)
  /\ \A p \in Procs : floor[p] \subseteq acked
  /\ \A p \in Procs : pc[p] \in {"snapshot", "write", "fsync", "return"} => floor[p] \subseteq seen[p]
  /\ \A p \in Procs : OpInv(p)
  /\ \A p \in Procs : Writing(p) => WriterInv(p)
  /\ \A p \in Procs : ReaderInv(p)

-----------------------------------------------------------------------------
(* Facts about sets of events.                                             *)

\* A set of numbered events that is not empty has a last one: Latest is
\* well defined wherever the store uses it.
LEMMA LatestIsLast ==
  ASSUME NEW F, F \subseteq File, F # {}
  PROVE  Latest(F) \in F /\ \A g \in F : g.seq <= Latest(F).seq
<1> DEFINE D == {MaxSeq - f.seq : f \in F}
<1>1. D \subseteq Nat /\ D # {}
  BY MaxSeqAssumption DEF File
<1>2. PICK x \in D : \A y \in D : ~(<<y, x>> \in OpToRel(<, Nat))
  <2> HIDE DEF D
  <2> QED BY <1>1, NatLessThanWellFounded, WFMin
<1>3. PICK f \in F : x = MaxSeq - f.seq
  OBVIOUS
<1>4. ASSUME NEW g \in F PROVE g.seq <= f.seq
  <2>1. f.seq \in 1..MaxSeq /\ g.seq \in 1..MaxSeq
    BY DEF File
  <2>2. MaxSeq - g.seq \in D /\ MaxSeq - g.seq \in Nat /\ x \in Nat
    BY <1>1
  <2>3. ~(MaxSeq - g.seq < x)
    BY <1>2, <2>2 DEF OpToRel
  <2> QED BY <1>3, <2>1, <2>3, MaxSeqAssumption
<1> QED BY <1>4 DEF Latest

\* readJournal returns a linear journal whole and never refuses it.
LEMMA LinearIsValid ==
  ASSUME NEW F, F \subseteq File, Linear(F)
  PROVE  Valid(F) = F /\ ~DuplicateSeq(F)
<1>1. ASSUME NEW f \in F PROVE Chain(F, f.seq)
  <2>1. f.seq \in Nat
    BY MaxSeqAssumption DEF File
  <2>2. ASSUME NEW k \in 1..f.seq PROVE Linked(F, k)
    <3>1. PICK h \in F : h.seq = k
      BY DEF Linear
    <3>2. k > 1 => \E g \in F : g.seq = k - 1 /\ ValidateTransition(g.rec, h.rec)
      <4> HAVE k > 1
      <4>1. k - 1 \in 1..f.seq
        BY <2>1
      <4>2. PICK g \in F : g.seq = k - 1
        BY <4>1 DEF Linear
      <4>3. h.seq = g.seq + 1
        BY <2>1, <3>1, <4>2
      <4> QED BY <4>2, <4>3 DEF Linear
    <3> QED BY <3>1, <3>2 DEF Linked
  <2> QED BY <2>2 DEF Chain
<1>2. Valid(F) = F
  BY <1>1 DEF Valid
<1>3. ~DuplicateSeq(F)
  BY DEF DuplicateSeq, Linear
<1> QED BY <1>2, <1>3

\* A legal successor of the last event keeps the journal linear.
LEMMA AppendIsLinear ==
  ASSUME NEW F, F \subseteq File, F # {}, Linear(F), NEW f \in File,
         f.seq = Latest(F).seq + 1, ValidateTransition(Latest(F).rec, f.rec)
  PROVE  Linear(F \cup {f}) /\ \A g \in F : g.seq < f.seq
<1> DEFINE l == Latest(F)
<1>1. l \in F /\ \A g \in F : g.seq <= l.seq
  BY LatestIsLast
<1>2. \A g \in F \cup {f} : g.seq \in Nat
  BY MaxSeqAssumption DEF File
<1> HIDE DEF l
<1>3. \A g \in F : g.seq < f.seq
  BY <1>1, <1>2 DEF l
<1>4. \A g, h \in F \cup {f} : g.seq = h.seq => g = h
  BY <1>2, <1>3 DEF Linear
<1>5. ASSUME NEW g \in F \cup {f}, NEW k \in 1..g.seq PROVE \E h \in F \cup {f} : h.seq = k
  <2>1. CASE g \in F
    BY <2>1 DEF Linear
  <2>2. CASE g = f /\ k = f.seq
    BY <2>2
  <2>3. CASE g = f /\ k # f.seq
    <3>1. k \in 1..l.seq
      BY <1>1, <1>2, <2>3 DEF l
    <3> QED BY <1>1, <3>1 DEF Linear
  <2> QED BY <2>1, <2>2, <2>3
<1>6. ASSUME NEW g \in F \cup {f}, NEW h \in F \cup {f}, h.seq = g.seq + 1
      PROVE  ValidateTransition(g.rec, h.rec)
  <2>1. CASE g \in F /\ h \in F
    BY <1>6, <2>1 DEF Linear
  <2>2. CASE g \in F /\ h = f
    <3>1. g.seq = l.seq
      BY <1>1, <1>2, <1>6, <2>2 DEF l
    <3>2. g = l
      BY <1>1, <2>2, <3>1 DEF Linear
    <3> QED BY <2>2, <3>2 DEF l
  <2>3. CASE g = f
    BY <1>2, <1>3, <1>6, <2>3
  <2> QED BY <2>1, <2>2, <2>3
<1> QED BY <1>3, <1>4, <1>5, <1>6 DEF Linear

\* What a power loss leaves of a linear journal is linear.
LEMMA PrefixIsLinear ==
  ASSUME NEW F, F \subseteq File, Linear(F), NEW E, Prefix(E, F)
  PROVE  Linear(E)
<1>1. E \subseteq F /\ \A f \in F : f.seq \in Nat
  BY MaxSeqAssumption DEF Prefix, File
<1>2. ASSUME NEW f \in E, NEW k \in 1..f.seq PROVE \E g \in E : g.seq = k
  <2>1. PICK g \in F : g.seq = k
    BY <1>1 DEF Linear
  <2> QED BY <1>1, <2>1 DEF Prefix, UpTo
<1> QED BY <1>1, <1>2 DEF Linear

-----------------------------------------------------------------------------
(* The inductive invariant.                                                *)

\* An operation directory that does not exist yet satisfies the invariant.
THEOREM InitIInv == Init => IInv
<1> SUFFICES ASSUME Init PROVE IInv
  OBVIOUS
<1>1. TypeOK
  BY DEF Init, TypeOK, Ops, PCs
<1>2. Linear(files) /\ Prefix(durable, files) /\ Prefix(acked, durable)
  BY DEF Init, Linear, Prefix
<1> QED BY <1>1, <1>2 DEF Init, IInv, Writing, ReaderInv, OpInv

\* A step that leaves the journal, the lock and the state of q alone cannot
\* disturb what is known of a writer q.
LEMMA OthersKeep ==
  ASSUME IInv, NEW q \in Procs, Writing(q)',
         pc'[q] = pc[q], op'[q] = op[q], seen'[q] = seen[q], file'[q] = file[q],
         files' = files, durable' = durable, lock' = lock
  PROVE  WriterInv(q)'
<1>1. Writing(q)
  BY DEF Writing
<1>2. WriterInv(q)
  BY <1>1 DEF IInv
<1>3. WriterInv(q)' <=> WriterInv(q)
  BY DEF WriterInv
<1> QED BY <1>2, <1>3

\* Beginning a Create call touches no file and keeps the invariant.
LEMMA CreateStep ==
  ASSUME IInv, NEW p \in Procs, Create(p)
  PROVE  IInv'
<1>0. TypeOK
  BY DEF IInv
<1>1. TypeOK'
  BY <1>0 DEF IInv, Create, Begin, TypeOK, Writing, WriterInv, ReaderInv, OpInv, disk, proc, PCs, Ops
<1>2. Linear(files)' /\ Prefix(durable, files)' /\ Prefix(acked, durable)'
  BY <1>0 DEF IInv, Create, Begin, disk
<1>3. /\ (\A q \in Procs : floor[q] \subseteq acked)'
      /\ (\A q \in Procs : pc[q] \in {"snapshot", "write", "fsync", "return"} => floor[q] \subseteq seen[q])'
      /\ (\A q \in Procs : OpInv(q))'
  BY <1>0 DEF IInv, Create, Begin, TypeOK, Writing, WriterInv, ReaderInv, OpInv, disk, proc, PCs, Ops
<1>4. ASSUME NEW q \in Procs, Writing(q)' PROVE WriterInv(q)'
  <2>1. CASE q = p
    BY <1>0, <1>4, <2>1 DEF IInv, Create, Begin, TypeOK, Writing, WriterInv, ReaderInv, OpInv, disk, proc, PCs, Ops
  <2>2. CASE q # p
    BY <1>0, <1>4, <2>2, OthersKeep DEF Create, Begin, TypeOK, disk
  <2> QED BY <2>1, <2>2
<1>5. ASSUME NEW q \in Procs PROVE ReaderInv(q)'
  BY <1>0 DEF IInv, Create, Begin, TypeOK, Writing, WriterInv, ReaderInv, OpInv, disk, proc, PCs, Ops
<1> QED BY <1>1, <1>2, <1>3, <1>4, <1>5 DEF IInv

\* Beginning an Update call touches no file and keeps the invariant.
LEMMA UpdateStep ==
  ASSUME IInv, NEW p \in Procs, Update(p)
  PROVE  IInv'
<1>0. TypeOK
  BY DEF IInv
<1>1. TypeOK'
  BY <1>0 DEF IInv, Update, Begin, TypeOK, Writing, WriterInv, ReaderInv, OpInv, disk, proc, PCs, Ops
<1>2. Linear(files)' /\ Prefix(durable, files)' /\ Prefix(acked, durable)'
  BY <1>0 DEF IInv, Update, Begin, disk
<1>3. /\ (\A q \in Procs : floor[q] \subseteq acked)'
      /\ (\A q \in Procs : pc[q] \in {"snapshot", "write", "fsync", "return"} => floor[q] \subseteq seen[q])'
      /\ (\A q \in Procs : OpInv(q))'
  BY <1>0 DEF IInv, Update, Begin, TypeOK, Writing, WriterInv, ReaderInv, OpInv, disk, proc, PCs, Ops
<1>4. ASSUME NEW q \in Procs, Writing(q)' PROVE WriterInv(q)'
  <2>1. CASE q = p
    BY <1>0, <1>4, <2>1 DEF IInv, Update, Begin, TypeOK, Writing, WriterInv, ReaderInv, OpInv, disk, proc, PCs, Ops
  <2>2. CASE q # p
    BY <1>0, <1>4, <2>2, OthersKeep DEF Update, Begin, TypeOK, disk
  <2> QED BY <2>1, <2>2
<1>5. ASSUME NEW q \in Procs PROVE ReaderInv(q)'
  BY <1>0 DEF IInv, Update, Begin, TypeOK, Writing, WriterInv, ReaderInv, OpInv, disk, proc, PCs, Ops
<1> QED BY <1>1, <1>2, <1>3, <1>4, <1>5 DEF IInv

\* Beginning a Read call records the acknowledged events it must return.
LEMMA ReadStep ==
  ASSUME IInv, NEW p \in Procs, Read(p)
  PROVE  IInv'
<1>0. TypeOK
  BY DEF IInv
<1>1. TypeOK'
  BY <1>0 DEF IInv, Read, Begin, TypeOK, Writing, WriterInv, ReaderInv, OpInv, disk, proc, PCs, Ops
<1>2. Linear(files)' /\ Prefix(durable, files)' /\ Prefix(acked, durable)'
  BY <1>0 DEF IInv, Read, Begin, disk
<1>3. /\ (\A q \in Procs : floor[q] \subseteq acked)'
      /\ (\A q \in Procs : pc[q] \in {"snapshot", "write", "fsync", "return"} => floor[q] \subseteq seen[q])'
      /\ (\A q \in Procs : OpInv(q))'
  BY <1>0 DEF IInv, Read, Begin, TypeOK, Writing, WriterInv, ReaderInv, OpInv, disk, proc, PCs, Ops
<1>4. ASSUME NEW q \in Procs, Writing(q)' PROVE WriterInv(q)'
  <2>1. CASE q = p
    BY <1>0, <1>4, <2>1 DEF IInv, Read, Begin, TypeOK, Writing, WriterInv, ReaderInv, OpInv, disk, proc, PCs, Ops
  <2>2. CASE q # p
    BY <1>0, <1>4, <2>2, OthersKeep DEF Read, Begin, TypeOK, disk
  <2> QED BY <2>1, <2>2
<1>5. ASSUME NEW q \in Procs PROVE ReaderInv(q)'
  BY <1>0 DEF IInv, Read, Begin, TypeOK, Writing, WriterInv, ReaderInv, OpInv, disk, proc, PCs, Ops
<1> QED BY <1>1, <1>2, <1>3, <1>4, <1>5 DEF IInv

\* Making the operation directory, before the lock, keeps the invariant.
LEMMA MakeDirStep ==
  ASSUME IInv, NEW p \in Procs, MakeDir(p)
  PROVE  IInv'
<1>0. TypeOK
  BY DEF IInv
<1>1. TypeOK'
  BY <1>0 DEF IInv, MakeDir, TypeOK, Writing, WriterInv, ReaderInv, OpInv, disk, proc, PCs, Ops
<1>2. Linear(files)' /\ Prefix(durable, files)' /\ Prefix(acked, durable)'
  BY <1>0 DEF IInv, MakeDir, disk
<1>3. /\ (\A q \in Procs : floor[q] \subseteq acked)'
      /\ (\A q \in Procs : pc[q] \in {"snapshot", "write", "fsync", "return"} => floor[q] \subseteq seen[q])'
      /\ (\A q \in Procs : OpInv(q))'
  BY <1>0 DEF IInv, MakeDir, TypeOK, Writing, WriterInv, ReaderInv, OpInv, disk, proc, PCs, Ops
<1>4. ASSUME NEW q \in Procs, Writing(q)' PROVE WriterInv(q)'
  <2>1. CASE q = p
    BY <1>0, <1>4, <2>1 DEF IInv, MakeDir, TypeOK, Writing, WriterInv, ReaderInv, OpInv, disk, proc, PCs, Ops
  <2>2. CASE q # p
    BY <1>0, <1>4, <2>2, OthersKeep DEF MakeDir, TypeOK, disk
  <2> QED BY <2>1, <2>2
<1>5. ASSUME NEW q \in Procs PROVE ReaderInv(q)'
  BY <1>0 DEF IInv, MakeDir, TypeOK, Writing, WriterInv, ReaderInv, OpInv, disk, proc, PCs, Ops
<1> QED BY <1>1, <1>2, <1>3, <1>4, <1>5 DEF IInv

\* The process that gets the flock is the only writer from here on.
LEMMA AcquireStep ==
  ASSUME IInv, NEW p \in Procs, Acquire(p)
  PROVE  IInv'
<1>0. TypeOK
  BY DEF IInv
<1>1. TypeOK'
  BY <1>0 DEF IInv, Acquire, TypeOK, Writing, WriterInv, ReaderInv, OpInv, disk, proc, PCs, Ops
<1>2. Linear(files)' /\ Prefix(durable, files)' /\ Prefix(acked, durable)'
  BY <1>0 DEF IInv, Acquire, disk
<1>3. /\ (\A q \in Procs : floor[q] \subseteq acked)'
      /\ (\A q \in Procs : pc[q] \in {"snapshot", "write", "fsync", "return"} => floor[q] \subseteq seen[q])'
      /\ (\A q \in Procs : OpInv(q))'
  BY <1>0 DEF IInv, Acquire, TypeOK, Writing, WriterInv, ReaderInv, OpInv, disk, proc, PCs, Ops
<1>4. ASSUME NEW q \in Procs, Writing(q)' PROVE WriterInv(q)'
  <2>1. CASE q = p
    BY <1>0, <1>4, <2>1 DEF IInv, Acquire, TypeOK, Writing, WriterInv, ReaderInv, OpInv, disk, proc, PCs, Ops
  <2>2. CASE q # p
    <3>1. Writing(q) /\ lock = q
      BY <1>0, <1>4, <2>2 DEF IInv, Acquire, TypeOK, Writing, WriterInv
    <3> QED BY <3>1, NoProcAssumption DEF Acquire
  <2> QED BY <2>1, <2>2
<1>5. ASSUME NEW q \in Procs PROVE ReaderInv(q)'
  BY <1>0 DEF IInv, Acquire, TypeOK, Writing, WriterInv, ReaderInv, OpInv, disk, proc, PCs, Ops
<1> QED BY <1>1, <1>2, <1>3, <1>4, <1>5 DEF IInv

\* A Create that found no journal prepares the first event of a linear one.
LEMMA CreateCheckStep ==
  ASSUME IInv, NEW p \in Procs, CreateCheck(p)
  PROVE  IInv'
<1>0. TypeOK
  BY DEF IInv
<1> DEFINE f == [seq |-> 1, rec |-> NewRecord]
<1>a. f \in File
  BY MaxSeqAssumption, MaxPhaseAssumption DEF CreateCheck, File, Record, NewRecord
<1>b. file'[p] = {f} /\ files = {} /\ Linear(files \cup {f}) /\ f.rec = NewRecord
  <2>1. Linear({f})
    BY DEF Linear
  <2> QED BY <1>0, <2>1 DEF CreateCheck, TypeOK
<1> HIDE DEF f
<1>1. TypeOK'
  BY <1>0, <1>a DEF f, CreateCheck, TypeOK, Writing, WriterInv, ReaderInv, OpInv, disk, proc, PCs, Ops
<1>2. Linear(files)' /\ Prefix(durable, files)' /\ Prefix(acked, durable)'
  BY <1>0 DEF IInv, CreateCheck, disk
<1>3. /\ (\A q \in Procs : floor[q] \subseteq acked)'
      /\ (\A q \in Procs : pc[q] \in {"snapshot", "write", "fsync", "return"} => floor[q] \subseteq seen[q])'
      /\ (\A q \in Procs : OpInv(q))'
  BY <1>0 DEF IInv, CreateCheck, TypeOK, Writing, WriterInv, ReaderInv, OpInv, disk, proc, PCs, Ops
<1>4. ASSUME NEW q \in Procs, Writing(q)' PROVE WriterInv(q)'
  <2>1. CASE q = p
    BY <1>0, <1>4, <1>a, <1>b, <2>1 DEF IInv, CreateCheck, TypeOK, Writing, WriterInv, ReaderInv, OpInv, disk, proc, PCs, Ops
  <2>2. CASE q # p
    BY <1>0, <1>4, <2>2, OthersKeep DEF CreateCheck, TypeOK, disk
  <2> QED BY <2>1, <2>2
<1>5. ASSUME NEW q \in Procs PROVE ReaderInv(q)'
  BY <1>0 DEF IInv, CreateCheck, TypeOK, Writing, WriterInv, ReaderInv, OpInv, disk, proc, PCs, Ops
<1> QED BY <1>1, <1>2, <1>3, <1>4, <1>5 DEF IInv

\* readJournal returns the whole journal, so what a call saw covers what was
\* acknowledged before it began.
LEMMA ReadJournalStep ==
  ASSUME IInv, NEW p \in Procs, ReadJournal(p)
  PROVE  IInv'
<1>0. TypeOK
  BY DEF IInv
<1>a. Valid(files) = files
  BY <1>0, LinearIsValid DEF IInv, TypeOK
<1>b. acked \subseteq files
  BY DEF IInv, Prefix
<1>1. TypeOK'
  BY <1>0, <1>a DEF IInv, ReadJournal, TypeOK, Writing, WriterInv, ReaderInv, OpInv, disk, proc, PCs, Ops
<1>2. Linear(files)' /\ Prefix(durable, files)' /\ Prefix(acked, durable)'
  BY <1>0 DEF IInv, ReadJournal, disk
<1>3. /\ (\A q \in Procs : floor[q] \subseteq acked)'
      /\ (\A q \in Procs : pc[q] \in {"snapshot", "write", "fsync", "return"} => floor[q] \subseteq seen[q])'
      /\ (\A q \in Procs : OpInv(q))'
  BY <1>0, <1>a, <1>b DEF IInv, ReadJournal, TypeOK, Writing, OpInv, disk
<1>4. ASSUME NEW q \in Procs, Writing(q)' PROVE WriterInv(q)'
  <2>1. CASE q = p
    BY <1>0, <1>a, <1>4, <2>1 DEF IInv, ReadJournal, TypeOK, Writing, WriterInv, ReaderInv, OpInv, disk, proc, PCs, Ops
  <2>2. CASE q # p
    BY <1>0, <1>4, <2>2, OthersKeep DEF ReadJournal, TypeOK, disk
  <2> QED BY <2>1, <2>2
<1>5. ASSUME NEW q \in Procs PROVE ReaderInv(q)'
  BY <1>0 DEF IInv, ReadJournal, TypeOK, Writing, WriterInv, ReaderInv, OpInv, disk, proc, PCs, Ops
<1> QED BY <1>1, <1>2, <1>3, <1>4, <1>5 DEF IInv

\* A snapshot is used only when it agrees with the journal that was read.
LEMMA ReadSnapshotStep ==
  ASSUME IInv, NEW p \in Procs, ReadSnapshot(p)
  PROVE  IInv'
<1>0. TypeOK
  BY DEF IInv
<1>1. TypeOK'
  BY <1>0 DEF IInv, ReadSnapshot, SnapshotMatches, TypeOK, Writing, WriterInv, ReaderInv, OpInv, disk, proc, PCs, Ops
<1>2. Linear(files)' /\ Prefix(durable, files)' /\ Prefix(acked, durable)'
  BY <1>0 DEF IInv, ReadSnapshot, SnapshotMatches, disk
<1>3. /\ (\A q \in Procs : floor[q] \subseteq acked)'
      /\ (\A q \in Procs : pc[q] \in {"snapshot", "write", "fsync", "return"} => floor[q] \subseteq seen[q])'
      /\ (\A q \in Procs : OpInv(q))'
  BY <1>0 DEF IInv, ReadSnapshot, SnapshotMatches, TypeOK, Writing, WriterInv, ReaderInv, OpInv, disk, proc, PCs, Ops
<1>4. ASSUME NEW q \in Procs, Writing(q)' PROVE WriterInv(q)'
  <2>1. CASE q = p
    BY <1>0, <1>4, <2>1 DEF IInv, ReadSnapshot, SnapshotMatches, TypeOK, Writing, WriterInv, ReaderInv, OpInv, disk, proc, PCs, Ops
  <2>2. CASE q # p
    BY <1>0, <1>4, <2>2, OthersKeep DEF ReadSnapshot, TypeOK, disk
  <2> QED BY <2>1, <2>2
<1>5. ASSUME NEW q \in Procs PROVE ReaderInv(q)'
  BY <1>0 DEF IInv, ReadSnapshot, SnapshotMatches, TypeOK, Writing, WriterInv, ReaderInv, OpInv, disk, proc, PCs, Ops
<1> QED BY <1>1, <1>2, <1>3, <1>4, <1>5 DEF IInv

\* Replacing record.json, even by an older snapshot, leaves the journal alone.
LEMMA WriteSnapshotStep ==
  ASSUME IInv, NEW p \in Procs, WriteSnapshot(p)
  PROVE  IInv'
<1>0. TypeOK
  BY DEF IInv
<1>1. TypeOK'
  BY <1>0 DEF IInv, WriteSnapshot, TypeOK, Writing, WriterInv, ReaderInv, OpInv, disk, proc, PCs, Ops
<1>2. Linear(files)' /\ Prefix(durable, files)' /\ Prefix(acked, durable)'
  BY <1>0 DEF IInv, WriteSnapshot, disk
<1>3. /\ (\A q \in Procs : floor[q] \subseteq acked)'
      /\ (\A q \in Procs : pc[q] \in {"snapshot", "write", "fsync", "return"} => floor[q] \subseteq seen[q])'
      /\ (\A q \in Procs : OpInv(q))'
  BY <1>0 DEF IInv, WriteSnapshot, TypeOK, Writing, WriterInv, ReaderInv, OpInv, disk, proc, PCs, Ops
<1>4. ASSUME NEW q \in Procs, Writing(q)' PROVE WriterInv(q)'
  <2>1. CASE q = p
    BY <1>0, <1>4, <2>1 DEF IInv, WriteSnapshot, TypeOK, Writing, WriterInv, ReaderInv, OpInv, disk, proc, PCs, Ops
  <2>2. CASE q # p
    BY <1>0, <1>4, <2>2, OthersKeep DEF WriteSnapshot, TypeOK, disk
  <2> QED BY <2>1, <2>2
<1>5. ASSUME NEW q \in Procs PROVE ReaderInv(q)'
  BY <1>0 DEF IInv, WriteSnapshot, TypeOK, Writing, WriterInv, ReaderInv, OpInv, disk, proc, PCs, Ops
<1> QED BY <1>1, <1>2, <1>3, <1>4, <1>5 DEF IInv

\* The fsync of record.json leaves the journal alone.
LEMMA SyncSnapshotStep ==
  ASSUME IInv, NEW p \in Procs, SyncSnapshot(p)
  PROVE  IInv'
<1>0. TypeOK
  BY DEF IInv
<1>1. TypeOK'
  BY <1>0 DEF IInv, SyncSnapshot, TypeOK, Writing, WriterInv, ReaderInv, OpInv, disk, proc, PCs, Ops
<1>2. Linear(files)' /\ Prefix(durable, files)' /\ Prefix(acked, durable)'
  BY <1>0 DEF IInv, SyncSnapshot, disk
<1>3. /\ (\A q \in Procs : floor[q] \subseteq acked)'
      /\ (\A q \in Procs : pc[q] \in {"snapshot", "write", "fsync", "return"} => floor[q] \subseteq seen[q])'
      /\ (\A q \in Procs : OpInv(q))'
  BY <1>0 DEF IInv, SyncSnapshot, TypeOK, Writing, WriterInv, ReaderInv, OpInv, disk, proc, PCs, Ops
<1>4. ASSUME NEW q \in Procs, Writing(q)' PROVE WriterInv(q)'
  <2>1. CASE q = p
    BY <1>0, <1>4, <2>1 DEF IInv, SyncSnapshot, TypeOK, Writing, WriterInv, ReaderInv, OpInv, disk, proc, PCs, Ops
  <2>2. CASE q # p
    BY <1>0, <1>4, <2>2, OthersKeep DEF SyncSnapshot, TypeOK, disk
  <2> QED BY <2>1, <2>2
<1>5. ASSUME NEW q \in Procs PROVE ReaderInv(q)'
  BY <1>0 DEF IInv, SyncSnapshot, TypeOK, Writing, WriterInv, ReaderInv, OpInv, disk, proc, PCs, Ops
<1> QED BY <1>1, <1>2, <1>3, <1>4, <1>5 DEF IInv

\* An accepted mutation prepares a legal successor of the last event.
LEMMA MutateStep ==
  ASSUME IInv, NEW p \in Procs, Mutate(p)
  PROVE  IInv'
<1>0. TypeOK
  BY DEF IInv
<1> DEFINE last == Latest(seen[p])
<1>a. Writing(p) /\ seen[p] = files /\ files # {} /\ files \subseteq File
  BY <1>0 DEF IInv, Mutate, Writing, WriterInv, OpInv, TypeOK
<1>b. last \in File /\ last = Latest(files)
  BY <1>a, LatestIsLast
<1> HIDE DEF last
<1>c. PICK next \in Record :
        /\ ValidateTransition(last.rec, next)
        /\ file' = [file EXCEPT ![p] = {[seq |-> last.seq + 1, rec |-> next]}]
  BY DEF Mutate, last
<1> DEFINE f == [seq |-> last.seq + 1, rec |-> next]
<1>d. f \in File /\ f.seq = last.seq + 1 /\ f.rec = next
  <2>1. last.seq \in 1..MaxSeq /\ last.seq < MaxSeq
    BY <1>b DEF Mutate, last, File
  <2> QED BY <2>1, MaxSeqAssumption DEF File
<1>e. file' = [file EXCEPT ![p] = {f}]
  BY <1>c
<1> HIDE DEF f
<1>f. Linear(files \cup {f}) /\ \A g \in files : g.seq < f.seq
  BY <1>a, <1>b, <1>c, <1>d, AppendIsLinear DEF IInv
<1>1. TypeOK'
  BY <1>0, <1>d, <1>e DEF IInv, Mutate, TypeOK, Writing, WriterInv, ReaderInv, OpInv, disk, proc, PCs, Ops
<1>2. Linear(files)' /\ Prefix(durable, files)' /\ Prefix(acked, durable)'
  BY <1>0 DEF IInv, Mutate, disk
<1>3. /\ (\A q \in Procs : floor[q] \subseteq acked)'
      /\ (\A q \in Procs : pc[q] \in {"snapshot", "write", "fsync", "return"} => floor[q] \subseteq seen[q])'
      /\ (\A q \in Procs : OpInv(q))'
  BY <1>0 DEF IInv, Mutate, TypeOK, Writing, WriterInv, ReaderInv, OpInv, disk, proc, PCs, Ops
<1>4. ASSUME NEW q \in Procs, Writing(q)' PROVE WriterInv(q)'
  <2>1. CASE q = p
    BY <1>0, <1>4, <1>a, <1>d, <1>e, <1>f, <2>1 DEF IInv, Mutate, TypeOK, Writing, WriterInv, ReaderInv, OpInv, disk, proc, PCs, Ops
  <2>2. CASE q # p
    BY <1>0, <1>4, <2>2, OthersKeep DEF Mutate, TypeOK, disk
  <2> QED BY <2>1, <2>2
<1>5. ASSUME NEW q \in Procs PROVE ReaderInv(q)'
  BY <1>0 DEF IInv, Mutate, TypeOK, Writing, WriterInv, ReaderInv, OpInv, disk, proc, PCs, Ops
<1> QED BY <1>1, <1>2, <1>3, <1>4, <1>5 DEF IInv

\* Linking the prepared event, alone under the lock, keeps the journal linear.
LEMMA LinkStep ==
  ASSUME IInv, NEW p \in Procs, Link(p)
  PROVE  IInv'
<1>0. TypeOK
  BY DEF IInv
<1>1. TypeOK'
  BY <1>0 DEF IInv, Link, TypeOK, Writing, WriterInv, ReaderInv, OpInv, disk, proc, PCs, Ops
<1>2. Linear(files)' /\ Prefix(durable, files)' /\ Prefix(acked, durable)'
  <2>1. PICK f \in File : file[p] = {f} /\ Linear(files \cup {f}) /\ \A g \in files : g.seq < f.seq
    BY <1>0 DEF IInv, Link, Writing, WriterInv, OpInv
  <2>2. files' = files \cup {f} /\ durable' = durable /\ acked' = acked
    BY <2>1 DEF Link
  <2>3. Prefix(durable, files \cup {f})
    <3>1. Prefix(durable, files) /\ files \subseteq File
      BY <1>0 DEF IInv, TypeOK
    <3>2. ASSUME NEW g \in durable, NEW h \in files \cup {f}, h.seq <= g.seq PROVE h \in durable
      <4>1. g \in files /\ g.seq < f.seq /\ g.seq \in Nat /\ f.seq \in Nat
        BY <2>1, <3>1, MaxSeqAssumption DEF Prefix, File
      <4>2. h # f
        BY <3>2, <4>1
      <4> QED BY <3>1, <3>2, <4>2 DEF Prefix, UpTo
    <3> QED BY <3>1, <3>2 DEF Prefix, UpTo
  <2> QED BY <2>1, <2>2, <2>3 DEF IInv
<1>3. /\ (\A q \in Procs : floor[q] \subseteq acked)'
      /\ (\A q \in Procs : pc[q] \in {"snapshot", "write", "fsync", "return"} => floor[q] \subseteq seen[q])'
      /\ (\A q \in Procs : OpInv(q))'
  BY <1>0 DEF IInv, Link, TypeOK, Writing, WriterInv, ReaderInv, OpInv, disk, proc, PCs, Ops
<1>4. ASSUME NEW q \in Procs, Writing(q)' PROVE WriterInv(q)'
  <2>1. CASE q = p
    BY <1>0, <1>4, <2>1 DEF IInv, Link, TypeOK, Writing, WriterInv, ReaderInv, OpInv, disk, proc, PCs, Ops
  <2>2. CASE q # p
    <3>1. Writing(p) /\ lock = p
      BY DEF IInv, Link, Writing, WriterInv, OpInv
    <3>2. Writing(q) /\ lock = q
      BY <1>0, <1>4, <2>2 DEF IInv, Link, TypeOK, Writing, WriterInv
    <3> QED BY <2>2, <3>1, <3>2
  <2> QED BY <2>1, <2>2
<1>5. ASSUME NEW q \in Procs PROVE ReaderInv(q)'
  BY <1>0 DEF IInv, Link, TypeOK, Writing, WriterInv, ReaderInv, OpInv, disk, proc, PCs, Ops
<1> QED BY <1>1, <1>2, <1>3, <1>4, <1>5 DEF IInv

\* The fsync of the journal directory makes the linked event durable.
LEMMA SyncJournalStep ==
  ASSUME IInv, NEW p \in Procs, SyncJournal(p)
  PROVE  IInv'
<1>0. TypeOK
  BY DEF IInv
<1>1. TypeOK'
  BY <1>0 DEF IInv, SyncJournal, TypeOK, Writing, WriterInv, ReaderInv, OpInv, disk, proc, PCs, Ops
<1>2. Linear(files)' /\ Prefix(durable, files)' /\ Prefix(acked, durable)'
  <2>1. files' = files /\ durable' = files /\ acked' = acked
    BY DEF SyncJournal
  <2>2. Prefix(files, files) /\ Prefix(acked, files)
    BY <1>0, MaxSeqAssumption DEF IInv, TypeOK, Prefix, UpTo, File
  <2> QED BY <2>1, <2>2 DEF IInv
<1>3. /\ (\A q \in Procs : floor[q] \subseteq acked)'
      /\ (\A q \in Procs : pc[q] \in {"snapshot", "write", "fsync", "return"} => floor[q] \subseteq seen[q])'
      /\ (\A q \in Procs : OpInv(q))'
  BY <1>0 DEF IInv, SyncJournal, TypeOK, Writing, WriterInv, ReaderInv, OpInv, disk, proc, PCs, Ops
<1>4. ASSUME NEW q \in Procs, Writing(q)' PROVE WriterInv(q)'
  <2>1. CASE q = p
    BY <1>0, <1>4, <2>1 DEF IInv, SyncJournal, TypeOK, Writing, WriterInv, ReaderInv, OpInv, disk, proc, PCs, Ops
  <2>2. CASE q # p
    <3>1. Writing(p) /\ lock = p
      BY DEF IInv, SyncJournal, Writing, WriterInv, OpInv
    <3>2. Writing(q) /\ lock = q
      BY <1>0, <1>4, <2>2 DEF IInv, SyncJournal, TypeOK, Writing, WriterInv
    <3> QED BY <2>2, <3>1, <3>2
  <2> QED BY <2>1, <2>2
<1>5. ASSUME NEW q \in Procs PROVE ReaderInv(q)'
  BY <1>0 DEF IInv, SyncJournal, TypeOK, Writing, WriterInv, ReaderInv, OpInv, disk, proc, PCs, Ops
<1> QED BY <1>1, <1>2, <1>3, <1>4, <1>5 DEF IInv

\* Reading the journal back after an append returns all of it.
LEMMA RereadJournalStep ==
  ASSUME IInv, NEW p \in Procs, RereadJournal(p)
  PROVE  IInv'
<1>0. TypeOK
  BY DEF IInv
<1>a. Valid(files) = files
  BY <1>0, LinearIsValid DEF IInv, TypeOK
<1>b. acked \subseteq files
  BY DEF IInv, Prefix
<1>1. TypeOK'
  BY <1>0, <1>a DEF IInv, RereadJournal, TypeOK, Writing, WriterInv, ReaderInv, OpInv, disk, proc, PCs, Ops
<1>2. Linear(files)' /\ Prefix(durable, files)' /\ Prefix(acked, durable)'
  BY <1>0 DEF IInv, RereadJournal, disk
<1>3. /\ (\A q \in Procs : floor[q] \subseteq acked)'
      /\ (\A q \in Procs : pc[q] \in {"snapshot", "write", "fsync", "return"} => floor[q] \subseteq seen[q])'
      /\ (\A q \in Procs : OpInv(q))'
  BY <1>0, <1>a, <1>b DEF IInv, RereadJournal, TypeOK, Writing, OpInv, disk
<1>4. ASSUME NEW q \in Procs, Writing(q)' PROVE WriterInv(q)'
  <2>1. CASE q = p
    BY <1>0, <1>a, <1>4, <2>1 DEF IInv, RereadJournal, TypeOK, Writing, WriterInv, ReaderInv, OpInv, disk, proc, PCs, Ops
  <2>2. CASE q # p
    BY <1>0, <1>4, <2>2, OthersKeep DEF RereadJournal, TypeOK, disk
  <2> QED BY <2>1, <2>2
<1>5. ASSUME NEW q \in Procs PROVE ReaderInv(q)'
  BY <1>0 DEF IInv, RereadJournal, TypeOK, Writing, WriterInv, ReaderInv, OpInv, disk, proc, PCs, Ops
<1> QED BY <1>1, <1>2, <1>3, <1>4, <1>5 DEF IInv

\* A call that returns acknowledges only events that are durable.
LEMMA ReturnStep ==
  ASSUME IInv, NEW p \in Procs, Return(p)
  PROVE  IInv'
<1>0. TypeOK
  BY DEF IInv
<1>a. file[p] \subseteq durable
  BY <1>0 DEF IInv, Return, Writing, WriterInv, ReaderInv
<1>b. acked' = acked \cup UNION {UpTo(files, f) : f \in file[p]}
  BY DEF Return
<1>c. acked \subseteq acked' /\ acked' \subseteq durable /\ durable \subseteq files /\ files \subseteq File
  BY <1>0, <1>a, <1>b DEF IInv, Prefix, TypeOK
<1>d. Prefix(acked', durable)
  <2>1. ASSUME NEW f \in acked', NEW g \in durable, g.seq <= f.seq PROVE g \in acked'
    <3>1. CASE f \in acked
      BY <1>b, <2>1, <3>1 DEF IInv, Prefix, UpTo
    <3>2. CASE f \notin acked
      <4>1. PICK h \in file[p] : f \in UpTo(files, h)
        BY <1>b, <3>2
      <4>2. f.seq \in Nat /\ g.seq \in Nat /\ h.seq \in Nat
        BY <1>a, <1>c, MaxSeqAssumption DEF File
      <4>3. g \in UpTo(files, h)
        BY <1>c, <2>1, <4>1, <4>2 DEF UpTo
      <4> QED BY <1>b, <4>3
    <3> QED BY <3>1, <3>2
  <2> QED BY <1>c, <2>1 DEF Prefix, UpTo
<1>1. TypeOK'
  BY <1>0, <1>c DEF IInv, Return, End, TypeOK, Writing, WriterInv, ReaderInv, OpInv, disk, proc, PCs, Ops
<1>2. Linear(files)' /\ Prefix(durable, files)' /\ Prefix(acked, durable)'
  BY <1>d DEF IInv, Return, End, disk
<1>3. /\ (\A q \in Procs : floor[q] \subseteq acked)'
      /\ (\A q \in Procs : pc[q] \in {"snapshot", "write", "fsync", "return"} => floor[q] \subseteq seen[q])'
      /\ (\A q \in Procs : OpInv(q))'
  BY <1>0, <1>c DEF IInv, Return, End, TypeOK, Writing, WriterInv, ReaderInv, OpInv, disk, proc, PCs, Ops
<1>4. ASSUME NEW q \in Procs, Writing(q)' PROVE WriterInv(q)'
  <2>1. CASE q = p
    BY <1>0, <1>4, <2>1 DEF IInv, Return, End, TypeOK, Writing, WriterInv, ReaderInv, OpInv, disk, proc, PCs, Ops
  <2>2. CASE q # p
    <3>1. lock # p => lock' = lock
      BY DEF IInv, Return, End
    <3>2. Writing(q) /\ lock = q
      BY <1>0, <1>4, <2>2 DEF IInv, Return, End, TypeOK, Writing, WriterInv
    <3> QED BY <1>0, <1>4, <2>2, <3>1, <3>2, OthersKeep DEF Return, End, TypeOK, disk
  <2> QED BY <2>1, <2>2
<1>5. ASSUME NEW q \in Procs PROVE ReaderInv(q)'
  BY <1>0 DEF IInv, Return, End, TypeOK, Writing, WriterInv, ReaderInv, OpInv, disk, proc, PCs, Ops
<1> QED BY <1>1, <1>2, <1>3, <1>4, <1>5 DEF IInv

\* A failing or dying call leaves a linked event behind and nothing worse.
LEMMA FailStep ==
  ASSUME IInv, NEW p \in Procs, Fail(p)
  PROVE  IInv'
<1>0. TypeOK
  BY DEF IInv
<1>1. TypeOK'
  BY <1>0 DEF IInv, Fail, End, TypeOK, Writing, WriterInv, ReaderInv, OpInv, disk, proc, PCs, Ops
<1>2. Linear(files)' /\ Prefix(durable, files)' /\ Prefix(acked, durable)'
  BY <1>0 DEF IInv, Fail, End, disk
<1>3. /\ (\A q \in Procs : floor[q] \subseteq acked)'
      /\ (\A q \in Procs : pc[q] \in {"snapshot", "write", "fsync", "return"} => floor[q] \subseteq seen[q])'
      /\ (\A q \in Procs : OpInv(q))'
  BY <1>0 DEF IInv, Fail, End, TypeOK, Writing, WriterInv, ReaderInv, OpInv, disk, proc, PCs, Ops
<1>4. ASSUME NEW q \in Procs, Writing(q)' PROVE WriterInv(q)'
  <2>1. CASE q = p
    BY <1>0, <1>4, <2>1 DEF IInv, Fail, End, TypeOK, Writing, WriterInv, ReaderInv, OpInv, disk, proc, PCs, Ops
  <2>2. CASE q # p
    <3>1. lock # p => lock' = lock
      BY DEF IInv, Fail, End
    <3>2. Writing(q) /\ lock = q
      BY <1>0, <1>4, <2>2 DEF IInv, Fail, End, TypeOK, Writing, WriterInv
    <3> QED BY <1>0, <1>4, <2>2, <3>1, <3>2, OthersKeep DEF Fail, End, TypeOK, disk
  <2> QED BY <2>1, <2>2
<1>5. ASSUME NEW q \in Procs PROVE ReaderInv(q)'
  BY <1>0 DEF IInv, Fail, End, TypeOK, Writing, WriterInv, ReaderInv, OpInv, disk, proc, PCs, Ops
<1> QED BY <1>1, <1>2, <1>3, <1>4, <1>5 DEF IInv

\* A power loss keeps a prefix of the journal with every durable event.
LEMMA PowerLossStep ==
  ASSUME IInv, PowerLoss
  PROVE  IInv'
<1>0. TypeOK
  BY DEF IInv
<1>1. PICK keep \in SUBSET files :
        /\ durable \subseteq keep
        /\ \A f \in keep : UpTo(files, f) \subseteq keep
        /\ files' = keep /\ durable' = keep
  BY DEF PowerLoss
<1>2. TypeOK'
  BY <1>0, <1>1 DEF PowerLoss, TypeOK, Ops, PCs
<1>3. Linear(keep)
  BY <1>0, <1>1, PrefixIsLinear DEF IInv, TypeOK, Prefix
<1>4. Prefix(keep, keep) /\ Prefix(acked, keep)
  BY <1>0, <1>1 DEF IInv, Prefix, UpTo
<1>5. acked' = acked
  BY DEF PowerLoss
<1>6. ASSUME NEW q \in Procs
      PROVE  pc'[q] = "idle" /\ floor'[q] = {} /\ file'[q] = {} /\ op'[q] = "none"
  BY DEF PowerLoss
<1> QED BY <1>1, <1>2, <1>3, <1>4, <1>5, <1>6 DEF IInv, Writing, ReaderInv, OpInv

\* Every step of the store keeps the inductive invariant.
LEMMA NextIInv == IInv /\ [Next]_vars => IInv'
<1> SUFFICES ASSUME IInv, [Next]_vars PROVE IInv'
  OBVIOUS
<1>1. CASE PowerLoss
  BY <1>1, PowerLossStep
<1>2. ASSUME NEW p \in Procs, Step(p) PROVE IInv'
  BY <1>2, CreateStep, UpdateStep, ReadStep, MakeDirStep, AcquireStep, CreateCheckStep,
     ReadJournalStep, ReadSnapshotStep, WriteSnapshotStep, SyncSnapshotStep, MutateStep,
     LinkStep, SyncJournalStep, RereadJournalStep, ReturnStep, FailStep DEF Step
<1>3. CASE UNCHANGED vars
  BY <1>3 DEF vars, disk, proc, IInv, TypeOK, Writing, WriterInv, ReaderInv, OpInv
<1> QED BY <1>1, <1>2, <1>3 DEF Next

\* The inductive invariant of the store: the journal is linear, what is
\* acknowledged is durable, and a writer is alone and knows the journal.
THEOREM StoreInvariant == Spec => []IInv
  BY InitIInv, NextIInv, PTL DEF Spec

-----------------------------------------------------------------------------
(* The properties.                                                         *)

\* The store's state always has its type.
THEOREM StoreTypeOK == Spec => []TypeOK
<1>1. IInv => TypeOK
  BY DEF IInv
<1> QED BY <1>1, StoreInvariant, PTL

\* No interleaving of writers, failures and power losses leaves a journal
\* that readJournal refuses or cuts short.
THEOREM JournalIsLinear == Spec => []JournalLinear
<1>1. IInv => JournalLinear
  BY LinearIsValid DEF IInv, TypeOK, JournalLinear
<1> QED BY <1>1, StoreInvariant, PTL

\* Create and Update return success only for events a power loss cannot take.
THEOREM AcknowledgedIsDurable == Spec => []AckDurable
<1>1. IInv => AckDurable
  BY DEF IInv, Prefix, AckDurable
<1> QED BY <1>1, StoreInvariant, PTL

\* No Read returns a record older than one acknowledged before it began.
THEOREM ReadsAreFresh == Spec => []ReadFresh
<1>1. IInv => ReadFresh
  BY DEF IInv, ReadFresh
<1> QED BY <1>1, StoreInvariant, PTL

\* In a linear journal nothing follows a terminal record.
LEMMA TerminalIsLast ==
  ASSUME NEW F, F \subseteq File, Linear(F), NEW f \in F, f.rec.terminal, NEW g \in F
  PROVE  g.seq <= f.seq
<1>1. f.seq \in 1..MaxSeq /\ g.seq \in 1..MaxSeq
  BY DEF File
<1> SUFFICES ASSUME g.seq > f.seq PROVE FALSE
  BY <1>1, MaxSeqAssumption
<1>2. f.seq + 1 \in 1..g.seq
  BY <1>1, MaxSeqAssumption
<1>3. PICK h \in F : h.seq = f.seq + 1
  BY <1>2 DEF Linear
<1>4. ValidateTransition(f.rec, h.rec)
  BY <1>3 DEF Linear
<1> QED BY <1>4 DEF ValidateTransition

\* A terminal record, once acknowledged, closes the journal for good.
THEOREM TerminalRecordIsFinal == Spec => TerminalIsFinal
<1>1. ASSUME IInv, [Next]_vars, NEW f \in acked, f.rec.terminal PROVE files' = files
  <2>1. f \in files /\ files \subseteq File /\ Linear(files) /\ Prefix(durable, files) /\ f \in durable
    BY <1>1 DEF IInv, TypeOK, Prefix
  <2>2. files = durable
    BY <1>1, <2>1, TerminalIsLast DEF Prefix, UpTo
  <2>3. CASE PowerLoss
    BY <2>1, <2>2, <2>3 DEF PowerLoss
  <2>4. ASSUME NEW p \in Procs, Link(p) PROVE FALSE
    <3>1. PICK g \in File : file[p] = {g} /\ Linear(files \cup {g}) /\ \A h \in files : h.seq < g.seq
      BY <1>1, <2>4 DEF IInv, Link, Writing, WriterInv, OpInv
    <3>2. g.seq <= f.seq
      BY <1>1, <2>1, <3>1, TerminalIsLast
    <3> QED BY <2>1, <3>1, <3>2, MaxSeqAssumption DEF File
  <2>5. ASSUME NEW p \in Procs, Step(p), ~Link(p) PROVE files' = files
    BY <2>5 DEF Step, Create, Update, Read, Begin, MakeDir, Acquire, CreateCheck, ReadJournal,
       ReadSnapshot, WriteSnapshot, SyncSnapshot, Mutate, SyncJournal, RereadJournal, Return,
       Fail, End, disk
  <2> QED BY <1>1, <2>3, <2>4, <2>5 DEF Next, vars, disk
<1>2. IInv /\ [Next]_vars => [(\E f \in acked : f.rec.terminal) => files' = files]_vars
  BY <1>1
<1> QED BY <1>2, StoreInvariant, PTL DEF Spec, TerminalIsFinal

-----------------------------------------------------------------------------
(* The refinement of OperationLog.                                         *)

\* The log a set of events stands for: the log of the refinement mapping.
LogOf(F) == [i \in 1..Cardinality(F) |-> (CHOOSE f \in F : f.seq = i).rec]

\* A linear journal has as many events as the number of its last one.
LEMMA LinearCount ==
  ASSUME NEW F, F \subseteq File, Linear(F)
  PROVE  /\ IsFiniteSet(F) /\ Cardinality(F) \in Nat
         /\ \A f \in F : f.seq \in 1..Cardinality(F)
         /\ \A k \in 1..Cardinality(F) : \E f \in F : f.seq = k
<1>1. CASE F = {}
  BY <1>1, FS_EmptySet
<1>2. CASE F # {}
  <2> DEFINE n == Latest(F).seq
             number == [f \in F |-> f.seq]
  <2>1. /\ Latest(F) \in F /\ n \in Nat
        /\ \A f \in F : f.seq \in 1..n
    BY <1>2, LatestIsLast, MaxSeqAssumption DEF File
  <2>2. \A k \in 1..n : \E f \in F : f.seq = k
    BY <2>1 DEF Linear
  <2> HIDE DEF n
  <2>3. number \in Injection(F, 1..n)
    BY <2>1 DEF Injection, IsInjective, Linear
  <2>4. number \in Surjection(F, 1..n)
    BY <2>1, <2>2 DEF Surjection
  <2>5. IsFiniteSet(1..n) /\ Cardinality(1..n) = n
    BY <2>1, FS_Interval
  <2>6. IsFiniteSet(F) /\ Cardinality(F) = Cardinality(1..n)
    BY <2>3, <2>4, <2>5, FS_Injection
  <2> QED BY <2>1, <2>2, <2>5, <2>6
<1> QED BY <1>1, <1>2

\* The record at a place of the log is that of the event of this number.
LEMMA LogAt ==
  ASSUME NEW F, F \subseteq File, Linear(F), NEW f \in F
  PROVE  f.seq \in 1..Cardinality(F) /\ LogOf(F)[f.seq] = f.rec
<1>1. f.seq \in 1..Cardinality(F)
  BY LinearCount
<1>2. (CHOOSE g \in F : g.seq = f.seq) = f
  BY DEF Linear
<1> QED BY <1>1, <1>2 DEF LogOf

\* The log of a linear journal is a sequence of records.
LEMMA LogIsSeq ==
  ASSUME NEW F, F \subseteq File, Linear(F)
  PROVE  LogOf(F) \in Seq(Record) /\ Len(LogOf(F)) = Cardinality(F)
<1>1. Cardinality(F) \in Nat
  BY LinearCount
<1>2. ASSUME NEW k \in 1..Cardinality(F) PROVE LogOf(F)[k] \in Record
  <2>1. PICK f \in F : f.seq = k
    BY LinearCount
  <2> QED BY <2>1, LogAt DEF File
<1>3. LogOf(F) = [k \in 1..Cardinality(F) |-> LogOf(F)[k]]
  BY DEF LogOf
<1> QED BY <1>1, <1>2, <1>3

\* A prefix of a linear journal is determined by how many events it has.
LEMMA PrefixCount ==
  ASSUME NEW F, F \subseteq File, Linear(F), NEW E, Prefix(E, F)
  PROVE  /\ Cardinality(E) \in Nat /\ Cardinality(E) <= Cardinality(F)
         /\ Cardinality(E) = Cardinality(F) => E = F
         /\ LogOf(E) = SubSeq(LogOf(F), 1, Cardinality(E))
<1>1. E \subseteq F /\ E \subseteq File /\ Linear(E)
  BY PrefixIsLinear DEF Prefix
<1>2. IsFiniteSet(F) /\ Cardinality(F) \in Nat /\ Cardinality(E) \in Nat
  BY <1>1, LinearCount
<1>3. Cardinality(E) <= Cardinality(F) /\ (Cardinality(E) = Cardinality(F) => E = F)
  BY <1>1, <1>2, FS_Subset
<1>4. ASSUME NEW k \in 1..Cardinality(E) PROVE LogOf(E)[k] = LogOf(F)[k]
  <2>1. PICK f \in E : f.seq = k
    BY <1>1, LinearCount
  <2> QED BY <1>1, <2>1, LogAt
<1>5. LogOf(E) = [k \in 1..Cardinality(E) |-> LogOf(E)[k]]
  BY DEF LogOf
<1>6. SubSeq(LogOf(F), 1, Cardinality(E)) = [k \in 1..Cardinality(E) |-> LogOf(F)[k]]
  BY <1>2
<1> QED BY <1>2, <1>3, <1>4, <1>5, <1>6

\* The empty journal is the empty log.
LEMMA EmptyLog == LogOf({}) = <<>> /\ Cardinality({}) = 0
  BY FS_EmptySet DEF LogOf

\* Linking an event appends a legal record to the log, or begins it.
LEMMA LinkAppends ==
  ASSUME IInv, NEW p \in Procs, Link(p)
  PROVE  Log!Create \/ Log!Append1
<1>1. PICK f \in File : /\ file[p] = {f} /\ Linear(files \cup {f})
                        /\ \A g \in files : g.seq < f.seq
                        /\ files = {} => f.rec = NewRecord
  BY DEF IInv, Link, Writing, WriterInv, OpInv
<1> DEFINE F == files \cup {f}
           n == Cardinality(files)
<1>2. files' = F /\ acked' = acked /\ f \notin files
  BY <1>1 DEF Link
<1>3. files \subseteq File /\ Linear(files) /\ F \subseteq File /\ Linear(F)
  BY <1>1 DEF IInv, TypeOK
<1>4. n \in Nat /\ Cardinality(F) = n + 1 /\ f.seq = n + 1
  <2>1. IsFiniteSet(files) /\ n \in Nat
    BY <1>3, LinearCount
  <2>2. Cardinality(F) = n + 1
    BY <1>2, <2>1, FS_AddElement
  <2>3. f.seq \in 1..(n + 1) /\ f.seq \notin 1..n
    BY <1>1, <1>3, <2>1, <2>2, LinearCount, MaxSeqAssumption DEF File
  <2> QED BY <2>1, <2>2, <2>3
<1>5. Prefix(files, F)
  BY <1>1, <1>3, MaxSeqAssumption DEF Prefix, UpTo, File
<1>6. LogOf(files) = SubSeq(LogOf(F), 1, n)
  BY <1>3, <1>5, PrefixCount
<1>7. LogOf(F)[n + 1] = f.rec
  BY <1>3, <1>4, LogAt
<1>8. LogOf(F) = Append(LogOf(files), f.rec)
  <2>1. LogOf(files) \in Seq(Record) /\ Len(LogOf(files)) = n
    BY <1>3, LogIsSeq
  <2>2. LogOf(F) \in Seq(Record) /\ Len(LogOf(F)) = n + 1
    BY <1>3, <1>4, LogIsSeq
  <2>3. f.rec \in Record
    BY DEF File
  <2> HIDE DEF F, n
  <2>4. ASSUME NEW k \in 1..n PROVE LogOf(F)[k] = LogOf(files)[k]
    <3>1. PICK g \in files : g.seq = k
      BY <1>3, LinearCount DEF n
    <3> QED BY <1>3, <3>1, LogAt DEF F
  <2>5. /\ Append(LogOf(files), f.rec) \in Seq(Record)
        /\ Len(Append(LogOf(files), f.rec)) = n + 1
        /\ Append(LogOf(files), f.rec)[n + 1] = f.rec
        /\ \A k \in 1..n : Append(LogOf(files), f.rec)[k] = LogOf(files)[k]
    BY <1>4, <2>1, <2>3
  <2>6. \A k \in 1..(n + 1) : LogOf(F)[k] = Append(LogOf(files), f.rec)[k]
    BY <1>4, <1>7, <2>4, <2>5
  <2> QED BY <2>2, <2>5, <2>6, SeqEqual
<1> HIDE DEF F, n
<1>9. CASE files = {}
  <2>1. LogOf(files) = <<>>
    BY <1>9, EmptyLog
  <2>2. LogOf(files') = Append(<<>>, NewRecord)
    BY <1>1, <1>2, <1>8, <1>9, <2>1
  <2>3. LogOf(files') = <<NewRecord>>
    BY <2>2
  <2>4. Log!NewRecord = NewRecord
    BY DEF Log!NewRecord, NewRecord
  <2> QED BY <1>2, <2>1, <2>3, <2>4, Zenon DEF Log!Create, LogOf
<1>10. CASE files # {}
  <2>1. PICK l \in files : l.seq = n
    BY <1>3, <1>4, <1>10, LinearCount, FS_EmptySet DEF n
  <2>2. LogOf(files)[n] = l.rec /\ Len(LogOf(files)) = n /\ LogOf(files) # <<>>
    BY <1>3, <2>1, LogAt, LogIsSeq DEF n
  <2>3. ValidateTransition(l.rec, f.rec) /\ f.rec \in Record
    BY <1>3, <1>4, <2>1 DEF Linear, F, File
  <2>4. LogOf(files') = Append(LogOf(files), f.rec)
    BY <1>2, <1>8
  <2>5. Log!ValidateTransition(l.rec, f.rec) /\ f.rec \in Log!Record
    BY <2>3 DEF Log!ValidateTransition, Log!Record, ValidateTransition, Record
  <2>6. Log!ValidateTransition(LogOf(files)[Len(LogOf(files))], f.rec)
    BY <2>2, <2>5
  <2> QED BY <1>2, <2>2, <2>4, <2>5, <2>6, Zenon DEF Log!Append1, LogOf
<1> QED BY <1>9, <1>10

\* A call that returns acknowledges more of the log, or nothing new.
LEMMA ReturnAcknowledges ==
  ASSUME IInv, NEW p \in Procs, Return(p)
  PROVE  [Log!Next]_(Log!vars)
<1>1. IInv'
  BY ReturnStep
<1>2. files' = files
  BY DEF Return, End, disk
<1> DEFINE m == Cardinality(acked)
           n == Cardinality(acked')
           k == Cardinality(files)
<1>3. acked \subseteq acked' /\ acked' \subseteq files
  BY <1>1, <1>2 DEF Return, IInv, Prefix
<1>4. Linear(files) /\ files \subseteq File
  BY DEF IInv, TypeOK
<1>5. IsFiniteSet(files) /\ IsFiniteSet(acked') /\ k \in Nat /\ n \in Nat /\ m \in Nat
  <2>1. IsFiniteSet(files)
    BY <1>4, LinearCount
  <2>2. IsFiniteSet(acked') /\ IsFiniteSet(acked)
    BY <1>3, <2>1, FS_Subset
  <2> QED BY <2>1, <2>2, FS_CardinalityType
<1>6. m <= n /\ n <= k
  BY <1>3, <1>5, FS_Subset
<1>7. Len(LogOf(files)) = k
  BY <1>4, LogIsSeq
<1> HIDE DEF m, n, k
<1>8. CASE m = n
  <2>1. LogOf(files') = LogOf(files) /\ Cardinality(acked') = Cardinality(acked)
    BY <1>2, <1>8 DEF m, n
  <2> QED BY <2>1, Zenon DEF Log!vars, LogOf
<1>9. CASE m # n
  <2>1. n \in (m + 1)..Len(LogOf(files))
    BY <1>5, <1>6, <1>7, <1>9
  <2>2. LogOf(files') = LogOf(files)
    BY <1>2
  <2>3. Log!Acknowledge
    BY <2>1, <2>2, Zenon DEF Log!Acknowledge, LogOf, m, n
  <2> QED BY <2>3 DEF Log!Next
<1> QED BY <1>8, <1>9

\* A power loss takes back the end of the log that nobody was told about.
LEMMA PowerLossLoses ==
  ASSUME IInv, PowerLoss
  PROVE  [Log!Next]_(Log!vars)
<1>1. PICK keep \in SUBSET files :
        /\ durable \subseteq keep
        /\ \A f \in keep : UpTo(files, f) \subseteq keep
        /\ files' = keep /\ durable' = keep
  BY DEF PowerLoss
<1>2. acked' = acked /\ acked \subseteq keep
  BY <1>1 DEF PowerLoss, IInv, Prefix
<1>3. Linear(files) /\ files \subseteq File /\ Prefix(keep, files)
  BY <1>1 DEF IInv, TypeOK, Prefix
<1>4. CASE keep = files
  <2>1. LogOf(files') = LogOf(files) /\ Cardinality(acked') = Cardinality(acked)
    BY <1>1, <1>2, <1>4
  <2> QED BY <2>1, Zenon DEF Log!vars, LogOf
<1>5. CASE keep # files
  <2> DEFINE n == Cardinality(keep)
  <2>1. /\ n \in Nat /\ n < Cardinality(files) /\ Cardinality(files) \in Nat
        /\ LogOf(keep) = SubSeq(LogOf(files), 1, n)
    BY <1>3, <1>5, PrefixCount, LinearCount
  <2>2. IsFiniteSet(files) /\ IsFiniteSet(keep)
    BY <1>3, LinearCount, FS_Subset
  <2>3. Cardinality(acked) \in Nat /\ Cardinality(acked) <= n
    BY <1>2, <2>2, FS_Subset, FS_CardinalityType
  <2>4. n \in Cardinality(acked)..(Len(LogOf(files)) - 1)
    BY <1>3, <2>1, <2>3, LogIsSeq
  <2>5. LogOf(files') = SubSeq(LogOf(files), 1, n) /\ Cardinality(acked') = Cardinality(acked)
    BY <1>1, <1>2, <2>1
  <2> HIDE DEF n
  <2>6. Log!Lose
    BY <2>4, <2>5, Zenon DEF Log!Lose, LogOf
  <2> QED BY <2>6 DEF Log!Next
<1> QED BY <1>4, <1>5

\* Every step of the store is a step of the log or leaves the log alone.
LEMMA StoreStepIsLogStep == IInv /\ [Next]_vars => [Log!Next]_(Log!vars)
<1> SUFFICES ASSUME IInv, [Next]_vars PROVE [Log!Next]_(Log!vars)
  OBVIOUS
<1>1. CASE PowerLoss
  BY <1>1, PowerLossLoses
<1>2. ASSUME NEW p \in Procs, Link(p) PROVE [Log!Next]_(Log!vars)
  BY <1>2, LinkAppends DEF Log!Next
<1>3. ASSUME NEW p \in Procs, Return(p) PROVE [Log!Next]_(Log!vars)
  BY <1>3, ReturnAcknowledges
<1>4. ASSUME NEW p \in Procs, Step(p), ~Link(p), ~Return(p) PROVE files' = files /\ acked' = acked
  BY <1>4 DEF Step, Create, Update, Read, Begin, MakeDir, Acquire, CreateCheck, ReadJournal,
     ReadSnapshot, WriteSnapshot, SyncSnapshot, Mutate, SyncJournal, RereadJournal,
     Fail, End, disk
<1>5. CASE UNCHANGED vars
  BY <1>5 DEF vars, disk, Log!vars
<1>6. CASE files' = files /\ acked' = acked
  BY <1>6 DEF Log!vars
<1> QED BY <1>1, <1>2, <1>3, <1>4, <1>5, <1>6 DEF Next

\* The directory of files that several processes share, fail in and lose power
\* over is an append-only log of legal records whose acknowledged part is kept.
THEOREM StoreImplementsLog == Spec => ImplementsOperationLog
<1>1. Init => Log!Init
  <2> SUFFICES ASSUME Init PROVE Log!Init
    OBVIOUS
  <2>1. LogOf(files) = <<>> /\ Cardinality(acked) = 0
    BY EmptyLog DEF Init
  <2> QED BY <2>1, Zenon DEF Log!Init, LogOf
<1> QED BY <1>1, StoreStepIsLogStep, StoreInvariant, PTL DEF Spec, ImplementsOperationLog, Log!Spec
=============================================================================
