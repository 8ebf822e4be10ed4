--------------------------- MODULE OperationStore ---------------------------
(***************************************************************************)
(* internal/installer/operation/store.go: one operation directory, used by *)
(* several processes and goroutines (the agent's executor, its request     *)
(* handlers and maintenance loop, SSH commands).  The directory holds      *)
(*                                                                         *)
(*   journal/<seq>.<event>.json   one file per event, linked no-replace    *)
(*   record.json                  a snapshot of the last event, replaced   *)
(*                                by rename                                *)
(*   .lock                        the flock that serialises the writers    *)
(*                                                                         *)
(* Readers take no lock and repair the snapshot themselves, so a slow      *)
(* reader can put an old snapshot over a newer one.  A writer can fail or  *)
(* die between any two steps; a power loss also forgets what has not been  *)
(* fsynced.                                                                *)
(*                                                                         *)
(* Abstractions.  Temporary files are left out: no reader looks at them.   *)
(* An event is its number and its record: the event id in a file name, which *)
(* callers choose by event type, is a function of the record.  A digest is *)
(* the set of events it is the digest of.  The /var file system is assumed *)
(* to keep the order of directory updates: what a power loss leaves of a   *)
(* journal is a prefix of it.                                              *)
(***************************************************************************)
EXTENDS OperationRecords, FiniteSets

CONSTANTS Procs,     \* processes and goroutines that use the store
          NoProc,    \* "nobody holds the lock"
          MaxSeq     \* bound: the number of journal events of an operation

ASSUME NoProcAssumption == NoProc \notin Procs
ASSUME MaxSeqAssumption == MaxSeq \in Nat

VARIABLES
  dir,      \* has the operation directory been created?
  files,    \* the events linked into journal/
  durable,  \* the events that an fsync of journal/ has covered
  snap,     \* the events record.json was written from, {} if there is none
  durSnap,  \* the record.json that an fsync of the directory has covered
  lock,     \* holder of the flock
  pc,       \* per process: the next step of its call
  op,       \* per process: the call it is in
  seen,     \* per process: the events readJournal returned
  file,     \* per process: the event it is writing, a set of at most one
  floor,    \* per process: the events acknowledged when its call began
  acked     \* the events whose Create or Update has returned success

disk == <<dir, files, durable, snap, durSnap>>
proc == <<pc, op, seen, file, floor>>
vars == <<disk, lock, proc, acked>>

File == [seq: 1..MaxSeq, rec: Record]

Ops == {"none", "create", "update", "read"}
PCs == {"idle", "mkdir", "lock", "check", "journal", "snapshot", "mutate",
        "link", "sync", "reread", "write", "fsync", "return"}

TypeOK ==
  /\ dir \in BOOLEAN
  /\ files \subseteq File /\ durable \subseteq File
  /\ snap \subseteq File /\ durSnap \subseteq File
  /\ lock \in Procs \cup {NoProc}
  /\ pc \in [Procs -> PCs]
  /\ op \in [Procs -> Ops]
  /\ seen \in [Procs -> SUBSET File]
  /\ file \in [Procs -> SUBSET File]
  /\ floor \in [Procs -> SUBSET File]
  /\ acked \subseteq File

Init ==
  /\ dir = FALSE
  /\ files = {} /\ durable = {} /\ snap = {} /\ durSnap = {}
  /\ lock = NoProc
  /\ pc = [p \in Procs |-> "idle"]
  /\ op = [p \in Procs |-> "none"]
  /\ seen = [p \in Procs |-> {}]
  /\ file = [p \in Procs |-> {}]
  /\ floor = [p \in Procs |-> {}]
  /\ acked = {}

-----------------------------------------------------------------------------
(* Reading a journal directory.                                            *)

\* There is an event k, and it may follow the event before it.
Linked(F, k) ==
  \E f \in F :
    /\ f.seq = k
    /\ k > 1 => \E g \in F : g.seq = k - 1 /\ ValidateTransition(g.rec, f.rec)

Chain(F, n) == \A k \in 1..n : Linked(F, k)

\* The events readJournal keeps: it stops at the first gap or illegal step.
Valid(F) == {f \in F : Chain(F, f.seq)}

\* readJournal refuses a journal with two valid events of one number.
DuplicateSeq(F) ==
  \E f, g \in F : f # g /\ f.seq = g.seq /\ Chain(F, f.seq - 1)

Latest(F) == CHOOSE f \in F : \A g \in F : g.seq <= f.seq

UpTo(F, f) == {g \in F : g.seq <= f.seq}

\* M: trusts whatever snapshot there is.
SnapshotPresent(s, events) == s # {}

\* readSnapshot: the snapshot is used only if its digest is the journal's.
SnapshotMatches(s, events) == s # {} /\ s = events

-----------------------------------------------------------------------------
(* Calls.  A call that needs the directory fails at once without it.        *)

Begin(p, what, at) ==
  /\ pc[p] = "idle"
  /\ op' = [op EXCEPT ![p] = what]
  /\ pc' = [pc EXCEPT ![p] = at]
  /\ seen' = [seen EXCEPT ![p] = {}]
  /\ file' = [file EXCEPT ![p] = {}]
  /\ floor' = [floor EXCEPT ![p] = acked]
  /\ UNCHANGED <<disk, lock, acked>>

Create(p) == Begin(p, "create", "mkdir")
Update(p) == dir /\ Begin(p, "update", "lock")
Read(p) == dir /\ Begin(p, "read", "journal")

\* withOperationLock(create): the directory is made before the lock is taken.
MakeDir(p) ==
  /\ pc[p] = "mkdir"
  /\ dir' = TRUE
  /\ pc' = [pc EXCEPT ![p] = "lock"]
  /\ UNCHANGED <<files, durable, snap, durSnap, lock, op, seen, file, floor, acked>>

\* M: takes no lock.
AcquireNothing(p) ==
  /\ pc[p] = "lock"
  /\ pc' = [pc EXCEPT ![p] = IF op[p] = "create" THEN "check" ELSE "journal"]
  /\ UNCHANGED <<disk, lock, op, seen, file, floor, acked>>

Acquire(p) ==
  /\ pc[p] = "lock"
  /\ lock = NoProc
  /\ lock' = p
  /\ pc' = [pc EXCEPT ![p] = IF op[p] = "create" THEN "check" ELSE "journal"]
  /\ UNCHANGED <<disk, op, seen, file, floor, acked>>

\* Create: refuse a directory that already has a journal or a snapshot.
CreateCheck(p) ==
  /\ pc[p] = "check"
  /\ files = {} /\ snap = {}
  /\ MaxSeq >= 1
  /\ file' = [file EXCEPT ![p] = {[seq |-> 1, rec |-> NewRecord]}]
  /\ pc' = [pc EXCEPT ![p] = "link"]
  /\ UNCHANGED <<disk, lock, op, seen, floor, acked>>

\* Read, first half: the journal; a journal without valid events is an error.
ReadJournal(p) ==
  /\ pc[p] = "journal"
  /\ ~DuplicateSeq(files)
  /\ Valid(files) # {}
  /\ seen' = [seen EXCEPT ![p] = Valid(files)]
  /\ pc' = [pc EXCEPT ![p] = "snapshot"]
  /\ UNCHANGED <<disk, lock, op, file, floor, acked>>

\* Read, second half: record.json is returned if it agrees with the journal
\* events read before; otherwise it is rewritten from those events.
ReadSnapshot(p) ==
  /\ pc[p] = "snapshot"
  /\ IF SnapshotMatches(snap, seen[p])
       THEN /\ seen' = [seen EXCEPT ![p] = snap]
            /\ pc' = [pc EXCEPT ![p] = IF op[p] = "update" THEN "mutate" ELSE "return"]
       ELSE /\ pc' = [pc EXCEPT ![p] = "write"]
            /\ UNCHANGED seen
  /\ UNCHANGED <<disk, lock, op, file, floor, acked>>

\* writeSnapshot: the rename is visible at once, durable after the fsync.
WriteSnapshot(p) ==
  /\ pc[p] = "write"
  /\ snap' = seen[p]
  /\ pc' = [pc EXCEPT ![p] = "fsync"]
  /\ UNCHANGED <<dir, files, durable, durSnap, lock, op, seen, file, floor, acked>>

SyncSnapshot(p) ==
  /\ pc[p] = "fsync"
  /\ durSnap' = snap
  /\ pc' = [pc EXCEPT ![p] = IF op[p] = "update" /\ file[p] = {} THEN "mutate" ELSE "return"]
  /\ UNCHANGED <<dir, files, durable, snap, lock, op, seen, file, floor, acked>>

\* Update: the caller's function picks the next record; an illegal one is
\* refused.  The event is numbered after the record that was read.
Mutate(p) ==
  LET last == Latest(seen[p])
  IN /\ pc[p] = "mutate"
     /\ last.seq < MaxSeq
     /\ \E next \in Record :
          /\ ValidateTransition(last.rec, next)
          /\ file' = [file EXCEPT ![p] = {[seq |-> last.seq + 1, rec |-> next]}]
     /\ pc' = [pc EXCEPT ![p] = "link"]
     /\ UNCHANGED <<disk, lock, op, seen, floor, acked>>

\* writeFileNoReplace: the complete file appears under its final name, which
\* must be free.
Link(p) ==
  /\ pc[p] = "link"
  /\ files \cap file[p] = {}
  /\ files' = files \cup file[p]
  /\ pc' = [pc EXCEPT ![p] = "sync"]
  /\ UNCHANGED <<dir, durable, snap, durSnap, lock, op, seen, file, floor, acked>>

\* M: goes on without the fsync of the journal directory.
SkipSyncJournal(p) ==
  /\ pc[p] = "sync"
  /\ pc' = [pc EXCEPT ![p] = "reread"]
  /\ UNCHANGED <<disk, lock, op, seen, file, floor, acked>>

SyncJournal(p) ==
  /\ pc[p] = "sync"
  /\ durable' = files
  /\ pc' = [pc EXCEPT ![p] = "reread"]
  /\ UNCHANGED <<dir, files, snap, durSnap, lock, op, seen, file, floor, acked>>

\* writeEventAndSnapshot reads the journal again to digest it.
RereadJournal(p) ==
  /\ pc[p] = "reread"
  /\ ~DuplicateSeq(files)
  /\ Valid(files) # {}
  /\ seen' = [seen EXCEPT ![p] = Valid(files)]
  /\ pc' = [pc EXCEPT ![p] = "write"]
  /\ UNCHANGED <<disk, lock, op, file, floor, acked>>

\* The end of a call, however it ends: the flock is dropped with it.
End(p) ==
  /\ lock' = IF lock = p THEN NoProc ELSE lock
  /\ pc' = [pc EXCEPT ![p] = "idle"]
  /\ seen' = [seen EXCEPT ![p] = {}]
  /\ file' = [file EXCEPT ![p] = {}]
  /\ floor' = [floor EXCEPT ![p] = {}]
  /\ op' = [op EXCEPT ![p] = "none"]
  /\ UNCHANGED disk

\* The call returns; a write that gets here is acknowledged.
Return(p) ==
  /\ pc[p] = "return"
  /\ acked' = acked \cup UNION {UpTo(files, f) : f \in file[p]}
  /\ End(p)

\* The call returns an error (refused transition, I/O error, readJournal
\* error) or its process dies; the kernel drops the flock.  The disk stays as
\* it is: an event may be linked that nobody was told about.
Fail(p) ==
  /\ pc[p] # "idle"
  /\ End(p)
  /\ UNCHANGED acked

\* Power loss: every process is gone and only what was fsynced is sure to be
\* there.  The journal keeps the order in which entries were linked.
PowerLoss ==
  /\ \E keep \in SUBSET files :
       /\ durable \subseteq keep
       /\ \A f \in keep : UpTo(files, f) \subseteq keep
       /\ files' = keep /\ durable' = keep
  /\ snap' \in {snap, durSnap} /\ durSnap' = snap'
  /\ lock' = NoProc
  /\ pc' = [p \in Procs |-> "idle"]
  /\ seen' = [p \in Procs |-> {}]
  /\ file' = [p \in Procs |-> {}]
  /\ floor' = [p \in Procs |-> {}]
  /\ op' = [p \in Procs |-> "none"]
  /\ UNCHANGED <<dir, acked>>

Step(p) ==
  \/ Create(p) \/ Update(p) \/ Read(p)
  \/ MakeDir(p) \/ Acquire(p) \/ CreateCheck(p)
  \/ ReadJournal(p) \/ ReadSnapshot(p) \/ WriteSnapshot(p) \/ SyncSnapshot(p)
  \/ Mutate(p) \/ Link(p) \/ SyncJournal(p) \/ RereadJournal(p)
  \/ Return(p) \/ Fail(p)

Next == PowerLoss \/ \E p \in Procs : Step(p)

Spec == Init /\ [][Next]_vars

-----------------------------------------------------------------------------
(* Properties.                                                             *)

\* The journal never has two events of one number, a gap or an illegal step:
\* readJournal neither fails nor drops an event, whatever failed before.
JournalLinear == ~DuplicateSeq(files) /\ Valid(files) = files

\* Every event whose Create or Update returned success has been fsynced, so
\* no power loss takes it back.
AckDurable == acked \subseteq durable

\* A Read that returns has seen every event acknowledged before it began,
\* even when a slower reader has meanwhile put an older record.json in place.
ReadFresh ==
  \A p \in Procs : pc[p] = "return" => floor[p] \subseteq seen[p]

\* Once a terminal record has been acknowledged the journal never changes
\* again: no later writer, restart or power loss adds or removes an event.
TerminalIsFinal ==
  [][(\E f \in acked : f.rec.terminal) => files' = files]_vars

\* The store implements the append-only log of records of OperationLog.
Log == INSTANCE OperationLog WITH
         log <- [i \in 1..Cardinality(files) |-> (CHOOSE f \in files : f.seq = i).rec],
         acked <- Cardinality(acked)

ImplementsOperationLog == Log!Spec

=============================================================================
