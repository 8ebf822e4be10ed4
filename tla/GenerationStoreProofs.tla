----------------------- MODULE GenerationStoreProofs ------------------------
(***************************************************************************)
(* Proofs about GenerationStore for every set of writers, of generations   *)
(* on disk, of candidates and of payloads, and any number of crashes and   *)
(* removals.                                                               *)
(***************************************************************************)
EXTENDS GenerationStore, TLAPS

\* The records are functions and records of the fields the actions update.
Shape ==
  /\ store = [g \in IDs |-> [spec |-> store[g].spec, status |-> store[g].status]]
  /\ writer = [w \in Writers |-> writer[w]]

\* A specification on disk is the valid one of its generation, a status beside
\* it is about it, and nothing is published over a legacy record.
StoreInv ==
  /\ legacy \subseteq Legacy
  /\ \A g \in IDs :
       /\ store[g].spec # None => store[g].spec.id = g /\ ValidateGenerationSpec(store[g].spec)
       /\ store[g].spec # None /\ store[g].status # None =>
            ValidateGenerationStatus(store[g].spec, store[g].status)
       /\ g \in Legacy => store[g].spec = None

\* What a publisher holds is a candidate with its first status; past its first
\* write its own specification is the one on disk.
PublisherInv(w) ==
  writer[w].pc \in {"spec", "status"} =>
    /\ writer[w] = [pc |-> writer[w].pc, spec |-> writer[w].spec, status |-> writer[w].status]
    /\ writer[w].spec \in Candidates
    /\ ValidateGenerationStatus(writer[w].spec, writer[w].status)
    /\ writer[w].pc = "status" => store[writer[w].spec.id].spec = writer[w].spec

WriterInv ==
  \A w \in Writers : /\ PublisherInv(w)
                     /\ writer[w].pc = "write" => writer[w].spec.id \in IDs

\* A generation whose records can be read, now and until it is removed.
Held(g) == g \in IDs /\ ((store[g].spec # None /\ store[g].status # None) \/ g \in legacy)

\* The specification a reader of a held generation finds.
HeldSpec(g) == IF store[g].spec = None THEN Existing[g].spec ELSE store[g].spec

\* What UnprovenKeepsKubernetes says of a generation and the statuses seen when
\* its activation was allowed.
KeepsKubernetes(g, proof) ==
  \/ \E s \in proof : s.boot = "good" /\ s.health = "healthy"
  \/ HeldSpec(g).previous \notin IDs \/ HeldSpec(g).previous \in removed
  \/ SelectedKubernetes(HeldSpec(g).sysexts) = {}
  \/ /\ Held(HeldSpec(g).previous)
     /\ LET p == HeldSpec(HeldSpec(g).previous).sysexts
        IN  SelectedKubernetes(p) = {} \/ SameKubernetes(p, HeldSpec(g).sysexts)

\* The links a generation that was activated as a whole leaves below /run.
LinksOf(g) == IF g = "" THEN {} ELSE Plan(HeldSpec(g))

\* The record that was read is the one on disk; what is still to be linked and
\* what is linked make the plan of the generation; and before the reset the
\* links are those of the generation activated last.
ActivationInv ==
  /\ act.phase \in Resting \cup {"check", "reset", "link"}
  /\ act.last \notin {"", "torn"} => Held(act.last)
  /\ act.phase = "check" =>
       Held(act.gen) /\ act.record.spec = HeldSpec(act.gen) /\ HeldSpec(act.gen).id = act.gen
  /\ act.phase \in {"reset", "link", "done"} =>
       /\ act = [phase |-> act.phase, gen |-> act.gen, last |-> act.last,
                 todo |-> act.todo, proof |-> act.proof]
       /\ Held(act.gen) /\ KeepsKubernetes(act.gen, act.proof)
  /\ act.phase = "reset" => act.todo = Plan(HeldSpec(act.gen))
  /\ act.phase = "link" => links \cup act.todo = Plan(HeldSpec(act.gen))
  /\ act.phase = "done" => act.last = act.gen
  /\ act.phase # "link" /\ act.last # "torn" => links = LinksOf(act.last)

RecordsInv == Shape /\ StoreInv /\ WriterInv

\* The inductive invariant.
IInv == RecordsInv /\ ActivationInv

-----------------------------------------------------------------------------
(* What the steps do to the store.                                         *)

\* No generation goes: a specification stays once it is there, and so does a
\* status beside it.
Keeps ==
  /\ legacy' = legacy /\ removed' = removed /\ legacy \subseteq Legacy
  /\ \A g \in IDs :
       /\ store[g].spec # None => /\ store'[g].spec = store[g].spec
                                  /\ store[g].status # None => store'[g].status # None
       /\ g \in Legacy => store[g].spec = None /\ store'[g].spec = None

LEMMA NamedIsSomething == \A x : x.id \in IDs => x # None
<1>1. None.id = "none"
  BY DEF None
<1>2. "none" \notin IDs
  BY NamesAssumption DEF NamesAssumption
<1> QED
  BY <1>1, <1>2

LEMMA CandidateIDs == \A s \in Candidates : s.id \in IDs /\ s.id \notin Legacy
  BY NamesAssumption DEF NamesAssumption, IDs

\* What a reader of a held generation finds is HeldSpec.
LEMMA HeldRead ==
  ASSUME NEW g, Held(g), StoreInv
  PROVE  ReadSplitRecords(g).spec = HeldSpec(g)
<1>1. CASE store[g].spec = None
  BY <1>1 DEF Held, HeldSpec, ReadSplitRecords
<1>2. CASE store[g].spec # None
  BY <1>2 DEF StoreInv, Held, HeldSpec, ReadSplitRecords
<1> QED
  BY <1>1, <1>2

\* A generation that can be read is held.
LEMMA ReadHeld ==
  ASSUME NEW g \in IDs, Readable(g)
  PROVE  Held(g) /\ ReadSplitRecords(g).spec.id = g
  BY DEF Held, Readable, ReadSplitRecords

LEMMA RecordHeld ==
  ASSUME NEW g \in IDs, StoreInv, ReadRecord(g).ok
  PROVE  Held(g) /\ ReadRecord(g).r.spec = HeldSpec(g) /\ HeldSpec(g).id = g
<1>1. ReadRecord(g).r = ReadSplitRecords(g)
  BY DEF ReadRecord
<1>2. CASE store[g].spec = None
  <2>1. g \in legacy /\ legacy \subseteq Legacy
    BY <1>2 DEF ReadRecord, StoreInv
  <2>2. Held(g) /\ HeldSpec(g).id = g
    BY <1>2, <2>1, NamesAssumption, ExistingAssumption DEF NamesAssumption, ExistingAssumption, Held, HeldSpec
  <2> QED
    BY <1>1, <2>2, HeldRead
<1>3. CASE store[g].spec # None
  <2>1. Readable(g)
    BY <1>3 DEF ReadRecord, Readable
  <2> QED
    BY <1>1, <2>1, ReadHeld, HeldRead
<1> QED
  BY <1>2, <1>3

LEMMA KeepsHeld ==
  ASSUME Keeps, NEW g, Held(g)
  PROVE  Held(g)' /\ HeldSpec(g)' = HeldSpec(g)
  BY DEF Keeps, Held, HeldSpec

\* While the activation stands still its invariant survives what writers do.
LEMMA ActivationStays ==
  ASSUME ActivationInv, Keeps, UNCHANGED <<links, act>>
  PROVE  ActivationInv'
<1>1. ASSUME NEW g, NEW proof, Held(g), KeepsKubernetes(g, proof)
      PROVE  KeepsKubernetes(g, proof)'
  <2>1. HeldSpec(g)' = HeldSpec(g)
    BY <1>1, KeepsHeld
  <2>2. PICK q : q = HeldSpec(g).previous
    OBVIOUS
  <2>3. Held(q) => Held(q)' /\ HeldSpec(q)' = HeldSpec(q)
    BY KeepsHeld
  <2>4. removed' = removed
    BY DEF Keeps
  <2> QED
    BY <1>1, <2>1, <2>2, <2>3, <2>4 DEF KeepsKubernetes
<1>2. act' = act /\ links' = links
  OBVIOUS
<1>3. ASSUME NEW g, Held(g) PROVE Held(g)' /\ HeldSpec(g)' = HeldSpec(g) /\ LinksOf(g)' = LinksOf(g)
  BY <1>3, KeepsHeld DEF LinksOf
<1>4. LinksOf("")' = LinksOf("")
  BY DEF LinksOf
<1> QED
  BY <1>1, <1>2, <1>3, <1>4 DEF ActivationInv

-----------------------------------------------------------------------------
(* The writers.                                                            *)

\* A step that leaves the store alone and one writer with a good place.
LEMMA OneWriter ==
  ASSUME RecordsInv, store' = store, legacy' = legacy, removed' = removed, NEW w \in Writers, NEW place,
         writer' = [writer EXCEPT ![w] = place],
         place.pc \in {"spec", "status"} =>
           /\ place = [pc |-> place.pc, spec |-> place.spec, status |-> place.status]
           /\ place.spec \in Candidates
           /\ ValidateGenerationStatus(place.spec, place.status)
           /\ place.pc = "status" => store[place.spec.id].spec = place.spec,
         place.pc = "write" => place.spec.id \in IDs
  PROVE  RecordsInv' /\ Keeps
<1>1. Keeps
  BY DEF RecordsInv, StoreInv, Keeps
<1>2. Shape' /\ StoreInv'
  BY DEF RecordsInv, Shape, StoreInv
<1>3. writer'[w] = place /\ \A u \in Writers \ {w} : writer'[u] = writer[u]
  BY DEF RecordsInv, Shape
<1>4. WriterInv'
  BY <1>3 DEF RecordsInv, WriterInv, PublisherInv
<1> QED
  BY <1>1, <1>2, <1>4 DEF RecordsInv

LEMMA IdlePlace == Idle.pc = "idle"
  BY DEF Idle

LEMMA BeginPublishKeeps ==
  ASSUME RecordsInv, NEW w \in Writers, BeginPublish(w)
  PROVE  RecordsInv' /\ Keeps
<1>1. PICK spec \in Candidates, commit \in {"candidate", "committed"} :
        /\ ValidateGenerationSpec(spec)
        /\ writer' = [writer EXCEPT ![w] = [pc |-> "spec", spec |-> spec,
                         status |-> NewGenerationStatus(spec, commit, "pending", "unknown")]]
  BY DEF BeginPublish
<1>2. ValidateGenerationStatus(spec, NewGenerationStatus(spec, commit, "pending", "unknown"))
  BY <1>1 DEF ValidateGenerationStatus, NewGenerationStatus
<1>3. store' = store /\ legacy' = legacy /\ removed' = removed
  BY DEF BeginPublish, Activation, NoRemoval
<1> QED
  BY <1>1, <1>2, <1>3, OneWriter

LEMMA ReadForStatusKeeps ==
  ASSUME RecordsInv, NEW w \in Writers, ReadForStatus(w)
  PROVE  RecordsInv' /\ Keeps
<1>1. PICK g \in IDs : Readable(g) /\ \E change \in StatusChanges :
        writer' = [writer EXCEPT ![w] = [pc |-> "write", spec |-> ReadSplitRecords(g).spec,
                                         status |-> Changed(ReadSplitRecords(g).status, change)]]
  BY DEF ReadForStatus
<1>2. PICK change \in StatusChanges :
        writer' = [writer EXCEPT ![w] = [pc |-> "write", spec |-> ReadSplitRecords(g).spec,
                                         status |-> Changed(ReadSplitRecords(g).status, change)]]
  BY <1>1
<1>3. ReadSplitRecords(g).spec.id = g
  BY <1>1, ReadHeld
<1>4. store' = store /\ legacy' = legacy /\ removed' = removed
  BY DEF ReadForStatus, Activation, NoRemoval
<1> QED
  BY <1>2, <1>3, <1>4, OneWriter

LEMMA CrashWriterKeeps ==
  ASSUME RecordsInv, NEW w \in Writers, CrashWriter(w)
  PROVE  RecordsInv' /\ Keeps
  BY OneWriter, IdlePlace DEF CrashWriter, Activation, NoRemoval

\* A step that changes what is known of one generation, along the invariant.
LEMMA OneGeneration ==
  ASSUME RecordsInv, legacy' = legacy, removed' = removed,
         NEW w \in Writers, NEW place, NEW g \in IDs, NEW spec, NEW status,
         store' = [store EXCEPT ![g] = [spec |-> spec, status |-> status]],
         writer' = [writer EXCEPT ![w] = place],
         store[g].spec # None => spec = store[g].spec,
         store[g].status # None /\ spec # None => status # None,
         spec # None => spec.id = g /\ ValidateGenerationSpec(spec),
         spec # None /\ status # None => ValidateGenerationStatus(spec, status),
         g \in Legacy => spec = None,
         place.pc \in {"idle", "status"},
         place.pc = "status" =>
           /\ place = [pc |-> place.pc, spec |-> spec, status |-> place.status]
           /\ spec \in Candidates /\ spec.id = g
           /\ ValidateGenerationStatus(spec, place.status)
  PROVE  RecordsInv' /\ Keeps
<1>1. store'[g].spec = spec /\ store'[g].status = status /\ \A h \in IDs \ {g} : store'[h] = store[h]
  BY DEF RecordsInv, Shape
<1>2. Keeps
  BY <1>1 DEF RecordsInv, StoreInv, Keeps
<1>3. writer'[w] = place /\ \A u \in Writers \ {w} : writer'[u] = writer[u]
  BY DEF RecordsInv, Shape
<1>4. Shape'
  BY <1>1, <1>3 DEF RecordsInv, Shape
<1>5. StoreInv'
  BY <1>1 DEF RecordsInv, StoreInv
<1>6. ASSUME NEW u \in Writers
      PROVE  PublisherInv(u)' /\ (writer[u].pc = "write" => writer[u].spec.id \in IDs)'
  <2>1. CASE u = w
    BY <1>1, <1>3, <2>1 DEF PublisherInv
  <2>2. CASE u # w
    <3>1. writer'[u] = writer[u]
      BY <1>3, <2>2
    <3>2. writer[u].pc = "status" => store'[writer[u].spec.id].spec = writer[u].spec
      <4> SUFFICES ASSUME writer[u].pc = "status"
                   PROVE  store'[writer[u].spec.id].spec = writer[u].spec
        OBVIOUS
      <4>1. writer[u].spec \in Candidates /\ store[writer[u].spec.id].spec = writer[u].spec
        BY DEF RecordsInv, WriterInv, PublisherInv
      <4>2. writer[u].spec.id \in IDs /\ writer[u].spec # None
        BY <4>1, CandidateIDs, NamedIsSomething
      <4> QED
        BY <1>2, <4>1, <4>2 DEF Keeps
    <3> QED
      BY <3>1, <3>2 DEF RecordsInv, WriterInv, PublisherInv
  <2> QED
    BY <2>1, <2>2
<1> QED
  BY <1>2, <1>4, <1>5, <1>6 DEF RecordsInv, WriterInv

\* Writing over one field of a record of the store.
LEMMA OneField ==
  ASSUME Shape, NEW g \in IDs, NEW x
  PROVE  /\ [store EXCEPT ![g].spec = x] = [store EXCEPT ![g] = [spec |-> x, status |-> store[g].status]]
         /\ [store EXCEPT ![g].status = x] = [store EXCEPT ![g] = [spec |-> store[g].spec, status |-> x]]
<1>1. store[g] = [spec |-> store[g].spec, status |-> store[g].status]
  BY DEF Shape
<1>2. /\ [store[g] EXCEPT !.spec = x] = [spec |-> x, status |-> store[g].status]
      /\ [store[g] EXCEPT !.status = x] = [spec |-> store[g].spec, status |-> x]
  BY <1>1
<1> QED
  BY <1>2

LEMMA PublishSpecKeeps ==
  ASSUME RecordsInv, NEW w \in Writers, PublishSpec(w)
  PROVE  RecordsInv' /\ Keeps
<1>1. PICK p : p = writer[w]
  OBVIOUS
<1>2. /\ p = [pc |-> "spec", spec |-> p.spec, status |-> p.status]
      /\ p.spec \in Candidates /\ ValidateGenerationStatus(p.spec, p.status)
  BY <1>1 DEF PublishSpec, RecordsInv, WriterInv, PublisherInv
<1>3. p.spec.id \in IDs /\ p.spec.id \notin Legacy /\ p.spec # None
  BY <1>2, CandidateIDs, NamedIsSomething
<1>4. PICK next : next = [pc |-> "status", spec |-> p.spec, status |-> p.status]
  OBVIOUS
<1>5. [writer EXCEPT ![w].pc = "status"] = [writer EXCEPT ![w] = next]
  <2>1. [p EXCEPT !.pc = "status"] = next
    BY <1>2, <1>4
  <2> QED
    BY <1>1, <2>1
<1>0. legacy' = legacy /\ removed' = removed
  BY DEF PublishSpec, Activation, NoRemoval
<1>6. CASE /\ store[p.spec.id].spec = p.spec
           /\ writer' = [writer EXCEPT ![w].pc = "status"] /\ UNCHANGED <<store, lock>>
  BY <1>0, <1>2, <1>4, <1>5, <1>6, OneWriter
<1>7. CASE /\ store[p.spec.id].spec = None /\ store[p.spec.id].status = None
           /\ store' = [store EXCEPT ![p.spec.id].spec = p.spec]
           /\ writer' = [writer EXCEPT ![w].pc = "status"]
  <2>0. [store EXCEPT ![p.spec.id].spec = p.spec]
          = [store EXCEPT ![p.spec.id] = [spec |-> p.spec, status |-> store[p.spec.id].status]]
    BY <1>3, OneField DEF RecordsInv
  <2>1. store' = [store EXCEPT ![p.spec.id] = [spec |-> p.spec, status |-> None]]
    BY <1>7, <2>0
  <2>2. ValidateGenerationSpec(p.spec)
    BY <1>2 DEF ValidateGenerationStatus
  <2>3. next.pc = "status" /\ next = [pc |-> next.pc, spec |-> p.spec, status |-> next.status]
        /\ next.status = p.status
    BY <1>4
  <2> QED
    BY <1>0, <1>2, <1>3, <1>5, <1>7, <2>1, <2>2, <2>3, OneGeneration
<1>8. CASE Release(w, p.spec.id) /\ UNCHANGED store
  BY <1>0, <1>8, OneWriter, IdlePlace DEF Release
<1> QED
  BY <1>1, <1>6, <1>7, <1>8 DEF PublishSpec

LEMMA PublishStatusKeeps ==
  ASSUME RecordsInv, NEW w \in Writers, PublishStatus(w)
  PROVE  RecordsInv' /\ Keeps
<1>1. PICK p : p = writer[w]
  OBVIOUS
<1>2. /\ p.spec \in Candidates /\ ValidateGenerationStatus(p.spec, p.status)
      /\ store[p.spec.id].spec = p.spec
  BY <1>1 DEF PublishStatus, RecordsInv, WriterInv, PublisherInv
<1>3. p.spec.id \in IDs /\ p.spec.id \notin Legacy /\ p.spec # None
  BY <1>2, CandidateIDs, NamedIsSomething
<1>4. writer' = [writer EXCEPT ![w] = Idle] /\ legacy' = legacy /\ removed' = removed
  BY DEF PublishStatus, Release, Activation, NoRemoval
<1>5. CASE store' = store
  BY <1>4, <1>5, OneWriter, IdlePlace
<1>6. CASE store[p.spec.id].status = None /\ store' = [store EXCEPT ![p.spec.id].status = p.status]
  <2>0. [store EXCEPT ![p.spec.id].status = p.status]
          = [store EXCEPT ![p.spec.id] = [spec |-> store[p.spec.id].spec, status |-> p.status]]
    BY <1>3, OneField DEF RecordsInv
  <2>1. store' = [store EXCEPT ![p.spec.id] = [spec |-> p.spec, status |-> p.status]]
    BY <1>2, <1>6, <2>0
  <2>2. ValidateGenerationSpec(p.spec)
    BY <1>2 DEF ValidateGenerationStatus
  <2> QED
    BY <1>2, <1>3, <1>4, <1>6, <2>1, <2>2, OneGeneration, IdlePlace
<1> QED
  BY <1>1, <1>5, <1>6 DEF PublishStatus

\* A status is only written after it was checked against the one on disk.
LEMMA WrittenStatus ==
  ASSUME RecordsInv, NEW w \in Writers, WriteStatusRecord(w), store' # store
  PROVE  \E g \in IDs : \E n :
           /\ store' = [store EXCEPT ![g] = [spec |-> store[g].spec, status |-> n]]
           /\ store[g].spec # None =>
                /\ n # None /\ ValidateGenerationStatus(store[g].spec, n)
                /\ store[g].status # None => ValidateStatusTransition(store[g].status, n)
<1>1. PICK g : g = writer[w].spec.id
  OBVIOUS
<1>2. PICK n : n = writer[w].status
  OBVIOUS
<1>3. PICK r : r = ReadSplitRecords(g)
  OBVIOUS
<1>4. g \in IDs
  BY <1>1 DEF WriteStatusRecord, RecordsInv, WriterInv
<1>5. /\ r.ok /\ ValidateGenerationStatus(r.spec, n) /\ ValidateStatusTransition(r.status, n)
      /\ store' = [store EXCEPT ![g].status = n]
  BY <1>1, <1>2, <1>3 DEF WriteStatusRecord
<1>6. store' = [store EXCEPT ![g] = [spec |-> store[g].spec, status |-> n]]
  BY <1>4, <1>5, OneField DEF RecordsInv
<1>7. ASSUME store[g].spec # None
      PROVE  /\ n # None /\ ValidateGenerationStatus(store[g].spec, n)
             /\ store[g].status # None => ValidateStatusTransition(store[g].status, n)
  <2>1. r.spec = store[g].spec /\ r.status = store[g].status
    BY <1>3, <1>5, <1>7 DEF ReadSplitRecords
  <2>2. n.id = g
    BY <1>4, <1>5, <1>7, <2>1 DEF ValidateGenerationStatus, RecordsInv, StoreInv
  <2> QED
    BY <1>4, <1>5, <2>1, <2>2, NamedIsSomething
<1> QED
  BY <1>4, <1>6, <1>7

LEMMA WriteStatusRecordKeeps ==
  ASSUME RecordsInv, NEW w \in Writers, WriteStatusRecord(w)
  PROVE  RecordsInv' /\ Keeps
<1>1. writer' = [writer EXCEPT ![w] = Idle] /\ legacy' = legacy /\ removed' = removed
  BY DEF WriteStatusRecord, Activation, NoRemoval
<1>2. CASE store' = store
  BY <1>1, <1>2, OneWriter, IdlePlace
<1>3. CASE store' # store
  <2>0. PICK g \in IDs : \E n :
           /\ store' = [store EXCEPT ![g] = [spec |-> store[g].spec, status |-> n]]
           /\ store[g].spec # None => n # None /\ ValidateGenerationStatus(store[g].spec, n)
    BY <1>3, WrittenStatus
  <2>1. PICK n :
           /\ store' = [store EXCEPT ![g] = [spec |-> store[g].spec, status |-> n]]
           /\ store[g].spec # None => n # None /\ ValidateGenerationStatus(store[g].spec, n)
    BY <2>0
  <2>2. PICK s : s = store[g].spec
    OBVIOUS
  <2>3. /\ s # None => s.id = g /\ ValidateGenerationSpec(s)
        /\ g \in Legacy => s = None
    BY <2>2 DEF RecordsInv, StoreInv
  <2> QED
    BY <1>1, <2>1, <2>2, <2>3, OneGeneration, IdlePlace
<1> QED
  BY <1>2, <1>3

-----------------------------------------------------------------------------
(* The activation.                                                         *)

\* What is held and its specification are functions of the records.
LEMMA SameStore ==
  ASSUME store' = store, legacy' = legacy, removed' = removed, NEW g
  PROVE  /\ Held(g)' = Held(g) /\ HeldSpec(g)' = HeldSpec(g) /\ LinksOf(g)' = LinksOf(g)
         /\ \A proof : KeepsKubernetes(g, proof) => KeepsKubernetes(g, proof)'
  BY DEF Held, HeldSpec, LinksOf, KeepsKubernetes

\* What the policy allows keeps the Kubernetes of the previous generation, or
\* saw the generation proven.
LEMMA AllowedKeepsKubernetes ==
  ASSUME StoreInv, NEW g, Held(g), HeldSpec(g).id = g, NEW status,
         KubernetesChangeAllowed(HeldSpec(g), status)
  PROVE  KeepsKubernetes(g, {status, ReadSplitRecords(g).status})
<1>1. PICK s : s = HeldSpec(g)
  OBVIOUS
<1>2. CASE SelectedKubernetes(s.sysexts) = {} \/ (status.boot = "good" /\ status.health = "healthy")
  BY <1>1, <1>2 DEF KeepsKubernetes
<1>3. CASE s.previous \notin IDs
  BY <1>1, <1>3 DEF KeepsKubernetes
<1>4. CASE /\ s.previous \in IDs
           /\ ~(SelectedKubernetes(s.sysexts) = {} \/ (status.boot = "good" /\ status.health = "healthy"))
  <2>1. PICK q : q = s.previous
    OBVIOUS
  <2>2. q # "" /\ q \in IDs
    BY <1>4, <2>1, NamesAssumption DEF NamesAssumption
  <2>3. PreviousGenerationForActivation(s) = q
    BY <2>1, <2>2 DEF PreviousGenerationForActivation
  <2>4. /\ ReadRecord(q).ok
        /\ LET p == ReadRecord(q).r.spec.sysexts
           IN  \/ SameKubernetes(p, s.sysexts) \/ SelectedKubernetes(p) = {}
               \/ AuthorizeKubernetesUpgradeActivation(s)
    BY <1>1, <1>4, <2>2, <2>3 DEF KubernetesChangeAllowed
  <2>5. Held(q) /\ ReadRecord(q).r.spec = HeldSpec(q)
    BY <2>2, <2>4, RecordHeld
  <2>6. CASE AuthorizeKubernetesUpgradeActivation(s)
    <3>1. ReadSplitRecords(g).status.boot = "good" /\ ReadSplitRecords(g).status.health = "healthy"
      BY <1>1, <2>6 DEF AuthorizeKubernetesUpgradeActivation, IsKnownGood
    <3> QED
      BY <3>1 DEF KeepsKubernetes
  <2>7. CASE SameKubernetes(HeldSpec(q).sysexts, s.sysexts) \/ SelectedKubernetes(HeldSpec(q).sysexts) = {}
    BY <1>1, <2>1, <2>5, <2>7 DEF KeepsKubernetes
  <2> QED
    BY <2>4, <2>5, <2>6, <2>7
<1> QED
  BY <1>2, <1>3, <1>4

LEMMA ReadForActivationKeeps ==
  ASSUME IInv, NEW g \in Activatable, ReadForActivation(g)
  PROVE  ActivationInv'
<1>1. g \in IDs
  BY NamesAssumption DEF NamesAssumption
<1>2. Held(g) /\ ReadRecord(g).r.spec = HeldSpec(g) /\ HeldSpec(g).id = g
  BY <1>1, RecordHeld DEF ReadForActivation, IInv, RecordsInv
<1>3. store' = store /\ links' = links /\ legacy' = legacy /\ removed' = removed
  BY DEF ReadForActivation, Quiet, NoRemoval
<1>4. /\ act.phase \in Resting
      /\ act' = [phase |-> "check", gen |-> g, last |-> act.last, record |-> ReadRecord(g).r]
  BY DEF ReadForActivation
<1>5. /\ act'.phase = "check" /\ act'.gen = g /\ act'.last = act.last
      /\ act'.record.spec = HeldSpec(g)
  BY <1>2, <1>4
<1>6. Held(g)' /\ HeldSpec(g)' = HeldSpec(g)
  BY <1>2, <1>3, SameStore
<1>7. act.last \notin {"", "torn"} => Held(act.last)
  BY DEF IInv, ActivationInv
<1>8. act.last # "torn" => links = LinksOf(act.last)
  BY <1>4 DEF IInv, ActivationInv, Resting
<1>9. PICK q : q = act.last
  OBVIOUS
<1>10. (Held(q) => Held(q)') /\ LinksOf(q)' = LinksOf(q)
  BY <1>3, SameStore
<1> QED
  BY <1>2, <1>3, <1>5, <1>6, <1>7, <1>8, <1>9, <1>10 DEF ActivationInv, Resting

LEMMA BeginActivationKeeps ==
  ASSUME IInv, BeginActivation
  PROVE  ActivationInv'
<1>1. PICK g : g = act.gen
  OBVIOUS
<1>2. PICK q : q = act.last
  OBVIOUS
<1>3. act.phase = "check" /\ store' = store /\ links' = links /\ legacy' = legacy /\ removed' = removed
  BY DEF BeginActivation, Quiet, NoRemoval
<1>4. Held(g) /\ act.record.spec = HeldSpec(g) /\ HeldSpec(g).id = g
  BY <1>1, <1>3 DEF IInv, ActivationInv
<1>5. /\ q \notin {"", "torn"} => Held(q)
      /\ q # "torn" => links = LinksOf(q)
  BY <1>2, <1>3 DEF IInv, ActivationInv
<1>6. /\ Held(q)' = Held(q) /\ LinksOf(q)' = LinksOf(q)
      /\ Held(g)' = Held(g) /\ HeldSpec(g)' = HeldSpec(g)
  BY <1>3, SameStore
<1>7. CASE act' = [phase |-> "refused", gen |-> g, last |-> q]
  <2>1. act'.phase = "refused" /\ act'.last = q
    BY <1>7
  <2> QED
    BY <1>3, <1>5, <1>6, <2>1 DEF ActivationInv, Resting
<1>8. CASE /\ KubernetesChangeAllowed(HeldSpec(g), act.record.status)
           /\ act' = [phase |-> "reset", gen |-> g, last |-> q, todo |-> Plan(HeldSpec(g)),
                      proof |-> {act.record.status, ReadSplitRecords(g).status}]
  <2>1. PICK proof : proof = {act.record.status, ReadSplitRecords(g).status}
    OBVIOUS
  <2>2. KeepsKubernetes(g, proof)
    BY <1>4, <1>8, <2>1, AllowedKeepsKubernetes DEF IInv, RecordsInv
  <2>3. KeepsKubernetes(g, proof)'
    BY <1>3, <2>2, SameStore
  <2>4. /\ act'.phase = "reset" /\ act'.gen = g /\ act'.last = q
        /\ act'.todo = Plan(HeldSpec(g)) /\ act'.proof = proof
        /\ act' = [phase |-> act'.phase, gen |-> act'.gen, last |-> act'.last,
                   todo |-> act'.todo, proof |-> act'.proof]
    BY <1>8, <2>1
  <2> QED
    BY <1>3, <1>4, <1>5, <1>6, <2>3, <2>4 DEF ActivationInv, Resting
<1> QED
  BY <1>1, <1>2, <1>4, <1>7, <1>8 DEF BeginActivation

LEMMA ResetActivationDirsKeeps ==
  ASSUME IInv, ResetActivationDirs
  PROVE  ActivationInv'
<1>1. PICK a : a = act
  OBVIOUS
<1>2. /\ a.phase = "reset" /\ links' = {} /\ store' = store /\ act' = [a EXCEPT !.phase = "link"]
      /\ legacy' = legacy /\ removed' = removed
  BY <1>1 DEF ResetActivationDirs, Quiet, NoRemoval
<1>3. /\ a = [phase |-> a.phase, gen |-> a.gen, last |-> a.last, todo |-> a.todo, proof |-> a.proof]
      /\ Held(a.gen) /\ KeepsKubernetes(a.gen, a.proof) /\ a.todo = Plan(HeldSpec(a.gen))
      /\ a.last \notin {"", "torn"} => Held(a.last)
  BY <1>1, <1>2 DEF IInv, ActivationInv
<1>4. act' = [phase |-> "link", gen |-> a.gen, last |-> a.last, todo |-> a.todo, proof |-> a.proof]
  BY <1>2, <1>3
<1>5. act'.phase = "link" /\ act'.gen = a.gen /\ act'.last = a.last /\ act'.todo = a.todo /\ act'.proof = a.proof
  BY <1>4
<1>6. /\ Held(a.gen)' = Held(a.gen) /\ HeldSpec(a.gen)' = HeldSpec(a.gen)
      /\ Held(a.last)' = Held(a.last)
      /\ KeepsKubernetes(a.gen, a.proof)'
  BY <1>2, <1>3, SameStore
<1>7. links' \cup a.todo = Plan(HeldSpec(a.gen))
  BY <1>2, <1>3
<1> QED
  BY <1>3, <1>4, <1>5, <1>6, <1>7 DEF ActivationInv, Resting

LEMMA LinkNextKeeps ==
  ASSUME IInv, LinkNext
  PROVE  ActivationInv'
<1>1. PICK a : a = act
  OBVIOUS
<1>2. a.phase = "link" /\ store' = store /\ legacy' = legacy /\ removed' = removed
  BY <1>1 DEF LinkNext, Quiet, NoRemoval
<1>3. /\ a = [phase |-> a.phase, gen |-> a.gen, last |-> a.last, todo |-> a.todo, proof |-> a.proof]
      /\ Held(a.gen) /\ KeepsKubernetes(a.gen, a.proof)
      /\ links \cup a.todo = Plan(HeldSpec(a.gen))
      /\ a.last \notin {"", "torn"} => Held(a.last)
  BY <1>1, <1>2 DEF IInv, ActivationInv
<1>4. /\ Held(a.gen)' /\ HeldSpec(a.gen)' = HeldSpec(a.gen)
      /\ Held(a.last)' = Held(a.last)
      /\ KeepsKubernetes(a.gen, a.proof)'
  BY <1>2, <1>3, SameStore
<1>5. a.gen # ""
  BY <1>3, NamesAssumption DEF NamesAssumption, Held
<1>6. CASE a.todo = {} /\ links' = links /\ act' = [a EXCEPT !.phase = "done", !.last = a.gen]
  <2>1. act' = [phase |-> "done", gen |-> a.gen, last |-> a.gen, todo |-> a.todo, proof |-> a.proof]
    BY <1>3, <1>6
  <2>2. act'.phase = "done" /\ act'.gen = a.gen /\ act'.last = a.gen /\ act'.todo = a.todo /\ act'.proof = a.proof
    BY <2>1
  <2>3. links' = Plan(HeldSpec(a.gen)) /\ LinksOf(a.gen)' = Plan(HeldSpec(a.gen))
    BY <1>3, <1>4, <1>5, <1>6 DEF LinksOf
  <2> QED
    BY <1>4, <2>1, <2>2, <2>3 DEF ActivationInv, Resting
<1>7. CASE \E l \in a.todo : links' = links \cup {l} /\ act' = [a EXCEPT !.todo = a.todo \ {l}]
  <2>1. PICK l \in a.todo : links' = links \cup {l} /\ act' = [a EXCEPT !.todo = a.todo \ {l}]
    BY <1>7
  <2>2. act' = [phase |-> "link", gen |-> a.gen, last |-> a.last, todo |-> a.todo \ {l}, proof |-> a.proof]
    BY <1>2, <1>3, <2>1
  <2>3. /\ act'.phase = "link" /\ act'.gen = a.gen /\ act'.last = a.last
        /\ act'.todo = a.todo \ {l} /\ act'.proof = a.proof
    BY <2>2
  <2>4. links' \cup (a.todo \ {l}) = Plan(HeldSpec(a.gen))
    BY <1>3, <2>1
  <2> QED
    BY <1>3, <1>4, <2>2, <2>3, <2>4 DEF ActivationInv, Resting
<1> QED
  BY <1>1, <1>6, <1>7 DEF LinkNext

LEMMA CrashActivationKeeps ==
  ASSUME IInv, CrashActivation
  PROVE  ActivationInv'
<1>1. PICK q : q = act.last
  OBVIOUS
<1>2. /\ act.phase \in {"check", "reset", "link"} /\ store' = store /\ links' = links
      /\ act' = [phase |-> "none", last |-> IF act.phase = "link" THEN "torn" ELSE q]
      /\ legacy' = legacy /\ removed' = removed
  BY <1>1 DEF CrashActivation, NoRemoval
<1>3. /\ q \notin {"", "torn"} => Held(q)
      /\ act.phase # "link" /\ q # "torn" => links = LinksOf(q)
  BY <1>1 DEF IInv, ActivationInv
<1>4. Held(q)' = Held(q) /\ LinksOf(q)' = LinksOf(q)
  BY <1>2, SameStore
<1>5. act'.phase = "none" /\ act'.last = IF act.phase = "link" THEN "torn" ELSE q
  BY <1>2
<1> QED
  BY <1>2, <1>3, <1>4, <1>5 DEF ActivationInv, Resting

-----------------------------------------------------------------------------
(* The invariant.                                                          *)

LEMMA InitInv == Init => IInv
<1> SUFFICES ASSUME Init PROVE IInv
  OBVIOUS
<1>1. ASSUME NEW g \in IDs
      PROVE  /\ store[g] = [spec |-> store[g].spec, status |-> store[g].status]
             /\ store[g].spec # None => store[g].spec.id = g /\ ValidateGenerationSpec(store[g].spec)
             /\ store[g].spec # None /\ store[g].status # None =>
                  ValidateGenerationStatus(store[g].spec, store[g].status)
             /\ g \in Legacy => store[g].spec = None
  <2>1. CASE g \in DOMAIN Existing \ Legacy
    <3>1. store[g] = Existing[g]
      BY <2>1 DEF Init
    <3> QED
      BY <2>1, <3>1, ExistingAssumption DEF ExistingAssumption
  <2>2. CASE g \notin DOMAIN Existing \ Legacy
    <3>1. store[g] = [spec |-> None, status |-> None]
      BY <2>2 DEF Init
    <3> QED
      BY <3>1
  <2> QED
    BY <2>1, <2>2
<1>2. Shape
  BY <1>1 DEF Init, Shape
<1>3. StoreInv
  BY <1>1 DEF StoreInv, Init
<1>4. WriterInv
  BY DEF Init, WriterInv, PublisherInv, Idle
<1>5. ActivationInv
  <2>1. act.phase = "none" /\ act.last = "" /\ links = {}
    BY DEF Init
  <2> QED
    BY <2>1 DEF ActivationInv, Resting, LinksOf
<1> QED
  BY <1>2, <1>3, <1>4, <1>5 DEF IInv, RecordsInv

Removal == \E g \in IDs : RemoveGeneration(g) \/ DiscardCandidate(g)

\* What every step does to the store, but for a removal.
LEMMA StepKeeps ==
  ASSUME IInv, [Next]_vars, ~Removal
  PROVE  RecordsInv' /\ Keeps
<1>1. ASSUME store' = store, writer' = writer, legacy' = legacy, removed' = removed
      PROVE  RecordsInv' /\ Keeps
  <2>1. Keeps
    BY <1>1 DEF IInv, RecordsInv, StoreInv, Keeps
  <2>2. RecordsInv'
    BY <1>1 DEF IInv, RecordsInv, Shape, StoreInv, WriterInv, PublisherInv
  <2> QED
    BY <2>1, <2>2
<1>2. CASE UNCHANGED vars
  BY <1>1, <1>2 DEF vars
<1>3. ASSUME NEW w \in Writers,
             \/ BeginPublish(w) \/ PublishSpec(w) \/ PublishStatus(w)
             \/ ReadForStatus(w) \/ WriteStatusRecord(w) \/ CrashWriter(w)
      PROVE  RecordsInv' /\ Keeps
  BY <1>3, BeginPublishKeeps, PublishSpecKeeps, PublishStatusKeeps, ReadForStatusKeeps,
     WriteStatusRecordKeeps, CrashWriterKeeps DEF IInv
<1>4. CASE \E g \in Activatable : ReadForActivation(g)
  BY <1>1, <1>4 DEF ReadForActivation, Quiet, NoRemoval
<1>5. CASE BeginActivation \/ ResetActivationDirs \/ LinkNext
  BY <1>1, <1>5 DEF BeginActivation, ResetActivationDirs, LinkNext, Quiet, NoRemoval
<1>6. CASE CrashActivation \/ Damage
  BY <1>1, <1>6 DEF CrashActivation, Damage, NoRemoval
<1> QED
  BY <1>2, <1>3, <1>4, <1>5, <1>6 DEF Next, Removal

\* A generation that was activated last has its status, or is a legacy one.
LEMMA RemovalGoes ==
  ASSUME IInv, Removal
  PROVE  \E g \in IDs : Gone(g) /\ g # act.last
<1>1. PICK g \in IDs : RemoveGeneration(g) \/ DiscardCandidate(g)
  BY DEF Removal
<1>2. CASE RemoveGeneration(g)
  BY <1>2 DEF RemoveGeneration, ProtectedBy
<1>3. CASE DiscardCandidate(g)
  <2>1. Gone(g) /\ store[g].spec # None /\ store[g].status = None
    BY <1>3 DEF DiscardCandidate
  <2>2. g \notin legacy /\ g \notin {"", "torn"}
    BY <2>1, NamesAssumption DEF NamesAssumption, IInv, RecordsInv, StoreInv
  <2>3. act.last \notin {"", "torn"} => Held(act.last)
    BY DEF IInv, ActivationInv
  <2> QED
    BY <2>1, <2>2, <2>3 DEF Held
<1> QED
  BY <1>1, <1>2, <1>3

\* A removal takes one whole record that is in nobody's use.
LEMMA GoneKeeps ==
  ASSUME IInv, NEW g \in IDs, Gone(g), g # act.last
  PROVE  IInv'
<1>1. /\ store' = [store EXCEPT ![g] = [spec |-> None, status |-> None]]
      /\ legacy' = legacy \ {g} /\ removed' = removed \cup {g}
      /\ writer' = writer /\ links' = links /\ act' = act /\ act.phase \in Resting
      /\ \A w \in Writers : writer[w].pc = "idle"
  BY DEF Gone
<1>2. /\ store'[g] = [spec |-> None, status |-> None]
      /\ \A h \in IDs \ {g} : store'[h] = store[h]
  BY <1>1 DEF IInv, RecordsInv, Shape
<1>3. Shape'
  BY <1>1, <1>2 DEF IInv, RecordsInv, Shape
<1>4. StoreInv'
  BY <1>1, <1>2 DEF IInv, RecordsInv, StoreInv
<1>5. WriterInv'
  BY <1>1 DEF WriterInv, PublisherInv
<1>6. ASSUME NEW h, h # g, Held(h)
      PROVE  Held(h)' /\ HeldSpec(h)' = HeldSpec(h)
  BY <1>1, <1>2, <1>6 DEF Held, HeldSpec
<1>7. ASSUME NEW h, h # g, Held(h), NEW proof, KeepsKubernetes(h, proof)
      PROVE  KeepsKubernetes(h, proof)'
  <2>1. HeldSpec(h)' = HeldSpec(h)
    BY <1>6, <1>7
  <2>2. PICK q : q = HeldSpec(h).previous
    OBVIOUS
  <2>3. CASE q = g \/ q \in removed
    <3>1. (HeldSpec(h).previous \in removed)'
      BY <1>1, <2>1, <2>2, <2>3
    <3> QED
      BY <3>1 DEF KeepsKubernetes
  <2>4. CASE q # g /\ q \notin removed
    <3>1. Held(q) => Held(q)' /\ HeldSpec(q)' = HeldSpec(q)
      BY <1>6, <2>4
    <3> QED
      BY <1>7, <2>1, <2>2, <2>4, <3>1 DEF KeepsKubernetes
  <2> QED
    BY <2>3, <2>4
<1>8. PICK a : a = act
  OBVIOUS
<1>9. a.last \notin {"", "torn"} => Held(a.last)' /\ LinksOf(a.last)' = LinksOf(a.last)
  BY <1>6, <1>8 DEF IInv, ActivationInv, LinksOf
<1>10. LinksOf("")' = LinksOf("")
  BY DEF LinksOf
<1>11. a.phase = "done" => Held(a.gen)' /\ KeepsKubernetes(a.gen, a.proof)'
  BY <1>6, <1>7, <1>8 DEF IInv, ActivationInv
<1>12. a.phase \notin {"check", "reset", "link"}
  BY <1>1, <1>8 DEF Resting
<1>13. ActivationInv'
  BY <1>1, <1>8, <1>9, <1>10, <1>11, <1>12 DEF IInv, ActivationInv
<1> QED
  BY <1>3, <1>4, <1>5, <1>13 DEF IInv, RecordsInv

LEMMA StepInv ==
  ASSUME IInv, [Next]_vars
  PROVE  IInv'
<1>0. CASE Removal
  <2>1. PICK g \in IDs : Gone(g) /\ g # act.last
    BY <1>0, RemovalGoes
  <2> QED
    BY <2>1, GoneKeeps
<1> SUFFICES ASSUME ~Removal PROVE IInv'
  BY <1>0
<1>1. RecordsInv' /\ Keeps
  BY StepKeeps
<1> SUFFICES ActivationInv'
  BY <1>1 DEF IInv
<1>2. ASSUME UNCHANGED <<links, act>> PROVE ActivationInv'
  BY <1>1, <1>2, ActivationStays DEF IInv
<1>3. CASE UNCHANGED vars
  BY <1>2, <1>3 DEF vars
<1>4. ASSUME NEW w \in Writers,
             \/ BeginPublish(w) \/ PublishSpec(w) \/ PublishStatus(w)
             \/ ReadForStatus(w) \/ WriteStatusRecord(w) \/ CrashWriter(w)
      PROVE  ActivationInv'
  BY <1>2, <1>4 DEF BeginPublish, PublishSpec, PublishStatus, ReadForStatus, WriteStatusRecord,
                    CrashWriter, Activation
<1>5. CASE \E g \in Activatable : ReadForActivation(g)
  BY <1>5, ReadForActivationKeeps
<1>6. CASE BeginActivation \/ ResetActivationDirs \/ LinkNext \/ CrashActivation
  BY <1>6, BeginActivationKeeps, ResetActivationDirsKeeps, LinkNextKeeps, CrashActivationKeeps
<1>7. CASE Damage
  BY <1>2, <1>7 DEF Damage
<1> QED
  BY <1>3, <1>4, <1>5, <1>6, <1>7 DEF Next, Removal

(* Whatever writers publish, write and leave behind when they die, and     *)
(* whatever is activated or removed meanwhile, the inductive invariant     *)
(* holds.                                                                  *)
THEOREM GenerationInvariant == Spec => []IInv
<1>1. Init => IInv
  BY InitInv
<1>2. IInv /\ [Next]_vars => IInv'
  BY StepInv
<1> QED
  BY <1>1, <1>2, PTL DEF Spec

-----------------------------------------------------------------------------
(* What follows from it.                                                   *)

LEMMA InvTogether == IInv => RecordsBelongTogether
<1> SUFFICES ASSUME IInv PROVE RecordsBelongTogether
  OBVIOUS
<1>1. StoreInv
  BY DEF IInv, RecordsInv
<1>2. ReadableBelongsTogether
  BY <1>1 DEF StoreInv, ReadableBelongsTogether, Readable, ReadSplitRecords
<1>3. ActiveIsWhole
  <2>1. PICK q : q = act.last
    OBVIOUS
  <2>2. act.phase \in Resting \cup {"check"} /\ q # "torn" =>
          links = LinksOf(q) /\ (q # "" => Held(q))
    BY <2>1 DEF IInv, ActivationInv, Resting
  <2>3. Held(q) => ReadSplitRecords(q).spec = HeldSpec(q)
    BY <1>1, HeldRead
  <2> QED
    BY <2>1, <2>2, <2>3 DEF ActiveIsWhole, LinksOf
<1>4. UnprovenKeepsKubernetes
  <2> SUFFICES ASSUME act.phase = "done" PROVE UnprovenKeepsKubernetes
    BY DEF UnprovenKeepsKubernetes
  <2>1. PICK g : g = act.gen
    OBVIOUS
  <2>2. Held(g) /\ KeepsKubernetes(g, act.proof)
    BY <2>1 DEF IInv, ActivationInv
  <2>3. ReadSplitRecords(g).spec = HeldSpec(g)
    BY <1>1, <2>2, HeldRead
  <2>4. PICK q : q = HeldSpec(g).previous
    OBVIOUS
  <2>5. Held(q) => ReadSplitRecords(q).spec = HeldSpec(q)
    BY <1>1, HeldRead
  <2> QED
    BY <2>1, <2>2, <2>3, <2>4, <2>5 DEF UnprovenKeepsKubernetes, KeepsKubernetes
<1> QED
  BY <1>2, <1>3, <1>4 DEF RecordsBelongTogether

(* A status is never evidence about another specification; what is linked  *)
(* below /run is one whole generation unless its activation was cut off;   *)
(* and an unproven generation runs the Kubernetes of the one it was made   *)
(* from, unless that one was removed: for every number of writers,         *)
(* candidates, generations, crashes, damages and removals.                 *)
THEOREM RecordsTogether == Spec => []RecordsBelongTogether
  BY GenerationInvariant, InvTogether, PTL

LEMMA StepAdvances ==
  ASSUME IInv, [Next]_vars
  PROVE  StatusOnlyAdvances
<1>0. CASE Removal
  <2>1. PICK g \in IDs : Gone(g) /\ g # act.last
    BY <1>0, RemovalGoes
  <2>2. RecordGoes(g)
    BY <2>1 DEF Gone, RecordGoes, IInv, RecordsInv, Shape
  <2>3. ASSUME NEW h \in IDs \ {g} PROVE RecordStays(h) \/ store[h].spec = None
    <3>1. store'[h] = store[h]
      BY <2>1 DEF Gone, IInv, RecordsInv, Shape
    <3> QED
      BY <3>1 DEF RecordStays
  <2> QED
    BY <2>2, <2>3 DEF StatusOnlyAdvances
<1> SUFFICES ASSUME ~Removal PROVE StatusOnlyAdvances
  BY <1>0
<1>1. Keeps
  BY StepKeeps
<1>2. ASSUME NEW g \in IDs, store[g].spec # None, store[g].status # None,
             store'[g].status # store[g].status
      PROVE  ValidateStatusTransition(store[g].status, store'[g].status)
  <2>1. ASSUME NEW w \in Writers, PublishSpec(w) PROVE FALSE
    <3>1. PICK p : p = writer[w].spec
      OBVIOUS
    <3>2. p \in Candidates
      BY <2>1, <3>1 DEF PublishSpec, IInv, RecordsInv, WriterInv, PublisherInv
    <3>3. p.id \in IDs
      BY <3>2, CandidateIDs
    <3>4. store' = [store EXCEPT ![p.id].spec = p]
      BY <1>2, <2>1, <3>1 DEF PublishSpec
    <3>5. store' = [store EXCEPT ![p.id] = [spec |-> p, status |-> store[p.id].status]]
      BY <3>3, <3>4, OneField DEF IInv, RecordsInv
    <3> QED
      BY <1>2, <3>3, <3>5 DEF IInv, RecordsInv, Shape
  <2>2. ASSUME NEW w \in Writers, PublishStatus(w) PROVE FALSE
    <3>1. PICK p : p = writer[w]
      OBVIOUS
    <3>2. p.spec \in Candidates
      BY <2>2, <3>1 DEF PublishStatus, IInv, RecordsInv, WriterInv, PublisherInv
    <3>3. p.spec.id \in IDs
      BY <3>2, CandidateIDs
    <3>4. store[p.spec.id].status = None /\ store' = [store EXCEPT ![p.spec.id].status = p.status]
      BY <1>2, <2>2, <3>1 DEF PublishStatus
    <3>5. p.spec.id # g
      BY <1>2, <3>4
    <3> QED
      BY <1>2, <3>3, <3>4, <3>5 DEF IInv, RecordsInv, Shape
  <2>3. ASSUME NEW w \in Writers, WriteStatusRecord(w)
        PROVE  ValidateStatusTransition(store[g].status, store'[g].status)
    <3>1. PICK h \in IDs : \E n :
            /\ store' = [store EXCEPT ![h] = [spec |-> store[h].spec, status |-> n]]
            /\ store[h].spec # None /\ store[h].status # None =>
                  ValidateStatusTransition(store[h].status, n)
      BY <1>2, <2>3, WrittenStatus DEF IInv
    <3>2. PICK n : /\ store' = [store EXCEPT ![h] = [spec |-> store[h].spec, status |-> n]]
                   /\ store[h].spec # None /\ store[h].status # None =>
                        ValidateStatusTransition(store[h].status, n)
      BY <3>1
    <3>3. h = g
      BY <1>2, <3>2 DEF IInv, RecordsInv, Shape
    <3>4. store'[g].status = n
      BY <3>2, <3>3 DEF IInv, RecordsInv, Shape
    <3> QED
      BY <1>2, <3>2, <3>3, <3>4
  <2>4. store' # store
    BY <1>2
  <2>5. \E w \in Writers : PublishSpec(w) \/ PublishStatus(w) \/ WriteStatusRecord(w)
    BY <2>4 DEF Next, vars, BeginPublish, ReadForStatus, CrashWriter, ReadForActivation,
                BeginActivation, ResetActivationDirs, LinkNext, CrashActivation, Damage, Quiet, Removal
  <2> QED
    BY <2>1, <2>2, <2>3, <2>5
<1>3. StatusOnlyAdvances
  BY <1>1, <1>2 DEF StatusOnlyAdvances, RecordStays, Keeps, ValidateStatusTransition
<1> QED
  BY <1>3

(* No step of a writer, of a retry or of an activation changes a published *)
(* specification or moves a status other than along the transitions; only  *)
(* a removal takes them, both at once, from a generation that is not the   *)
(* activated one and that no writer is writing.                            *)
THEOREM RecordsAdvance == Spec => RecordsOnlyAdvance
<1>1. IInv /\ [Next]_vars => [StatusOnlyAdvances]_vars
  BY StepAdvances
<1> QED
  BY <1>1, GenerationInvariant, PTL DEF Spec, RecordsOnlyAdvance
=============================================================================
