-------------------------- MODULE GenerationStore --------------------------
(***************************************************************************)
(* The records of a generation on the state partition and the activation   *)
(* of one of them: an immutable specification and a status beside it,      *)
(* written by concurrent processes that may die between two writes, their  *)
(* removal, after which the same id may be published again, and the links  *)
(* below /run that the boot, a live apply and its rollback make.           *)
(*                                                                         *)
(* A file is replaced atomically (writeFileAtomic).  An absent file is     *)
(* None.  Specifications are those of GenerationSpecs.                     *)
(***************************************************************************)
EXTENDS GenerationSpecs

CONSTANTS
  Writers,      \* processes that publish generations and write statuses
  Candidates,   \* the specifications that may be published
  Existing,     \* generations on disk: id -> [spec, status]
  Legacy,       \* the ones with a metadata.json instead of split records
  Activatable,  \* generations a process may activate
  Selection,    \* generations the boot selection names, in the order read
  StatusChanges,\* what a writer of a status may want
  MaxCrashes,   \* bound: deaths of a process and payloads that lose their bytes
  MaxRemovals   \* bound: generations that are removed

VARIABLES
  store,        \* id -> [spec, status]
  writer,       \* each writer's place
  lock,         \* id -> the writer that holds its .state.lock
  links,        \* what is linked below /run/extensions and /run/confexts
  act,          \* the activation in progress
  damaged,      \* payload paths whose bytes are no longer the declared ones
  crashes,
  legacy,       \* the generations that have a metadata.json
  tombs,        \* the ids a removal that died left a hidden directory of
  removed,      \* history: the ids that were removed
  removals

vars == <<store, writer, lock, links, act, damaged, crashes, legacy, tombs, removed, removals>>

None == [id |-> "none"]
Free == "free"
IDs == DOMAIN Existing \cup {s.id : s \in Candidates}

(* A generation has a name (cleanSegment), which is none of the marks used *)
(* here, and a new one does not take the name of a legacy one.             *)
ASSUME NamesAssumption ==
  /\ \A g \in IDs : g \notin {"", "none", "torn"}
  /\ Legacy \subseteq DOMAIN Existing /\ Activatable \subseteq IDs
  /\ \A s \in Candidates : s.id \notin Legacy

-----------------------------------------------------------------------------
(* Status records.                                                         *)

NewGenerationStatus(spec, commit, boot, health) ==
  [id |-> spec.id, digest |-> CanonicalSpecDigest(spec), commit |-> commit, boot |-> boot,
   health |-> health, by |-> "", unavailable |-> ""]

(* StatusFromRecord: a legacy record is committed unless a configuration   *)
(* change made it.                                                         *)
StatusFromRecord(record) ==
  NewGenerationStatus(record, IF record.configApply THEN "candidate" ELSE "committed",
                      record.bootState, record.healthState)

ValidateGenerationStatus(spec, status) ==
  /\ ValidateGenerationSpec(spec)
  /\ status.id = spec.id /\ status.digest = CanonicalSpecDigest(spec)
  /\ status.commit \in {"candidate", "committed", "superseded", "abandoned"}
  /\ status.boot \in {"pending", "trying", "good", "failed"}
  /\ status.health \in {"unknown", "healthy", "unhealthy", "deferred"}

(* The records on disk are as a publication, complete or cut off, left     *)
(* them; a legacy record names its own generation.                         *)
ASSUME ExistingAssumption ==
  \A g \in DOMAIN Existing :
    LET e == Existing[g]
    IN  /\ e.spec.id = g
        /\ g \notin Legacy => /\ e = [spec |-> e.spec, status |-> e.status]
                              /\ ValidateGenerationSpec(e.spec)
                              /\ e.status = None \/ ValidateGenerationStatus(e.spec, e.status)

ValidateCommitTransition(from, to) ==
  <<from, to>> \in {<<"candidate", "committed">>, <<"candidate", "abandoned">>,
                    <<"committed", "superseded">>, <<"superseded", "committed">>}

ValidateBootTransition(from, to) ==
  <<from, to>> \in {<<"pending", "trying">>, <<"pending", "good">>, <<"trying", "good">>,
                    <<"pending", "failed">>, <<"trying", "failed">>, <<"good", "failed">>,
                    <<"failed", "good">>}

ValidateStatusTransition(p, n) ==
  /\ p.id = n.id /\ p.digest = n.digest
  /\ p.commit # n.commit => ValidateCommitTransition(p.commit, n.commit)
  /\ p.boot # n.boot => ValidateBootTransition(p.boot, n.boot)

IsKnownGood(status) ==
  /\ status.unavailable = "" /\ status.commit \in {"committed", "superseded"}
  /\ status.boot = "good" /\ status.health = "healthy"

(* ReadSplitRecords: split records, or the legacy one while there is no    *)
(* specification beside it.                                                *)
ReadSplitRecords(g) ==
  LET d == store[g]
      Read(spec, status) ==
        [ok |-> spec.id = g /\ ValidateGenerationStatus(spec, status), spec |-> spec, status |-> status]
  IN  IF d.spec = None
        THEN IF g \in legacy THEN Read(Existing[g].spec, StatusFromRecord(Existing[g].spec))
             ELSE [ok |-> FALSE]
      ELSE IF d.status = None THEN [ok |-> FALSE] ELSE Read(d.spec, d.status)

Readable(g) == ReadSplitRecords(g).ok

-----------------------------------------------------------------------------
(* Publication: WriteSplitRecords.                                         *)

Idle == [pc |-> "idle"]

Init ==
  /\ store = [g \in IDs |-> IF g \in DOMAIN Existing \ Legacy THEN Existing[g]
                            ELSE [spec |-> None, status |-> None]]
  /\ writer = [w \in Writers |-> Idle]
  /\ lock = [g \in IDs |-> Free]
  /\ links = {} /\ act = [phase |-> "none", last |-> ""] /\ damaged = {} /\ crashes = 0
  /\ legacy = Legacy /\ tombs = {} /\ removed = {} /\ removals = 0

NoRemoval == UNCHANGED <<legacy, tombs, removed, removals>>
Activation == UNCHANGED <<links, act, damaged>> /\ NoRemoval

BeginPublish(w) ==
  /\ writer[w].pc = "idle"
  /\ \E spec \in Candidates, commit \in {"candidate", "committed"} :
       /\ PlanActivation(spec) /\ lock[spec.id] = Free
       /\ ValidateGenerationSpec(spec)
       /\ lock' = [lock EXCEPT ![spec.id] = w]
       /\ writer' = [writer EXCEPT ![w] = [pc |-> "spec", spec |-> spec,
                       status |-> NewGenerationStatus(spec, commit, "pending", "unknown")]]
  /\ UNCHANGED <<store, crashes>> /\ Activation

Release(w, g) ==
  /\ lock' = [lock EXCEPT ![g] = Free]
  /\ writer' = [writer EXCEPT ![w] = Idle]

(* M: a different specification replaces an interrupted one *)
PublishSpecAgain(w) ==
  /\ writer[w].pc = "spec"
  /\ store' = [store EXCEPT ![writer[w].spec.id].spec = writer[w].spec]
  /\ writer' = [writer EXCEPT ![w].pc = "status"]
  /\ UNCHANGED <<lock, crashes>> /\ Activation

PublishSpec(w) ==
  /\ writer[w].pc = "spec"
  /\ LET spec == writer[w].spec d == store[spec.id]
     IN  \/ /\ d.spec = spec
            /\ writer' = [writer EXCEPT ![w].pc = "status"] /\ UNCHANGED <<store, lock>>
         \/ /\ d.spec = None /\ d.status = None
            /\ store' = [store EXCEPT ![spec.id].spec = spec]
            /\ writer' = [writer EXCEPT ![w].pc = "status"] /\ UNCHANGED lock
         \/ /\ (d.spec # None /\ d.spec # spec) \/ (d.spec = None /\ d.status # None)
            /\ Release(w, spec.id) /\ UNCHANGED store
  /\ UNCHANGED crashes /\ Activation

(* M: the initial status is written again by a retry *)
PublishStatusAgain(w) ==
  /\ writer[w].pc = "status"
  /\ store' = [store EXCEPT ![writer[w].spec.id].status = writer[w].status]
  /\ Release(w, writer[w].spec.id)
  /\ UNCHANGED crashes /\ Activation

PublishStatus(w) ==
  /\ writer[w].pc = "status"
  /\ LET g == writer[w].spec.id
     IN  /\ store' = IF store[g].status = None THEN [store EXCEPT ![g].status = writer[w].status] ELSE store
         /\ Release(w, g)
  /\ UNCHANGED crashes /\ Activation

-----------------------------------------------------------------------------
(* WriteGenerationStatus: the caller read the records some time before, so *)
(* the status it writes may be made from an older one.                     *)

Changed(status, change) ==
  CASE change = "trying" -> [status EXCEPT !.boot = "trying"]
    [] change = "good" -> [status EXCEPT !.boot = "good", !.health = "healthy", !.commit = "committed"]
    [] change = "failed" -> [status EXCEPT !.boot = "failed", !.health = "unhealthy"]
    [] change = "superseded" -> [status EXCEPT !.commit = "superseded"]
    [] change = "abandoned" -> [status EXCEPT !.commit = "abandoned"]
    [] change = "unavailable" -> [status EXCEPT !.unavailable = "slot overwritten"]

ReadForStatus(w) ==
  /\ writer[w].pc = "idle"
  /\ \E g \in IDs : Readable(g) /\ \E change \in StatusChanges :
       writer' = [writer EXCEPT ![w] = [pc |-> "write", spec |-> ReadSplitRecords(g).spec,
                                        status |-> Changed(ReadSplitRecords(g).status, change)]]
  /\ UNCHANGED <<store, lock, crashes>> /\ Activation

WriteStatusRecord(w) ==
  /\ writer[w].pc = "write" /\ lock[writer[w].spec.id] = Free
  /\ LET g == writer[w].spec.id r == ReadSplitRecords(g) n == writer[w].status
     IN  store' = IF r.ok /\ r.spec = writer[w].spec /\ ValidateGenerationStatus(r.spec, n)
                       /\ ValidateStatusTransition(r.status, n)
                    THEN [store EXCEPT ![g].status = n] ELSE store
  /\ writer' = [writer EXCEPT ![w] = Idle]
  /\ UNCHANGED <<lock, crashes>> /\ Activation

CrashWriter(w) ==
  /\ crashes < MaxCrashes /\ writer[w].pc # "idle"
  /\ crashes' = crashes + 1
  /\ writer' = [writer EXCEPT ![w] = Idle]
  /\ lock' = [g \in IDs |-> IF lock[g] = w THEN Free ELSE lock[g]]
  /\ UNCHANGED store /\ Activation

-----------------------------------------------------------------------------
(* Activation.                                                             *)

(* ReadRecord, also of a generation's predecessor.  Less is asked of a     *)
(* legacy record than ReadSplitRecords asks.                               *)
ReadRecord(g) ==
  LET r == ReadSplitRecords(g)
  IN  [ok |-> IF store[g].spec = None THEN g \in legacy /\ ValidateRecord(Existing[g].spec)
              ELSE r.ok /\ r.status.unavailable = "",
       r |-> r]

PreviousGenerationForActivation(spec) ==
  IF spec.previous # "" THEN spec.previous
  ELSE LET others == SelectSeq(Selection, LAMBDA g : g \notin {"", spec.id})
       IN  IF others = <<>> THEN "" ELSE Head(others)

SameKubernetes(a, b) ==
  {<<k.sha, k.version>> : k \in SelectedKubernetes(a)} = {<<k.sha, k.version>> : k \in SelectedKubernetes(b)}

AuthorizeKubernetesUpgradeActivation(record) ==
  LET r == ReadSplitRecords(record.id)
  IN  /\ record.upgrade.op # "none"
      /\ record.upgrade.mode = "operation-private-sysext"
      /\ record.upgrade.gate = "operation-released-target-kubelet"
      /\ r.ok /\ IsKnownGood(r.status) /\ r.status.by = record.upgrade.op
      /\ SameKubernetes(r.spec.sysexts, record.sysexts) /\ r.spec.upgrade = record.upgrade

(* rejectKubernetesSysextChange, negated.                                  *)
KubernetesChangeAllowed(spec, status) ==
  \/ SelectedKubernetes(spec.sysexts) = {}
  \/ status.boot = "good" /\ status.health = "healthy"
  \/ LET previous == PreviousGenerationForActivation(spec)
     IN  \/ previous = ""
         \/ /\ previous \in IDs /\ ReadRecord(previous).ok
            /\ LET p == ReadRecord(previous).r.spec.sysexts
               IN  \/ SameKubernetes(p, spec.sysexts) \/ SelectedKubernetes(p) = {}
                   \/ AuthorizeKubernetesUpgradeActivation(spec)

Plan(spec) == Range(AllLinks(spec))

VerifyPayloads(spec) == \A l \in Plan(spec) : l.source \notin damaged

Resting == {"none", "done", "refused"}
Quiet == UNCHANGED <<store, writer, lock, damaged, crashes>> /\ NoRemoval

(* The caller reads the record, then activates what it read.               *)
ReadForActivation(g) ==
  /\ act.phase \in Resting /\ ReadRecord(g).ok
  /\ act' = [phase |-> "check", gen |-> g, last |-> act.last, record |-> ReadRecord(g).r]
  /\ Quiet /\ UNCHANGED links

(* ApplyActivation, up to the reset of the two directories.                *)
BeginActivation ==
  /\ act.phase = "check"
  /\ LET spec == act.record.spec status == act.record.status
     IN  act' = IF PlanActivation(spec) /\ KubernetesChangeAllowed(spec, status) /\ VerifyPayloads(spec)
                  THEN [phase |-> "reset", gen |-> act.gen, last |-> act.last, todo |-> Plan(spec),
                        proof |-> {status, ReadSplitRecords(act.gen).status}]
                  ELSE [phase |-> "refused", gen |-> act.gen, last |-> act.last]
  /\ Quiet /\ UNCHANGED links

ResetActivationDirs ==
  /\ act.phase = "reset" /\ links' = {} /\ act' = [act EXCEPT !.phase = "link"]
  /\ Quiet

LinkNext ==
  /\ act.phase = "link"
  /\ IF act.todo = {} THEN act' = [act EXCEPT !.phase = "done", !.last = act.gen] /\ UNCHANGED links
     ELSE \E l \in act.todo : /\ links' = links \cup {l}
                              /\ act' = [act EXCEPT !.todo = @ \ {l}]
  /\ Quiet

(* The process that activates dies or a link cannot be made; /run keeps    *)
(* what was linked.                                                        *)
CrashActivation ==
  /\ crashes < MaxCrashes /\ act.phase \in {"check", "reset", "link"}
  /\ crashes' = crashes + 1
  /\ act' = [phase |-> "none", last |-> IF act.phase = "link" THEN "torn" ELSE act.last]
  /\ UNCHANGED <<store, writer, lock, links, damaged>> /\ NoRemoval

Damage ==
  /\ crashes < MaxCrashes /\ crashes' = crashes + 1
  /\ \E g \in IDs : Readable(g) /\ \E l \in Plan(ReadSplitRecords(g).spec) :
       l.source \notin damaged /\ damaged' = damaged \cup {l.source}
  /\ UNCHANGED <<store, writer, lock, links, act>> /\ NoRemoval

-----------------------------------------------------------------------------
(* Removal, by an operator or by the retention of old generations.  Every  *)
(* writer holds the boot lock or is part of an operation, and a removal    *)
(* takes the boot lock while no operation is active, so it meets no writer *)
(* and no activation.                                                      *)

Recorded(g) == g \in legacy \/ store[g].spec # None \/ store[g].status # None

(* Selected, or activated (the selection calls that active or booted), the *)
(* last known good one of its slot, or the place of another one's          *)
(* payloads.  (Which of two is newer is left open, and so are boot files   *)
(* that are missing.)                                                      *)
ProtectedBy(g) ==
  LET r == ReadSplitRecords(g)
      others == {ReadSplitRecords(h) : h \in {x \in IDs \ {g} : Readable(x)}}
  IN  \/ g \in Range(Selection) \/ g = act.last
      \/ /\ IsKnownGood(r.status)
         /\ ~\E o \in others : IsKnownGood(o.status) /\ o.spec.root.uuid = r.spec.root.uuid
      \/ \E o \in others : \E l \in Plan(o.spec) : l.source.gen = g

Gone(g) ==
  /\ removals < MaxRemovals /\ removals' = removals + 1
  /\ \A w \in Writers : writer[w].pc = "idle"
  /\ act.phase \in Resting
  /\ store' = [store EXCEPT ![g] = [spec |-> None, status |-> None]]
  /\ legacy' = legacy \ {g} /\ removed' = removed \cup {g}
  /\ damaged' = {p \in damaged : p.gen # g}
  /\ UNCHANGED <<writer, lock, links, act>>

(* RemoveGeneration: no record on disk may be unreadable.  The directory   *)
(* is renamed away as a whole and then deleted; one left by a removal that *)
(* died between the two is in the way of the next.                         *)
RemoveGeneration(g) ==
  /\ Gone(g) /\ g \notin tombs /\ Recorded(g)
  /\ \A h \in IDs : Recorded(h) => Readable(h)
  /\ ~ProtectedBy(g)
  /\ \/ UNCHANGED <<tombs, crashes>>
     \/ crashes < MaxCrashes /\ crashes' = crashes + 1 /\ tombs' = tombs \cup {g}

(* recoverInterruptedConfigApplies: a candidate whose publication stopped  *)
(* before its status is deleted.                                           *)
DiscardCandidate(g) ==
  /\ store[g].spec # None /\ store[g].status = None /\ g \notin Range(Selection)
  /\ Gone(g) /\ UNCHANGED <<tombs, crashes>>

Next ==
  \/ \E w \in Writers : \/ BeginPublish(w) \/ PublishSpec(w) \/ PublishStatus(w)
                        \/ ReadForStatus(w) \/ WriteStatusRecord(w) \/ CrashWriter(w)
  \/ \E g \in Activatable : ReadForActivation(g)
  \/ BeginActivation \/ ResetActivationDirs \/ LinkNext \/ CrashActivation \/ Damage
  \/ \E g \in IDs : RemoveGeneration(g) \/ DiscardCandidate(g)

Spec == Init /\ [][Next]_vars

-----------------------------------------------------------------------------
(* Properties.                                                             *)

TypeOK ==
  /\ lock \in [IDs -> Writers \cup {Free}]
  /\ \A w \in Writers : writer[w].pc \in {"spec", "status"} => lock[writer[w].spec.id] = w
  /\ crashes \in 0..MaxCrashes /\ removals \in 0..MaxRemovals /\ tombs \subseteq removed

(* A status is never taken for evidence about another specification: what  *)
(* can be read belongs together, whoever published and whoever died.       *)
ReadableBelongsTogether ==
  \A g \in IDs : store[g].spec # None /\ store[g].status # None => Readable(g)

(* Retrying a publication never undoes what happened since: a              *)
(* specification never changes once it is there, and its status stays and  *)
(* only moves along the permitted transitions, until both are removed at   *)
(* once, and not while they are in use: linked, or held by a writer.  (A   *)
(* status.json beside a legacy record is not read, and nothing is said of  *)
(* it.)                                                                    *)
RecordStays(g) ==
  /\ store'[g].spec = store[g].spec
  /\ store[g].status # None =>
       LET p == store[g].status n == store'[g].status
       IN  /\ n # None
           /\ p.commit # n.commit => ValidateCommitTransition(p.commit, n.commit)
           /\ p.boot # n.boot => ValidateBootTransition(p.boot, n.boot)
RecordGoes(g) ==
  /\ store'[g].spec = None /\ store'[g].status = None
  /\ g # act.last /\ \A w \in Writers : writer[w].pc # "idle" => writer[w].spec.id # g
StatusOnlyAdvances ==
  \A g \in IDs : store[g].spec # None => RecordStays(g) \/ RecordGoes(g)

(* What is active is one whole generation: unless an activation was cut    *)
(* off, the links are those of the last one activated, none missing and    *)
(* none left from another; an activation that is refused, for its          *)
(* policy or for a payload that lost its bytes, leaves the last one whole. *)
ActiveIsWhole ==
  act.phase \in Resting \cup {"check"} /\ act.last # "torn" =>
    links = IF act.last = "" THEN {} ELSE Plan(ReadSplitRecords(act.last).spec)

(* Until a generation is proven it runs the Kubernetes of the one it was   *)
(* made from, as long as that one is kept: configuration and host changes  *)
(* cannot move it.                                                         *)
UnprovenKeepsKubernetes ==
  act.phase = "done" =>
    LET spec == ReadSplitRecords(act.gen).spec
    IN  \/ \E s \in act.proof : s.boot = "good" /\ s.health = "healthy"
        \/ spec.previous \notin IDs \/ ~Readable(spec.previous) \/ spec.previous \in removed
        \/ SelectedKubernetes(spec.sysexts) = {}
        \/ LET p == ReadSplitRecords(spec.previous).spec.sysexts
           IN  SelectedKubernetes(p) = {} \/ SameKubernetes(p, spec.sysexts)

(* Writers, crashes and readers interleaved, a readable record is of one   *)
(* publication; an activated generation is whole, and until proven runs    *)
(* the Kubernetes of the one it was made from, unless that was removed.    *)
RecordsBelongTogether == ReadableBelongsTogether /\ ActiveIsWhole /\ UnprovenKeepsKubernetes

(* A published specification never changes and its status only moves along *)
(* the transitions, until the generation is removed as a whole.            *)
RecordsOnlyAdvance == [][StatusOnlyAdvances]_vars
=============================================================================
