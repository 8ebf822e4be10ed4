--------------------------- MODULE BootSelection ----------------------------
(***************************************************************************)
(* What a KatlOS node boots next.  Three programs change the durable state: *)
(*                                                                         *)
(*   agent    the node agent: configuration applies, host upgrades, manual *)
(*            selection and removal of generations                         *)
(*   health   katl-boot-health.service and, when it fails,                 *)
(*            katl-boot-recovery.service                                   *)
(*   deadman  katl-boot-deadman.service, ten minutes after a trial booted  *)
(*                                                                         *)
(* and four places hold it: the generation records, the loader entries on  *)
(* the ESP, selection.json and the boot variables of the firmware.  No     *)
(* write covers two of them, so every order of writes is visible to a      *)
(* power loss.                                                             *)
(*                                                                         *)
(* A procedure reads the records and then makes its writes one by one.     *)
(* The model does the same: an action reads and leaves in plan[p] the      *)
(* writes that follow from what was read; Write(p) makes the next one.     *)
(* A bootctl write carries in `err` the writes that follow its failure.    *)
(* Procedures hold the boot state lock while their plan lasts, except      *)
(* CommitTrial and ArmUpgrade, which take no lock.                         *)
(*                                                                         *)
(* Abstractions.  File writes are atomic and do not fail (they are renames *)
(* of synced files); the writes of a generation's two files are one.       *)
(* Operations of the agent exclude each other (submit mutex, resource      *)
(* locks, mutation lock): there is one operation record, `oper`.           *)
(***************************************************************************)
EXTENDS Integers, Sequences, FiniteSets

CONSTANTS MaxGen,      \* bound: the number of the last generation
          MaxFaults,   \* bound: crashes, failures and replays in a behaviour
          MaxRequests  \* bound: requests to the agent in a behaviour

ASSUME MaxGenAssumption == MaxGen \in Nat
ASSUME BudgetAssumption == MaxFaults \in Nat /\ MaxRequests \in Nat

-----------------------------------------------------------------------------
(* The durable records of internal/generation that decide what a node boots *)
(* and what a boot proves, with the pure functions the code applies to them. *)
(* A generation is its number in order of creation; its loader entry        *)
(* (loader/entries/katl-<id>.conf) is written as the same number.           *)
(* healthState follows bootState in every write and is left out, as are     *)
(* generation0FallbackID, pendingTransactionID, persistentDefaultPromotion  *)
(* and timestamps, which no decision reads.                                 *)

Gens == 0..MaxGen
NoGen == -1
Pointer == Gens \cup {NoGen}

\* "none": not created yet; "removed": its record and entry are gone.
Status == [commit: {"none", "candidate", "committed", "superseded",
                    "abandoned", "removed"},
           boot: {"pending", "trying", "good", "failed"},
           avail: BOOLEAN]

\* selection.json.  defE and prevE are the boot entries recorded beside the
\* default and the previous known-good generation; target and trial entries
\* always are those of their generations.
Selection == [def: Pointer, defE: Pointer, tgt: Pointer, trial: Pointer,
              prev: Pointer, prevE: Pointer, booted: Pointer, active: Pointer,
              failed: Pointer, pending: BOOLEAN, oneShot: BOOLEAN, recov: BOOLEAN]

Exists(x) == x.commit \notin {"none", "removed"}
Accepted(x) == x.commit \in {"committed", "superseded"}
IsKnownGood(x) == x.avail /\ Accepted(x) /\ x.boot = "good"

Good(x) == [x EXCEPT !.commit = "committed", !.boot = "good"]
Failed(x) == [x EXCEPT !.boot = "failed"]
Superseded(x) == [x EXCEPT !.commit = "superseded"]

\* The transitions writeStatusRecord accepts.
ValidateCommitTransition(from, to) ==
  from = to \/ <<from, to>> \in {<<"candidate", "committed">>, <<"candidate", "abandoned">>,
                                 <<"committed", "superseded">>, <<"superseded", "committed">>}

ValidateBootTransition(from, to) ==
  from = to \/ <<from, to>> \in {<<"pending", "trying">>, <<"pending", "good">>,
                                 <<"pending", "failed">>, <<"trying", "good">>,
                                 <<"trying", "failed">>, <<"good", "failed">>,
                                 <<"failed", "good">>}

ValidateStatusTransition(x, y) ==
  ValidateCommitTransition(x.commit, y.commit) /\ ValidateBootTransition(x.boot, y.boot)

\* Initialize: the first generation and the selection the installer writes.
FirstStatus == [commit |-> "committed", boot |-> "pending", avail |-> TRUE]
FirstSelection ==
  [def |-> 0, defE |-> 0, tgt |-> 0, trial |-> NoGen, prev |-> NoGen,
   prevE |-> NoGen, booted |-> NoGen, active |-> NoGen, failed |-> NoGen,
   pending |-> TRUE, oneShot |-> FALSE, recov |-> FALSE]

\* The generation a mutation starts from.
Current(s) ==
  IF s.active # NoGen THEN s.active
  ELSE IF s.booted # NoGen THEN s.booted ELSE s.def

-----------------------------------------------------------------------------
(* What a boot of generation g proves under selection s.                   *)

IsManualKnownGoodFallback(s, g) == ~s.pending /\ g # s.def /\ g = s.prev

IsFallbackRecovery(s, g) ==
  /\ ~s.pending
  /\ \/ IsManualKnownGoodFallback(s, g)
     \/ s.failed # NoGen /\ g # s.failed /\ g = s.def /\ g = s.prev
     \/ g # s.def /\ g = s.booted /\ g = s.failed

\* The selection accounts for a boot of g that it has not recorded yet.
ExplainsBoot(s, g) ==
  IF s.pending
    THEN g \in {s.tgt, s.trial}
    ELSE \/ g = s.tgt \/ (g = s.def /\ s.oneShot)
         \/ IsManualKnownGoodFallback(s, g)
         \/ g = s.active /\ g = s.def
         \/ s.failed # NoGen /\ g = s.def /\ s.booted = s.failed

InferBootedSelection(s, g) ==
  IF ExplainsBoot(s, g) THEN [s EXCEPT !.booted = g] ELSE s

\* M: does not compare the recorded boot with the running one.
ValidatePending(s, g) == s.pending => g \in {s.tgt, s.trial}

\* validateBootedSelection; the kernel command line is that of generation g.
ValidateBootedSelection(s, g) ==
  /\ s.pending => g \in {s.tgt, s.trial}
  /\ s.booted = g

\* promoteBootedGeneration leaves a manual selection for a later boot alone.
KeepsLaterTarget(s, x, g) ==
  ~s.pending /\ s.tgt # NoGen /\ s.tgt # g /\ g = s.booted /\ IsKnownGood(x)

\* A successful one-shot boot does not become the default.
Temporary(s, g) == s.oneShot /\ g # s.def

\* The default entry after the boot of g passed its health check.
PromotedEntry(s, g) ==
  LET t == InferBootedSelection(s, g)
  IN IF Temporary(s, g) THEN t.defE
     ELSE IF t.tgt # NoGen THEN t.tgt
     ELSE IF t.trial # NoGen THEN t.trial
     ELSE IF IsFallbackRecovery(s, g) THEN g ELSE t.defE

PromotedSelection(s, g) ==
  LET keepPrev == IsFallbackRecovery(s, g) \/ Temporary(s, g) \/ s.def = g
      prev == IF IsFallbackRecovery(s, g) THEN NoGen
              ELSE IF keepPrev THEN s.prev ELSE s.def
      prevE == IF IsFallbackRecovery(s, g) THEN NoGen
               ELSE IF keepPrev THEN s.prevE ELSE s.defE
  IN [def |-> IF Temporary(s, g) THEN s.def ELSE g, defE |-> PromotedEntry(s, g),
      tgt |-> NoGen, trial |-> NoGen, prev |-> prev, prevE |-> prevE,
      booted |-> g, active |-> g, failed |-> NoGen, pending |-> FALSE,
      oneShot |-> Temporary(s, g), recov |-> FALSE]

\* failBootedGeneration: where to go after a failed boot of g.
RollbackChoice(s, g) ==
  IF s.oneShot /\ s.def # g THEN s.def
  ELSE IF s.prev # NoGen THEN s.prev
  ELSE IF s.def # g THEN s.def ELSE NoGen

RollbackEntry(s, g) == IF s.oneShot /\ s.def # g THEN s.defE ELSE s.prevE

\* The selection after a failed boot of g; `ok` says whether RollbackChoice is
\* a known-good generation.
FailedSelection(s, g, ok) ==
  LET choice == RollbackChoice(s, g)
      entry == RollbackEntry(s, g)
      keep == ok \/ choice = NoGen
      oneShotPrev == s.oneShot /\ s.def # g
  IN [s EXCEPT !.failed = g, !.tgt = NoGen, !.trial = NoGen, !.pending = FALSE,
               !.oneShot = FALSE, !.recov = ~ok,
               !.prev = IF ~keep THEN NoGen ELSE IF oneShotPrev THEN choice ELSE @,
               !.prevE = IF ~keep THEN NoGen ELSE IF oneShotPrev THEN entry ELSE @,
               !.def = IF ok THEN choice ELSE @,
               !.defE = IF ok /\ entry # NoGen THEN entry ELSE @]

-----------------------------------------------------------------------------
(* The state of a node *)

VARIABLES
  st,       \* generation -> status.json
  slot,     \* generation -> root slot of its spec
  entries,  \* generations whose loader entry is on the ESP
  sel,      \* selection.json
  efi,      \* LoaderEntryDefault and LoaderEntryOneShot
  mode,     \* the machine: "off", "boot", "up", "broken" (activation failed)
  running,  \* generation on the kernel command line
  armed,    \* /run/katl/boot-health/pending: the fallback it names, or NoGen
  unit,     \* katl-boot-health.service: "start", "recover", "done"
  deadman,  \* katl-boot-deadman: "off", "waiting" for the deadline, "started"
  agent,    \* is the agent serving?
  oper,     \* the non-terminal operation record
  plan,     \* program -> the writes it still has to make
  after,    \* program -> how its run ends once they are made
  holder,   \* who holds the boot state lock
  faults, requests   \* how much of the bounds has been used

disk == <<st, slot, entries, sel, efi>>
volatile == <<mode, running, armed, unit, deadman, agent>>
vars == <<disk, volatile, oper, plan, after, holder, faults, requests>>

Programs == {"agent", "health", "deadman"}
NoHolder == "none"
NoOper == [kind |-> "none", gen |-> NoGen, base |-> NoGen, run |-> FALSE, sameBoot |-> FALSE]

Init ==
  /\ st = [g \in Gens |-> IF g = 0 THEN FirstStatus
                          ELSE [commit |-> "none", boot |-> "pending", avail |-> TRUE]]
  /\ slot = [g \in Gens |-> "a"]
  /\ entries = {0}
  /\ sel = FirstSelection
  /\ efi = [def |-> NoGen, once |-> NoGen]
  /\ mode = "off" /\ running = NoGen /\ armed = NoGen
  /\ unit = "start" /\ deadman = "off" /\ agent = FALSE
  /\ oper = NoOper
  /\ plan = [p \in Programs |-> <<>>]
  /\ after = [p \in Programs |-> "none"]
  /\ holder = NoHolder
  /\ faults = 0 /\ requests = 0

-----------------------------------------------------------------------------
(* Plans.                                                                  *)

WriteSelection(s) == <<[do |-> "selection", sel |-> s]>>
WriteStatus(g, x) == <<[do |-> "status", gen |-> g, status |-> x]>>
RemoveEntry(g) == <<[do |-> "unlink", gen |-> g]>>
ClearRecovery == <<[do |-> "disarm"]>>
DropGenerations(G) == IF G = {} THEN <<>> ELSE <<[do |-> "drop", gens |-> G]>>
SetDefault(g, err) == <<[do |-> "default", gen |-> g, err |-> err]>>
SetOneshot(g, err) == <<[do |-> "oneshot", gen |-> g, err |-> err]>>
When(b, p) == IF b THEN p ELSE <<>>

\* supersedePreviousGeneration
Supersede(g) == When(st[g].commit = "committed", WriteStatus(g, Superseded(st[g])))

Idle(p) == after[p] = "none"

\* Program p has read the records, and goes on with these writes.
Run(p, writes, end) ==
  /\ Idle(p)
  /\ plan' = [plan EXCEPT ![p] = writes]
  /\ after' = [after EXCEPT ![p] = end]

RunLocked(p, writes, end) ==
  /\ holder = NoHolder
  /\ holder' = IF writes = <<>> THEN NoHolder ELSE p
  /\ Run(p, writes, end)

\* p goes on with the rest of its plan, and drops the lock at its end.
Continue(p, rest) ==
  /\ plan' = [plan EXCEPT ![p] = rest]
  /\ holder' = IF rest = <<>> /\ holder = p THEN NoHolder ELSE holder

Write(p) ==
  /\ plan[p] # <<>> /\ Head(plan[p]).do # "drop"
  /\ LET w == Head(plan[p])
     IN /\ sel' = IF w.do = "selection" THEN w.sel ELSE sel
        /\ st' = IF w.do = "status" THEN [st EXCEPT ![w.gen] = w.status] ELSE st
        /\ entries' = IF w.do = "unlink" THEN entries \ {w.gen} ELSE entries
        /\ armed' = IF w.do = "disarm" THEN NoGen ELSE armed
        /\ efi' = IF w.do = "default" THEN [efi EXCEPT !.def = w.gen]
                  ELSE IF w.do = "oneshot" THEN [efi EXCEPT !.once = w.gen] ELSE efi
  /\ Continue(p, Tail(plan[p]))
  /\ UNCHANGED <<slot, mode, running, unit, deadman, agent, oper, after>>

\* InvalidateSlot, the loop at its end: the status of a generation says that its
\* slot is overwritten, then its entry goes.
Drop(p) ==
  /\ plan[p] # <<>> /\ Head(plan[p]).do = "drop"
  /\ \E g \in Head(plan[p]).gens :
       /\ st' = [st EXCEPT ![g].avail = FALSE]
       /\ Continue(p, RemoveEntry(g) \o DropGenerations(Head(plan[p]).gens \ {g})
                      \o Tail(plan[p]))
  /\ UNCHANGED <<slot, entries, sel, efi, volatile, oper, after>>

\* bootctl reports an error, before or after it set the variable.
EfiError(p) ==
  /\ plan[p] # <<>> /\ Head(plan[p]).do \in {"default", "oneshot"}
  /\ LET w == Head(plan[p])
     IN /\ efi' \in {efi, IF w.do = "default" THEN [efi EXCEPT !.def = w.gen]
                                              ELSE [efi EXCEPT !.once = w.gen]}
        /\ Continue(p, w.err)
  /\ after' = [after EXCEPT ![p] = "failed"]
  /\ UNCHANGED <<st, slot, entries, sel, volatile, oper>>

-----------------------------------------------------------------------------
(* The machine.                                                            *)

\* External: systemd-boot takes the one-shot entry, then the default entry,
\* then the newest one on the menu.
FirmwareChoice ==
  IF efi.once \in entries THEN efi.once
  ELSE IF efi.def \in entries THEN efi.def
  ELSE CHOOSE g \in entries : \A h \in entries : h <= g

Boot ==
  /\ mode = "off" /\ entries # {}
  /\ mode' = "boot"
  /\ running' = FirmwareChoice
  /\ efi' = [efi EXCEPT !.once = NoGen]
  /\ UNCHANGED <<st, slot, entries, sel, armed, unit, deadman, agent, oper, plan, after,
                 holder>>

PowerOff ==
  /\ mode' = "off" /\ running' = NoGen /\ armed' = NoGen
  /\ unit' = "start" /\ deadman' = "off" /\ agent' = FALSE
  /\ oper' = [oper EXCEPT !.run = FALSE, !.sameBoot = FALSE]
  /\ plan' = [p \in Programs |-> <<>>]
  /\ after' = [p \in Programs |-> "none"]
  /\ holder' = NoHolder
  /\ UNCHANGED <<disk>>

\* A power loss, or the reset of a machine that hangs.
PowerLoss == mode # "off" /\ PowerOff

\* The operator reboots a node on which nothing is going on.
Reboot == mode # "off" /\ unit = "done" /\ oper = NoOper /\ (\A p \in Programs : Idle(p)) /\ PowerOff

\* validBootRecoveryTarget
ValidBootRecoveryTarget(s, g) ==
  /\ IsKnownGood(st[g]) /\ g \in entries
  /\ s.prevE = g \/ (s.prevE = NoGen /\ s.def = g /\ s.defE = g)

\* ArmBootRecovery
ArmBootRecovery(s, g) ==
  IF /\ s.pending /\ g \in {s.trial, s.tgt}
     /\ s.prev \notin {NoGen, g} /\ ValidBootRecoveryTarget(s, s.prev)
    THEN s.prev ELSE NoGen

\* katl-generation-activate: arm recovery, record what booted, activate the
\* extensions.  The agent and katl-boot-health need it; when it fails
\* katl-boot-recovery is started in their place.
BootValidated ==
  /\ Exists(st[running])
  /\ ValidateBootedSelection(InferBootedSelection(sel, running), running)

ActivateWith(result) ==
  /\ mode = "boot" /\ mode' = result
  /\ armed' = ArmBootRecovery(sel, running)
  /\ deadman' = IF armed' # NoGen THEN "waiting" ELSE "off"
  /\ unit' = IF result = "up" THEN "start" ELSE "recover"
  /\ sel' = IF BootValidated THEN InferBootedSelection(sel, running) ELSE sel
  /\ UNCHANGED <<st, slot, entries, efi, running, agent, oper, plan, after, holder>>

Activate == mode = "boot" /\ ActivateWith(IF BootValidated THEN "up" ELSE "broken")

\* The extensions or the hostname cannot be activated.
ActivationFailure == mode = "boot" /\ BootValidated /\ ActivateWith("broken")

-----------------------------------------------------------------------------
(* Boot health.                                                            *)

\* promoteBootedGeneration: the writes that record a successful boot.
PromoteBooted ==
  LET g == running
      s == InferBootedSelection(sel, g)
  IN When(PromotedEntry(sel, g) # s.defE, SetDefault(PromotedEntry(sel, g), <<>>))
     \o When(st[g] # Good(st[g]), WriteStatus(g, Good(st[g])))
     \o When(~Temporary(sel, g) /\ sel.def # g, Supersede(sel.def))
     \o WriteSelection(PromotedSelection(sel, g))

\* bootRecoveryArmed
BootRecoveryArmed ==
  armed # NoGen /\ sel.prev = armed /\ ValidBootRecoveryTarget(sel, armed)

\* validRollbackTarget of RollbackChoice; the running generation has just been
\* marked failed.
RollbackAvailable(s) ==
  LET choice == RollbackChoice(s, running)
  IN choice \notin {NoGen, running} /\ IsKnownGood(st[choice])

RebootRequested(s) == BootRecoveryArmed /\ RollbackAvailable(s)

\* M: leaves the authorization of the reboot in place.
FailBootedStillArmed(requestReboot) ==
  LET s == InferBootedSelection(sel, running)
      new == FailedSelection(s, running, RollbackAvailable(s))
  IN When(st[running].boot # "failed", WriteStatus(running, Failed(st[running])))
     \o When(RollbackAvailable(s) /\ new.defE # s.defE, SetDefault(new.defE, <<>>))
     \o WriteSelection(new)

\* failBootedGeneration, forced: every unit that reports a failure forces it.
FailBooted(requestReboot) ==
  LET s == InferBootedSelection(sel, running)
      new == FailedSelection(s, running, RollbackAvailable(s))
  IN When(st[running].boot # "failed", WriteStatus(running, Failed(st[running])))
     \o When(RollbackAvailable(s) /\ new.defE # s.defE, SetDefault(new.defE, <<>>))
     \o When(requestReboot /\ RebootRequested(s), ClearRecovery)
     \o WriteSelection(new)

\* katl-boot-health.service runs, the first time in this boot or again.
HealthRun(writes, end) ==
  /\ unit \in {"start", "done"}
  /\ unit' = "start"
  /\ RunLocked("health", writes, end)
  /\ UNCHANGED <<disk, mode, running, armed, deadman, agent, oper>>

HealthSuccess ==
  LET g == running
  IN mode = "up" /\
     IF ~BootValidated \/ ~st[g].avail \/ ~Accepted(st[g])
       THEN HealthRun(<<>>, "failed")
       ELSE HealthRun(When(~KeepsLaterTarget(sel, st[g], g), PromoteBooted), "ok")

\* The management network of a generation not known to be good stays down.
HealthNetworkFailure ==
  /\ mode = "up" /\ Exists(st[running]) /\ ~IsKnownGood(st[running])
  /\ HealthRun(When(BootValidated, FailBooted(FALSE)), "failed")

\* A unit that katl-boot-health.service requires fails.
HealthDependencyFailure ==
  /\ mode = "up" /\ unit = "start" /\ Idle("health")
  /\ unit' = "recover"
  /\ UNCHANGED <<disk, mode, running, armed, deadman, agent, oper, plan, after, holder>>

FailAndReboot(p) ==
  /\ RunLocked(p, When(BootValidated, FailBooted(TRUE)),
               IF BootValidated /\ RebootRequested(InferBootedSelection(sel, running))
                 THEN "reboot" ELSE "failed")
  /\ UNCHANGED <<disk, mode, running, armed, agent, oper>>

Recovery ==
  /\ mode \in {"up", "broken"} /\ unit = "recover"
  /\ FailAndReboot("health")
  /\ UNCHANGED <<unit, deadman>>

\* M: the deadline counts only once the health service has failed.
DeadlineOnFailure ==
  /\ mode \in {"up", "broken"} /\ deadman = "waiting" /\ armed # NoGen /\ unit = "recover"
  /\ deadman' = "started"
  /\ UNCHANGED <<disk, mode, running, armed, unit, agent, oper, plan, after, holder>>

\* The deadline passes; ConditionPathExists starts the service only while
\* recovery is armed.
DeadlinePasses ==
  /\ mode \in {"up", "broken"} /\ deadman = "waiting" /\ armed # NoGen
  /\ deadman' = "started"
  /\ UNCHANGED <<disk, mode, running, armed, unit, agent, oper, plan, after, holder>>

\* The service has the lock, perhaps after the health service has released it.
Deadman ==
  /\ mode \in {"up", "broken"} /\ deadman = "started"
  /\ deadman' = "off"
  /\ FailAndReboot("deadman")
  /\ UNCHANGED unit

\* markConfigApplyBootActive fails: the boot is recorded as a success, the
\* service ends as a failure and recovery stays armed.
HealthBookkeepingFailure ==
  /\ after["health"] = "ok" /\ plan["health"] = <<>>
  /\ after' = [after EXCEPT !["health"] = "failed"]
  /\ UNCHANGED <<disk, volatile, oper, plan, holder>>

\* The program exits: success disarms recovery, SuccessAction=reboot reboots,
\* and a failed health service starts the recovery service.
Exit(p) ==
  /\ p \in {"health", "deadman"}
  /\ ~Idle(p) /\ plan[p] = <<>>
  /\ IF after[p] = "reboot"
       THEN PowerOff
       ELSE /\ armed' = IF after[p] = "ok" THEN NoGen ELSE armed
            /\ unit' = IF p = "deadman" THEN unit
                       ELSE IF after[p] = "failed" /\ unit = "start" THEN "recover" ELSE "done"
            /\ after' = [after EXCEPT ![p] = "none"]
            /\ UNCHANGED <<disk, mode, running, deadman, agent, oper, plan, holder>>

-----------------------------------------------------------------------------
(* The agent.                                                              *)

AgentOnly == UNCHANGED <<slot, sel, efi, mode, running, armed, unit, deadman>>

Serving == mode = "up" /\ agent /\ Idle("agent")

\* The agent is executing an operation that has got this far.
Executing(kind) == Serving /\ oper.run /\ oper.kind = kind

\* The next generation number that has never been used.
Fresh(g) == st[g].commit = "none" /\ \A h \in Gens : h < g => st[h].commit # "none"

\* ValidateMutationBase
MutationBaseValid ==
  /\ ~sel.recov /\ ~sel.pending /\ sel.trial = NoGen
  /\ sel.tgt \in {NoGen, Current(sel)}
  /\ \A g \in Gens : st[g].commit # "candidate"

\* executeConfigApply: the base is checked; a live apply is marked as started
\* (markLiveConfigApplyStarted) before it renders or touches anything.
ApplyConfig(g, live) ==
  /\ Serving /\ oper = NoOper /\ holder = NoHolder
  /\ MutationBaseValid /\ Fresh(g)
  /\ oper' = [kind |-> IF live THEN "startLive" ELSE "start", gen |-> g,
              base |-> Current(sel), run |-> TRUE, sameBoot |-> TRUE]
  /\ UNCHANGED <<disk, volatile, plan, after, holder>>

\* The candidate is rendered from the generation that is current by now, into
\* its slot.  A live apply then changes the running system.
Render ==
  /\ Executing("start") \/ Executing("startLive")
  /\ st' = [st EXCEPT ![oper.gen].commit = "candidate"]
  /\ slot' = [slot EXCEPT ![oper.gen] = slot[Current(sel)]]
  /\ oper' = [oper EXCEPT !.kind = IF @ = "start" THEN "render" ELSE "live",
                          !.base = Current(sel)]
  /\ UNCHANGED <<entries, sel, efi, volatile, plan, after, holder>>

\* The operation fails between two procedures and is not rolled back: a
\* candidate it wrote stays behind, a slot it invalidated stays invalid.
OperationFails ==
  /\ Serving /\ oper.run
  /\ oper' = NoOper
  /\ UNCHANGED <<disk, volatile, plan, after, holder>>

\* A live apply that was rolled back: abandonCandidateGeneration.
Abandon ==
  /\ Executing("live") /\ st[oper.gen].commit = "candidate"
  /\ st' = [st EXCEPT ![oper.gen].commit = "abandoned", ![oper.gen].boot = "failed"]
  /\ oper' = NoOper
  /\ UNCHANGED <<slot, entries, sel, efi, volatile, plan, after, holder>>

LiveSelection(g) ==
  [sel EXCEPT !.def = g, !.defE = g, !.active = g, !.tgt = NoGen, !.trial = NoGen,
              !.pending = FALSE, !.oneShot = FALSE, !.failed = NoGen, !.recov = FALSE,
              !.prev = IF sel.def # g THEN sel.def ELSE @,
              !.prevE = IF sel.def # g THEN sel.defE ELSE @]

\* M: forgets that an earlier one-shot choice may still be set.
PromoteLiveWithoutOneshot(g, resuming) ==
  When(~resuming, WriteStatus(g, Good(st[g])))
  \o When(sel.def # g, Supersede(sel.def))
  \o WriteSelection(LiveSelection(g))
  \o When(sel.defE # g, SetDefault(g, <<>>))

\* promoteLiveGeneration: status first, EFI last, everything undone when a
\* bootctl call fails.
PromoteLivePlan(g, resuming) ==
  LET old == sel.def
      good == Good(st[g])
      rollback == WriteSelection(sel)
                  \o When(old # g, WriteStatus(old, st[old]))
                  \o WriteStatus(g, Superseded(good))
      restoreDefault == When(sel.defE # g, SetDefault(sel.defE, rollback)) \o rollback
      restoreBoth == SetOneshot(sel.tgt, restoreDefault) \o restoreDefault
  IN When(~resuming, WriteStatus(g, good))
     \o When(old # g, Supersede(old))
     \o WriteSelection(LiveSelection(g))
     \o When(sel.defE # g, SetDefault(g, restoreDefault))
     \o SetOneshot(g, restoreBoth)

PromoteLive ==
  LET g == oper.gen
  IN /\ Executing("live") /\ st[g].commit = "candidate"
     /\ entries' = entries \cup {g}
     /\ RunLocked("agent", PromoteLivePlan(g, FALSE), "ok")
     /\ UNCHANGED <<st, agent, oper>> /\ AgentOnly

\* recoverLivePromotions: finish a promotion whose health receipt is durable.
Resumable ==
  LET g == oper.gen
  IN /\ oper.kind = "live"
     /\ st[g].commit = "committed" /\ IsKnownGood(st[g])
     /\ oper.sameBoot \/ (running = g /\ sel.booted = g /\ ~sel.pending)

ResumeRefused ==
  IF sel.def = oper.gen THEN sel.active # oper.gen \/ sel.pending ELSE sel.def # oper.base

ResumePlan ==
  LET g == oper.gen
  IN IF ResumeRefused THEN <<>>
     ELSE IF sel.def = g THEN SetDefault(g, <<>>) \o SetOneshot(g, <<>>)
     ELSE PromoteLivePlan(g, TRUE)

\* generation.Remove without its guards; nothing to do before the candidate is
\* published.
RemovePlan(g) ==
  IF st[g].commit = "none" THEN <<>> ELSE
  When(sel.failed = g, WriteSelection([sel EXCEPT !.failed = NoGen]))
  \o RemoveEntry(g)
  \o WriteStatus(g, [st[g] EXCEPT !.commit = "removed"])

\* interruptedConfigRender and bootSelectionReferences
Discardable ==
  LET g == oper.gen
  IN /\ oper.kind \in {"start", "render", "trial"} /\ st[g].commit \in {"none", "candidate"}
     /\ g \notin {sel.def, sel.active, sel.booted, sel.tgt, sel.trial, sel.prev, sel.failed}
     /\ ~sel.pending /\ ~sel.recov

\* Serve: the agent starts, after a boot or a crash, and recovers its record.
\* What it cannot recover keeps the operation open, and its locks held.
AgentStart ==
  /\ mode = "up" /\ ~agent /\ agent' = TRUE
  /\ IF Resumable
       THEN RunLocked("agent", ResumePlan, IF ResumeRefused THEN "failed" ELSE "ok")
     ELSE IF Discardable THEN RunLocked("agent", RemovePlan(oper.gen), "ok")
     ELSE UNCHANGED <<plan, after, holder>>
  /\ UNCHANGED <<st, entries, oper>> /\ AgentOnly

\* The agent dies in the middle of an operation.
AgentCrash ==
  /\ agent /\ (oper.run \/ ~Idle("agent"))
  /\ agent' = FALSE
  /\ plan' = [plan EXCEPT !["agent"] = <<>>]
  /\ after' = [after EXCEPT !["agent"] = "none"]
  /\ holder' = IF holder = "agent" THEN NoHolder ELSE holder
  /\ oper' = [oper EXCEPT !.run = FALSE]
  /\ UNCHANGED <<st, entries>> /\ AgentOnly

\* commitTrialGeneration, without the boot state lock.
CommitTrial ==
  LET g == oper.gen
      new == [sel EXCEPT !.tgt = g, !.trial = g, !.prev = sel.def, !.prevE = sel.defE,
                         !.pending = TRUE, !.oneShot = FALSE]
  IN /\ Executing("render")
     /\ entries' = entries \cup {g}
     /\ oper' = [oper EXCEPT !.kind = "trial"]
     /\ Run("agent", WriteSelection(new) \o SetOneshot(g, WriteSelection(sel))
                     \o WriteStatus(g, [st[g] EXCEPT !.commit = "committed", !.boot = "trying"]),
            "ok")
     /\ UNCHANGED <<st, agent, holder>> /\ AgentOnly

\* executeHostUpgrade: the source is checked before the other slot is touched.
HostUpgrade(g) ==
  LET base == Current(sel)
  IN /\ Serving /\ oper = NoOper /\ holder = NoHolder
     /\ MutationBaseValid /\ Fresh(g) /\ IsKnownGood(st[base])
     /\ running # base => sel.booted = running /\ IsKnownGood(st[running])
     /\ slot[running] = slot[base]
     /\ oper' = [kind |-> "upgrade", gen |-> g, base |-> base,
                 run |-> TRUE, sameBoot |-> TRUE]
     /\ UNCHANGED <<disk, volatile, plan, after, holder>>

OtherSlot(x) == IF x = "a" THEN "b" ELSE "a"

\* InvalidateSlot: no generation of the slot can boot once it is overwritten.
InvalidatePlan(G) ==
  LET act == IF sel.active # NoGen THEN sel.active ELSE sel.booted
      chosen == {sel.def, sel.tgt, sel.trial} \cap G # {}
      rest == IF chosen THEN [sel EXCEPT !.def = act, !.defE = act, !.tgt = NoGen,
                                !.trial = NoGen, !.oneShot = FALSE, !.pending = FALSE]
                        ELSE sel
      new == [rest EXCEPT !.prev = IF @ \in G THEN NoGen ELSE @,
                          !.prevE = IF rest.prev \in G THEN NoGen ELSE @,
                          !.failed = IF @ \in G THEN NoGen ELSE @]
  IN When(chosen, SetDefault(act, <<>>) \o SetOneshot(NoGen, <<>>))
     \o WriteSelection(new) \o DropGenerations(G)

InvalidateSlot ==
  LET G == {g \in Gens : Exists(st[g]) /\ slot[g] = OtherSlot(slot[oper.base])}
      act == IF sel.active # NoGen THEN sel.active ELSE sel.booted
      refused == \/ {sel.active, sel.booted} \cap G # {}
                 \/ /\ {sel.def, sel.tgt, sel.trial} \cap G # {}
                    /\ act = NoGen \/ ~IsKnownGood(st[act])
  IN /\ Executing("upgrade")
     /\ RunLocked("agent", When(~refused, InvalidatePlan(G)),
                  IF refused THEN "failed" ELSE "staged")
     /\ UNCHANGED <<st, entries, agent, oper>> /\ AgentOnly

\* The root and UKI are staged: write the candidate and its entry, then arm the
\* trial with the selection of HostUpgradePlan.  No lock.
ArmUpgrade ==
  LET g == oper.gen
      new == [def |-> oper.base, defE |-> oper.base, tgt |-> g, trial |-> g,
              prev |-> oper.base, prevE |-> oper.base, booted |-> NoGen,
              active |-> NoGen, failed |-> NoGen, pending |-> TRUE, oneShot |-> FALSE,
              recov |-> FALSE]
  IN /\ Executing("staged")
     /\ st' = [st EXCEPT ![g].commit = "candidate"]
     /\ slot' = [slot EXCEPT ![g] = OtherSlot(slot[oper.base])]
     /\ entries' = entries \cup {g}
     /\ oper' = [oper EXCEPT !.kind = "arm"]
     /\ Run("agent", WriteSelection(new) \o SetOneshot(g, WriteSelection(sel))
                     \o WriteStatus(g, [st[g] EXCEPT !.commit = "committed", !.boot = "trying"]),
            "ok")
     /\ UNCHANGED <<sel, efi, volatile, holder>>

\* inspect: may this generation boot?
Available(g) == st[g].avail /\ Accepted(st[g]) /\ g \in entries

\* M: keeps only what the node runs and boots by default.
ProtectedDefault(g) == g \in {sel.active, sel.booted, sel.def, sel.tgt, sel.trial}

\* inspect: what keeps a generation.  Extension files shared between
\* generations, which protect more, are left out.
Protected(g) ==
  \/ g \in {sel.active, sel.booted, sel.def, sel.tgt, sel.trial, sel.prev}
  \/ LET rollback(h) == Available(h) /\ IsKnownGood(st[h]) /\ slot[h] = slot[g]
     IN rollback(g) /\ \A h \in Gens : rollback(h) => h <= g

\* generation.Select
SelectPlan(g, oneShot) ==
  LET chosen == [sel EXCEPT !.tgt = g, !.oneShot = oneShot]
      new == IF oneShot THEN chosen
             ELSE [chosen EXCEPT !.def = g, !.defE = g,
                     !.prev = IF sel.def # g THEN sel.def ELSE @,
                     !.prevE = IF sel.def # g THEN sel.defE ELSE @]
      restore == SetDefault(sel.defE, SetOneshot(sel.tgt, <<>>))
                 \o SetOneshot(sel.tgt, <<>>) \o WriteSelection(sel)
  IN WriteSelection(new) \o When(~oneShot, SetDefault(g, restore)) \o SetOneshot(g, restore)

Select(g, oneShot) ==
  /\ Serving /\ oper = NoOper
  /\ ~sel.pending /\ ~sel.recov
  /\ Available(g) /\ IsKnownGood(st[g])
  /\ RunLocked("agent", SelectPlan(g, oneShot), "ok")
  /\ UNCHANGED <<st, entries, agent, oper>> /\ AgentOnly

\* generation.Remove, and one removal of generation.Prune, whose retention
\* limits may call for any unprotected generation.
Remove(g) ==
  /\ Serving /\ oper = NoOper
  /\ ~sel.pending /\ ~sel.recov
  /\ Exists(st[g]) /\ ~Protected(g)
  /\ RunLocked("agent", RemovePlan(g), "ok")
  /\ UNCHANGED <<st, entries, agent, oper>> /\ AgentOnly

\* The procedure is over: the operation ends, or goes on with its next phase.
AgentDone ==
  /\ ~Idle("agent") /\ plan["agent"] = <<>>
  /\ after' = [after EXCEPT !["agent"] = "none"]
  /\ oper' = IF after["agent"] = "staged" THEN [oper EXCEPT !.kind = "staged"] ELSE NoOper
  /\ UNCHANGED <<disk, volatile, plan, holder>>

-----------------------------------------------------------------------------
Requests ==
  \E g \in Gens : \/ HostUpgrade(g) \/ Remove(g)
                 \/ \E live \in BOOLEAN : ApplyConfig(g, live)
                 \/ \E oneShot \in BOOLEAN : Select(g, oneShot)

Faults ==
  \/ PowerLoss \/ AgentCrash \/ OperationFails \/ ActivationFailure
  \/ HealthNetworkFailure \/ HealthDependencyFailure \/ HealthBookkeepingFailure
  \/ unit = "done" /\ HealthSuccess
  \/ \E p \in Programs : EfiError(p)

Steps ==
  \/ Boot \/ Activate \/ Reboot
  \/ unit = "start" /\ HealthSuccess
  \/ Recovery \/ DeadlinePasses \/ Deadman
  \/ AgentStart \/ AgentDone
  \/ Render \/ Abandon \/ PromoteLive \/ CommitTrial \/ InvalidateSlot \/ ArmUpgrade
  \/ \E p \in Programs : Write(p) \/ Drop(p) \/ Exit(p)

Next ==
  \/ Steps /\ UNCHANGED <<faults, requests>>
  \/ Faults /\ faults < MaxFaults /\ faults' = faults + 1 /\ UNCHANGED requests
  \/ Requests /\ requests < MaxRequests /\ requests' = requests + 1 /\ UNCHANGED faults

Spec == Init /\ [][Next]_vars

\* systemd starts the recovery service and the deadline's, programs run on, and
\* the lock is released: WF.  That a request or a boot succeeds is not assumed.
Fairness ==
  LET Quiet == UNCHANGED <<faults, requests>>
  IN /\ WF_vars(Recovery /\ Quiet)
     /\ WF_vars(DeadlinePasses /\ Quiet)
     /\ WF_vars(Deadman /\ Quiet)
     /\ \A p \in Programs : WF_vars((Write(p) \/ Drop(p) \/ Exit(p)) /\ Quiet)

LiveSpec == Spec /\ Fairness

-----------------------------------------------------------------------------
(* Properties.                                                             *)

TypeOK ==
  /\ st \in [Gens -> Status]
  /\ slot \in [Gens -> {"a", "b"}]
  /\ entries \subseteq Gens
  /\ sel \in Selection
  /\ efi \in [def: Pointer, once: Pointer]
  /\ mode \in {"off", "boot", "up", "broken"}
  /\ running \in Pointer /\ armed \in Pointer
  /\ unit \in {"start", "recover", "done"}
  /\ deadman \in {"off", "waiting", "started"} /\ agent \in BOOLEAN
  /\ oper.kind \in {"none", "start", "startLive", "render", "live", "trial", "upgrade",
                    "staged", "arm"}
  /\ after \in [Programs -> {"none", "ok", "failed", "reboot", "staged"}]
  /\ holder \in Programs \cup {NoHolder}

\* Every pointer of selection.json a boot, a fallback or the agent relies on
\* names a generation that exists, whose slot was not invalidated and whose
\* loader entry is on the ESP: Remove, Prune, InvalidateSlot, the discarding of
\* an interrupted apply and unlocked selection writes never undercut it.
PointersBootable ==
  \A g \in {sel.def, sel.tgt, sel.trial, sel.prev, sel.booted, sel.active} \ {NoGen} :
    Exists(st[g]) /\ st[g].avail /\ g \in entries

\* When the agent reports a live apply, a next-boot apply or a host upgrade as
\* done, the firmware will boot its generation next, whatever one-shot choice
\* or default earlier operations left behind.
AcknowledgedIsNext ==
  LET acknowledged == after["agent"] = "ok" /\ plan["agent"] = <<>>
      armsBoot == oper.kind = "live" \/ (oper.run /\ oper.kind \in {"trial", "arm"})
  IN acknowledged /\ armsBoot => FirmwareChoice = oper.gen

\* The failure of the health service and the boot deadline, racing for the
\* same trial, request one automatic reboot between them.
OneAutomaticReboot == Cardinality({p \in Programs : after[p] = "reboot"}) <= 1

\* On a node that is up, bootedGenerationID, from which the agent tells the
\* current generation, is the one on the kernel command line or is unset.
RecordedBootIsRunning == mode = "up" => sel.booted \in {NoGen, running}

\* A trial boot for which recovery was armed does not stay undecided, even when
\* the health service hangs: its generation is promoted or recorded as failed,
\* or the machine leaves it by a reboot.  (The reboot itself may be refused: when
\* bootctl fails, and when a request rewrites the selection before it.)
ArmedTrialDecided ==
  armed # NoGen ~> (armed = NoGen \/ st[running].boot \in {"good", "failed"})

-----------------------------------------------------------------------------
(* What documents say of the program and the code does not guarantee.      *)

\* boot-selection-transaction.md: after a power loss once selection.json names
\* a trial, the next boot continues the trial or reports that it did not start.
\* RecordBootedGeneration instead refuses a boot of the default generation,
\* and with it activation and the agent.
UnstartedTrialReported ==
  mode = "boot" /\ sel.pending /\ Exists(st[running]) => BootValidated

\* boot-health-semantics.md: the boot that follows the failure of a candidate
\* returns to the previous known-good generation.  failBootedGeneration skips
\* SetBootDefault when the recorded default entry is already the fallback's,
\* whatever the firmware variable says.
FailedTrialLeft ==
  \A p \in Programs :
    after[p] = "reboot" /\ plan[p] = <<>> /\ st[running].boot = "failed"
      => FirmwareChoice # running

\* boot-health-semantics.md: a generation is not known-good when only live apply
\* checks passed.  promoteLiveGeneration makes it so before it ever booted.
KnownGoodHasBooted ==
  [][\A g \in Gens : ~IsKnownGood(st[g]) /\ IsKnownGood(st'[g]) => running = g]_vars

\* generations-and-operations.md: an accepted next-boot apply arms the trial.
\* commitTrialGeneration takes no boot state lock, so boot health may replace
\* its selection with one computed before.
AcceptedTrialSelected ==
  after["agent"] = "ok" /\ plan["agent"] = <<>> /\ oper.run /\ oper.kind = "trial"
    => sel.pending /\ sel.trial = oper.gen

\* boot-health-semantics.md: a successful boot removes the authorization and the
\* deadline's service is skipped.  The service tests the authorization before it
\* waits for the lock, and success removes it only after the lock is released.
DeadlineSparesHealthyBoot ==
  plan["deadman"] # <<>> /\ Head(plan["deadman"]).do = "status"
    => st[running].boot # "good"
=============================================================================
