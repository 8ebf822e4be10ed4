------------------------ MODULE BootSelectionProofs -------------------------
(***************************************************************************)
(* Proofs about BootSelection, for any number of generations, requests and *)
(* faults.                                                                 *)
(***************************************************************************)
EXTENDS BootSelection, FiniteSetTheorems, SequenceTheorems, WellFoundedInduction, TLAPS

\* The generations a node can boot: recorded, their slot not overwritten, with a
\* loader entry.
BootableGens == {g \in Gens : Exists(st[g]) /\ st[g].avail /\ g \in entries}

\* The generations a selection relies on.
Names(s) == {s.def, s.tgt, s.trial, s.prev, s.booted, s.active} \ {NoGen}

\* The selections a node in mode m running r may have, when it can boot B: a
\* node that is up has recorded its boot, or has armed a trial over it.
Selections(B, m, r) ==
  {s \in Selection : /\ s.def # NoGen /\ Names(s) \subseteq B
                     /\ m = "up" => s.booted = r \/ (s.booted = NoGen /\ s.pending)}
Settled(S) == {s \in S : ~s.pending}

\* Writes that take nothing away from what can boot; S are the selections they
\* may write.  bootctl calls nest at most three deep.
Live == {x \in Status : Exists(x) /\ x.avail}
Plain(B, S) == [do: {"selection"}, sel: S] \cup [do: {"status"}, gen: B, status: Live]
                 \cup [do: {"disarm"}]
Efi(W) == [do: {"default", "oneshot"}, gen: Pointer, err: Seq(W)]
Writes1(B, S) == Plain(B, S) \cup Efi(Plain(B, S))
Writes2(B, S) == Plain(B, S) \cup Efi(Writes1(B, S))
Writes3(B, S) == Plain(B, S) \cup Efi(Writes2(B, S))

\* Writes of a procedure that makes the generations D unbootable.
Gone == {x \in Status : x.commit = "removed"}
Kills(D, S) ==
  [do: {"selection"}, sel: {s \in S : Names(s) \cap D = {}}]
    \cup [do: {"unlink"}, gen: D] \cup [do: {"status"}, gen: D, status: Gone]
    \cup [do: {"drop"}, gens: (SUBSET D) \ {{}}]
    \cup [do: {"default", "oneshot"}, gen: Pointer, err: {<<>>}]

\* A selection is written before anything is taken away.
SelectsFirst(s) ==
  \E i \in 1..Len(s) : /\ s[i].do = "selection"
                       /\ \A j \in 1..(i - 1) : s[j].do \in {"default", "oneshot"}

AllSelections == Selections(BootableGens, mode, running)

\* Operations that leave no trial pending behind them so far.
Quiet == {"start", "startLive", "render", "live", "upgrade", "staged"}
AgentSelections == IF oper.kind \in Quiet THEN Settled(AllSelections) ELSE AllSelections

\* The agent holds the lock to remove generations, none of which is running or
\* the base of its upgrade, or is named by what it will have written by then.
Removing(D) ==
  /\ holder = "agent" /\ oper.kind \notin {"live", "staged"}
  /\ oper.run => oper.kind = "upgrade"
  /\ plan["agent"] \in Seq(Kills(D, AgentSelections))
  /\ Names(sel) \cap D = {} \/ SelectsFirst(plan["agent"])
  /\ running \notin D /\ (oper.kind = "upgrade" => oper.base \notin D)
  /\ \A g \in D : st[g].commit # "none"

Kinds == {"none", "start", "startLive", "render", "live", "trial", "upgrade", "staged", "arm"}

PlansInv ==
  /\ plan = [p \in Programs |-> plan[p]]
  /\ \A p \in {"health", "deadman"} :
       /\ plan[p] \in Seq(Writes3(BootableGens, Settled(AllSelections)))
       /\ plan[p] # <<>> => holder = p
  /\ \/ plan["agent"] \in Seq(Writes3(BootableGens, AgentSelections))
     \/ \E D \in SUBSET Gens : Removing(D)
  /\ \A p \in Programs : after[p] = "none" => plan[p] = <<>>

MachineInv ==
  /\ mode \in {"off", "boot"} => holder = NoHolder /\ \A p \in Programs : after[p] = "none"
  /\ mode # "off" => running \in Gens
  /\ mode = "up" => running \in BootableGens

OperInv ==
  /\ oper \in [kind: Kinds, gen: Pointer, base: Pointer, run: BOOLEAN, sameBoot: BOOLEAN]
  /\ oper.kind # "none" => oper.gen \in Gens /\ oper.base \in Gens
  /\ oper.run => mode = "up" /\ agent
  /\ after["agent"] = "staged" => oper.kind = "upgrade"
  /\ oper.kind \in Quiet => ~sel.pending
  /\ oper.run /\ oper.kind \in {"start", "startLive", "upgrade", "staged"} => st[oper.gen].commit = "none"
  /\ oper.run /\ oper.kind \in {"render", "live"} => Exists(st[oper.gen]) /\ st[oper.gen].avail
  /\ oper.run /\ oper.kind \in {"upgrade", "staged"} => oper.base \in BootableGens
  /\ oper.kind = "live" /\ Accepted(st[oper.gen]) => oper.gen \in entries

\* A reboot is requested by one program, which spends the authorization for it.
Disarms(s) == \E i \in 1..Len(s) : s[i].do = "disarm"
RebootInv ==
  /\ \A p \in Programs : after[p] = "reboot" => armed = NoGen \/ (holder = p /\ Disarms(plan[p]))
  /\ \A p, q \in Programs : after[p] = "reboot" /\ after[q] = "reboot" => p = q

\* Writes that set no one-shot boot, and are not made up for when they fail.
Mild(B, S) == Plain(B, S) \cup [do: {"default"}, gen: Pointer, err: {<<>>}]
MildWrites == Mild(Gens, Selection)

\* Plan s leaves the machine with g as its one-shot boot, from c.
Leaves(s, g, c) ==
  \/ c = g /\ \A i \in 1..Len(s) : s[i].do # "oneshot"
  \/ \E i \in 1..Len(s) : /\ s[i].do = "oneshot" /\ s[i].gen = g
                           /\ \A j \in (i + 1)..Len(s) : s[j].do # "oneshot"

ArmsBoot == oper.kind = "live" \/ (oper.run /\ oper.kind \in {"trial", "arm"})

\* What arms a boot leaves the firmware with its generation, whatever the two
\* services, which never touch the one-shot boot, write in between.
NextBootInv ==
  /\ \A p \in {"health", "deadman"} : plan[p] \in Seq(MildWrites)
  /\ after["agent"] = "ok" /\ ArmsBoot =>
       oper.gen \in entries /\ Leaves(plan["agent"], oper.gen, efi.once)

IInv ==
  /\ TypeOK
  /\ sel \in AllSelections
  /\ \A g \in Gens : st[g].commit = "none" => st[g].avail
  /\ PlansInv /\ MachineInv /\ OperInv /\ RebootInv

-----------------------------------------------------------------------------
(* Facts about plans.                                                      *)

\* What is made of plans is a plan.
LEMMA PlansCompose ==
  ASSUME NEW W, NEW a \in Seq(W), NEW b \in Seq(W), NEW c \in BOOLEAN
  PROVE  a \o b \in Seq(W) /\ When(c, a) \in Seq(W)
<1>1. a \o b \in Seq(W)
  BY ConcatProperties
<1>2. <<>> \in Seq(W)
  BY EmptySeq
<1> QED BY <1>1, <1>2 DEF When

\* A larger set of writes has more plans.
LEMMA SeqMono == ASSUME NEW S, NEW T, S \subseteq T PROVE Seq(S) \subseteq Seq(T)
  BY SeqMonotonic

\* The single writes.
LEMMA PlainWrites ==
  ASSUME NEW B, NEW S
  PROVE  /\ \A s \in S : WriteSelection(s) \in Seq(Plain(B, S))
         /\ \A g \in B, x \in Live : WriteStatus(g, x) \in Seq(Plain(B, S))
         /\ ClearRecovery \in Seq(Plain(B, S))
         /\ <<>> \in Seq(Plain(B, S))
<1>1. \A s \in S : [do |-> "selection", sel |-> s] \in Plain(B, S)
  BY DEF Plain
<1>2. \A g \in B, x \in Live : [do |-> "status", gen |-> g, status |-> x] \in Plain(B, S)
  BY DEF Plain
<1>3. [do |-> "disarm"] \in Plain(B, S)
  BY DEF Plain
<1> HIDE DEF Plain
<1> QED BY <1>1, <1>2, <1>3 DEF WriteSelection, WriteStatus, ClearRecovery

\* The calls of bootctl, with what follows their failure.
LEMMA EfiWrites ==
  ASSUME NEW W, NEW g \in Pointer, NEW e \in Seq(W)
  PROVE  SetDefault(g, e) \in Seq(Efi(W)) /\ SetOneshot(g, e) \in Seq(Efi(W))
<1>1. /\ [do |-> "default", gen |-> g, err |-> e] \in Efi(W)
      /\ [do |-> "oneshot", gen |-> g, err |-> e] \in Efi(W)
  BY DEF Efi
<1> QED BY <1>1 DEF SetDefault, SetOneshot

\* More may follow a failure when more may be written.
LEMMA EfiMono == ASSUME NEW V, NEW W, V \subseteq W PROVE Efi(V) \subseteq Efi(W)
  BY SeqMono DEF Efi

\* A plan may be deeper than it needs to be.
LEMMA WritesNest ==
  ASSUME NEW B, NEW S
  PROVE  /\ Plain(B, S) \subseteq Writes1(B, S) /\ Plain(B, S) \subseteq Writes2(B, S)
         /\ Plain(B, S) \subseteq Writes3(B, S)
         /\ Writes1(B, S) \subseteq Writes2(B, S) /\ Writes2(B, S) \subseteq Writes3(B, S)
         /\ Efi(Plain(B, S)) \subseteq Writes1(B, S) /\ Efi(Writes1(B, S)) \subseteq Writes2(B, S)
         /\ Efi(Writes2(B, S)) \subseteq Writes3(B, S)
<1>1. Plain(B, S) \subseteq Writes1(B, S) /\ Plain(B, S) \subseteq Writes2(B, S) /\ Plain(B, S) \subseteq Writes3(B, S)
  BY DEF Writes1, Writes2, Writes3
<1>2. Efi(Plain(B, S)) \subseteq Efi(Writes1(B, S))
  BY <1>1, EfiMono
<1>3. Writes1(B, S) \subseteq Writes2(B, S)
  BY <1>2 DEF Writes1, Writes2
<1>4. Efi(Writes1(B, S)) \subseteq Efi(Writes2(B, S))
  BY <1>3, EfiMono
<1> QED BY <1>1, <1>2, <1>3, <1>4 DEF Writes1, Writes2, Writes3

\* When more can boot and more may be selected, plans stay plans.
LEMMA WritesMono ==
  ASSUME NEW B, NEW C, NEW S, NEW T, B \subseteq C, S \subseteq T
  PROVE  Writes3(B, S) \subseteq Writes3(C, T) /\ Seq(Writes3(B, S)) \subseteq Seq(Writes3(C, T))
<1>1. Plain(B, S) \subseteq Plain(C, T)
  BY DEF Plain
<1>2. Writes1(B, S) \subseteq Writes1(C, T)
  BY <1>1, EfiMono DEF Writes1
<1>3. Writes2(B, S) \subseteq Writes2(C, T)
  BY <1>1, <1>2, EfiMono DEF Writes2
<1>4. Writes3(B, S) \subseteq Writes3(C, T)
  BY <1>1, <1>3, EfiMono DEF Writes3
<1> QED BY <1>4, SeqMono

\* What the first write of a plan can be, and what follows its failure.
LEMMA WriteCases ==
  ASSUME NEW B, NEW S, NEW w \in Writes3(B, S)
  PROVE  /\ w.do \in {"selection", "status", "disarm", "default", "oneshot"}
         /\ w.do = "selection" => w.sel \in S
         /\ w.do = "status" => w.gen \in B /\ w.status \in Live
         /\ w.do \in {"default", "oneshot"} => w.gen \in Pointer /\ w.err \in Seq(Writes3(B, S))
<1>1. CASE w \in Plain(B, S)
  BY <1>1 DEF Plain
<1>2. CASE w \in Efi(Writes2(B, S))
  BY <1>2, WritesNest, SeqMono DEF Efi
<1> QED BY <1>1, <1>2 DEF Writes3

-----------------------------------------------------------------------------
(* Facts about selections.                                                 *)

\* A boot that the selection accounts for is of a generation it names.
LEMMA BootIsNamed ==
  ASSUME NEW s \in Selection, NEW g \in Gens,
         ValidateBootedSelection(InferBootedSelection(s, g), g)
  PROVE  g \in Names(s)
<1>1. g # NoGen
  BY MaxGenAssumption DEF Gens, NoGen
<1>2. CASE ExplainsBoot(s, g)
  BY <1>1, <1>2 DEF ExplainsBoot, IsManualKnownGoodFallback, Names, Selection
<1>3. CASE ~ExplainsBoot(s, g)
  BY <1>1, <1>3 DEF InferBootedSelection, ValidateBootedSelection, Names
<1> QED BY <1>2, <1>3

\* Recording the boot of a generation that can boot.
LEMMA InferredSelection ==
  ASSUME NEW B \in SUBSET Gens, NEW s \in Selection, s.def # NoGen, Names(s) \subseteq B, NEW g \in B
  PROVE  LET t == InferBootedSelection(s, g)
         IN  /\ t \in Selection /\ t.def = s.def /\ t.pending = s.pending
             /\ Names(t) \subseteq B
             /\ t.prev = s.prev /\ t.prevE = s.prevE /\ t.defE = s.defE /\ t.oneShot = s.oneShot
             /\ t.tgt = s.tgt /\ t.trial = s.trial /\ t.active = s.active
<1>1. g \in Pointer
  BY DEF Pointer
<1> QED BY <1>1 DEF InferBootedSelection, Selection, Names

\* What promoteBootedGeneration writes relies on what can boot only.
LEMMA PromotedIsSettled ==
  ASSUME NEW B \in SUBSET Gens, NEW s \in Selection, s.def # NoGen, Names(s) \subseteq B,
         NEW g \in B, NEW m
  PROVE  /\ PromotedSelection(s, g) \in Settled(Selections(B, m, g))
         /\ PromotedEntry(s, g) \in Pointer
<1>1. g \in Pointer /\ NoGen \in Pointer
  BY DEF Pointer
<1>2. PromotedEntry(s, g) \in Pointer
  BY <1>1, InferredSelection DEF PromotedEntry, Selection
<1>3. PromotedSelection(s, g) \in Selection
  BY <1>1, <1>2 DEF PromotedSelection, Selection, Temporary
<1>4. Names(PromotedSelection(s, g)) \subseteq B /\ PromotedSelection(s, g).def # NoGen
  BY MaxGenAssumption DEF PromotedSelection, Names, Selection, Temporary, Gens, NoGen
<1>5. ~PromotedSelection(s, g).pending /\ PromotedSelection(s, g).booted = g
  BY DEF PromotedSelection
<1> QED BY <1>2, <1>3, <1>4, <1>5 DEF Settled, Selections

\* What failBootedGeneration writes relies on what can boot only.
LEMMA FailedIsSettled ==
  ASSUME NEW B \in SUBSET Gens, NEW s \in Selection, s.def # NoGen, Names(s) \subseteq B,
         NEW g \in B, s.booted = g, NEW m, NEW ok \in BOOLEAN, ok => RollbackChoice(s, g) # NoGen
  PROVE  /\ FailedSelection(s, g, ok) \in Settled(Selections(B, m, g))
         /\ FailedSelection(s, g, ok).defE \in Pointer
<1> DEFINE t == FailedSelection(s, g, ok)
<1>1. g \in Pointer /\ NoGen \in Pointer
  BY DEF Pointer
<1>2. RollbackChoice(s, g) \in Pointer /\ RollbackEntry(s, g) \in Pointer
  BY <1>1 DEF RollbackChoice, RollbackEntry, Selection
<1>3. RollbackChoice(s, g) \in B \cup {NoGen}
  BY DEF RollbackChoice, Names
<1>4. t \in Selection
  <2>1. CASE ok
    <3>1. t = [s EXCEPT !.failed = g, !.tgt = NoGen, !.trial = NoGen, !.pending = FALSE,
                 !.oneShot = FALSE, !.recov = FALSE,
                 !.prev = IF s.oneShot /\ s.def # g THEN RollbackChoice(s, g) ELSE @,
                 !.prevE = IF s.oneShot /\ s.def # g THEN RollbackEntry(s, g) ELSE @,
                 !.def = RollbackChoice(s, g),
                 !.defE = IF RollbackEntry(s, g) # NoGen THEN RollbackEntry(s, g) ELSE @]
      BY <2>1 DEF FailedSelection, Selection
    <3>2. \A x1, x2, x3, x4 \in Pointer :
            [s EXCEPT !.failed = g, !.tgt = NoGen, !.trial = NoGen, !.pending = FALSE,
               !.oneShot = FALSE, !.recov = FALSE, !.prev = x1, !.prevE = x2, !.def = x3,
               !.defE = x4] \in Selection
      BY <1>1 DEF Selection
    <3>3. s.prev \in Pointer /\ s.prevE \in Pointer /\ s.defE \in Pointer
      BY DEF Selection
    <3> HIDE DEF t
    <3> QED BY <1>2, <3>1, <3>2, <3>3, ZenonT(30)
  <2>2. CASE ~ok
    <3>1. t = [s EXCEPT !.failed = g, !.tgt = NoGen, !.trial = NoGen, !.pending = FALSE,
                 !.oneShot = FALSE, !.recov = TRUE,
                 !.prev = IF RollbackChoice(s, g) # NoGen THEN NoGen
                          ELSE IF s.oneShot /\ s.def # g THEN RollbackChoice(s, g) ELSE @,
                 !.prevE = IF RollbackChoice(s, g) # NoGen THEN NoGen
                          ELSE IF s.oneShot /\ s.def # g THEN RollbackEntry(s, g) ELSE @]
      BY <2>2 DEF FailedSelection, Selection
    <3> HIDE DEF t
    <3> QED BY <1>1, <1>2, <3>1 DEF Selection
  <2> QED BY <2>1, <2>2
<1>5. /\ t.def = IF ok THEN RollbackChoice(s, g) ELSE s.def
      /\ t.tgt = NoGen /\ t.trial = NoGen /\ t.booted = g /\ t.active = s.active
      /\ t.prev \in {NoGen, s.prev, RollbackChoice(s, g)} /\ ~t.pending
  BY DEF FailedSelection, Selection
<1> HIDE DEF t
<1>6. Names(t) \subseteq B /\ t.def # NoGen
  BY <1>3, <1>5 DEF Names
<1> QED BY <1>4, <1>5, <1>6 DEF Settled, Selections, t, Selection

-----------------------------------------------------------------------------
(* What each procedure plans.                                              *)

\* How plans are put together.
LEMMA Planning ==
  ASSUME NEW B, NEW S
  PROVE  /\ Seq(Plain(B, S)) \subseteq Seq(Writes1(B, S)) /\ Seq(Writes1(B, S)) \subseteq Seq(Writes2(B, S))
         /\ Seq(Writes2(B, S)) \subseteq Seq(Writes3(B, S))
         /\ \A g \in Pointer, e \in Seq(Plain(B, S)) :
              SetDefault(g, e) \in Seq(Writes1(B, S)) /\ SetOneshot(g, e) \in Seq(Writes1(B, S))
         /\ \A g \in Pointer, e \in Seq(Writes1(B, S)) :
              SetDefault(g, e) \in Seq(Writes2(B, S)) /\ SetOneshot(g, e) \in Seq(Writes2(B, S))
         /\ \A g \in Pointer, e \in Seq(Writes2(B, S)) :
              SetDefault(g, e) \in Seq(Writes3(B, S)) /\ SetOneshot(g, e) \in Seq(Writes3(B, S))
<1>1. /\ Seq(Plain(B, S)) \subseteq Seq(Writes1(B, S)) /\ Seq(Writes1(B, S)) \subseteq Seq(Writes2(B, S))
      /\ Seq(Writes2(B, S)) \subseteq Seq(Writes3(B, S))
  BY WritesNest, SeqMono
<1>2. /\ Seq(Efi(Plain(B, S))) \subseteq Seq(Writes1(B, S))
      /\ Seq(Efi(Writes1(B, S))) \subseteq Seq(Writes2(B, S))
      /\ Seq(Efi(Writes2(B, S))) \subseteq Seq(Writes3(B, S))
  BY WritesNest, SeqMono
<1> QED BY <1>1, <1>2, EfiWrites, Zenon

\* How the plans of the services are put together.
LEMMA MildPlanning ==
  ASSUME NEW B, NEW S
  PROVE  /\ Seq(Plain(B, S)) \subseteq Seq(Mild(B, S))
         /\ Seq(Mild(B, S)) \subseteq Seq(Writes3(B, S))
         /\ \A g \in Pointer : SetDefault(g, <<>>) \in Seq(Mild(B, S))
<1>1. Plain(B, S) \subseteq Mild(B, S)
  BY DEF Mild
<1>2. Mild(B, S) \subseteq Writes3(B, S)
  <2>1. <<>> \in Seq(Writes2(B, S))
    BY EmptySeq
  <2> HIDE DEF Writes2, Plain
  <2> QED BY <2>1 DEF Mild, Writes3, Efi
<1>3. \A g \in Pointer : [do |-> "default", gen |-> g, err |-> <<>>] \in Mild(B, S)
  BY DEF Mild
<1>4. ASSUME NEW g \in Pointer PROVE SetDefault(g, <<>>) \in Seq(Mild(B, S))
  <2>1. PICK w \in Mild(B, S) : w = [do |-> "default", gen |-> g, err |-> <<>>]
    BY <1>3
  <2>2. <<w>> \in Seq(Mild(B, S))
    OBVIOUS
  <2> QED BY <2>1, <2>2 DEF SetDefault
<1> QED BY <1>1, <1>2, <1>4, SeqMono

\* Whatever the node can boot, such a plan is made of such writes.
LEMMA MildAnywhere ==
  ASSUME NEW B \in SUBSET Gens, NEW S \in SUBSET Selection
  PROVE  Seq(Mild(B, S)) \subseteq Seq(MildWrites)
<1>1. Mild(B, S) \subseteq MildWrites
  BY DEF Mild, MildWrites, Plain
<1> QED BY <1>1, SeqMono

\* A status write that keeps the generation bootable.
LEMMA StatusesLive ==
  ASSUME NEW x \in Status, x.avail, Exists(x)
  PROVE  /\ Good(x) \in Live /\ Failed(x) \in Live /\ Superseded(x) \in Live /\ x \in Live
         /\ [x EXCEPT !.commit = "committed", !.boot = "trying"] \in Live
         /\ Superseded(Good(x)) \in Live
  BY DEF Status, Live, Exists, Good, Failed, Superseded

\* supersedePreviousGeneration keeps the previous generation bootable.
LEMMA SupersedePlan ==
  ASSUME TypeOK, NEW B \in SUBSET Gens, NEW S, NEW g \in B, st[g].avail, Exists(st[g])
  PROVE  Supersede(g) \in Seq(Plain(B, S))
<1>1. st[g] \in Status
  BY DEF TypeOK
<1>2. Superseded(st[g]) \in Live
  BY <1>1, StatusesLive
<1>3. WriteStatus(g, Superseded(st[g])) \in Seq(Plain(B, S)) /\ <<>> \in Seq(Plain(B, S))
  BY <1>2, PlainWrites
<1> QED BY <1>3 DEF Supersede, When

\* What boots is recorded under a selection that names it.
LEMMA ValidatedBoots ==
  ASSUME TypeOK, sel \in AllSelections, running \in Gens, BootValidated
  PROVE  running \in BootableGens /\ InferBootedSelection(sel, running).booted = running
<1>1. ValidateBootedSelection(InferBootedSelection(sel, running), running)
  BY DEF BootValidated
<1>2. running \in Names(sel)
  BY <1>1, BootIsNamed DEF TypeOK
<1> QED BY <1>1, <1>2 DEF AllSelections, Selections, ValidateBootedSelection

\* promoteBootedGeneration writes only what can boot.
LEMMA PromotePlan ==
  ASSUME TypeOK, sel \in AllSelections, running \in Gens, BootValidated
  PROVE  /\ PromoteBooted \in Seq(Writes3(BootableGens, Settled(AllSelections)))
         /\ PromoteBooted \in Seq(Mild(BootableGens, Settled(AllSelections)))
<1> DEFINE B == BootableGens
           S == Settled(AllSelections)
           s == InferBootedSelection(sel, running)
<1>1. /\ sel \in Selection /\ sel.def # NoGen /\ Names(sel) \subseteq B /\ B \in SUBSET Gens
      /\ sel.def \in B /\ \A g \in B : st[g] \in Status /\ st[g].avail /\ Exists(st[g])
  BY DEF AllSelections, Selections, Names, BootableGens, TypeOK
<1>2. running \in B
  BY ValidatedBoots
<1>3. PromotedSelection(sel, running) \in S /\ PromotedEntry(sel, running) \in Pointer
  BY <1>1, <1>2, PromotedIsSettled DEF AllSelections
<1>4. SetDefault(PromotedEntry(sel, running), <<>>) \in Seq(Mild(B, S))
  BY <1>3, MildPlanning, Zenon
<1>5. WriteStatus(running, Good(st[running])) \in Seq(Mild(B, S))
  <2>1. Good(st[running]) \in Live
    BY <1>1, <1>2, StatusesLive
  <2>2. WriteStatus(running, Good(st[running])) \in Seq(Plain(B, S))
    BY <1>2, <2>1, PlainWrites
  <2> QED BY <2>2, MildPlanning, Zenon
<1>6. Supersede(sel.def) \in Seq(Mild(B, S))
  <2>1. Supersede(sel.def) \in Seq(Plain(B, S))
    BY <1>1, SupersedePlan
  <2> QED BY <2>1, MildPlanning, Zenon
<1>7. WriteSelection(PromotedSelection(sel, running)) \in Seq(Mild(B, S))
  <2>1. WriteSelection(PromotedSelection(sel, running)) \in Seq(Plain(B, S))
    BY <1>3, PlainWrites
  <2> QED BY <2>1, MildPlanning, Zenon
<1> HIDE DEF B, S
<1> DEFINE a == When(PromotedEntry(sel, running) # s.defE, SetDefault(PromotedEntry(sel, running), <<>>))
           b == When(st[running] # Good(st[running]), WriteStatus(running, Good(st[running])))
           c == When(~Temporary(sel, running) /\ sel.def # running, Supersede(sel.def))
           d == WriteSelection(PromotedSelection(sel, running))
<1>8. a \in Seq(Mild(B, S)) /\ b \in Seq(Mild(B, S)) /\ c \in Seq(Mild(B, S))
  BY <1>4, <1>5, <1>6, EmptySeq DEF When
<1>9. PromoteBooted = a \o b \o c \o d
  BY DEF PromoteBooted
<1> HIDE DEF a, b, c, d
<1>10. a \o b \o c \in Seq(Mild(B, S))
  BY <1>8, ConcatProperties
<1>11. (a \o b \o c) \o d \in Seq(Mild(B, S))
  BY <1>7, <1>10, ConcatProperties DEF d
<1> QED BY <1>9, <1>11, MildPlanning, Zenon DEF B, S

\* What is appended to a plan comes after it, and leaves its writes in place.
LEMMA OneAppended ==
  ASSUME NEW W, NEW u \in Seq(W), NEW v \in Seq(W), Len(v) = 1
  PROVE  Len(u) + 1 \in 1..Len(u \o v) /\ (u \o v)[Len(u) + 1] = v[1]
  OBVIOUS

LEMMA StillThere ==
  ASSUME NEW W, NEW u \in Seq(W), NEW v \in Seq(W), NEW i \in 1..Len(u)
  PROVE  i \in 1..Len(u \o v) /\ (u \o v)[i] = u[i]
  OBVIOUS

\* A plan with one more write.
LEMMA OneMore ==
  ASSUME NEW W, NEW x \in Seq(W), NEW y \in Seq(W), Len(y) = 1
  PROVE  x \o y \in Seq(W) /\ Len(x \o y) = Len(x) + 1 /\ Len(x) \in Nat
  BY ConcatProperties, LenProperties

\* failBootedGeneration; a reboot is requested only by a plan that spends the
\* authorization for it.
LEMMA FailPlan ==
  ASSUME TypeOK, sel \in AllSelections, running \in Gens, BootValidated, NEW reboot \in BOOLEAN
  PROVE  /\ FailBooted(reboot) \in Seq(Writes3(BootableGens, Settled(AllSelections)))
         /\ FailBooted(reboot) \in Seq(Mild(BootableGens, Settled(AllSelections)))
         /\ FailBooted(reboot) # <<>>
         /\ reboot /\ RebootRequested(InferBootedSelection(sel, running)) => Disarms(FailBooted(reboot))
<1> DEFINE B == BootableGens
           S == Settled(AllSelections)
           s == InferBootedSelection(sel, running)
           ok == RollbackAvailable(s)
           new == FailedSelection(s, running, ok)
<1>1. /\ sel \in Selection /\ sel.def # NoGen /\ Names(sel) \subseteq B /\ B \in SUBSET Gens
      /\ \A g \in B : st[g] \in Status /\ st[g].avail /\ Exists(st[g])
  BY DEF AllSelections, Selections, Names, BootableGens, TypeOK
<1>2. running \in B /\ s.booted = running
  BY ValidatedBoots
<1>3. s \in Selection /\ s.def # NoGen /\ Names(s) \subseteq B
  BY <1>1, <1>2, InferredSelection
<1>4. ok \in BOOLEAN /\ (ok => RollbackChoice(s, running) # NoGen)
  BY DEF RollbackAvailable
<1> HIDE DEF s, ok
<1>5. new \in S /\ new.defE \in Pointer
  BY <1>1, <1>2, <1>3, <1>4, FailedIsSettled DEF AllSelections
<1> HIDE DEF new
<1> DEFINE a == When(st[running].boot # "failed", WriteStatus(running, Failed(st[running])))
           b == When(ok /\ new.defE # s.defE, SetDefault(new.defE, <<>>))
           c == When(reboot /\ RebootRequested(s), ClearRecovery)
           d == WriteSelection(new)
<1>6. a \in Seq(Mild(B, S))
  <2>1. Failed(st[running]) \in Live
    BY <1>1, <1>2, StatusesLive
  <2>2. WriteStatus(running, Failed(st[running])) \in Seq(Plain(B, S)) /\ <<>> \in Seq(Plain(B, S))
    BY <1>2, <2>1, PlainWrites
  <2>3. a \in Seq(Plain(B, S))
    BY <2>2 DEF When
  <2> QED BY <2>3, MildPlanning, Zenon
<1>7. b \in Seq(Mild(B, S))
  <2>1. SetDefault(new.defE, <<>>) \in Seq(Mild(B, S))
    BY <1>5, MildPlanning, Zenon
  <2> QED BY <2>1, EmptySeq DEF When
<1>8. c \in Seq(Mild(B, S))
  <2>1. ClearRecovery \in Seq(Plain(B, S))
    BY PlainWrites
  <2>2. ClearRecovery \in Seq(Mild(B, S))
    BY <2>1, MildPlanning, Zenon
  <2> QED BY <2>2, EmptySeq DEF When
<1>9. d \in Seq(Mild(B, S))
  <2>1. d \in Seq(Plain(B, S))
    BY <1>5, PlainWrites
  <2> QED BY <2>1, MildPlanning, Zenon
<1>10. FailBooted(reboot) = ((a \o b) \o c) \o d
  BY DEF FailBooted, s, ok, new
<1>11. d # <<>> /\ Len(d) = 1
  BY DEF WriteSelection
<1>12. reboot /\ RebootRequested(s) => c = <<[do |-> "disarm"]>>
  BY DEF When, ClearRecovery
<1> HIDE DEF B, S, a, b, c, d
<1>13. a \o b \in Seq(Mild(B, S))
  BY <1>6, <1>7, ConcatProperties
<1>14. (a \o b) \o c \in Seq(Mild(B, S))
  BY <1>8, <1>13, ConcatProperties
<1>15. /\ ((a \o b) \o c) \o d \in Seq(Mild(B, S))
       /\ Len(((a \o b) \o c) \o d) = Len((a \o b) \o c) + 1
       /\ Len((a \o b) \o c) \in Nat
  BY <1>9, <1>11, <1>14, OneMore
<1>16. ASSUME reboot, RebootRequested(s)
       PROVE  Disarms(FailBooted(reboot))
  <2> DEFINE i == Len(a \o b) + 1
  <2>1. Len(c) = 1 /\ c[1].do = "disarm"
    BY <1>12, <1>16
  <2>2. i \in 1..Len((a \o b) \o c) /\ ((a \o b) \o c)[i] = c[1]
    BY <1>8, <1>13, <2>1, OneAppended
  <2>3. i \in 1..Len(((a \o b) \o c) \o d) /\ (((a \o b) \o c) \o d)[i] = c[1]
    BY <1>9, <1>14, <2>2, StillThere
  <2> QED BY <1>10, <2>1, <2>3 DEF Disarms
<1>17. ((a \o b) \o c) \o d # <<>>
  BY <1>15
<1>18. FailBooted(reboot) \in Seq(Mild(B, S)) /\ FailBooted(reboot) \in Seq(Writes3(B, S))
  BY <1>10, <1>15, MildPlanning, Zenon
<1> QED BY <1>10, <1>16, <1>17, <1>18 DEF B, S, s

\* The selection of a live promotion.
LEMMA LiveIsSettled ==
  ASSUME TypeOK, NEW B \in SUBSET Gens, NEW g \in B, sel \in Settled(Selections(B, mode, running))
  PROVE  LiveSelection(g) \in Settled(Selections(B, mode, running))
<1>1. g \in Pointer /\ NoGen \in Pointer /\ g # NoGen /\ g \in Gens
  BY MaxGenAssumption DEF Pointer, Gens, NoGen
<1>2. sel \in Selection /\ sel.def # NoGen /\ Names(sel) \subseteq B /\ ~sel.pending
      /\ (mode = "up" => sel.booted = running)
  BY DEF Settled, Selections
<1>3. LiveSelection(g) \in Selection
  BY <1>1, <1>2 DEF LiveSelection, Selection
<1>4. /\ LiveSelection(g).def = g /\ LiveSelection(g).active = g
      /\ LiveSelection(g).tgt = NoGen /\ LiveSelection(g).trial = NoGen
      /\ ~LiveSelection(g).pending /\ LiveSelection(g).booted = sel.booted
      /\ LiveSelection(g).prev \in {sel.def, sel.prev}
  BY <1>2 DEF LiveSelection, Selection
<1>5. Names(LiveSelection(g)) \subseteq B
  BY <1>2, <1>4 DEF Names
<1> QED BY <1>1, <1>2, <1>3, <1>4, <1>5 DEF Settled, Selections

\* promoteLiveGeneration
LEMMA LivePlan ==
  ASSUME TypeOK, NEW B \in SUBSET Gens, NEW g \in B, NEW resuming \in BOOLEAN,
         sel \in Settled(Selections(B, mode, running)),
         \A h \in B : Exists(st[h]) /\ st[h].avail
  PROVE  /\ PromoteLivePlan(g, resuming) \in Seq(Writes3(B, Settled(Selections(B, mode, running))))
         /\ \E x \in Seq(Writes3(B, Settled(Selections(B, mode, running)))) : \E e :
              PromoteLivePlan(g, resuming) = x \o SetOneshot(g, e)
<1> DEFINE S == Settled(Selections(B, mode, running))
           old == sel.def
           good == Good(st[g])
           r1 == WriteSelection(sel)
           r2 == When(old # g, WriteStatus(old, st[old]))
           r3 == WriteStatus(g, Superseded(good))
           rollback == (r1 \o r2) \o r3
           d1 == When(sel.defE # g, SetDefault(sel.defE, rollback))
           restoreDefault == d1 \o rollback
           o1 == SetOneshot(sel.tgt, restoreDefault)
           restoreBoth == o1 \o restoreDefault
           x1 == When(~resuming, WriteStatus(g, good))
           x2 == When(old # g, Supersede(old))
           x3 == WriteSelection(LiveSelection(g))
           x4 == When(sel.defE # g, SetDefault(g, restoreDefault))
           x5 == SetOneshot(g, restoreBoth)
<1>1. /\ sel \in Selection /\ old \in B /\ g \in Pointer /\ sel.defE \in Pointer /\ sel.tgt \in Pointer
      /\ \A h \in B : st[h] \in Status
  BY DEF Settled, Selections, Selection, Names, Pointer, TypeOK
<1>2. good \in Live /\ Superseded(good) \in Live /\ st[old] \in Live
  BY <1>1, StatusesLive
<1>3. LiveSelection(g) \in S /\ sel \in S
  BY LiveIsSettled
<1>4. PromoteLivePlan(g, resuming) = (((x1 \o x2) \o x3) \o x4) \o x5
  BY DEF PromoteLivePlan
<1>5. /\ r1 \in Seq(Plain(B, S)) /\ x3 \in Seq(Plain(B, S)) /\ r3 \in Seq(Plain(B, S))
      /\ WriteStatus(old, st[old]) \in Seq(Plain(B, S)) /\ WriteStatus(g, good) \in Seq(Plain(B, S))
      /\ <<>> \in Seq(Plain(B, S))
  BY <1>1, <1>2, <1>3, PlainWrites
<1>6. Supersede(old) \in Seq(Plain(B, S))
  BY <1>1, SupersedePlan
<1>7. r2 \in Seq(Plain(B, S)) /\ x1 \in Seq(Plain(B, S)) /\ x2 \in Seq(Plain(B, S))
  BY <1>5, <1>6 DEF When
<1> HIDE DEF S, old, good, r1, r2, r3, x1, x2, x3
<1>8. r1 \o r2 \in Seq(Plain(B, S))
  BY <1>5, <1>7, ConcatProperties
<1>9. rollback \in Seq(Plain(B, S))
  BY <1>5, <1>8, ConcatProperties
<1> HIDE DEF rollback
<1>10. d1 \in Seq(Writes1(B, S))
  <2>1. SetDefault(sel.defE, rollback) \in Seq(Writes1(B, S))
    BY <1>1, <1>9, Planning, Zenon
  <2> QED BY <2>1, EmptySeq DEF When
<1> HIDE DEF d1
<1>11. restoreDefault \in Seq(Writes1(B, S))
  <2>1. rollback \in Seq(Writes1(B, S))
    BY <1>9, Planning, Zenon
  <2> QED BY <1>10, <2>1, ConcatProperties
<1> HIDE DEF restoreDefault
<1>12. restoreBoth \in Seq(Writes2(B, S))
  <2>1. o1 \in Seq(Writes2(B, S)) /\ restoreDefault \in Seq(Writes2(B, S))
    BY <1>1, <1>11, Planning, Zenon
  <2> HIDE DEF o1
  <2> QED BY <2>1, ConcatProperties
<1> HIDE DEF restoreBoth
<1>13. x4 \in Seq(Writes3(B, S)) /\ x5 \in Seq(Writes3(B, S))
  <2>1. /\ SetDefault(g, restoreDefault) \in Seq(Writes3(B, S))
        /\ x5 \in Seq(Writes3(B, S))
    <3>1. restoreDefault \in Seq(Writes2(B, S))
      BY <1>11, Planning, Zenon
    <3> QED BY <1>1, <1>12, <3>1, Planning, Zenon
  <2> QED BY <2>1, EmptySeq DEF When
<1>14. x1 \in Seq(Writes3(B, S)) /\ x2 \in Seq(Writes3(B, S)) /\ x3 \in Seq(Writes3(B, S))
  BY <1>5, <1>7, Planning, Zenon
<1> HIDE DEF x4, x5
<1>15. x1 \o x2 \in Seq(Writes3(B, S))
  BY <1>14, ConcatProperties
<1>16. (x1 \o x2) \o x3 \in Seq(Writes3(B, S))
  BY <1>14, <1>15, ConcatProperties
<1>17. ((x1 \o x2) \o x3) \o x4 \in Seq(Writes3(B, S))
  BY <1>13, <1>16, ConcatProperties
<1>18. (((x1 \o x2) \o x3) \o x4) \o x5 \in Seq(Writes3(B, S))
  BY <1>13, <1>17, ConcatProperties
<1>19. \E x \in Seq(Writes3(B, S)) : \E e : (((x1 \o x2) \o x3) \o x4) \o x5 = x \o SetOneshot(g, e)
  BY <1>17 DEF x5
<1> QED BY <1>4, <1>18, <1>19 DEF S

\* A resumed promotion.
LEMMA ResumedPlan ==
  ASSUME TypeOK, NEW B \in SUBSET Gens, oper.gen \in B,
         sel \in Settled(Selections(B, mode, running)),
         \A h \in B : Exists(st[h]) /\ st[h].avail
  PROVE  ResumePlan \in Seq(Writes3(B, Settled(Selections(B, mode, running))))
<1> DEFINE S == Settled(Selections(B, mode, running))
           g == oper.gen
<1>1. PromoteLivePlan(g, TRUE) \in Seq(Writes3(B, S))
  BY LivePlan
<1>2. SetDefault(g, <<>>) \in Seq(Writes3(B, S)) /\ SetOneshot(g, <<>>) \in Seq(Writes3(B, S))
  <2>1. g \in Pointer
    BY DEF Pointer
  <2>2. <<>> \in Seq(Writes2(B, S))
    BY EmptySeq
  <2> QED BY <2>1, <2>2, Planning, Zenon
<1> HIDE DEF S
<1>3. SetDefault(g, <<>>) \o SetOneshot(g, <<>>) \in Seq(Writes3(B, S))
  BY <1>2, ConcatProperties
<1>4. <<>> \in Seq(Writes3(B, S))
  BY EmptySeq
<1> QED BY <1>1, <1>3, <1>4 DEF ResumePlan, S

\* A trial, of an apply or of an upgrade: n is its selection.
LEMMA TrialPlan ==
  ASSUME NEW B, NEW S, NEW n \in S, NEW o \in S, NEW g \in B, g \in Pointer, NEW x \in Live
  PROVE  WriteSelection(n) \o SetOneshot(g, WriteSelection(o)) \o WriteStatus(g, x)
           \in Seq(Writes3(B, S))
<1> DEFINE a == WriteSelection(n)
           b == SetOneshot(g, WriteSelection(o))
           c == WriteStatus(g, x)
<1>1. a \in Seq(Plain(B, S)) /\ WriteSelection(o) \in Seq(Plain(B, S)) /\ c \in Seq(Plain(B, S))
  BY PlainWrites
<1>2. a \in Seq(Writes3(B, S)) /\ b \in Seq(Writes3(B, S)) /\ c \in Seq(Writes3(B, S))
  BY <1>1, Planning, Zenon
<1> HIDE DEF a, b, c
<1>3. a \o b \in Seq(Writes3(B, S))
  BY <1>2, ConcatProperties
<1>4. (a \o b) \o c \in Seq(Writes3(B, S))
  BY <1>2, <1>3, ConcatProperties
<1> QED BY <1>4 DEF a, b, c

\* generation.Select
LEMMA ChoicePlan ==
  ASSUME TypeOK, sel \in Settled(AllSelections), NEW g \in BootableGens, NEW oneShot \in BOOLEAN
  PROVE  SelectPlan(g, oneShot) \in Seq(Writes3(BootableGens, AllSelections))
<1> DEFINE B == BootableGens
           S == AllSelections
           chosen == [sel EXCEPT !.tgt = g, !.oneShot = oneShot]
           new == IF oneShot THEN chosen
                  ELSE [chosen EXCEPT !.def = g, !.defE = g,
                          !.prev = IF sel.def # g THEN sel.def ELSE @,
                          !.prevE = IF sel.def # g THEN sel.defE ELSE @]
           a == SetDefault(sel.defE, SetOneshot(sel.tgt, <<>>))
           b == SetOneshot(sel.tgt, <<>>)
           c == WriteSelection(sel)
           restore == (a \o b) \o c
           x == WriteSelection(new)
           y == When(~oneShot, SetDefault(g, restore))
           z == SetOneshot(g, restore)
<1>1. /\ g \in Gens /\ g \in Pointer /\ g # NoGen /\ sel \in Selection /\ sel.def # NoGen
      /\ Names(sel) \subseteq B /\ (mode = "up" => sel.booted = running) /\ sel \in S
      /\ sel.defE \in Pointer /\ sel.tgt \in Pointer
  BY MaxGenAssumption DEF BootableGens, Pointer, Gens, NoGen, Settled, AllSelections, Selections, Selection
<1>2. SelectPlan(g, oneShot) = (x \o y) \o z
  BY DEF SelectPlan
<1>3. new \in S
  <2>1. chosen \in Selection
    BY <1>1 DEF Selection
  <2>2. CASE oneShot
    <3>1. new = chosen
      BY <2>2
    <3>2. /\ chosen.tgt = g /\ chosen.def = sel.def /\ chosen.trial = sel.trial
          /\ chosen.prev = sel.prev /\ chosen.booted = sel.booted /\ chosen.active = sel.active
      BY <1>1 DEF Selection
    <3> HIDE DEF chosen
    <3>3. Names(chosen) \subseteq B
      BY <1>1, <3>2 DEF Names
    <3> QED BY <1>1, <2>1, <3>1, <3>2, <3>3 DEF AllSelections, Selections
  <2>3. CASE ~oneShot
    <3> DEFINE p == IF sel.def # g THEN sel.def ELSE sel.prev
               q == IF sel.def # g THEN sel.defE ELSE sel.prevE
               n == [sel EXCEPT !.tgt = g, !.oneShot = FALSE, !.def = g, !.defE = g,
                                !.prev = p, !.prevE = q]
    <3>1. new = n
      BY <1>1, <2>3 DEF Selection
    <3>2. p \in Pointer /\ q \in Pointer
      BY <1>1 DEF Selection
    <3> HIDE DEF new, p, q
    <3>3. n \in Selection
      BY <1>1, <3>2 DEF Selection
    <3>4. /\ n.tgt = g /\ n.def = g /\ n.trial = sel.trial
          /\ n.prev = p /\ n.booted = sel.booted /\ n.active = sel.active
      BY <1>1 DEF Selection
    <3>5. p \in {sel.def, sel.prev}
      BY DEF p
    <3> HIDE DEF n
    <3>6. Names(n) \subseteq B
      BY <1>1, <3>4, <3>5 DEF Names
    <3> QED BY <1>1, <3>1, <3>3, <3>4, <3>6 DEF AllSelections, Selections
  <2> QED BY <2>2, <2>3
<1> HIDE DEF S, chosen, new
<1>4. b \in Seq(Writes1(B, S)) /\ c \in Seq(Plain(B, S)) /\ x \in Seq(Plain(B, S))
  BY <1>1, <1>3, PlainWrites, Planning, Zenon
<1>5. a \in Seq(Writes2(B, S)) /\ b \in Seq(Writes2(B, S)) /\ c \in Seq(Writes2(B, S))
  <2>1. a \in Seq(Writes2(B, S))
    BY <1>1, <1>4, Planning, Zenon
  <2>2. c \in Seq(Writes1(B, S))
    BY <1>4, Planning, Zenon
  <2> QED BY <1>4, <2>1, <2>2, Planning, Zenon
<1> HIDE DEF a, b, c
<1>6. a \o b \in Seq(Writes2(B, S))
  BY <1>5, ConcatProperties
<1>7. restore \in Seq(Writes2(B, S))
  BY <1>5, <1>6, ConcatProperties
<1> HIDE DEF restore
<1>8. /\ x \in Seq(Writes3(B, S)) /\ z \in Seq(Writes3(B, S))
      /\ SetDefault(g, restore) \in Seq(Writes3(B, S))
  BY <1>1, <1>4, <1>7, Planning, Zenon
<1>9. y \in Seq(Writes3(B, S))
  BY <1>8, EmptySeq DEF When
<1> HIDE DEF x, y, z
<1>10. x \o y \in Seq(Writes3(B, S))
  BY <1>8, <1>9, ConcatProperties
<1>11. (x \o y) \o z \in Seq(Writes3(B, S))
  BY <1>8, <1>10, ConcatProperties
<1> QED BY <1>2, <1>11 DEF S

\* The writes of a removal.
LEMMA KillingWrites ==
  ASSUME NEW D, NEW S
  PROVE  /\ \A s \in S : Names(s) \cap D = {} => WriteSelection(s) \in Seq(Kills(D, S))
         /\ \A g \in D : RemoveEntry(g) \in Seq(Kills(D, S))
         /\ \A g \in D, x \in Gone : WriteStatus(g, x) \in Seq(Kills(D, S))
         /\ \A G \in SUBSET D : DropGenerations(G) \in Seq(Kills(D, S))
         /\ \A g \in Pointer : SetDefault(g, <<>>) \in Seq(Kills(D, S)) /\ SetOneshot(g, <<>>) \in Seq(Kills(D, S))
<1>1. \A s \in S : Names(s) \cap D = {} => [do |-> "selection", sel |-> s] \in Kills(D, S)
  BY DEF Kills
<1>2. \A g \in D : [do |-> "unlink", gen |-> g] \in Kills(D, S)
  BY DEF Kills
<1>3. \A g \in D, x \in Gone : [do |-> "status", gen |-> g, status |-> x] \in Kills(D, S)
  BY DEF Kills
<1>4. \A G \in SUBSET D : G # {} => [do |-> "drop", gens |-> G] \in Kills(D, S)
  BY DEF Kills
<1>5. \A g \in Pointer : /\ [do |-> "default", gen |-> g, err |-> <<>>] \in Kills(D, S)
                         /\ [do |-> "oneshot", gen |-> g, err |-> <<>>] \in Kills(D, S)
  BY DEF Kills
<1> HIDE DEF Kills
<1>6. <<>> \in Seq(Kills(D, S))
  BY EmptySeq
<1> QED BY <1>1, <1>2, <1>3, <1>4, <1>5, <1>6
    DEF WriteSelection, RemoveEntry, WriteStatus, DropGenerations, SetDefault, SetOneshot

\* generation.Remove
LEMMA RemovalPlan ==
  ASSUME TypeOK, NEW S, NEW g \in Gens, st[g].commit # "none", g \notin Names(sel),
         sel.failed = g => [sel EXCEPT !.failed = NoGen] \in S, sel \in Selection
  PROVE  RemovePlan(g) \in Seq(Kills({g}, S)) /\ RemovePlan(g) # <<>>
<1> DEFINE a == When(sel.failed = g, WriteSelection([sel EXCEPT !.failed = NoGen]))
           b == RemoveEntry(g)
           c == WriteStatus(g, [st[g] EXCEPT !.commit = "removed"])
<1>1. RemovePlan(g) = (a \o b) \o c
  BY DEF RemovePlan
<1>2. a \in Seq(Kills({g}, S))
  <2>1. CASE sel.failed = g
    <3>1. Names([sel EXCEPT !.failed = NoGen]) \cap {g} = {}
      BY DEF Names, Selection
    <3>2. WriteSelection([sel EXCEPT !.failed = NoGen]) \in Seq(Kills({g}, S))
      BY <2>1, <3>1, KillingWrites
    <3> QED BY <2>1, <3>2 DEF When
  <2>2. CASE sel.failed # g
    BY <2>2, EmptySeq DEF When
  <2> QED BY <2>1, <2>2
<1>3. b \in Seq(Kills({g}, S))
  BY KillingWrites
<1>4. c \in Seq(Kills({g}, S)) /\ Len(c) = 1
  <2>1. [st[g] EXCEPT !.commit = "removed"] \in Gone
    BY DEF TypeOK, Gone, Status
  <2>2. c \in Seq(Kills({g}, S))
    BY <2>1, KillingWrites
  <2> QED BY <2>2 DEF WriteStatus
<1> HIDE DEF a, b, c
<1>5. a \o b \in Seq(Kills({g}, S))
  BY <1>2, <1>3, ConcatProperties
<1>6. (a \o b) \o c \in Seq(Kills({g}, S)) /\ Len((a \o b) \o c) = Len(a \o b) + 1 /\ Len(a \o b) \in Nat
  BY <1>4, <1>5, OneMore
<1>7. (a \o b) \o c # <<>>
  BY <1>6
<1> QED BY <1>1, <1>6, <1>7

\* InvalidateSlot: what it selects names none of the generations it drops, and it
\* is written before any of them is dropped.
LEMMA InvalidationPlan ==
  ASSUME TypeOK, sel \in Settled(AllSelections), NEW G \in SUBSET Gens,
         {sel.active, sel.booted} \cap G = {},
         {sel.def, sel.tgt, sel.trial} \cap G # {} =>
           (IF sel.active # NoGen THEN sel.active ELSE sel.booted) # NoGen
  PROVE  /\ InvalidatePlan(G) \in Seq(Kills(G, Settled(AllSelections)))
         /\ InvalidatePlan(G) # <<>> /\ SelectsFirst(InvalidatePlan(G))
<1> DEFINE S == Settled(AllSelections)
           act == IF sel.active # NoGen THEN sel.active ELSE sel.booted
           chosen == {sel.def, sel.tgt, sel.trial} \cap G # {}
           rest == IF chosen THEN [sel EXCEPT !.def = act, !.defE = act, !.tgt = NoGen,
                                !.trial = NoGen, !.oneShot = FALSE, !.pending = FALSE]
                   ELSE sel
           new == [rest EXCEPT !.prev = IF @ \in G THEN NoGen ELSE @,
                               !.prevE = IF rest.prev \in G THEN NoGen ELSE @,
                               !.failed = IF @ \in G THEN NoGen ELSE @]
           a == When(chosen, SetDefault(act, <<>>) \o SetOneshot(NoGen, <<>>))
           b == WriteSelection(new)
           c == DropGenerations(G)
<1>1. InvalidatePlan(G) = (a \o b) \o c
  BY DEF InvalidatePlan
<1>2. new \in S /\ Names(new) \cap G = {}
  <2>0. /\ (chosen => act # NoGen) /\ (~chosen => {sel.def, sel.tgt, sel.trial} \cap G = {})
        /\ act \in {sel.active, sel.booted}
    OBVIOUS
  <2> HIDE DEF chosen, act
  <2>1. /\ sel \in Selection /\ sel.def # NoGen /\ Names(sel) \subseteq BootableGens /\ ~sel.pending
        /\ NoGen \in Pointer /\ NoGen \notin Gens /\ act \in Pointer
        /\ (mode = "up" => sel.booted = running)
    BY <2>0, MaxGenAssumption DEF Settled, AllSelections, Selections, Selection, Pointer, NoGen, Gens
  <2>2. rest \in Selection
    BY <2>1 DEF Selection
  <2>3. /\ rest.def = IF chosen THEN act ELSE sel.def
        /\ rest.tgt = IF chosen THEN NoGen ELSE sel.tgt
        /\ rest.trial = IF chosen THEN NoGen ELSE sel.trial
        /\ rest.prev = sel.prev /\ rest.booted = sel.booted /\ rest.active = sel.active /\ ~rest.pending
    BY <2>1 DEF Selection
  <2> HIDE DEF rest
  <2>4. new \in Selection
    BY <2>1, <2>2 DEF Selection
  <2>5. /\ new.def = rest.def /\ new.tgt = rest.tgt /\ new.trial = rest.trial
        /\ new.prev = (IF rest.prev \in G THEN NoGen ELSE rest.prev)
        /\ new.booted = rest.booted /\ new.active = rest.active /\ ~new.pending
    BY <2>2, <2>3 DEF Selection
  <2> HIDE DEF new
  <2>6. new.def # NoGen /\ new.def \in Names(sel)
    BY <2>0, <2>1, <2>3, <2>5 DEF Names
  <2>7. Names(new) \subseteq BootableGens
    BY <2>0, <2>1, <2>3, <2>5, <2>6 DEF Names
  <2>8. Names(new) \cap G = {}
    BY <2>0, <2>1, <2>3, <2>5, <2>6 DEF Names
  <2> QED BY <2>1, <2>3, <2>4, <2>5, <2>6, <2>7, <2>8 DEF Settled, AllSelections, Selections
<1>3. act \in Pointer /\ NoGen \in Pointer
  BY DEF TypeOK, Selection, Pointer
<1>4. b \in Seq(Kills(G, S)) /\ c \in Seq(Kills(G, S))
  BY <1>2, KillingWrites
<1>5. b = <<[do |-> "selection", sel |-> new]>>
  BY DEF WriteSelection
<1> HIDE DEF S, new
<1>6. /\ a \in Seq(Kills(G, S))
      /\ \A j \in 1..Len(a) : a[j].do \in {"default", "oneshot"}
  <2>1. CASE chosen
    <3>1. a = SetDefault(act, <<>>) \o SetOneshot(NoGen, <<>>)
      BY <2>1 DEF When
    <3> HIDE DEF a, act
    <3>2. SetDefault(act, <<>>) \in Seq(Kills(G, S)) /\ SetOneshot(NoGen, <<>>) \in Seq(Kills(G, S))
      BY <1>3, KillingWrites
    <3>3. SetDefault(act, <<>>) \o SetOneshot(NoGen, <<>>) \in Seq(Kills(G, S))
      BY <3>2, ConcatProperties
    <3>4. /\ Len(SetDefault(act, <<>>) \o SetOneshot(NoGen, <<>>)) = 2
          /\ (SetDefault(act, <<>>) \o SetOneshot(NoGen, <<>>))[1].do = "default"
          /\ (SetDefault(act, <<>>) \o SetOneshot(NoGen, <<>>))[2].do = "oneshot"
      BY DEF SetDefault, SetOneshot
    <3> QED BY <3>1, <3>3, <3>4
  <2>2. CASE ~chosen
    <3>1. a = <<>>
      BY <2>2 DEF When
    <3> HIDE DEF a
    <3> QED BY <3>1, EmptySeq
  <2> QED BY <2>1, <2>2
<1> HIDE DEF a, b, c
<1>7. a \o b \in Seq(Kills(G, S)) /\ Len(a \o b) = Len(a) + 1 /\ Len(a) \in Nat
  BY <1>4, <1>5, <1>6, OneMore
<1>8. (a \o b) \o c \in Seq(Kills(G, S)) /\ Len((a \o b) \o c) = Len(a \o b) + Len(c) /\ Len(c) \in Nat
  BY <1>4, <1>7, ConcatProperties, LenProperties
<1>9. SelectsFirst((a \o b) \o c)
  <2> DEFINE s == (a \o b) \o c
             i == Len(a) + 1
  <2>1. \A j \in 1..(Len(a) + 1) : s[j] = (a \o b)[j]
    BY <1>4, <1>7, ConcatProperties
  <2>2. (a \o b)[i] = b[1] /\ \A j \in 1..Len(a) : (a \o b)[j] = a[j]
    BY <1>4, <1>5, <1>6, <1>7, ConcatProperties
  <2>3. i \in 1..Len(s) /\ i - 1 = Len(a)
    BY <1>7, <1>8
  <2>4. s[i].do = "selection"
    BY <1>5, <1>7, <2>1, <2>2
  <2>5. \A j \in 1..(i - 1) : s[j].do \in {"default", "oneshot"}
    BY <1>6, <1>7, <2>1, <2>2, <2>3
  <2> QED BY <2>3, <2>4, <2>5 DEF SelectsFirst
<1>10. (a \o b) \o c # <<>>
  BY <1>7, <1>8
<1> QED BY <1>1, <1>8, <1>9, <1>10 DEF S

-----------------------------------------------------------------------------
(* The machine, and the programs it starts.                                *)

\* Steps that leave the records and the running system alone.
LEMMA SameRecords ==
  ASSUME UNCHANGED <<st, entries, mode, running>>
  PROVE  BootableGens' = BootableGens /\ AllSelections' = AllSelections
<1>1. BootableGens' = BootableGens
  BY DEF BootableGens
<1> QED BY <1>1 DEF AllSelections

\* Steps that leave the plans, the records and the operation alone.
LEMMA SamePlans ==
  ASSUME UNCHANGED <<st, entries, mode, running, sel, plan, after, holder, oper>>, PlansInv
  PROVE  PlansInv'
<1>1. BootableGens' = BootableGens /\ AllSelections' = AllSelections
  BY SameRecords
<1>2. AgentSelections' = AgentSelections
  BY <1>1 DEF AgentSelections
<1>3. \A D \in SUBSET Gens : Removing(D)' = Removing(D)
  BY <1>2 DEF Removing
<1> QED BY <1>1, <1>2, <1>3 DEF PlansInv

\* What no one has begun to remove while the lock is free, or another has it.
LEMMA NothingRemoved ==
  ASSUME PlansInv, holder # "agent"
  PROVE  plan["agent"] \in Seq(Writes3(BootableGens, AgentSelections))
  BY DEF PlansInv, Removing

\* A service without the lock has nothing left to write.
LEMMA OthersIdle ==
  ASSUME PlansInv, NEW p \in {"health", "deadman"}, holder # p
  PROVE  plan[p] = <<>>
  BY DEF PlansInv

\* The installer's records, before the first boot.
LEMMA InitIsInvariant == Init => IInv
<1> SUFFICES ASSUME Init PROVE IInv
  OBVIOUS
<1>1. 0 \in Gens /\ NoGen \notin Gens /\ NoGen \in Pointer /\ 0 \in Pointer
  BY MaxGenAssumption DEF Gens, NoGen, Pointer
<1>2. TypeOK
  BY <1>1 DEF Init, TypeOK, Status, FirstStatus, FirstSelection, Selection, NoOper, Programs, NoHolder
<1>3. 0 \in BootableGens
  BY <1>1 DEF Init, BootableGens, FirstStatus, Exists
<1>4. sel \in AllSelections
  <2>1. sel = FirstSelection /\ mode = "off"
    BY DEF Init
  <2>2. Names(sel) = {0}
    BY <1>1, <2>1 DEF Names, FirstSelection, NoGen
  <2>3. sel.def # NoGen
    BY <2>1 DEF FirstSelection, NoGen
  <2> QED BY <1>2, <1>3, <2>1, <2>2, <2>3 DEF TypeOK, AllSelections, Selections
<1>5. \A g \in Gens : st[g].commit = "none" => st[g].avail
  BY DEF Init, FirstStatus
<1>6. PlansInv
  <2>1. plan["agent"] = <<>> /\ \A p \in {"health", "deadman"} : plan[p] = <<>>
    BY DEF Init, Programs
  <2>2. \A W : <<>> \in Seq(W)
    BY EmptySeq
  <2>3. plan = [p \in Programs |-> plan[p]] /\ \A p \in Programs : plan[p] = <<>>
    BY DEF Init
  <2> QED BY <2>1, <2>2, <2>3 DEF PlansInv
<1>7. MachineInv
  BY DEF Init, MachineInv
<1>8. OperInv
  BY <1>1, <1>2 DEF Init, OperInv, NoOper, Kinds, Quiet, TypeOK, Pointer, Programs
<1>9. RebootInv
  BY DEF Init, RebootInv
<1> QED BY <1>2, <1>4, <1>5, <1>6, <1>7, <1>8, <1>9 DEF IInv

\* Everything that runs stops.
LEMMA PowerOffStep == ASSUME IInv, PowerOff PROVE IInv'
<1> USE DEF IInv
<1>0. NoGen \in Pointer
  BY DEF Pointer
<1>1. TypeOK'
  BY <1>0 DEF PowerOff, disk, TypeOK, Programs, NoHolder, OperInv, Kinds
<1>2. BootableGens' = BootableGens
  BY DEF PowerOff, disk, BootableGens
<1>3. sel' \in AllSelections'
  BY <1>2 DEF PowerOff, disk, AllSelections, Selections
<1>4. \A g \in Gens : st'[g].commit = "none" => st'[g].avail
  BY DEF PowerOff, disk
<1>5. PlansInv'
  <2>1. plan'["agent"] = <<>> /\ \A p \in {"health", "deadman"} : plan'[p] = <<>>
    BY DEF PowerOff, Programs
  <2>2. \A W : <<>> \in Seq(W)
    BY EmptySeq
  <2>3. plan' = [p \in Programs |-> plan'[p]] /\ \A p \in Programs : plan'[p] = <<>>
    BY DEF PowerOff
  <2> QED BY <2>1, <2>2, <2>3 DEF PlansInv
<1>6. MachineInv'
  BY DEF PowerOff, MachineInv, NoHolder
<1>7. OperInv'
  <2>1. /\ oper' \in [kind: Kinds, gen: Pointer, base: Pointer, run: BOOLEAN, sameBoot: BOOLEAN]
        /\ oper'.kind = oper.kind /\ oper'.gen = oper.gen /\ oper'.base = oper.base /\ ~oper'.run
    BY DEF PowerOff, OperInv
  <2>2. after'["agent"] = "none"
    BY DEF PowerOff, Programs
  <2> QED BY <2>1, <2>2 DEF OperInv, PowerOff, disk
<1>8. RebootInv'
  BY DEF PowerOff, RebootInv
<1> QED BY <1>1, <1>3, <1>4, <1>5, <1>6, <1>7, <1>8

\* External: the firmware starts an entry that is there.
LEMMA FirmwareChooses == ASSUME TypeOK, entries # {} PROVE FirmwareChoice \in entries
<1>1. CASE efi.once \in entries \/ efi.def \in entries
  BY <1>1 DEF FirmwareChoice
<1>2. CASE efi.once \notin entries /\ efi.def \notin entries
  <2> DEFINE D == {MaxGen - g : g \in entries}
  <2>1. entries \subseteq 0..MaxGen
    BY DEF TypeOK, Gens
  <2>2. D # {} /\ D \subseteq Nat
    <3>1. \A g \in entries : MaxGen - g \in Nat
      BY <2>1, MaxGenAssumption
    <3>2. PICK g \in entries : TRUE
      OBVIOUS
    <3>3. MaxGen - g \in D
      OBVIOUS
    <3> QED BY <3>1, <3>3
  <2>3. PICK x \in D : \A y \in D : ~(<<y, x>> \in OpToRel(<, Nat))
    <3> HIDE DEF D
    <3> QED BY <2>2, NatLessThanWellFounded, WFMin
  <2>4. PICK g \in entries : x = MaxGen - g
    OBVIOUS
  <2>5. ASSUME NEW h \in entries PROVE h <= g
    <3>1. MaxGen - h \in D /\ MaxGen - h \in Nat /\ x \in Nat
      BY <2>2
    <3>2. ~(MaxGen - h < x)
      BY <2>3, <3>1 DEF OpToRel
    <3> QED BY <2>1, <2>4, <3>2, MaxGenAssumption
  <2> QED BY <1>2, <2>5 DEF FirmwareChoice
<1> QED BY <1>1, <1>2

\* The firmware boots an entry: nothing is running yet.
LEMMA BootStep == ASSUME IInv, Boot PROVE IInv'
<1> USE DEF IInv
<1>1. running' \in Gens /\ running' \in Pointer
  BY FirmwareChooses DEF Boot, TypeOK, Pointer
<1>2. TypeOK'
  BY <1>1 DEF Boot, TypeOK, Pointer
<1>3. BootableGens' = BootableGens
  BY DEF Boot, BootableGens
<1>4. sel' \in AllSelections'
  BY <1>3 DEF Boot, AllSelections, Selections
<1>5. \A g \in Gens : st'[g].commit = "none" => st'[g].avail
  BY DEF Boot
<1>6. PlansInv'
  <2>1. holder = NoHolder /\ \A p \in Programs : after[p] = "none" /\ plan[p] = <<>>
    BY DEF Boot, MachineInv, PlansInv
  <2>2. \A W : <<>> \in Seq(W)
    BY EmptySeq
  <2> QED BY <2>1, <2>2 DEF PlansInv, Boot, Programs
<1>7. MachineInv'
  BY <1>1 DEF Boot, MachineInv
<1>8. OperInv'
  BY <1>3 DEF Boot, OperInv
<1>9. RebootInv'
  BY DEF Boot, RebootInv
<1> QED BY <1>2, <1>4, <1>5, <1>6, <1>7, <1>8, <1>9

\* Activation records a boot that the selection accounts for.
LEMMA ActivateStep ==
  ASSUME IInv, mode = "boot", NEW result \in {"up", "broken"}, result = "up" => BootValidated,
         ActivateWith(result)
  PROVE  IInv'
<1> USE DEF IInv
<1> DEFINE s == InferBootedSelection(sel, running)
<1>0. running \in Gens /\ NoGen \in Pointer
  BY DEF MachineInv, Pointer
<1>1. BootableGens' = BootableGens /\ BootableGens \in SUBSET Gens
  BY DEF ActivateWith, BootableGens
<1>2. BootValidated => /\ running \in BootableGens /\ s.booted = running
                       /\ s \in Selection /\ s.def # NoGen /\ s.pending = sel.pending
                       /\ Names(s) \subseteq BootableGens
  <2> SUFFICES ASSUME BootValidated
               PROVE  /\ running \in BootableGens /\ s.booted = running
                      /\ s \in Selection /\ s.def # NoGen /\ s.pending = sel.pending
                      /\ Names(s) \subseteq BootableGens
    OBVIOUS
  <2>1. running \in BootableGens /\ s.booted = running
    BY <1>0, ValidatedBoots
  <2>2. sel \in Selection /\ sel.def # NoGen /\ Names(sel) \subseteq BootableGens
    BY DEF AllSelections, Selections
  <2> QED BY <1>1, <2>1, <2>2, InferredSelection
<1>3. sel' = IF BootValidated THEN s ELSE sel
  BY DEF ActivateWith
<1> HIDE DEF s
<1>4. sel' \in AllSelections'
  <2>1. CASE BootValidated
    BY <1>1, <1>2, <1>3, <2>1 DEF AllSelections, Selections, ActivateWith
  <2>2. CASE ~BootValidated
    BY <1>1, <1>3, <2>2 DEF AllSelections, Selections, ActivateWith
  <2> QED BY <2>1, <2>2
<1>5. TypeOK'
  <2>1. sel' \in Selection
    BY <1>4 DEF AllSelections, Selections
  <2>2. armed' \in Pointer
    BY <1>0 DEF ActivateWith, ArmBootRecovery, TypeOK, Selection
  <2> QED BY <2>1, <2>2 DEF ActivateWith, TypeOK
<1>6. \A g \in Gens : st'[g].commit = "none" => st'[g].avail
  BY DEF ActivateWith
<1>7. PlansInv'
  <2>1. \A p \in Programs : after[p] = "none" /\ plan[p] = <<>>
    BY DEF MachineInv, PlansInv
  <2>2. \A W : <<>> \in Seq(W)
    BY EmptySeq
  <2> QED BY <2>1, <2>2 DEF PlansInv, ActivateWith, Programs
<1>8. MachineInv'
  BY <1>0, <1>1, <1>2 DEF ActivateWith, MachineInv
<1>9. OperInv'
  <2>1. sel'.pending = sel.pending
    BY <1>2, <1>3
  <2>2. ~oper.run
    BY DEF OperInv
  <2> QED BY <1>1, <2>1, <2>2 DEF ActivateWith, OperInv
<1>10. RebootInv'
  BY DEF ActivateWith, RebootInv, MachineInv
<1> QED BY <1>4, <1>5, <1>6, <1>7, <1>8, <1>9, <1>10

-----------------------------------------------------------------------------
(* Boot health, recovery and the deadline.                                 *)

\* A run of the health service or of the deadline's service begins.
LEMMA ServiceRuns ==
  ASSUME IInv, mode \in {"up", "broken"}, NEW p \in {"health", "deadman"}, NEW writes,
         NEW end \in {"ok", "failed", "reboot"},
         RunLocked(p, writes, end),
         UNCHANGED <<disk, mode, running, armed, agent, oper>>,
         unit' \in {"start", "recover", "done"}, deadman' \in {"off", "waiting", "started"},
         writes \in Seq(Writes3(BootableGens, Settled(AllSelections))),
         end = "reboot" => Disarms(writes) /\ writes # <<>> /\ armed # NoGen
  PROVE  IInv'
<1> USE DEF IInv
<1>0. UNCHANGED <<st, slot, entries, sel, efi, mode, running, armed, agent, oper>>
  BY DEF disk
<1>1. /\ plan' = [plan EXCEPT ![p] = writes] /\ after' = [after EXCEPT ![p] = end]
      /\ holder = NoHolder /\ holder' = (IF writes = <<>> THEN NoHolder ELSE p)
      /\ p \in Programs /\ plan = [q \in Programs |-> plan[q]] /\ after \in [Programs -> {"none", "ok", "failed", "reboot", "staged"}]
  BY DEF RunLocked, Run, PlansInv, TypeOK, Programs
<1>2. BootableGens' = BootableGens /\ AllSelections' = AllSelections
  BY <1>0, SameRecords
<1>3. TypeOK'
  BY <1>0, <1>1 DEF TypeOK
<1>4. sel' \in AllSelections' /\ \A g \in Gens : st'[g].commit = "none" => st'[g].avail
  BY <1>0, <1>2
<1>5. /\ plan'[p] = writes /\ after'[p] = end
      /\ \A q \in Programs : q # p => plan'[q] = plan[q] /\ after'[q] = after[q]
      /\ plan' = [q \in Programs |-> plan'[q]]
  BY <1>1
<1>6. PlansInv'
  <2>1. /\ plan["agent"] \in Seq(Writes3(BootableGens, AgentSelections)) /\ plan'["agent"] = plan["agent"]
        /\ AgentSelections' = AgentSelections
    <3>1. holder # "agent" /\ p # "agent" /\ "agent" \in Programs
      BY <1>1 DEF NoHolder, Programs
    <3> QED BY <1>0, <1>2, <1>5, <3>1, NothingRemoved DEF AgentSelections
  <2>2. ASSUME NEW q \in {"health", "deadman"}
        PROVE  /\ plan'[q] \in Seq(Writes3(BootableGens, Settled(AllSelections)))
               /\ plan'[q] # <<>> => holder' = q
    <3>1. CASE q = p
      BY <1>1, <1>5, <3>1
    <3>2. CASE q # p
      <4>1. holder # q /\ q \in Programs
        BY <1>1 DEF NoHolder, Programs
      <4>2. plan[q] = <<>>
        BY <4>1, OthersIdle
      <4> QED BY <1>5, <3>2, <4>1, <4>2 DEF PlansInv
    <3> QED BY <3>1, <3>2
  <2>3. ASSUME NEW q \in Programs, after'[q] = "none" PROVE plan'[q] = <<>>
    BY <1>5, <2>3 DEF PlansInv
  <2> QED BY <1>2, <1>5, <2>1, <2>2, <2>3 DEF PlansInv
<1>7. MachineInv'
  BY <1>0, <1>2 DEF MachineInv
<1>8. OperInv'
  <2>1. after'["agent"] = after["agent"]
    BY <1>5 DEF Programs
  <2> QED BY <1>0, <1>2, <2>1 DEF OperInv
<1>9. RebootInv'
  <2>1. \A q \in Programs : after[q] = "reboot" => armed = NoGen
    BY <1>1 DEF RebootInv, NoHolder, Programs
  <2> QED BY <1>0, <1>1, <1>5, <2>1 DEF RebootInv
<1> QED BY <1>3, <1>4, <1>6, <1>7, <1>8, <1>9

\* katl-boot-health reports success.
LEMMA HealthSuccessStep == ASSUME IInv, HealthSuccess PROVE IInv'
<1> USE DEF IInv
<1>0. running \in Gens /\ mode = "up"
  BY DEF HealthSuccess, MachineInv
<1>1. <<>> \in Seq(Writes3(BootableGens, Settled(AllSelections)))
  BY EmptySeq
<1>2. ASSUME NEW writes \in Seq(Writes3(BootableGens, Settled(AllSelections))),
             NEW end \in {"ok", "failed"}, HealthRun(writes, end)
      PROVE  IInv'
  <2>1. RunLocked("health", writes, end) /\ unit' = "start" /\ deadman' = deadman
        /\ UNCHANGED <<disk, mode, running, armed, agent, oper>>
    BY <1>2 DEF HealthRun
  <2>2. deadman \in {"off", "waiting", "started"}
    BY DEF TypeOK
  <2> QED BY <1>0, <2>1, <2>2, ServiceRuns
<1>3. CASE ~BootValidated \/ ~st[running].avail \/ ~Accepted(st[running])
  <2>1. HealthRun(<<>>, "failed")
    BY <1>3 DEF HealthSuccess
  <2> QED BY <1>1, <1>2, <2>1
<1>4. CASE ~(~BootValidated \/ ~st[running].avail \/ ~Accepted(st[running]))
  <2>1. HealthRun(When(~KeepsLaterTarget(sel, st[running], running), PromoteBooted), "ok")
    BY <1>4 DEF HealthSuccess
  <2>2. PromoteBooted \in Seq(Writes3(BootableGens, Settled(AllSelections)))
    BY <1>0, <1>4, PromotePlan
  <2>3. When(~KeepsLaterTarget(sel, st[running], running), PromoteBooted)
          \in Seq(Writes3(BootableGens, Settled(AllSelections)))
    BY <1>1, <2>2 DEF When
  <2> QED BY <1>2, <2>1, <2>3
<1> QED BY <1>3, <1>4

\* katl-boot-health finds the management network down.
LEMMA HealthNetworkFailureStep == ASSUME IInv, HealthNetworkFailure PROVE IInv'
<1> USE DEF IInv
<1> DEFINE writes == When(BootValidated, FailBooted(FALSE))
<1>0. running \in Gens /\ mode = "up"
  BY DEF HealthNetworkFailure, MachineInv
<1>1. writes \in Seq(Writes3(BootableGens, Settled(AllSelections)))
  <2>1. CASE BootValidated
    BY <1>0, <2>1, FailPlan DEF When
  <2>2. CASE ~BootValidated
    BY <2>2, EmptySeq DEF When
  <2> QED BY <2>1, <2>2
<1>2. RunLocked("health", writes, "failed") /\ unit' = "start" /\ deadman' = deadman
      /\ UNCHANGED <<disk, mode, running, armed, agent, oper>>
  BY DEF HealthNetworkFailure, HealthRun
<1>3. deadman \in {"off", "waiting", "started"}
  BY DEF TypeOK
<1> HIDE DEF writes
<1> QED BY <1>0, <1>1, <1>2, <1>3, ServiceRuns

\* katl-boot-recovery, for the service and for the deadline.
LEMMA FailAndRebootStep ==
  ASSUME IInv, mode \in {"up", "broken"}, NEW p \in {"health", "deadman"}, FailAndReboot(p),
         unit' \in {"start", "recover", "done"}, deadman' \in {"off", "waiting", "started"}
  PROVE  IInv'
<1> USE DEF IInv
<1> DEFINE writes == When(BootValidated, FailBooted(TRUE))
           asked == BootValidated /\ RebootRequested(InferBootedSelection(sel, running))
           end == IF asked THEN "reboot" ELSE "failed"
<1>0. running \in Gens
  BY DEF MachineInv
<1>1. /\ writes \in Seq(Writes3(BootableGens, Settled(AllSelections)))
      /\ asked => Disarms(writes) /\ writes # <<>>
  <2>1. CASE BootValidated
    BY <1>0, <2>1, FailPlan DEF When
  <2>2. CASE ~BootValidated
    BY <2>2, EmptySeq DEF When
  <2> QED BY <2>1, <2>2
<1>2. asked => armed # NoGen
  BY DEF RebootRequested, BootRecoveryArmed
<1>3. RunLocked(p, writes, end) /\ UNCHANGED <<disk, mode, running, armed, agent, oper>>
  BY DEF FailAndReboot
<1> HIDE DEF writes, asked
<1>4. end \in {"ok", "failed", "reboot"} /\ (end = "reboot" => asked)
  OBVIOUS
<1> HIDE DEF end
<1> QED BY <1>1, <1>2, <1>3, <1>4, ServiceRuns

\* katl-boot-recovery runs, for the health service or for the deadline.
LEMMA RecoverySteps == ASSUME IInv, Recovery \/ Deadman PROVE IInv'
<1>1. unit \in {"start", "recover", "done"} /\ deadman \in {"off", "waiting", "started"}
  BY DEF IInv, TypeOK
<1>2. CASE Recovery
  BY <1>1, <1>2, FailAndRebootStep DEF Recovery
<1>3. CASE Deadman
  BY <1>1, <1>3, FailAndRebootStep DEF Deadman
<1> QED BY <1>2, <1>3

\* Steps that only move a unit on.
LEMMA UnitSteps ==
  ASSUME IInv, HealthDependencyFailure \/ DeadlinePasses
  PROVE  IInv'
<1> USE DEF IInv
<1>0. UNCHANGED <<st, slot, entries, sel, efi, mode, running, armed, agent, oper, plan, after, holder>>
  BY DEF HealthDependencyFailure, DeadlinePasses, disk
<1>1. BootableGens' = BootableGens /\ AllSelections' = AllSelections
  BY <1>0, SameRecords
<1>2. TypeOK'
  BY <1>0 DEF TypeOK, HealthDependencyFailure, DeadlinePasses
<1>3. PlansInv'
  BY <1>0, SamePlans
<1>4. MachineInv' /\ RebootInv'
  BY <1>0, <1>1 DEF MachineInv, RebootInv
<1>5. OperInv'
  BY <1>0, <1>1 DEF OperInv
<1> QED BY <1>0, <1>1, <1>2, <1>3, <1>4, <1>5

\* A service whose plan is done ends, or is known to fail.
LEMMA ServiceEnds ==
  ASSUME IInv, NEW p \in {"health", "deadman"}, plan[p] = <<>>,
         NEW end \in {"none", "failed"}, after' = [after EXCEPT ![p] = end],
         armed' \in {armed, NoGen}, unit' \in {"start", "recover", "done"},
         UNCHANGED <<disk, mode, running, deadman, agent, oper, plan, holder>>,
         mode \in {"up", "broken"}
  PROVE  IInv'
<1> USE DEF IInv
<1>0. /\ UNCHANGED <<st, slot, entries, sel, efi, mode, running, deadman, agent, oper, plan, holder>>
      /\ after \in [Programs -> {"none", "ok", "failed", "reboot", "staged"}] /\ p \in Programs
      /\ NoGen \in Pointer
  BY DEF disk, TypeOK, Programs, Pointer
<1>1. BootableGens' = BootableGens /\ AllSelections' = AllSelections
  BY <1>0, SameRecords
<1>2. TypeOK'
  BY <1>0 DEF TypeOK
<1>3. PlansInv'
  <2>1. AgentSelections' = AgentSelections
    BY <1>0, <1>1 DEF AgentSelections
  <2>2. \A D \in SUBSET Gens : Removing(D)' = Removing(D)
    BY <1>0, <2>1 DEF Removing
  <2>3. \A q \in Programs : after'[q] = "none" => plan'[q] = <<>>
    BY <1>0 DEF PlansInv
  <2> QED BY <1>0, <1>1, <2>1, <2>2, <2>3 DEF PlansInv
<1>4. MachineInv'
  BY <1>0, <1>1 DEF MachineInv
<1>5. OperInv'
  BY <1>0, <1>1 DEF OperInv
<1>6. RebootInv'
  BY <1>0 DEF RebootInv
<1> QED BY <1>0, <1>1, <1>2, <1>3, <1>4, <1>5, <1>6

\* katl-boot-health fails once its writes are made.
LEMMA HealthBookkeepingFailureStep == ASSUME IInv, HealthBookkeepingFailure PROVE IInv'
<1>1. mode \in {"up", "broken"} /\ unit \in {"start", "recover", "done"}
  BY DEF IInv, MachineInv, TypeOK, HealthBookkeepingFailure, Programs
<1> QED BY <1>1, ServiceEnds DEF HealthBookkeepingFailure, volatile

\* A service exits.
LEMMA ExitStep == ASSUME IInv, NEW p \in Programs, Exit(p) PROVE IInv'
<1>1. CASE after[p] = "reboot"
  BY <1>1, PowerOffStep DEF Exit
<1>2. CASE after[p] # "reboot"
  <2>1. mode \in {"up", "broken"} /\ unit \in {"start", "recover", "done"}
    BY DEF IInv, MachineInv, TypeOK, Exit, Idle
  <2>2. /\ p \in {"health", "deadman"} /\ plan[p] = <<>> /\ after' = [after EXCEPT ![p] = "none"]
        /\ armed' \in {armed, NoGen} /\ unit' \in {"start", "recover", "done"}
        /\ UNCHANGED <<disk, mode, running, deadman, agent, oper, plan, holder>>
    BY <1>2, <2>1 DEF Exit
  <2> QED BY <2>1, <2>2, ServiceEnds
<1> QED BY <1>1, <1>2

-----------------------------------------------------------------------------
(* The writes of a plan.                                                   *)

\* The first write of a plan, and what is left after it.
LEMMA FirstAndRest ==
  ASSUME NEW W, NEW s \in Seq(W), s # <<>>
  PROVE  /\ Head(s) \in W /\ Tail(s) \in Seq(W) /\ Head(s) = s[1]
         /\ Len(s) \in Nat /\ Len(s) >= 1 /\ Len(Tail(s)) = Len(s) - 1
         /\ \A i \in 1..Len(Tail(s)) : Tail(s)[i] = s[i + 1]
  BY HeadTailProperties, LenProperties, EmptySeq

\* While the selection is still to be written, only bootctl calls come first.
LEMMA SelectsFirstHead ==
  ASSUME NEW W, NEW s \in Seq(W), s # <<>>, SelectsFirst(s)
  PROVE  /\ Head(s).do \in {"selection", "default", "oneshot"}
         /\ Head(s).do # "selection" => SelectsFirst(Tail(s))
<1>1. PICK i \in 1..Len(s) : s[i].do = "selection" /\ \A j \in 1..(i - 1) : s[j].do \in {"default", "oneshot"}
  BY DEF SelectsFirst
<1>2. /\ Head(s) = s[1] /\ Len(s) \in Nat /\ Len(s) >= 1 /\ Len(Tail(s)) = Len(s) - 1
      /\ \A k \in 1..Len(Tail(s)) : Tail(s)[k] = s[k + 1]
  BY FirstAndRest
<1>3. CASE i = 1
  BY <1>1, <1>2, <1>3
<1>4. CASE i # 1
  <2>1. i - 1 \in 1..Len(Tail(s)) /\ 1 \in 1..(i - 1)
    BY <1>2, <1>4
  <2>2. Tail(s)[i - 1].do = "selection"
    BY <1>1, <1>2, <2>1
  <2>3. ASSUME NEW j \in 1..((i - 1) - 1) PROVE Tail(s)[j].do \in {"default", "oneshot"}
    <3>1. j \in 1..Len(Tail(s)) /\ j + 1 \in 1..(i - 1)
      BY <1>2, <1>4
    <3> QED BY <1>1, <1>2, <3>1
  <2>4. SelectsFirst(Tail(s))
    BY <2>1, <2>2, <2>3 DEF SelectsFirst
  <2> QED BY <1>1, <1>2, <2>1, <2>4
<1> QED BY <1>3, <1>4

\* A plan that will spend the authorization still will after another write.
LEMMA DisarmsRest ==
  ASSUME NEW W, NEW s \in Seq(W), s # <<>>, Disarms(s), Head(s).do # "disarm"
  PROVE  Disarms(Tail(s)) /\ Tail(s) # <<>>
<1>1. PICK i \in 1..Len(s) : s[i].do = "disarm"
  BY DEF Disarms
<1>2. /\ Head(s) = s[1] /\ Len(s) \in Nat /\ Len(s) >= 1 /\ Len(Tail(s)) = Len(s) - 1
      /\ \A k \in 1..Len(Tail(s)) : Tail(s)[k] = s[k + 1]
  BY FirstAndRest
<1>3. i # 1
  BY <1>1, <1>2
<1>4. i - 1 \in 1..Len(Tail(s))
  BY <1>2, <1>3
<1>5. Tail(s)[i - 1].do = "disarm"
  BY <1>1, <1>2, <1>4
<1>6. Tail(s) # <<>>
  <2>1. Len(Tail(s)) # 0
    BY <1>2, <1>3
  <2>2. Len(<<>>) = 0
    OBVIOUS
  <2> QED BY <2>1, <2>2
<1> QED BY <1>4, <1>5, <1>6 DEF Disarms

\* A plan that takes nothing away goes on.
LEMMA PlansGoOn ==
  ASSUME TypeOK, PlansInv, NEW p \in Programs, plan[p] # <<>>, NEW rest, Continue(p, rest),
         BootableGens' = BootableGens, AllSelections' = AllSelections, oper' = oper,
         \A q \in Programs : after'[q] = "none" => after[q] = "none",
         p # "agent" => rest \in Seq(Writes3(BootableGens, Settled(AllSelections))),
         p = "agent" => rest \in Seq(Writes3(BootableGens, AgentSelections))
  PROVE  PlansInv'
<1>1. /\ plan' = [plan EXCEPT ![p] = rest] /\ plan = [q \in Programs |-> plan[q]]
      /\ holder' = IF rest = <<>> /\ holder = p THEN NoHolder ELSE holder
  BY DEF Continue, PlansInv
<1>2. /\ plan'[p] = rest /\ \A q \in Programs : q # p => plan'[q] = plan[q]
      /\ plan' = [q \in Programs |-> plan'[q]]
  BY <1>1
<1>3. AgentSelections' = AgentSelections
  BY DEF AgentSelections
<1>4. ASSUME NEW q \in {"health", "deadman"}
      PROVE  /\ plan'[q] \in Seq(Writes3(BootableGens, Settled(AllSelections)))
             /\ plan'[q] # <<>> => holder' = q
  <2>1. q \in Programs
    BY DEF Programs
  <2> QED BY <1>1, <1>2, <2>1 DEF PlansInv
<1>5. \/ plan'["agent"] \in Seq(Writes3(BootableGens, AgentSelections))
      \/ \E D \in SUBSET Gens : Removing(D)'
  <2>1. CASE p = "agent"
    BY <1>2, <2>1
  <2>2. CASE p # "agent"
    <3>1. p \in {"health", "deadman"} /\ "agent" \in Programs
      BY <2>2 DEF Programs
    <3>2. holder # "agent"
      BY <2>2, <3>1 DEF PlansInv
    <3> QED BY <1>2, <2>2, <3>1, <3>2, NothingRemoved
  <2> QED BY <2>1, <2>2
<1>6. \A q \in Programs : after'[q] = "none" => plan'[q] = <<>>
  BY <1>2 DEF PlansInv
<1> QED BY <1>2, <1>3, <1>4, <1>5, <1>6 DEF PlansInv

\* The first write of a plan that takes nothing away.
LEMMA PlannedWrite ==
  ASSUME PlansInv, NEW p \in Programs, plan[p] # <<>>,
         p = "agent" => plan[p] \in Seq(Writes3(BootableGens, AgentSelections))
  PROVE  LET S == IF p = "agent" THEN AgentSelections ELSE Settled(AllSelections)
         IN  /\ Head(plan[p]) \in Writes3(BootableGens, S)
             /\ Tail(plan[p]) \in Seq(Writes3(BootableGens, S))
             /\ S \subseteq AllSelections
             /\ \A s \in S : oper.kind \in Quiet => ~s.pending
<1> DEFINE S == IF p = "agent" THEN AgentSelections ELSE Settled(AllSelections)
<1>1. plan[p] \in Seq(Writes3(BootableGens, S))
  BY DEF PlansInv, Programs
<1>2. S \subseteq AllSelections /\ \A s \in S : oper.kind \in Quiet => ~s.pending
  BY DEF AgentSelections, Settled
<1> HIDE DEF S
<1>3. Head(plan[p]) \in Writes3(BootableGens, S) /\ Tail(plan[p]) \in Seq(Writes3(BootableGens, S))
  BY <1>1, FirstAndRest
<1> QED BY <1>2, <1>3 DEF S

\* A write that takes nothing away.
LEMMA PlainWriteStep ==
  ASSUME IInv, NEW p \in Programs, Write(p),
         p = "agent" => plan[p] \in Seq(Writes3(BootableGens, AgentSelections))
  PROVE  IInv'
<1> USE DEF IInv
<1> DEFINE w == Head(plan[p])
           S == IF p = "agent" THEN AgentSelections ELSE Settled(AllSelections)
<1>0. /\ plan[p] # <<>> /\ Continue(p, Tail(plan[p]))
      /\ UNCHANGED <<slot, mode, running, unit, deadman, agent, oper, after>>
      /\ sel' = (IF w.do = "selection" THEN w.sel ELSE sel)
      /\ st' = (IF w.do = "status" THEN [st EXCEPT ![w.gen] = w.status] ELSE st)
      /\ entries' = (IF w.do = "unlink" THEN entries \ {w.gen} ELSE entries)
      /\ armed' = (IF w.do = "disarm" THEN NoGen ELSE armed)
      /\ efi' = (IF w.do = "default" THEN [efi EXCEPT !.def = w.gen]
                 ELSE IF w.do = "oneshot" THEN [efi EXCEPT !.once = w.gen] ELSE efi)
  BY DEF Write
<1>1. /\ w \in Writes3(BootableGens, S) /\ Tail(plan[p]) \in Seq(Writes3(BootableGens, S))
      /\ S \subseteq AllSelections /\ \A s \in S : oper.kind \in Quiet => ~s.pending
  BY <1>0, PlannedWrite
<1>2. plan[p] \in Seq(Writes3(BootableGens, S))
  BY DEF PlansInv, Programs
<1> HIDE DEF w, S
<1>3. /\ w.do \in {"selection", "status", "disarm", "default", "oneshot"}
      /\ w.do = "selection" => w.sel \in S
      /\ w.do = "status" => w.gen \in BootableGens /\ w.status \in Live
      /\ w.do \in {"default", "oneshot"} => w.gen \in Pointer
  BY <1>1, WriteCases
<1>4. entries' = entries
  BY <1>0, <1>3
<1>5. /\ st' \in [Gens -> Status]
      /\ \A g \in Gens : st'[g] = st[g] \/ (g \in BootableGens /\ st'[g].avail /\ Exists(st'[g]))
  BY <1>0, <1>3 DEF TypeOK, BootableGens, Live
<1>6. BootableGens' = BootableGens
  BY <1>4, <1>5 DEF BootableGens
<1>7. AllSelections' = AllSelections
  BY <1>0, <1>6 DEF AllSelections
<1>8. sel' \in AllSelections' /\ (oper.kind \in Quiet => ~sel'.pending)
  BY <1>0, <1>1, <1>3, <1>7 DEF OperInv
<1>9. TypeOK'
  <2>1. sel' \in Selection
    BY <1>8 DEF AllSelections, Selections
  <2>2. efi' \in [def: Pointer, once: Pointer] /\ armed' \in Pointer
    <3>1. NoGen \in Pointer
      BY DEF Pointer
    <3> QED BY <1>0, <1>3, <3>1 DEF TypeOK
  <2>3. holder' \in Programs \cup {NoHolder}
    BY <1>0 DEF Continue, TypeOK
  <2> QED BY <1>0, <1>4, <1>5, <2>1, <2>2, <2>3 DEF TypeOK
<1>10. \A g \in Gens : st'[g].commit = "none" => st'[g].avail
  BY <1>5
<1>11. PlansInv'
  BY <1>0, <1>1, <1>6, <1>7, PlansGoOn DEF S
<1>12. MachineInv'
  <2>1. mode \notin {"off", "boot"}
    BY <1>0 DEF MachineInv, PlansInv
  <2> QED BY <1>0, <1>6, <2>1 DEF MachineInv
<1>13. OperInv'
  <2>1. oper.kind # "none" => oper.gen \in Gens
    BY DEF OperInv
  <2>2. oper.kind # "none" => st'[oper.gen] = st[oper.gen] \/
          (oper.gen \in BootableGens /\ st'[oper.gen].avail /\ Exists(st'[oper.gen]))
    BY <1>5, <2>1
  <2>3. oper.gen \in BootableGens => Exists(st[oper.gen]) /\ oper.gen \in entries
    BY DEF BootableGens
  <2> QED BY <1>0, <1>4, <1>6, <1>8, <2>2, <2>3 DEF OperInv, Exists
<1>14. RebootInv'
  <2>1. plan'[p] = Tail(plan[p]) /\ \A q \in Programs : q # p => plan'[q] = plan[q]
    BY <1>0 DEF Continue, PlansInv
  <2>2. ASSUME NEW q \in Programs, after[q] = "reboot", armed' # NoGen
        PROVE  holder' = q /\ Disarms(plan'[q])
    <3>1. w.do # "disarm" /\ armed = armed'
      BY <1>0, <2>2
    <3>2. holder = q /\ Disarms(plan[q])
      BY <2>2, <3>1 DEF RebootInv
    <3>3. CASE q = p
      <4>1. Disarms(Tail(plan[p])) /\ Tail(plan[p]) # <<>>
        BY <1>0, <1>2, <3>1, <3>2, <3>3, DisarmsRest DEF w
      <4> QED BY <1>0, <2>1, <3>2, <3>3, <4>1 DEF Continue
    <3>4. CASE q # p
      BY <1>0, <2>1, <3>2, <3>4 DEF Continue
    <3> QED BY <3>3, <3>4
  <2> QED BY <1>0, <2>2 DEF RebootInv
<1> QED BY <1>8, <1>9, <1>10, <1>11, <1>12, <1>13, <1>14

\* A step of a plan that takes the generations D away.
LEMMA KillStep ==
  ASSUME IInv, NEW D \in SUBSET Gens, Removing(D), plan["agent"] # <<>>,
         NEW rest \in Seq(Kills(D, AgentSelections)), Continue("agent", rest), TypeOK',
         \/ Names(sel') \cap D = {}
         \/ SelectsFirst(rest) /\ UNCHANGED <<st, entries>>,
         sel' = sel \/ sel' \in AgentSelections,
         \A g \in Gens \ D : st'[g] = st[g] /\ (g \in entries' <=> g \in entries),
         \A g \in D : st'[g].commit # "none",
         UNCHANGED <<mode, running, agent, oper, armed, after>>
  PROVE  IInv'
<1> USE DEF IInv
<1>0. "agent" \in Programs /\ {"health", "deadman"} \subseteq Programs
  BY DEF Programs
<1>1. mode \notin {"off", "boot"}
  BY <1>0 DEF PlansInv, MachineInv
<1>2. holder = "agent" /\ plan["health"] = <<>> /\ plan["deadman"] = <<>>
  BY DEF Removing, PlansInv
<1>3. BootableGens \ D \subseteq BootableGens' /\ BootableGens \subseteq Gens
  BY DEF BootableGens
<1>4. /\ UNCHANGED <<st, entries>> => BootableGens' = BootableGens
      /\ \A s \in AllSelections : Names(s) \cap D = {} => s \in AllSelections'
  BY <1>3 DEF BootableGens, AllSelections, Selections
<1>5. sel' \in AllSelections /\ (oper.kind \in Quiet => ~sel'.pending)
  BY DEF AgentSelections, Settled, OperInv
<1>6. sel' \in AllSelections'
  BY <1>4, <1>5 DEF AllSelections, Selections
<1>7. \A g \in Gens : st'[g].commit = "none" => st'[g].avail
  OBVIOUS
<1>8. Kills(D, AgentSelections) \subseteq Kills(D, AgentSelections')
  <2>1. \A s \in AgentSelections : Names(s) \cap D = {} => s \in AgentSelections'
    BY <1>4 DEF AgentSelections, Settled
  <2> QED BY <2>1 DEF Kills
<1>9. rest \in Seq(Kills(D, AgentSelections'))
  BY <1>8, SeqMono
<1>10. /\ plan' = [plan EXCEPT !["agent"] = rest] /\ plan = [q \in Programs |-> plan[q]]
       /\ holder' = IF rest = <<>> THEN NoHolder ELSE "agent"
  BY <1>2 DEF Continue, PlansInv
<1>11. /\ plan'["agent"] = rest /\ plan'["health"] = <<>> /\ plan'["deadman"] = <<>>
       /\ plan' = [q \in Programs |-> plan'[q]]
  BY <1>0, <1>2, <1>10
<1>12. PlansInv'
  <2>1. \A W : <<>> \in Seq(W)
    BY EmptySeq
  <2>2. \A q \in Programs : after'[q] = "none" => plan'[q] = <<>>
    BY <1>0, <1>11 DEF PlansInv, Programs
  <2>3. rest # <<>> => Removing(D)'
    BY <1>9, <1>10, <1>11 DEF Removing
  <2>4. \/ plan'["agent"] \in Seq(Writes3(BootableGens', AgentSelections'))
        \/ \E E \in SUBSET Gens : Removing(E)'
    BY <1>11, <2>1, <2>3
  <2>5. \A q \in {"health", "deadman"} :
           /\ plan'[q] \in Seq(Writes3(BootableGens', Settled(AllSelections')))
           /\ plan'[q] = <<>>
    BY <1>11, <2>1
  <2> QED BY <1>11, <2>2, <2>4, <2>5 DEF PlansInv
<1>13. MachineInv'
  BY <1>1, <1>3 DEF MachineInv, Removing
<1>14. OperInv'
  <2>1. /\ oper.run => oper.kind = "upgrade"
        /\ oper.kind # "live" /\ (oper.kind = "upgrade" => oper.base \notin D)
        /\ \A g \in D : st[g].commit # "none"
    BY DEF Removing
  <2>2. oper.run => /\ st[oper.gen].commit = "none" /\ oper.gen \in Gens
                    /\ oper.base \in BootableGens
    BY <2>1 DEF OperInv
  <2>3. oper.run => st'[oper.gen] = st[oper.gen] /\ oper.base \in BootableGens'
    BY <1>3, <2>1, <2>2
  <2> QED BY <1>5, <2>1, <2>2, <2>3 DEF OperInv
<1>15. RebootInv'
  <2>1. plan["agent"] \in Seq(Kills(D, AgentSelections))
    BY DEF Removing
  <2>2. \A w \in Kills(D, AgentSelections) : w.do # "disarm"
    BY DEF Kills
  <2>3. \A i \in 1..Len(plan["agent"]) : plan["agent"][i] \in Kills(D, AgentSelections)
    BY <2>1, ElementOfSeq
  <2>4. ~Disarms(plan["agent"])
    BY <2>2, <2>3 DEF Disarms
  <2>5. \A q \in Programs : after[q] = "reboot" => armed = NoGen
    BY <1>2, <2>4 DEF RebootInv
  <2> QED BY <2>5 DEF RebootInv
<1> QED BY <1>6, <1>7, <1>12, <1>13, <1>14, <1>15

\* What a write of a removal can be.
LEMMA KillCases ==
  ASSUME NEW D, NEW S, NEW w \in Kills(D, S)
  PROVE  /\ w.do \in {"selection", "unlink", "status", "drop", "default", "oneshot"}
         /\ w.do = "selection" => w.sel \in S /\ Names(w.sel) \cap D = {}
         /\ w.do = "unlink" => w.gen \in D
         /\ w.do = "status" => w.gen \in D /\ w.status \in Gone
         /\ w.do = "drop" => w.gens \in SUBSET D
         /\ w.do \in {"default", "oneshot"} => w.gen \in Pointer /\ w.err = <<>>
  BY DEF Kills

\* A write of a removal.
LEMMA KillWriteStep ==
  ASSUME IInv, NEW D \in SUBSET Gens, Removing(D), Write("agent")
  PROVE  IInv'
<1> USE DEF IInv
<1> DEFINE w == Head(plan["agent"])
           rest == Tail(plan["agent"])
<1>0. /\ plan["agent"] # <<>> /\ Continue("agent", rest)
      /\ UNCHANGED <<slot, mode, running, unit, deadman, agent, oper, after>>
      /\ sel' = (IF w.do = "selection" THEN w.sel ELSE sel)
      /\ st' = (IF w.do = "status" THEN [st EXCEPT ![w.gen] = w.status] ELSE st)
      /\ entries' = (IF w.do = "unlink" THEN entries \ {w.gen} ELSE entries)
      /\ armed' = (IF w.do = "disarm" THEN NoGen ELSE armed)
      /\ efi' = (IF w.do = "default" THEN [efi EXCEPT !.def = w.gen]
                 ELSE IF w.do = "oneshot" THEN [efi EXCEPT !.once = w.gen] ELSE efi)
      /\ w.do # "drop"
  BY DEF Write
<1>1. w \in Kills(D, AgentSelections) /\ rest \in Seq(Kills(D, AgentSelections))
  BY <1>0, FirstAndRest DEF Removing
<1>2. \/ Names(sel) \cap D = {} \/ w.do = "selection"
      \/ w.do \in {"default", "oneshot"} /\ SelectsFirst(rest)
  BY <1>0, SelectsFirstHead DEF Removing
<1> HIDE DEF w, rest
<1>3. /\ w.do \in {"selection", "unlink", "status", "drop", "default", "oneshot"}
      /\ w.do = "selection" => w.sel \in AgentSelections /\ Names(w.sel) \cap D = {}
      /\ w.do = "unlink" => w.gen \in D
      /\ w.do = "status" => w.gen \in D /\ w.status \in Gone
      /\ w.do \in {"default", "oneshot"} => w.gen \in Pointer
  BY <1>1, KillCases
<1>4. armed' = armed /\ (sel' = sel \/ sel' \in AgentSelections)
  BY <1>0, <1>3
<1>5. st' \in [Gens -> Status] /\ entries' \subseteq Gens
  BY <1>0, <1>3 DEF TypeOK, Gone
<1>6. \A g \in Gens \ D : st'[g] = st[g] /\ (g \in entries' <=> g \in entries)
  BY <1>0, <1>3 DEF TypeOK
<1>7. \A g \in D : st'[g].commit # "none"
  BY <1>0, <1>3 DEF Removing, TypeOK, Gone
<1>8. \/ Names(sel') \cap D = {}
      \/ SelectsFirst(rest) /\ UNCHANGED <<st, entries>>
  BY <1>0, <1>2, <1>3
<1>9. TypeOK'
  <2>1. sel' \in Selection
    BY <1>4 DEF AgentSelections, Settled, AllSelections, Selections, TypeOK
  <2>2. efi' \in [def: Pointer, once: Pointer]
    BY <1>0, <1>3 DEF TypeOK
  <2>3. holder' \in Programs \cup {NoHolder}
    BY <1>0 DEF Continue, TypeOK
  <2> QED BY <1>0, <1>4, <1>5, <2>1, <2>2, <2>3 DEF TypeOK
<1> QED BY <1>0, <1>1, <1>4, <1>6, <1>7, <1>8, <1>9, KillStep

\* A program makes its next write.
LEMMA WriteStep == ASSUME IInv, NEW p \in Programs, Write(p) PROVE IInv'
<1>1. CASE p = "agent" => plan[p] \in Seq(Writes3(BootableGens, AgentSelections))
  BY <1>1, PlainWriteStep
<1>2. CASE p = "agent" /\ plan[p] \notin Seq(Writes3(BootableGens, AgentSelections))
  <2>1. PICK D \in SUBSET Gens : Removing(D)
    BY <1>2 DEF IInv, PlansInv
  <2> QED BY <1>2, <2>1, KillWriteStep
<1> QED BY <1>1, <1>2

\* InvalidateSlot drops one of its generations.
LEMMA DropStep == ASSUME IInv, NEW p \in Programs, Drop(p) PROVE IInv'
<1> USE DEF IInv
<1> DEFINE w == Head(plan[p])
<1>0. /\ plan[p] # <<>> /\ w.do = "drop"
      /\ UNCHANGED <<slot, entries, sel, efi, mode, running, armed, unit, deadman, agent, oper, after>>
  BY DEF Drop, volatile
<1>1. p = "agent" /\ plan[p] \notin Seq(Writes3(BootableGens, AgentSelections))
  <2> SUFFICES ASSUME p = "agent" => plan[p] \in Seq(Writes3(BootableGens, AgentSelections))
               PROVE  FALSE
    OBVIOUS
  <2>1. PICK S : w \in Writes3(BootableGens, S)
    BY <1>0, PlannedWrite
  <2> QED BY <1>0, <2>1, WriteCases
<1>2. PICK D \in SUBSET Gens : Removing(D)
  BY <1>1 DEF PlansInv
<1>3. plan[p] \in Seq(Kills(D, AgentSelections))
  BY <1>1, <1>2 DEF Removing
<1>4. w \in Kills(D, AgentSelections) /\ Tail(plan[p]) \in Seq(Kills(D, AgentSelections))
  BY <1>0, <1>3, FirstAndRest
<1>5. Names(sel) \cap D = {}
  BY <1>0, <1>1, <1>2, <1>3, SelectsFirstHead DEF Removing
<1>6. PICK g \in w.gens : /\ st' = [st EXCEPT ![g].avail = FALSE]
                          /\ Continue(p, RemoveEntry(g) \o DropGenerations(w.gens \ {g}) \o Tail(plan[p]))
  BY DEF Drop
<1>7. g \in D /\ w.gens \ {g} \in SUBSET D /\ g \in Gens
  BY <1>0, <1>4, <1>6, KillCases
<1> DEFINE a == RemoveEntry(g)
           b == DropGenerations(w.gens \ {g})
           c == Tail(plan[p])
<1>8. a \in Seq(Kills(D, AgentSelections)) /\ b \in Seq(Kills(D, AgentSelections))
  BY <1>7, KillingWrites
<1>9. (a \o b) \o c \in Seq(Kills(D, AgentSelections))
  <2> HIDE DEF a, b, c
  <2>1. a \o b \in Seq(Kills(D, AgentSelections))
    BY <1>8, ConcatProperties
  <2> QED BY <1>4, <2>1, ConcatProperties DEF c
<1>10. Continue("agent", (a \o b) \o c)
  BY <1>1, <1>6
<1> HIDE DEF a, b, c
<1>11. st' \in [Gens -> Status] /\ (\A h \in Gens \ D : st'[h] = st[h]) /\ \A h \in D : st'[h].commit # "none"
  <2>1. st[g] \in Status /\ [st[g] EXCEPT !.avail = FALSE] \in Status
        /\ [st[g] EXCEPT !.avail = FALSE].commit = st[g].commit
    BY <1>7 DEF TypeOK, Status
  <2>2. st' = [st EXCEPT ![g] = [st[g] EXCEPT !.avail = FALSE]]
    BY <1>6, <1>7
  <2> QED BY <1>2, <1>7, <2>1, <2>2 DEF TypeOK, Removing
<1>12. TypeOK'
  BY <1>0, <1>10, <1>11 DEF TypeOK, Continue, Programs
<1> QED BY <1>0, <1>1, <1>2, <1>5, <1>9, <1>10, <1>11, <1>12, KillStep

\* A bootctl call fails, and the program goes on with what undoes its work.
LEMMA EfiErrorStep == ASSUME IInv, NEW p \in Programs, EfiError(p) PROVE IInv'
<1> USE DEF IInv
<1> DEFINE w == Head(plan[p])
<1>0. /\ plan[p] # <<>> /\ w.do \in {"default", "oneshot"} /\ Continue(p, w.err)
      /\ efi' \in {efi, IF w.do = "default" THEN [efi EXCEPT !.def = w.gen]
                                           ELSE [efi EXCEPT !.once = w.gen]}
      /\ after' = [after EXCEPT ![p] = "failed"]
      /\ UNCHANGED <<st, slot, entries, sel, mode, running, armed, unit, deadman, agent, oper>>
  BY DEF EfiError, volatile
<1>1. BootableGens' = BootableGens /\ AllSelections' = AllSelections
  BY <1>0, SameRecords
<1>2. /\ w.gen \in Pointer
      /\ p # "agent" => w.err \in Seq(Writes3(BootableGens, Settled(AllSelections)))
      /\ p = "agent" => w.err \in Seq(Writes3(BootableGens, AgentSelections))
  <2>1. CASE p = "agent" => plan[p] \in Seq(Writes3(BootableGens, AgentSelections))
    <3> DEFINE S == IF p = "agent" THEN AgentSelections ELSE Settled(AllSelections)
    <3>1. w \in Writes3(BootableGens, S)
      BY <1>0, <2>1, PlannedWrite
    <3> HIDE DEF w, S
    <3>2. w.gen \in Pointer /\ w.err \in Seq(Writes3(BootableGens, S))
      BY <1>0, <3>1, WriteCases
    <3> QED BY <3>2 DEF S
  <2>2. CASE p = "agent" /\ plan[p] \notin Seq(Writes3(BootableGens, AgentSelections))
    <3>1. PICK D \in SUBSET Gens : Removing(D)
      BY <2>2 DEF PlansInv
    <3>2. w \in Kills(D, AgentSelections)
      BY <1>0, <2>2, <3>1, FirstAndRest DEF Removing
    <3> HIDE DEF w
    <3>3. w.gen \in Pointer /\ w.err = <<>>
      BY <1>0, <3>2, KillCases
    <3> QED BY <2>2, <3>3, EmptySeq
  <2> QED BY <2>1, <2>2
<1> HIDE DEF w
<1>3. after \in [Programs -> {"none", "ok", "failed", "reboot", "staged"}]
      /\ after'[p] = "failed" /\ \A q \in Programs : q # p => after'[q] = after[q]
  BY <1>0 DEF TypeOK
<1>4. TypeOK'
  <2>1. efi' \in [def: Pointer, once: Pointer]
    BY <1>0, <1>2 DEF TypeOK
  <2>2. holder' \in Programs \cup {NoHolder}
    BY <1>0 DEF Continue, TypeOK
  <2>3. after' \in [Programs -> {"none", "ok", "failed", "reboot", "staged"}]
    BY <1>0, <1>3
  <2> QED BY <1>0, <2>1, <2>2, <2>3 DEF TypeOK
<1>5. PlansInv'
  <2>1. \A q \in Programs : after'[q] = "none" => after[q] = "none"
    BY <1>3
  <2> QED BY <1>0, <1>1, <1>2, <2>1, PlansGoOn
<1>6. MachineInv'
  <2>1. mode \notin {"off", "boot"}
    BY <1>0 DEF MachineInv, PlansInv
  <2> QED BY <1>0, <1>1, <2>1 DEF MachineInv
<1>7. OperInv'
  BY <1>0, <1>1 DEF OperInv
<1>8. RebootInv'
  <2>1. \A q \in Programs : q # p => plan'[q] = plan[q]
    BY <1>0 DEF Continue, PlansInv
  <2>2. \A q \in Programs : q # p /\ holder = q => holder' = q
    BY <1>0 DEF Continue
  <2> QED BY <1>0, <1>3, <2>1, <2>2 DEF RebootInv
<1> QED BY <1>0, <1>1, <1>4, <1>5, <1>6, <1>7, <1>8

-----------------------------------------------------------------------------
(* The agent.                                                              *)

\* The agent begins a procedure: what it wrote before its plan took nothing
\* away, and its plan is one of either kind.
LEMMA AgentRuns ==
  ASSUME IInv, mode = "up", NEW writes, NEW end \in {"ok", "failed", "staged"},
         Run("agent", writes, end), holder' \in {holder, "agent"},
         holder' # holder => holder = NoHolder,
         UNCHANGED <<sel, efi, mode, running, armed, unit, deadman>>, agent' \in BOOLEAN,
         slot' \in [Gens -> {"a", "b"}], entries' \subseteq Gens, st' \in [Gens -> Status],
         BootableGens \subseteq BootableGens',
         \A g \in Gens : st'[g].commit = "none" => st'[g].avail,
         OperInv', oper'.kind \in Kinds,
         \/ writes \in Seq(Writes3(BootableGens', AgentSelections'))
         \/ \E D \in SUBSET Gens : Removing(D)'
  PROVE  IInv'
<1> USE DEF IInv
<1>0. /\ plan' = [plan EXCEPT !["agent"] = writes] /\ after' = [after EXCEPT !["agent"] = end]
      /\ plan = [q \in Programs |-> plan[q]] /\ "agent" \in Programs
      /\ after \in [Programs -> {"none", "ok", "failed", "reboot", "staged"}]
      /\ {"health", "deadman"} \subseteq Programs /\ after["agent"] = "none"
  BY DEF Run, Idle, PlansInv, TypeOK, Programs
<1>1. /\ plan'["agent"] = writes /\ after'["agent"] = end
      /\ \A q \in Programs : q # "agent" => plan'[q] = plan[q] /\ after'[q] = after[q]
      /\ plan' = [q \in Programs |-> plan'[q]]
  BY <1>0
<1>2. AllSelections \subseteq AllSelections' /\ Settled(AllSelections) \subseteq Settled(AllSelections')
  BY DEF AllSelections, Selections, Settled
<1>3. TypeOK'
  <2>1. holder' \in Programs \cup {NoHolder}
    BY <1>0 DEF TypeOK
  <2>2. after' \in [Programs -> {"none", "ok", "failed", "reboot", "staged"}]
    BY <1>0
  <2>3. oper'.kind \in {"none", "start", "startLive", "render", "live", "trial", "upgrade", "staged", "arm"}
    BY DEF Kinds
  <2> QED BY <2>1, <2>2, <2>3 DEF TypeOK
<1>4. sel' \in AllSelections'
  BY <1>2
<1>5. PlansInv'
  <2>1. ASSUME NEW q \in {"health", "deadman"}
        PROVE  /\ plan'[q] \in Seq(Writes3(BootableGens', Settled(AllSelections')))
               /\ plan'[q] # <<>> => holder' = q
    <3>1. plan'[q] = plan[q] /\ q # "agent"
      BY <1>0, <1>1
    <3>2. plan[q] \in Seq(Writes3(BootableGens, Settled(AllSelections)))
      BY DEF PlansInv
    <3>3. plan[q] \in Seq(Writes3(BootableGens', Settled(AllSelections')))
      BY <1>2, <3>2, WritesMono
    <3>4. plan[q] # <<>> => holder' = q
      BY DEF PlansInv, NoHolder
    <3> QED BY <3>1, <3>3, <3>4
  <2>2. \A q \in Programs : after'[q] = "none" => plan'[q] = <<>>
    BY <1>1 DEF PlansInv
  <2> QED BY <1>1, <2>1, <2>2 DEF PlansInv
<1>6. MachineInv'
  BY DEF MachineInv
<1>7. RebootInv'
  <2>1. ASSUME NEW q \in Programs, after'[q] = "reboot"
        PROVE  /\ q # "agent" /\ after[q] = "reboot"
               /\ armed' = NoGen \/ (holder' = q /\ Disarms(plan'[q]))
    <3>1. q # "agent" /\ after[q] = "reboot" /\ plan'[q] = plan[q]
      BY <1>1, <2>1
    <3>2. armed = NoGen \/ (holder = q /\ Disarms(plan[q]))
      BY <3>1 DEF RebootInv
    <3>3. holder = q => holder' = q
      BY DEF NoHolder, Programs
    <3> QED BY <3>1, <3>2, <3>3
  <2> QED BY <2>1 DEF RebootInv
<1> QED BY <1>3, <1>4, <1>5, <1>6, <1>7

\* A step after which the agent is between two procedures.
LEMMA AgentIdles ==
  ASSUME IInv, mode \notin {"off", "boot"},
         plan' = [plan EXCEPT !["agent"] = <<>>], after' = [after EXCEPT !["agent"] = "none"],
         holder' = holder \/ (holder = "agent" /\ holder' = NoHolder),
         UNCHANGED <<sel, efi, mode, running, armed, unit, deadman>>, agent' \in BOOLEAN,
         slot' \in [Gens -> {"a", "b"}], entries' \subseteq Gens, st' \in [Gens -> Status],
         BootableGens \subseteq BootableGens',
         \A g \in Gens : st'[g].commit = "none" => st'[g].avail,
         OperInv', oper'.kind \in Kinds
  PROVE  IInv'
<1> USE DEF IInv
<1>0. /\ plan = [q \in Programs |-> plan[q]] /\ "agent" \in Programs
      /\ after \in [Programs -> {"none", "ok", "failed", "reboot", "staged"}]
      /\ {"health", "deadman"} \subseteq Programs
  BY DEF PlansInv, TypeOK, Programs
<1>1. /\ plan'["agent"] = <<>> /\ after'["agent"] = "none"
      /\ \A q \in Programs : q # "agent" => plan'[q] = plan[q] /\ after'[q] = after[q]
      /\ plan' = [q \in Programs |-> plan'[q]]
  BY <1>0
<1>2. AllSelections \subseteq AllSelections' /\ Settled(AllSelections) \subseteq Settled(AllSelections')
  BY DEF AllSelections, Selections, Settled
<1>3. TypeOK'
  <2>1. holder' \in Programs \cup {NoHolder}
    BY <1>0 DEF TypeOK
  <2>2. after' \in [Programs -> {"none", "ok", "failed", "reboot", "staged"}]
    BY <1>0
  <2>3. oper'.kind \in {"none", "start", "startLive", "render", "live", "trial", "upgrade", "staged", "arm"}
    BY DEF Kinds
  <2> QED BY <2>1, <2>2, <2>3 DEF TypeOK
<1>4. sel' \in AllSelections'
  BY <1>2
<1>5. PlansInv'
  <2>1. ASSUME NEW q \in {"health", "deadman"}
        PROVE  /\ plan'[q] \in Seq(Writes3(BootableGens', Settled(AllSelections')))
               /\ plan'[q] # <<>> => holder' = q
    <3>1. plan'[q] = plan[q] /\ q # "agent"
      BY <1>0, <1>1
    <3>2. plan[q] \in Seq(Writes3(BootableGens, Settled(AllSelections)))
      BY DEF PlansInv
    <3>3. plan[q] \in Seq(Writes3(BootableGens', Settled(AllSelections')))
      BY <1>2, <3>2, WritesMono
    <3>4. plan[q] # <<>> => holder' = q
      BY DEF PlansInv, NoHolder
    <3> QED BY <3>1, <3>3, <3>4
  <2>2. \A q \in Programs : after'[q] = "none" => plan'[q] = <<>>
    BY <1>1 DEF PlansInv
  <2>3. plan'["agent"] \in Seq(Writes3(BootableGens', AgentSelections'))
    BY <1>1, EmptySeq
  <2> QED BY <1>1, <2>1, <2>2, <2>3 DEF PlansInv
<1>6. MachineInv'
  BY DEF MachineInv
<1>7. RebootInv'
  <2>1. ASSUME NEW q \in Programs, after'[q] = "reboot"
        PROVE  /\ after[q] = "reboot"
               /\ armed' = NoGen \/ (holder' = q /\ Disarms(plan'[q]))
    <3>1. q # "agent" /\ after[q] = "reboot" /\ plan'[q] = plan[q]
      BY <1>1, <2>1
    <3>2. armed = NoGen \/ (holder = q /\ Disarms(plan[q]))
      BY <3>1 DEF RebootInv
    <3> QED BY <3>1, <3>2
  <2> QED BY <2>1 DEF RebootInv
<1> QED BY <1>3, <1>4, <1>5, <1>6, <1>7

\* Between two procedures the agent has no plan.
LEMMA IdlePlan ==
  ASSUME IInv, Idle("agent"), UNCHANGED <<plan, after>>
  PROVE  plan' = [plan EXCEPT !["agent"] = <<>>] /\ after' = [after EXCEPT !["agent"] = "none"]
<1>1. /\ plan = [q \in Programs |-> plan[q]] /\ "agent" \in Programs /\ plan["agent"] = <<>>
      /\ after \in [Programs -> {"none", "ok", "failed", "reboot", "staged"}] /\ after["agent"] = "none"
  BY DEF IInv, PlansInv, TypeOK, Programs, Idle
<1> QED BY <1>1

\* What a mutation may start from.
LEMMA CurrentBoots == ASSUME IInv PROVE Current(sel) \in BootableGens /\ Current(sel) \in Gens
<1>1. Current(sel) \in Names(sel)
  BY DEF IInv, AllSelections, Selections, Names, Current
<1> QED BY <1>1 DEF IInv, AllSelections, Selections, BootableGens

\* No operation is an operation record.
LEMMA OperType == NoOper \in [kind: Kinds, gen: Pointer, base: Pointer, run: BOOLEAN, sameBoot: BOOLEAN]
  BY DEF NoOper, Kinds, Pointer

\* Requests that only open an operation.
LEMMA RequestStep ==
  ASSUME IInv, NEW g \in Gens, HostUpgrade(g) \/ \E live \in BOOLEAN : ApplyConfig(g, live)
  PROVE  IInv'
<1> USE DEF IInv
<1>0. /\ mode = "up" /\ agent /\ Idle("agent") /\ MutationBaseValid /\ Fresh(g)
      /\ UNCHANGED <<st, slot, entries, sel, efi, mode, running, armed, unit, deadman, agent, plan, after, holder>>
  BY DEF HostUpgrade, ApplyConfig, Serving, disk, volatile
<1>1. BootableGens' = BootableGens
  BY <1>0, SameRecords
<1>2. PICK k \in {"start", "startLive", "upgrade"} :
        oper' = [kind |-> k, gen |-> g, base |-> Current(sel), run |-> TRUE, sameBoot |-> TRUE]
  BY DEF HostUpgrade, ApplyConfig
<1>3. oper' \in [kind: Kinds, gen: Pointer, base: Pointer, run: BOOLEAN, sameBoot: BOOLEAN]
      /\ oper'.kind = k /\ oper'.gen = g /\ oper'.base = Current(sel) /\ oper'.run
  BY <1>2, CurrentBoots DEF Kinds, Pointer
<1>4. OperInv'
  <2>1. after'["agent"] = "none"
    BY <1>0 DEF Idle
  <2> QED BY <1>0, <1>1, <1>3, <2>1, CurrentBoots DEF OperInv, MutationBaseValid, Fresh, TypeOK
<1>5. plan' = [plan EXCEPT !["agent"] = <<>>] /\ after' = [after EXCEPT !["agent"] = "none"]
  BY <1>0, IdlePlan
<1>6. TypeOK /\ \A h \in Gens : st'[h].commit = "none" => st'[h].avail
  BY <1>0
<1> QED BY <1>0, <1>1, <1>3, <1>4, <1>5, <1>6, AgentIdles DEF TypeOK, Kinds

\* The candidate is written.
LEMMA RenderStep == ASSUME IInv, Render PROVE IInv'
<1> USE DEF IInv
<1> DEFINE g == oper.gen
<1>0. /\ mode = "up" /\ agent /\ Idle("agent") /\ oper.run /\ oper.kind \in {"start", "startLive"}
      /\ UNCHANGED <<entries, sel, efi, mode, running, armed, unit, deadman, agent, plan, after, holder>>
      /\ st' = [st EXCEPT ![g].commit = "candidate"]
      /\ slot' = [slot EXCEPT ![g] = slot[Current(sel)]]
      /\ oper' = [oper EXCEPT !.kind = IF @ = "start" THEN "render" ELSE "live", !.base = Current(sel)]
  BY DEF Render, Executing, Serving, volatile
<1>1. g \in Gens /\ st[g].commit = "none" /\ st[g].avail /\ st[g] \in Status /\ ~sel.pending
  BY <1>0 DEF OperInv, TypeOK, Quiet
<1>2. /\ [st[g] EXCEPT !.commit = "candidate"] \in Status
      /\ [st[g] EXCEPT !.commit = "candidate"].commit = "candidate"
      /\ [st[g] EXCEPT !.commit = "candidate"].avail
  BY <1>1 DEF Status
<1>3. /\ st' \in [Gens -> Status] /\ st'[g].commit = "candidate" /\ st'[g].avail
      /\ \A h \in Gens : h # g => st'[h] = st[h]
  BY <1>0, <1>1, <1>2 DEF TypeOK
<1>4. BootableGens \subseteq BootableGens'
  BY <1>0, <1>1, <1>3 DEF BootableGens, Exists
<1>5. /\ oper' \in [kind: Kinds, gen: Pointer, base: Pointer, run: BOOLEAN, sameBoot: BOOLEAN]
      /\ oper'.kind \in {"render", "live"} /\ oper'.gen = g /\ oper'.base = Current(sel) /\ oper'.run
  <2>1. Current(sel) \in Pointer /\ {"render", "live"} \subseteq Kinds
    BY CurrentBoots DEF Pointer, Kinds
  <2> QED BY <1>0, <2>1 DEF OperInv
<1>6. OperInv'
  BY <1>0, <1>1, <1>3, <1>5, CurrentBoots DEF OperInv, Exists, Accepted
<1>7. plan' = [plan EXCEPT !["agent"] = <<>>] /\ after' = [after EXCEPT !["agent"] = "none"]
  BY <1>0, IdlePlan
<1>8. slot' \in [Gens -> {"a", "b"}] /\ entries' \subseteq Gens /\ agent' \in BOOLEAN
  BY <1>0, CurrentBoots DEF TypeOK
<1>9. \A h \in Gens : st'[h].commit = "none" => st'[h].avail
  BY <1>3
<1>10. oper'.kind \in Kinds
  BY <1>5
<1> QED BY <1>0, <1>3, <1>4, <1>6, <1>7, <1>8, <1>9, <1>10, AgentIdles

\* The operation ends: it failed, was rolled back, or its procedure is over.
LEMMA OperationEnds ==
  ASSUME IInv, OperationFails \/ Abandon
  PROVE  IInv'
<1> USE DEF IInv
<1>0. /\ mode = "up" /\ Idle("agent") /\ oper' = NoOper
      /\ UNCHANGED <<slot, entries, sel, efi, mode, running, armed, unit, deadman, agent, plan, after, holder>>
  BY DEF OperationFails, Abandon, Executing, Serving, disk, volatile
<1>1. oper'.kind = "none" /\ ~oper'.run /\ oper' \in [kind: Kinds, gen: Pointer, base: Pointer, run: BOOLEAN, sameBoot: BOOLEAN]
  BY <1>0, OperType DEF NoOper
<1>2. OperInv'
  <2>1. after'["agent"] = "none"
    BY <1>0 DEF Idle
  <2> QED BY <1>1, <2>1 DEF OperInv, Quiet
<1>3. plan' = [plan EXCEPT !["agent"] = <<>>] /\ after' = [after EXCEPT !["agent"] = "none"]
  BY <1>0, IdlePlan
<1>4. /\ st' \in [Gens -> Status] /\ BootableGens \subseteq BootableGens'
      /\ \A h \in Gens : st'[h].commit = "none" => st'[h].avail
  <2>1. CASE OperationFails
    <3>1. st' = st
      BY <2>1 DEF OperationFails, disk
    <3>2. BootableGens' = BootableGens
      BY <1>0, <3>1, SameRecords
    <3> QED BY <3>1, <3>2 DEF TypeOK
  <2>2. CASE Abandon
    <3> DEFINE g == oper.gen
               x == [st[g] EXCEPT !.commit = "abandoned", !.boot = "failed"]
    <3>1. g \in Gens /\ st[g] \in Status
      BY <2>2 DEF Abandon, Executing, OperInv, TypeOK
    <3>2. x \in Status /\ x.commit = "abandoned" /\ x.avail = st[g].avail
      BY <3>1 DEF Status
    <3>3. st' = [st EXCEPT ![g] = x]
      BY <2>2, <3>1 DEF Abandon, TypeOK
    <3> HIDE DEF x
    <3>4. st' \in [Gens -> Status] /\ st'[g] = x /\ \A h \in Gens : h # g => st'[h] = st[h]
      BY <3>1, <3>2, <3>3 DEF TypeOK
    <3> QED BY <1>0, <3>1, <3>2, <3>4 DEF BootableGens, Exists
  <2> QED BY <2>1, <2>2
<1>5. slot' \in [Gens -> {"a", "b"}] /\ entries' \subseteq Gens /\ agent' \in BOOLEAN
  BY <1>0 DEF TypeOK
<1>6. oper'.kind \in Kinds
  BY <1>1
<1> QED BY <1>0, <1>2, <1>3, <1>4, <1>5, <1>6, AgentIdles

\* The agent dies: its plan goes, its operation record stays.
LEMMA AgentCrashStep == ASSUME IInv, AgentCrash PROVE IInv'
<1> USE DEF IInv
<1>0. /\ oper' = [oper EXCEPT !.run = FALSE] /\ agent' = FALSE
      /\ plan' = [plan EXCEPT !["agent"] = <<>>] /\ after' = [after EXCEPT !["agent"] = "none"]
      /\ holder' = (IF holder = "agent" THEN NoHolder ELSE holder)
      /\ UNCHANGED <<st, entries, slot, sel, efi, mode, running, armed, unit, deadman>>
  BY DEF AgentCrash, AgentOnly
<1>1. mode \notin {"off", "boot"}
  BY DEF AgentCrash, OperInv, MachineInv, Idle, Programs
<1>2. BootableGens' = BootableGens
  BY <1>0, SameRecords
<1>3. /\ oper' \in [kind: Kinds, gen: Pointer, base: Pointer, run: BOOLEAN, sameBoot: BOOLEAN]
      /\ oper'.kind = oper.kind /\ oper'.gen = oper.gen /\ oper'.base = oper.base /\ ~oper'.run
  BY <1>0 DEF OperInv
<1>4. OperInv'
  BY <1>0, <1>2, <1>3 DEF OperInv
<1>5. \A h \in Gens : st'[h].commit = "none" => st'[h].avail
  BY <1>0
<1> QED BY <1>0, <1>1, <1>2, <1>3, <1>4, <1>5, AgentIdles DEF TypeOK

\* The agent's procedure is over.
LEMMA AgentDoneStep == ASSUME IInv, AgentDone PROVE IInv'
<1> USE DEF IInv
<1>0. /\ plan["agent"] = <<>> /\ after["agent"] # "none" /\ after' = [after EXCEPT !["agent"] = "none"]
      /\ oper' = (IF after["agent"] = "staged" THEN [oper EXCEPT !.kind = "staged"] ELSE NoOper)
      /\ UNCHANGED <<st, slot, entries, sel, efi, mode, running, armed, unit, deadman, agent, plan, holder>>
  BY DEF AgentDone, Idle, disk, volatile
<1>1. mode \notin {"off", "boot"}
  BY <1>0 DEF MachineInv, Programs
<1>2. BootableGens' = BootableGens
  BY <1>0, SameRecords
<1>3. plan' = [plan EXCEPT !["agent"] = <<>>]
  <2>1. plan = [q \in Programs |-> plan[q]] /\ "agent" \in Programs
    BY DEF PlansInv, Programs
  <2> QED BY <1>0, <2>1
<1>4. OperInv' /\ oper'.kind \in Kinds
  <2>0. after'["agent"] = "none"
    BY <1>0 DEF TypeOK, Programs
  <2>1. CASE after["agent"] # "staged"
    <3>1. oper'.kind = "none" /\ ~oper'.run /\ oper' \in [kind: Kinds, gen: Pointer, base: Pointer, run: BOOLEAN, sameBoot: BOOLEAN]
      BY <1>0, <2>1, OperType DEF NoOper
    <3> QED BY <2>0, <3>1 DEF OperInv, Quiet
  <2>2. CASE after["agent"] = "staged"
    <3>1. /\ oper' \in [kind: Kinds, gen: Pointer, base: Pointer, run: BOOLEAN, sameBoot: BOOLEAN]
          /\ oper'.kind = "staged" /\ oper'.gen = oper.gen /\ oper'.base = oper.base /\ oper'.run = oper.run
      BY <1>0, <2>2 DEF OperInv, Kinds
    <3>2. oper.kind = "upgrade"
      BY <2>2 DEF OperInv
    <3> QED BY <1>0, <1>2, <2>0, <3>1, <3>2 DEF OperInv, Quiet
  <2> QED BY <2>1, <2>2
<1>5. \A h \in Gens : st'[h].commit = "none" => st'[h].avail
  BY <1>0
<1> QED BY <1>0, <1>1, <1>2, <1>3, <1>4, <1>5, AgentIdles DEF TypeOK

\* A loader entry is written: more can boot.
LEMMA EntryWritten ==
  ASSUME TypeOK, NEW g \in Gens, entries' = entries \cup {g}, UNCHANGED <<mode, running>>,
         st' \in [Gens -> Status], \A h \in Gens : h # g => st'[h] = st[h],
         Exists(st'[g]), st'[g].avail
  PROVE  /\ BootableGens \subseteq BootableGens' /\ g \in BootableGens' /\ BootableGens' \in SUBSET Gens
         /\ \A h \in BootableGens' : Exists(st'[h]) /\ st'[h].avail
         /\ AllSelections \subseteq AllSelections'
         /\ Settled(AllSelections) \subseteq Settled(AllSelections')
<1>1. BootableGens \subseteq BootableGens' /\ g \in BootableGens' /\ BootableGens' \in SUBSET Gens
      /\ \A h \in BootableGens' : Exists(st'[h]) /\ st'[h].avail
  BY DEF BootableGens
<1>2. AllSelections \subseteq AllSelections'
  BY <1>1 DEF AllSelections, Selections
<1> QED BY <1>1, <1>2 DEF Settled

\* A live apply is promoted.
LEMMA PromoteLiveStep == ASSUME IInv, PromoteLive PROVE IInv'
<1> USE DEF IInv
<1> DEFINE g == oper.gen
           writes == PromoteLivePlan(g, FALSE)
<1>0. /\ mode = "up" /\ agent /\ oper.run /\ oper.kind = "live" /\ st[g].commit = "candidate"
      /\ entries' = entries \cup {g} /\ RunLocked("agent", writes, "ok")
      /\ UNCHANGED <<st, agent, oper, slot, sel, efi, mode, running, armed, unit, deadman>>
  BY DEF PromoteLive, Executing, Serving, AgentOnly
<1>1. g \in Gens /\ Exists(st[g]) /\ st[g].avail /\ ~sel.pending
  BY <1>0 DEF OperInv, Quiet
<1>2. /\ BootableGens \subseteq BootableGens' /\ g \in BootableGens' /\ BootableGens' \in SUBSET Gens
      /\ \A h \in BootableGens' : Exists(st'[h]) /\ st'[h].avail
      /\ AllSelections \subseteq AllSelections'
  BY <1>0, <1>1, EntryWritten DEF TypeOK
<1>3. sel \in Settled(Selections(BootableGens', mode, running))
  BY <1>0, <1>1, <1>2 DEF AllSelections, Settled
<1>4. writes \in Seq(Writes3(BootableGens', Settled(Selections(BootableGens', mode, running))))
  BY <1>0, <1>2, <1>3, LivePlan
<1>5. AgentSelections' = Settled(Selections(BootableGens', mode, running))
  BY <1>0 DEF AgentSelections, AllSelections, Quiet
<1> HIDE DEF writes
<1>6. Run("agent", writes, "ok") /\ holder' \in {holder, "agent"} /\ (holder' # holder => holder = NoHolder)
  BY <1>0 DEF RunLocked
<1>7. OperInv'
  <2>1. after'["agent"] = "ok"
    BY <1>6 DEF Run, TypeOK, Programs
  <2> QED BY <1>0, <1>1, <2>1 DEF OperInv
<1>8. entries' \subseteq Gens /\ oper'.kind \in Kinds
  BY <1>0, <1>1 DEF TypeOK, Kinds
<1>9. \A h \in Gens : st'[h].commit = "none" => st'[h].avail
  BY <1>0
<1> QED BY <1>0, <1>2, <1>4, <1>5, <1>6, <1>7, <1>8, <1>9, AgentRuns DEF TypeOK

\* A next-boot apply arms its trial, without the lock.
LEMMA CommitTrialStep == ASSUME IInv, CommitTrial PROVE IInv'
<1> USE DEF IInv
<1> DEFINE g == oper.gen
           new == [sel EXCEPT !.tgt = g, !.trial = g, !.prev = sel.def, !.prevE = sel.defE,
                              !.pending = TRUE, !.oneShot = FALSE]
           x == [st[g] EXCEPT !.commit = "committed", !.boot = "trying"]
           writes == WriteSelection(new) \o SetOneshot(g, WriteSelection(sel)) \o WriteStatus(g, x)
<1>0. /\ mode = "up" /\ agent /\ oper.run /\ oper.kind = "render"
      /\ entries' = entries \cup {g} /\ Run("agent", writes, "ok")
      /\ oper' = [oper EXCEPT !.kind = "trial"]
      /\ UNCHANGED <<st, agent, holder, slot, sel, efi, mode, running, armed, unit, deadman>>
  BY DEF CommitTrial, Executing, Serving, AgentOnly
<1>1. g \in Gens /\ g \in Pointer /\ Exists(st[g]) /\ st[g].avail /\ ~sel.pending /\ st[g] \in Status
  BY <1>0 DEF OperInv, Quiet, TypeOK, Pointer
<1>2. /\ BootableGens \subseteq BootableGens' /\ g \in BootableGens'
      /\ AllSelections \subseteq AllSelections'
  BY <1>0, <1>1, EntryWritten DEF TypeOK
<1>3. sel \in AllSelections' /\ sel.booted = running
  BY <1>0, <1>1, <1>2 DEF AllSelections, Selections
<1>4. new \in AllSelections'
  <2>1. sel \in Selection
    BY DEF TypeOK
  <2>2. new \in Selection
    BY <1>1, <2>1 DEF Selection
  <2>3. /\ new.def = sel.def /\ new.tgt = g /\ new.trial = g /\ new.prev = sel.def
        /\ new.booted = sel.booted /\ new.active = sel.active
    BY <2>1 DEF Selection
  <2> HIDE DEF new
  <2>4. Names(new) \subseteq BootableGens'
    BY <1>2, <1>3, <2>3 DEF AllSelections, Selections, Names
  <2> QED BY <1>0, <1>3, <2>2, <2>3, <2>4 DEF AllSelections, Selections
<1>5. x \in Live
  BY <1>1, StatusesLive
<1>6. writes \in Seq(Writes3(BootableGens', AllSelections'))
  <2> HIDE DEF new, x
  <2> QED BY <1>1, <1>2, <1>3, <1>4, <1>5, TrialPlan
<1> HIDE DEF writes, new, x
<1>7. /\ oper' \in [kind: Kinds, gen: Pointer, base: Pointer, run: BOOLEAN, sameBoot: BOOLEAN]
      /\ oper'.kind = "trial" /\ oper'.gen = g /\ oper'.base = oper.base /\ oper'.run
  BY <1>0 DEF OperInv, Kinds
<1>8. AgentSelections' = AllSelections'
  BY <1>7 DEF AgentSelections, Quiet
<1>9. OperInv'
  <2>1. after'["agent"] = "ok"
    BY <1>0 DEF Run, TypeOK, Programs
  <2> QED BY <1>0, <1>1, <1>7, <2>1 DEF OperInv, Quiet
<1>10. entries' \subseteq Gens /\ oper'.kind \in Kinds
  BY <1>0, <1>1, <1>7 DEF TypeOK, Kinds
<1>11. \A h \in Gens : st'[h].commit = "none" => st'[h].avail
  BY <1>0
<1> QED BY <1>0, <1>2, <1>6, <1>8, <1>9, <1>10, <1>11, AgentRuns DEF TypeOK

\* A host upgrade arms its trial, without the lock.
LEMMA ArmUpgradeStep == ASSUME IInv, ArmUpgrade PROVE IInv'
<1> USE DEF IInv
<1> DEFINE g == oper.gen
           new == [def |-> oper.base, defE |-> oper.base, tgt |-> g, trial |-> g,
                   prev |-> oper.base, prevE |-> oper.base, booted |-> NoGen,
                   active |-> NoGen, failed |-> NoGen, pending |-> TRUE, oneShot |-> FALSE,
                   recov |-> FALSE]
           x == [st[g] EXCEPT !.commit = "committed", !.boot = "trying"]
           c == [st[g] EXCEPT !.commit = "candidate"]
           writes == WriteSelection(new) \o SetOneshot(g, WriteSelection(sel)) \o WriteStatus(g, x)
<1>0. /\ mode = "up" /\ agent /\ oper.run /\ oper.kind = "staged"
      /\ st' = [st EXCEPT ![g].commit = "candidate"]
      /\ slot' = [slot EXCEPT ![g] = OtherSlot(slot[oper.base])]
      /\ entries' = entries \cup {g} /\ Run("agent", writes, "ok")
      /\ oper' = [oper EXCEPT !.kind = "arm"]
      /\ UNCHANGED <<agent, holder, sel, efi, mode, running, armed, unit, deadman>>
  BY DEF ArmUpgrade, Executing, Serving, volatile
<1>1. /\ g \in Gens /\ g \in Pointer /\ st[g].commit = "none" /\ st[g].avail /\ ~sel.pending
      /\ st[g] \in Status /\ oper.base \in BootableGens /\ oper.base \in Gens /\ oper.base \in Pointer
      /\ NoGen \in Pointer /\ NoGen \notin Gens
  BY <1>0, MaxGenAssumption DEF OperInv, Quiet, TypeOK, Pointer, NoGen, Gens
<1>2. /\ c \in Status /\ Exists(c) /\ c.avail
      /\ x \in Live
  BY <1>1 DEF Status, Exists, Live
<1>3. st' \in [Gens -> Status] /\ st'[g] = c /\ \A h \in Gens : h # g => st'[h] = st[h]
  BY <1>0, <1>1, <1>2 DEF TypeOK
<1> HIDE DEF c, x
<1>4. /\ BootableGens \subseteq BootableGens' /\ g \in BootableGens'
      /\ AllSelections \subseteq AllSelections'
  BY <1>0, <1>1, <1>2, <1>3, EntryWritten
<1>5. sel \in AllSelections'
  BY <1>4
<1>6. new \in AllSelections'
  <2>1. new \in Selection
    BY <1>1 DEF Selection
  <2>2. Names(new) \subseteq BootableGens'
    BY <1>1, <1>4 DEF Names
  <2> QED BY <1>1, <2>1, <2>2 DEF AllSelections, Selections
<1> HIDE DEF new
<1>7. writes \in Seq(Writes3(BootableGens', AllSelections'))
  BY <1>1, <1>2, <1>4, <1>5, <1>6, TrialPlan
<1> HIDE DEF writes
<1>8. /\ oper' \in [kind: Kinds, gen: Pointer, base: Pointer, run: BOOLEAN, sameBoot: BOOLEAN]
      /\ oper'.kind = "arm" /\ oper'.gen = g /\ oper'.base = oper.base /\ oper'.run
  BY <1>0 DEF OperInv, Kinds
<1>9. AgentSelections' = AllSelections'
  BY <1>8 DEF AgentSelections, Quiet
<1>10. OperInv'
  <2>1. after'["agent"] = "ok"
    BY <1>0 DEF Run, TypeOK, Programs
  <2> QED BY <1>0, <1>1, <1>8, <2>1 DEF OperInv, Quiet
<1>11. entries' \subseteq Gens /\ oper'.kind \in Kinds /\ slot' \in [Gens -> {"a", "b"}]
  BY <1>0, <1>1, <1>8 DEF TypeOK, Kinds, OtherSlot
<1>12. \A h \in Gens : st'[h].commit = "none" => st'[h].avail
  BY <1>2, <1>3
<1> QED BY <1>0, <1>3, <1>4, <1>7, <1>9, <1>10, <1>11, <1>12, AgentRuns DEF TypeOK

\* A generation is selected by hand.
LEMMA SelectStep ==
  ASSUME IInv, NEW g \in Gens, NEW oneShot \in BOOLEAN, Select(g, oneShot) PROVE IInv'
<1> USE DEF IInv
<1> DEFINE writes == SelectPlan(g, oneShot)
<1>0. /\ mode = "up" /\ oper = NoOper /\ ~sel.pending /\ Available(g) /\ IsKnownGood(st[g])
      /\ RunLocked("agent", writes, "ok")
      /\ UNCHANGED <<st, entries, agent, oper, slot, sel, efi, mode, running, armed, unit, deadman>>
  BY DEF Select, Serving, AgentOnly
<1>1. g \in BootableGens /\ oper.kind = "none" /\ sel \in Settled(AllSelections)
  BY <1>0 DEF Available, Accepted, Exists, BootableGens, NoOper, Settled
<1>2. BootableGens' = BootableGens /\ AllSelections' = AllSelections
  BY <1>0, SameRecords
<1>3. AgentSelections' = AllSelections
  BY <1>0, <1>1, <1>2 DEF AgentSelections, Quiet
<1>4. writes \in Seq(Writes3(BootableGens', AgentSelections'))
  BY <1>1, <1>2, <1>3, ChoicePlan
<1> HIDE DEF writes
<1>5. Run("agent", writes, "ok") /\ holder' \in {holder, "agent"} /\ (holder' # holder => holder = NoHolder)
  BY <1>0 DEF RunLocked
<1>6. OperInv'
  <2>1. after'["agent"] = "ok"
    BY <1>5 DEF Run, TypeOK, Programs
  <2> QED BY <1>0, <1>2, <2>1 DEF OperInv
<1>7. oper'.kind \in Kinds /\ \A h \in Gens : st'[h].commit = "none" => st'[h].avail
  BY <1>0, <1>1 DEF Kinds
<1> QED BY <1>0, <1>2, <1>4, <1>5, <1>6, <1>7, AgentRuns DEF TypeOK

\* A generation is removed that nothing needs: by request, or because the apply
\* it belongs to was interrupted.
LEMMA RemovalStep ==
  ASSUME IInv, mode = "up", NEW g \in Gens, g \notin Names(sel), ~sel.pending,
         ~oper.run, oper.kind \in {"none", "start", "render", "trial"},
         sel.failed = g => oper.kind = "none",
         RunLocked("agent", RemovePlan(g), "ok"), agent' \in BOOLEAN,
         UNCHANGED <<st, entries, oper, slot, sel, efi, mode, running, armed, unit, deadman>>
  PROVE  IInv'
<1> USE DEF IInv
<1> DEFINE writes == RemovePlan(g)
<1>1. /\ Run("agent", writes, "ok") /\ holder = NoHolder
      /\ holder' = IF writes = <<>> THEN NoHolder ELSE "agent"
  BY DEF RunLocked
<1>2. BootableGens' = BootableGens /\ AllSelections' = AllSelections /\ AgentSelections' = AgentSelections
  BY SameRecords DEF AgentSelections
<1>3. plan'["agent"] = writes /\ after'["agent"] = "ok"
  BY <1>1 DEF Run, PlansInv, TypeOK, Programs
<1>4. \/ writes \in Seq(Writes3(BootableGens', AgentSelections'))
      \/ \E D \in SUBSET Gens : Removing(D)'
  <2>1. CASE st[g].commit = "none"
    BY <2>1, EmptySeq DEF RemovePlan
  <2>2. CASE st[g].commit # "none"
    <3>1. sel \in Selection
      BY DEF TypeOK
    <3>2. sel.failed = g => [sel EXCEPT !.failed = NoGen] \in AgentSelections
      <4> SUFFICES ASSUME sel.failed = g PROVE [sel EXCEPT !.failed = NoGen] \in AgentSelections
        OBVIOUS
      <4> DEFINE s == [sel EXCEPT !.failed = NoGen]
      <4>1. AgentSelections = AllSelections
        BY DEF AgentSelections, Quiet
      <4>2. s \in Selection
        BY <3>1 DEF Selection, Pointer
      <4>3. /\ s.def = sel.def /\ s.tgt = sel.tgt /\ s.trial = sel.trial /\ s.prev = sel.prev
            /\ s.booted = sel.booted /\ s.active = sel.active /\ s.pending = sel.pending
        BY <3>1 DEF Selection
      <4> HIDE DEF s
      <4>4. Names(s) = Names(sel)
        BY <4>3 DEF Names
      <4>5. s \in AllSelections
        BY <4>2, <4>3, <4>4 DEF AllSelections, Selections
      <4> QED BY <4>1, <4>5 DEF s
    <3>3. writes \in Seq(Kills({g}, AgentSelections)) /\ writes # <<>>
      BY <2>2, <3>1, <3>2, RemovalPlan
    <3> HIDE DEF writes
    <3>4. running # g
      BY DEF AllSelections, Selections, Names, MachineInv, TypeOK, Gens, NoGen
    <3>5. Removing({g})'
      BY <1>1, <1>2, <1>3, <2>2, <3>3, <3>4 DEF Removing
    <3>6. {g} \in SUBSET Gens
      OBVIOUS
    <3> QED BY <3>5, <3>6
  <2> QED BY <2>1, <2>2
<1> HIDE DEF writes
<1>5. holder' \in {holder, "agent"} /\ (holder' # holder => holder = NoHolder)
  BY <1>1
<1>6. OperInv'
  BY <1>2, <1>3 DEF OperInv
<1>7. oper'.kind \in Kinds /\ \A h \in Gens : st'[h].commit = "none" => st'[h].avail
  BY DEF Kinds
<1> QED BY <1>1, <1>2, <1>4, <1>5, <1>6, <1>7, AgentRuns DEF TypeOK

\* A generation is removed by hand, or pruned.
LEMMA RemoveStep == ASSUME IInv, NEW g \in Gens, Remove(g) PROVE IInv'
<1>1. /\ mode = "up" /\ oper = NoOper /\ ~sel.pending /\ ~Protected(g) /\ agent \in BOOLEAN
      /\ RunLocked("agent", RemovePlan(g), "ok")
      /\ UNCHANGED <<st, entries, agent, oper, slot, sel, efi, mode, running, armed, unit, deadman>>
  BY DEF Remove, Serving, AgentOnly, IInv, TypeOK
<1>2. g \notin Names(sel) /\ oper.kind = "none" /\ ~oper.run
  BY <1>1 DEF Protected, Names, NoOper
<1> QED BY <1>1, <1>2, RemovalStep

\* The agent starts and recovers the operation it finds.
LEMMA AgentStartStep == ASSUME IInv, AgentStart PROVE IInv'
<1> USE DEF IInv
<1>0. /\ mode = "up" /\ ~agent /\ agent' = TRUE
      /\ UNCHANGED <<st, entries, oper, slot, sel, efi, mode, running, armed, unit, deadman>>
  BY DEF AgentStart, AgentOnly
<1>1. ~oper.run
  BY <1>0 DEF OperInv
<1>2. BootableGens' = BootableGens /\ AllSelections' = AllSelections /\ AgentSelections' = AgentSelections
  BY <1>0, SameRecords DEF AgentSelections
<1>3. \A h \in Gens : st'[h].commit = "none" => st'[h].avail
  BY <1>0
<1>4. CASE Resumable
  <2> DEFINE end == IF ResumeRefused THEN "failed" ELSE "ok"
  <2>1. RunLocked("agent", ResumePlan, end)
    BY <1>4 DEF AgentStart
  <2>2. oper.kind = "live" /\ oper.gen \in BootableGens /\ ~sel.pending
    BY <1>4 DEF Resumable, OperInv, Quiet, IsKnownGood, Accepted, Exists, BootableGens
  <2>3. /\ sel \in Settled(Selections(BootableGens, mode, running)) /\ BootableGens \in SUBSET Gens
        /\ \A h \in BootableGens : Exists(st[h]) /\ st[h].avail
        /\ AgentSelections' = Settled(Selections(BootableGens, mode, running))
    BY <1>2, <2>2 DEF AgentSelections, AllSelections, Settled, BootableGens, Quiet
  <2>4. ResumePlan \in Seq(Writes3(BootableGens', AgentSelections'))
    BY <1>2, <2>2, <2>3, ResumedPlan
  <2>5. /\ Run("agent", ResumePlan, end) /\ holder' \in {holder, "agent"}
        /\ (holder' # holder => holder = NoHolder) /\ end \in {"ok", "failed", "staged"} /\ end # "staged"
    BY <2>1 DEF RunLocked
  <2> HIDE DEF end
  <2>6. OperInv' /\ oper'.kind \in Kinds
    <3>1. after'["agent"] = end
      BY <2>5 DEF Run, TypeOK, Programs
    <3> QED BY <1>0, <1>1, <1>2, <2>2, <2>5, <3>1 DEF OperInv, Kinds
  <2> QED BY <1>0, <1>2, <1>3, <2>4, <2>5, <2>6, AgentRuns DEF TypeOK
<1>5. CASE ~Resumable /\ Discardable
  <2>1. RunLocked("agent", RemovePlan(oper.gen), "ok")
    BY <1>5 DEF AgentStart
  <2>2. /\ oper.kind \in {"none", "start", "render", "trial"} /\ oper.gen \in Gens /\ ~sel.pending
        /\ oper.gen \notin Names(sel) /\ sel.failed # oper.gen
    BY <1>5 DEF Discardable, OperInv, Names
  <2> QED BY <1>0, <1>1, <2>1, <2>2, RemovalStep
<1>6. CASE ~Resumable /\ ~Discardable
  <2>1. UNCHANGED <<plan, after, holder>>
    BY <1>6 DEF AgentStart
  <2>2. PlansInv'
    BY <1>0, <2>1, SamePlans
  <2>3. TypeOK'
    BY <1>0, <2>1 DEF TypeOK
  <2>4. MachineInv' /\ RebootInv'
    BY <1>0, <1>2, <2>1 DEF MachineInv, RebootInv
  <2>5. OperInv'
    BY <1>0, <1>1, <1>2, <2>1 DEF OperInv
  <2> QED BY <1>0, <1>2, <1>3, <2>2, <2>3, <2>4, <2>5
<1> QED BY <1>4, <1>5, <1>6

\* A host upgrade makes the other slot unbootable.
LEMMA InvalidateSlotStep == ASSUME IInv, InvalidateSlot PROVE IInv'
<1> USE DEF IInv
<1> DEFINE G == {g \in Gens : Exists(st[g]) /\ slot[g] = OtherSlot(slot[oper.base])}
           act == IF sel.active # NoGen THEN sel.active ELSE sel.booted
           refused == \/ {sel.active, sel.booted} \cap G # {}
                      \/ /\ {sel.def, sel.tgt, sel.trial} \cap G # {}
                         /\ act = NoGen \/ ~IsKnownGood(st[act])
           writes == When(~refused, InvalidatePlan(G))
           end == IF refused THEN "failed" ELSE "staged"
<1>0. /\ mode = "up" /\ agent /\ oper.run /\ oper.kind = "upgrade"
      /\ RunLocked("agent", writes, end)
      /\ UNCHANGED <<st, entries, agent, oper, slot, sel, efi, mode, running, armed, unit, deadman>>
  BY DEF InvalidateSlot, Executing, Serving, AgentOnly
<1>1. ~sel.pending /\ sel \in Settled(AllSelections) /\ sel.booted = running /\ oper.base \in Gens
  BY <1>0 DEF OperInv, Quiet, Settled, AllSelections, Selections
<1>2. BootableGens' = BootableGens /\ AllSelections' = AllSelections
  BY <1>0, SameRecords
<1>3. AgentSelections' = Settled(AllSelections)
  BY <1>0, <1>2 DEF AgentSelections, Quiet
<1>4. /\ Run("agent", writes, end) /\ holder = NoHolder
      /\ holder' = IF writes = <<>> THEN NoHolder ELSE "agent"
  BY <1>0 DEF RunLocked
<1>5. plan'["agent"] = writes /\ after'["agent"] = end
  BY <1>4 DEF Run, PlansInv, TypeOK, Programs
<1>6. \/ writes \in Seq(Writes3(BootableGens', AgentSelections'))
      \/ \E D \in SUBSET Gens : Removing(D)'
  <2>1. CASE refused
    <3>1. writes = <<>>
      BY <2>1 DEF When
    <3> QED BY <3>1, EmptySeq
  <2>2. CASE ~refused
    <3>1. writes = InvalidatePlan(G)
      BY <2>2 DEF When
    <3>2. /\ {sel.active, sel.booted} \cap G = {}
          /\ {sel.def, sel.tgt, sel.trial} \cap G # {} => act # NoGen
      BY <2>2
    <3>3. G \in SUBSET Gens /\ running \notin G /\ \A g \in G : st[g].commit # "none"
      BY <1>1, <3>2 DEF Exists
    <3>4. oper.base \notin G
      BY <1>1 DEF OtherSlot, TypeOK
    <3> HIDE DEF G, refused, writes
    <3> PICK D \in SUBSET Gens : D = G
      BY <3>3
    <3>5. /\ InvalidatePlan(G) \in Seq(Kills(G, Settled(AllSelections)))
          /\ InvalidatePlan(G) # <<>> /\ SelectsFirst(InvalidatePlan(G))
      BY <1>1, <3>2, <3>3, InvalidationPlan
    <3>6. Removing(D)'
      BY <1>0, <1>3, <1>4, <1>5, <3>1, <3>3, <3>4, <3>5 DEF Removing
    <3> QED BY <3>6
  <2> QED BY <2>1, <2>2
<1> HIDE DEF writes, refused, G
<1>7. end \in {"ok", "failed", "staged"}
  OBVIOUS
<1> HIDE DEF end
<1>8. holder' \in {holder, "agent"} /\ (holder' # holder => holder = NoHolder)
  BY <1>4
<1>9. OperInv'
  BY <1>0, <1>2 DEF OperInv
<1>10. oper'.kind \in Kinds /\ \A h \in Gens : st'[h].commit = "none" => st'[h].avail
  BY <1>0 DEF Kinds
<1> QED BY <1>0, <1>2, <1>4, <1>6, <1>7, <1>8, <1>9, <1>10, AgentRuns DEF TypeOK

-----------------------------------------------------------------------------
(* What is acknowledged boots next.                                        *)

\* A write of the plan moves the one-shot boot, or leaves it to the rest.
LEMMA LeavesRest ==
  ASSUME NEW W, NEW s \in Seq(W), s # <<>>, NEW g, NEW c, Leaves(s, g, c)
  PROVE  Leaves(Tail(s), g, IF Head(s).do = "oneshot" THEN Head(s).gen ELSE c)
<1>1. /\ Head(s) = s[1] /\ Len(s) \in Nat /\ Len(s) >= 1 /\ Len(Tail(s)) = Len(s) - 1
      /\ \A k \in 1..Len(Tail(s)) : Tail(s)[k] = s[k + 1]
  BY FirstAndRest
<1>2. PICK t : t = Tail(s)
  OBVIOUS
<1>3. /\ Len(t) = Len(s) - 1 /\ \A k \in 1..(Len(s) - 1) : t[k] = s[k + 1]
  BY <1>1, <1>2
<1>4. CASE c = g /\ \A i \in 1..Len(s) : s[i].do # "oneshot"
  <2>1. Head(s).do # "oneshot"
    BY <1>1, <1>4
  <2>2. ASSUME NEW k \in 1..Len(t) PROVE t[k].do # "oneshot"
    <3>1. k \in 1..(Len(s) - 1) /\ k + 1 \in 1..Len(s)
      BY <1>1, <1>3
    <3> QED BY <1>3, <1>4, <3>1
  <2> QED BY <1>2, <1>4, <2>1, <2>2 DEF Leaves
<1>5. CASE \E i \in 1..Len(s) : /\ s[i].do = "oneshot" /\ s[i].gen = g
                                /\ \A j \in (i + 1)..Len(s) : s[j].do # "oneshot"
  <2>1. PICK i \in 1..Len(s) : /\ s[i].do = "oneshot" /\ s[i].gen = g
                               /\ \A j \in (i + 1)..Len(s) : s[j].do # "oneshot"
    BY <1>5
  <2>2. ASSUME NEW k \in i..Len(t) PROVE t[k].do # "oneshot"
    <3>1. k \in 1..(Len(s) - 1) /\ k + 1 \in (i + 1)..Len(s)
      BY <1>1, <1>3, <2>1
    <3> QED BY <1>3, <2>1, <3>1
  <2>3. CASE i = 1
    BY <1>1, <1>2, <2>1, <2>2, <2>3 DEF Leaves
  <2>4. CASE i # 1
    <3>1. i - 1 \in 1..Len(t) /\ i - 1 \in 1..(Len(s) - 1) /\ (i - 1) + 1 = i
      BY <1>1, <1>3, <2>4
    <3>2. t[i - 1] = s[i]
      BY <1>3, <3>1
    <3>3. \E m \in 1..Len(t) : /\ t[m].do = "oneshot" /\ t[m].gen = g
                               /\ \A j \in (m + 1)..Len(t) : t[j].do # "oneshot"
      BY <2>1, <2>2, <3>1, <3>2
    <3> QED BY <1>2, <3>3 DEF Leaves
  <2> QED BY <2>3, <2>4
<1> QED BY <1>4, <1>5 DEF Leaves

\* A plan that ends with the one-shot boot of g, or with one write after it.
LEMMA EndsArmed ==
  ASSUME NEW W, NEW x \in Seq(W), NEW g, NEW e, NEW c
  PROVE  Leaves(x \o SetOneshot(g, e), g, c)
<1>1. PICK w : w = [do |-> "oneshot", gen |-> g, err |-> e]
  OBVIOUS
<1>2. SetOneshot(g, e) = <<w>> /\ w.do = "oneshot" /\ w.gen = g
  BY <1>1 DEF SetOneshot
<1>3. x \in Seq(W \cup {w}) /\ <<w>> \in Seq(W \cup {w}) /\ Len(<<w>>) = 1 /\ <<w>>[1] = w
  <2>1. W \subseteq W \cup {w} /\ w \in W \cup {w}
    OBVIOUS
  <2> QED BY <2>1, SeqMono
<1>4. /\ Len(x) \in Nat /\ Len(x \o <<w>>) = Len(x) + 1
      /\ (x \o <<w>>)[Len(x) + 1] = w
  BY <1>3, ConcatProperties, LenProperties
<1>5. Len(x) + 1 \in 1..Len(x \o <<w>>)
  BY <1>4
<1>6. Leaves(x \o <<w>>, g, c)
  BY <1>2, <1>4, <1>5 DEF Leaves
<1> QED BY <1>2, <1>6

LEMMA TrialArmed ==
  ASSUME NEW n, NEW e, NEW g, NEW x, NEW c
  PROVE  Leaves(WriteSelection(n) \o SetOneshot(g, e) \o WriteStatus(g, x), g, c)
<1>1. PICK a : a = [do |-> "selection", sel |-> n]
  OBVIOUS
<1>2. PICK b : b = [do |-> "oneshot", gen |-> g, err |-> e]
  OBVIOUS
<1>3. PICK d : d = [do |-> "status", gen |-> g, status |-> x]
  OBVIOUS
<1>4. WriteSelection(n) = <<a>> /\ SetOneshot(g, e) = <<b>> /\ WriteStatus(g, x) = <<d>>
  BY <1>1, <1>2, <1>3 DEF WriteSelection, SetOneshot, WriteStatus
<1>5. b.do = "oneshot" /\ b.gen = g /\ d.do # "oneshot"
  BY <1>2, <1>3
<1> DEFINE W == {a, b, d}
<1>6. /\ <<a>> \in Seq(W) /\ <<b>> \in Seq(W) /\ <<d>> \in Seq(W)
      /\ Len(<<a>>) = 1 /\ Len(<<b>>) = 1 /\ Len(<<d>>) = 1 /\ <<b>>[1] = b /\ <<d>>[1] = d
  OBVIOUS
<1> HIDE DEF W
<1>7. PICK y : y = <<a>> \o <<b>>
  OBVIOUS
<1>8. y \in Seq(W) /\ Len(y) = 2 /\ y[2] = b
  BY <1>6, <1>7, ConcatProperties
<1>9. PICK z : z = <<d>>
  OBVIOUS
<1>10. z \in Seq(W) /\ Len(z) = 1 /\ z[1] = d
  BY <1>6, <1>9
<1>11. PICK r : r = y \o z
  OBVIOUS
<1>12. Len(r) = 3 /\ r[2] = b /\ r[3] = d
  <2>1. /\ Len(r) = Len(y) + Len(z)
        /\ \A i \in 1..(Len(y) + Len(z)) : r[i] = IF i <= Len(y) THEN y[i] ELSE z[i - Len(y)]
    BY <1>8, <1>10, <1>11, ConcatProperties
  <2>2. r[2] = y[2] /\ r[3] = z[1]
    BY <1>8, <1>10, <2>1
  <2> QED BY <1>8, <1>10, <2>1, <2>2
<1>13. Leaves(r, g, c)
  <2>1. 2 \in 1..Len(r) /\ r[2].do = "oneshot" /\ r[2].gen = g
    BY <1>5, <1>12
  <2>2. \A j \in (2 + 1)..Len(r) : r[j].do # "oneshot"
    BY <1>5, <1>12
  <2> QED BY <2>1, <2>2 DEF Leaves
<1> QED BY <1>4, <1>7, <1>9, <1>11, <1>13

\* Nothing that arms a boot is acknowledged after the step.
LEMMA NotArmed ==
  ASSUME \A p \in {"health", "deadman"} : plan'[p] \in Seq(MildWrites),
         after'["agent"] # "ok" \/ ~ArmsBoot'
  PROVE  NextBootInv'
  BY DEF NextBootInv

\* The agent stands still while something else moves.
LEMMA AgentRests ==
  ASSUME NextBootInv, \A p \in {"health", "deadman"} : plan'[p] \in Seq(MildWrites),
         after'["agent"] = after["agent"], plan'["agent"] = plan["agent"], oper' = oper,
         efi'.once = efi.once, entries \subseteq entries'
  PROVE  NextBootInv'
  BY DEF NextBootInv, ArmsBoot

\* The plan of an agent that arms a boot takes nothing away.
LEMMA ArmingPlan ==
  ASSUME IInv, ArmsBoot
  PROVE  plan["agent"] \in Seq(Writes3(BootableGens, AgentSelections))
  BY DEF IInv, PlansInv, Removing, ArmsBoot

\* A write of a service.
LEMMA MildHead ==
  ASSUME NextBootInv, NEW p \in {"health", "deadman"}, plan[p] # <<>>
  PROVE  /\ Head(plan[p]).do \in {"selection", "status", "disarm", "default"}
         /\ Head(plan[p]).do = "default" => Head(plan[p]).err = <<>>
         /\ Tail(plan[p]) \in Seq(MildWrites)
<1>1. plan[p] \in Seq(MildWrites)
  BY DEF NextBootInv
<1>2. Head(plan[p]) \in MildWrites /\ Tail(plan[p]) \in Seq(MildWrites)
  BY <1>1, FirstAndRest
<1>3. PICK h \in MildWrites : h = Head(plan[p])
  BY <1>2
<1>4. h.do \in {"selection", "status", "disarm", "default"} /\ (h.do = "default" => h.err = <<>>)
  BY DEF MildWrites, Mild, Plain
<1> QED BY <1>2, <1>3, <1>4

\* Another program's plan goes on.
LEMMA OtherPlans ==
  ASSUME IInv, NextBootInv, NEW p \in Programs, NEW rest, plan' = [plan EXCEPT ![p] = rest],
         p # "agent" => rest \in Seq(MildWrites)
  PROVE  /\ \A q \in {"health", "deadman"} : plan'[q] \in Seq(MildWrites)
         /\ p # "agent" => plan'["agent"] = plan["agent"]
         /\ p = "agent" => plan'["agent"] = rest
<1>1. plan = [q \in Programs |-> plan[q]]
  BY DEF IInv, PlansInv
<1>2. plan'[p] = rest /\ \A q \in Programs : q # p => plan'[q] = plan[q]
  BY <1>1
<1> QED BY <1>2 DEF NextBootInv, Programs

LEMMA WriteNext == ASSUME IInv, NextBootInv, NEW p \in Programs, Write(p) PROVE NextBootInv'
<1>1. PICK w : w = Head(plan[p])
  OBVIOUS
<1>2. /\ plan[p] # <<>> /\ plan' = [plan EXCEPT ![p] = Tail(plan[p])]
      /\ entries' = IF w.do = "unlink" THEN entries \ {w.gen} ELSE entries
      /\ efi' = IF w.do = "default" THEN [efi EXCEPT !.def = w.gen]
                ELSE IF w.do = "oneshot" THEN [efi EXCEPT !.once = w.gen] ELSE efi
      /\ oper' = oper /\ after' = after
  BY <1>1 DEF Write, Continue
<1>3. efi \in [def: Pointer, once: Pointer]
  BY DEF IInv, TypeOK
<1>4. efi'.once = IF w.do = "oneshot" THEN w.gen ELSE efi.once
  BY <1>2, <1>3
<1>5. CASE p # "agent"
  <2>1. p \in {"health", "deadman"}
    BY <1>5 DEF Programs
  <2>2. w.do \in {"selection", "status", "disarm", "default"} /\ Tail(plan[p]) \in Seq(MildWrites)
    BY <1>1, <1>2, <2>1, MildHead
  <2>3. /\ \A q \in {"health", "deadman"} : plan'[q] \in Seq(MildWrites)
        /\ plan'["agent"] = plan["agent"]
    BY <1>2, <1>5, <2>2, OtherPlans
  <2> QED BY <1>2, <1>4, <2>2, <2>3, AgentRests
<1>6. CASE p = "agent"
  <2>1. /\ \A q \in {"health", "deadman"} : plan'[q] \in Seq(MildWrites)
        /\ plan'["agent"] = Tail(plan["agent"])
    BY <1>2, <1>6, OtherPlans
  <2>2. CASE ~(after["agent"] = "ok" /\ ArmsBoot)
    <3>1. ArmsBoot' = ArmsBoot
      BY <1>2 DEF ArmsBoot
    <3> QED BY <1>2, <2>1, <2>2, <3>1, NotArmed
  <2>3. CASE after["agent"] = "ok" /\ ArmsBoot
    <3>1. plan["agent"] \in Seq(Writes3(BootableGens, AgentSelections))
      BY <2>3, ArmingPlan
    <3>2. w \in Writes3(BootableGens, AgentSelections)
      BY <1>1, <1>2, <1>6, <3>1, FirstAndRest
    <3>3. w.do # "unlink"
      BY <3>2 DEF Writes3, Plain, Efi
    <3>4. oper.gen \in entries /\ Leaves(plan["agent"], oper.gen, efi.once)
      BY <2>3 DEF NextBootInv
    <3>5. Leaves(Tail(plan["agent"]), oper.gen, IF w.do = "oneshot" THEN w.gen ELSE efi.once)
      BY <1>1, <1>2, <1>6, <3>1, <3>4, LeavesRest
    <3>6. Leaves(plan'["agent"], oper'.gen, efi'.once) /\ oper'.gen \in entries'
      BY <1>2, <1>4, <2>1, <3>3, <3>4, <3>5
    <3> QED BY <2>1, <3>6 DEF NextBootInv
  <2> QED BY <2>2, <2>3
<1> QED BY <1>5, <1>6

LEMMA DropNext == ASSUME IInv, NextBootInv, NEW p \in Programs, Drop(p) PROVE NextBootInv'
<1>1. plan[p] # <<>> /\ Head(plan[p]).do = "drop" /\ oper' = oper /\ after' = after
  BY DEF Drop
<1>2. p = "agent"
  <2>1. p \notin {"health", "deadman"}
    BY <1>1, MildHead
  <2> QED BY <2>1 DEF Programs
<1>3. ~ArmsBoot
  <2> SUFFICES ASSUME ArmsBoot PROVE FALSE
    OBVIOUS
  <2>1. Head(plan["agent"]) \in Writes3(BootableGens, AgentSelections)
    BY <1>1, <1>2, ArmingPlan, FirstAndRest
  <2> QED BY <1>1, <1>2, <2>1 DEF Writes3, Plain, Efi
<1>4. PICK rest : plan' = [plan EXCEPT ![p] = rest]
  BY DEF Drop, Continue
<1>5. \A q \in {"health", "deadman"} : plan'[q] \in Seq(MildWrites)
  BY <1>2, <1>4, OtherPlans
<1>6. ~ArmsBoot'
  BY <1>1, <1>3 DEF ArmsBoot
<1> QED BY <1>5, <1>6, NotArmed

LEMMA EfiErrorNext == ASSUME IInv, NextBootInv, NEW p \in Programs, EfiError(p) PROVE NextBootInv'
<1>1. PICK w : w = Head(plan[p])
  OBVIOUS
<1>2. /\ plan[p] # <<>> /\ plan' = [plan EXCEPT ![p] = w.err]
      /\ w.do \in {"default", "oneshot"} /\ after' = [after EXCEPT ![p] = "failed"]
      /\ efi' \in {efi, IF w.do = "default" THEN [efi EXCEPT !.def = w.gen]
                                            ELSE [efi EXCEPT !.once = w.gen]}
      /\ oper' = oper /\ entries' = entries
  BY <1>1 DEF EfiError, Continue
<1>3. efi \in [def: Pointer, once: Pointer] /\ "agent" \in Programs /\ after = [q \in Programs |-> after[q]]
  BY DEF IInv, TypeOK, Programs
<1>4. CASE p # "agent"
  <2>1. p \in {"health", "deadman"}
    BY <1>4 DEF Programs
  <2>2. w.do = "default" /\ w.err = <<>>
    BY <1>1, <1>2, <2>1, MildHead
  <2>3. efi'.once = efi.once /\ after'["agent"] = after["agent"] /\ w.err \in Seq(MildWrites)
    BY <1>2, <1>3, <1>4, <2>2, EmptySeq
  <2>4. /\ \A q \in {"health", "deadman"} : plan'[q] \in Seq(MildWrites)
        /\ plan'["agent"] = plan["agent"]
    BY <1>2, <1>4, <2>3, OtherPlans
  <2> QED BY <1>2, <2>3, <2>4, AgentRests
<1>5. CASE p = "agent"
  <2>1. \A q \in {"health", "deadman"} : plan'[q] \in Seq(MildWrites)
    BY <1>2, <1>5, OtherPlans
  <2>2. after'["agent"] = "failed"
    BY <1>2, <1>3, <1>5
  <2> QED BY <2>1, <2>2, NotArmed
<1> QED BY <1>4, <1>5

\* A service that has the lock plans its writes.
LEMMA ServiceNext ==
  ASSUME IInv, NextBootInv, NEW p \in {"health", "deadman"}, NEW writes \in Seq(MildWrites), NEW end,
         Run(p, writes, end), efi' = efi, entries' = entries, oper' = oper
  PROVE  NextBootInv'
<1>1. p \in Programs /\ p # "agent" /\ "agent" \in Programs
  BY DEF Programs
<1>2. plan' = [plan EXCEPT ![p] = writes] /\ after' = [after EXCEPT ![p] = end]
  BY DEF Run
<1>3. after'["agent"] = after["agent"]
  BY <1>1, <1>2 DEF IInv, TypeOK
<1>4. /\ \A q \in {"health", "deadman"} : plan'[q] \in Seq(MildWrites)
      /\ plan'["agent"] = plan["agent"]
  BY <1>1, <1>2, OtherPlans
<1> QED BY <1>3, <1>4, AgentRests

LEMMA ServicePlans ==
  ASSUME IInv, running \in Gens
  PROVE  /\ <<>> \in Seq(MildWrites)
         /\ BootValidated => PromoteBooted \in Seq(MildWrites)
         /\ BootValidated => \A reboot \in BOOLEAN : FailBooted(reboot) \in Seq(MildWrites)
<1>1. BootableGens \in SUBSET Gens /\ Settled(AllSelections) \in SUBSET Selection
  BY DEF BootableGens, Settled, AllSelections, Selections
<1>2. Seq(Mild(BootableGens, Settled(AllSelections))) \subseteq Seq(MildWrites)
  BY <1>1, MildAnywhere
<1>3. BootValidated => PromoteBooted \in Seq(Mild(BootableGens, Settled(AllSelections)))
  BY PromotePlan DEF IInv
<1>4. BootValidated => \A reboot \in BOOLEAN :
                         FailBooted(reboot) \in Seq(Mild(BootableGens, Settled(AllSelections)))
  BY FailPlan DEF IInv
<1> QED BY <1>2, <1>3, <1>4, EmptySeq

LEMMA HealthNext ==
  ASSUME IInv, NextBootInv, HealthSuccess \/ HealthNetworkFailure \/ Recovery \/ Deadman
  PROVE  NextBootInv'
<1>1. running \in Gens /\ efi' = efi /\ entries' = entries /\ oper' = oper
  BY DEF IInv, MachineInv, HealthSuccess, HealthNetworkFailure, HealthRun, Recovery, Deadman,
         FailAndReboot, disk
<1>2. ASSUME NEW p \in {"health", "deadman"}, NEW writes \in Seq(MildWrites), NEW end, RunLocked(p, writes, end)
      PROVE  NextBootInv'
  BY <1>1, <1>2, ServiceNext DEF RunLocked
<1>3. /\ <<>> \in Seq(MildWrites)
      /\ BootValidated => PromoteBooted \in Seq(MildWrites)
      /\ BootValidated => FailBooted(TRUE) \in Seq(MildWrites) /\ FailBooted(FALSE) \in Seq(MildWrites)
  BY <1>1, ServicePlans
<1>4. CASE HealthSuccess
  <2>1. CASE ~BootValidated \/ ~st[running].avail \/ ~Accepted(st[running])
    BY <1>2, <1>3, <1>4, <2>1 DEF HealthSuccess, HealthRun
  <2>2. CASE ~(~BootValidated \/ ~st[running].avail \/ ~Accepted(st[running]))
    <3>1. RunLocked("health", When(~KeepsLaterTarget(sel, st[running], running), PromoteBooted), "ok")
      BY <1>4, <2>2 DEF HealthSuccess, HealthRun
    <3>2. When(~KeepsLaterTarget(sel, st[running], running), PromoteBooted) \in Seq(MildWrites)
      BY <1>3, <2>2 DEF When
    <3> QED BY <1>2, <3>1, <3>2
  <2> QED BY <2>1, <2>2
<1>5. CASE HealthNetworkFailure
  <2>1. RunLocked("health", When(BootValidated, FailBooted(FALSE)), "failed")
    BY <1>5 DEF HealthNetworkFailure, HealthRun
  <2>2. When(BootValidated, FailBooted(FALSE)) \in Seq(MildWrites)
    BY <1>3 DEF When
  <2> QED BY <1>2, <2>1, <2>2
<1>6. CASE Recovery \/ Deadman
  <2>1. PICK p \in {"health", "deadman"} : FailAndReboot(p)
    BY <1>6 DEF Recovery, Deadman
  <2>2. PICK end : RunLocked(p, When(BootValidated, FailBooted(TRUE)), end)
    BY <2>1 DEF FailAndReboot
  <2>3. When(BootValidated, FailBooted(TRUE)) \in Seq(MildWrites)
    BY <1>3 DEF When
  <2> QED BY <1>2, <2>2, <2>3
<1> QED BY <1>4, <1>5, <1>6

\* Steps of the machine and of the units.
LEMMA MachineNext ==
  ASSUME IInv, NextBootInv,
         \/ Boot \/ PowerOff \/ Activate \/ ActivationFailure \/ DeadlinePasses
         \/ HealthDependencyFailure \/ HealthBookkeepingFailure \/ \E p \in Programs : Exit(p)
  PROVE  NextBootInv'
<1>1. "agent" \in Programs /\ after \in [Programs -> {"none", "ok", "failed", "reboot", "staged"}]
  BY DEF Programs, IInv, TypeOK
<1>2. ASSUME plan' = plan, after'["agent"] = after["agent"], oper' = oper, efi' = efi, entries' = entries
      PROVE  NextBootInv'
  BY <1>2, AgentRests DEF NextBootInv
<1>3. CASE Boot
  <2>1. after'["agent"] = "none" /\ plan' = plan
    BY <1>1, <1>3 DEF Boot, IInv, MachineInv
  <2> QED BY <2>1, NotArmed DEF NextBootInv
<1>4. CASE PowerOff
  <2>1. after'["agent"] = "none" /\ \A p \in Programs : plan'[p] = <<>>
    BY <1>1, <1>4 DEF PowerOff
  <2>2. \A p \in {"health", "deadman"} : plan'[p] \in Seq(MildWrites)
    BY <2>1, EmptySeq DEF Programs
  <2> QED BY <2>1, <2>2, NotArmed
<1>5. CASE Activate \/ ActivationFailure
  BY <1>2, <1>5 DEF Activate, ActivationFailure, ActivateWith
<1>6. CASE DeadlinePasses \/ HealthDependencyFailure
  BY <1>2, <1>6 DEF DeadlinePasses, HealthDependencyFailure, disk
<1>7. CASE HealthBookkeepingFailure
  <2>1. after'["agent"] = after["agent"]
    BY <1>1, <1>7 DEF HealthBookkeepingFailure
  <2> QED BY <1>2, <1>7, <2>1 DEF HealthBookkeepingFailure, disk
<1>8. CASE \E p \in Programs : Exit(p)
  <2>1. PICK p \in Programs : Exit(p)
    BY <1>8
  <2>2. CASE after[p] = "reboot"
    BY <1>4, <2>1, <2>2 DEF Exit
  <2>3. CASE after[p] # "reboot"
    <3>1. /\ p # "agent" /\ after' = [after EXCEPT ![p] = "none"]
          /\ UNCHANGED <<disk, oper, plan>>
      BY <2>1, <2>3 DEF Exit
    <3>2. after'["agent"] = after["agent"]
      BY <1>1, <3>1
    <3> QED BY <1>2, <3>1, <3>2 DEF disk
  <2> QED BY <2>2, <2>3
<1> QED BY <1>3, <1>4, <1>5, <1>6, <1>7, <1>8

\* The agent has planned writes that leave the firmware with its generation, or
\* that arm nothing.
LEMMA AgentNext ==
  ASSUME IInv, NextBootInv, NEW writes, NEW end, Run("agent", writes, end),
         end = "ok" /\ ArmsBoot' => oper'.gen \in entries' /\ Leaves(writes, oper'.gen, efi'.once)
  PROVE  NextBootInv'
<1>1. "agent" \in Programs /\ after \in [Programs -> {"none", "ok", "failed", "reboot", "staged"}]
  BY DEF Programs, IInv, TypeOK
<1>2. plan' = [plan EXCEPT !["agent"] = writes] /\ after' = [after EXCEPT !["agent"] = end]
  BY DEF Run
<1>3. after'["agent"] = end
  BY <1>1, <1>2
<1>4. /\ \A q \in {"health", "deadman"} : plan'[q] \in Seq(MildWrites)
      /\ plan'["agent"] = writes
  BY <1>1, <1>2, OtherPlans
<1> QED BY <1>3, <1>4 DEF NextBootInv

\* Steps of an agent that has not planned anything, or is over with it.
LEMMA AgentQuietNext ==
  ASSUME IInv, NextBootInv,
         \/ AgentDone \/ AgentCrash \/ Render \/ Abandon \/ OperationFails
         \/ \E g \in Gens : HostUpgrade(g) \/ \E live \in BOOLEAN : ApplyConfig(g, live)
  PROVE  NextBootInv'
<1>1. "agent" \in Programs /\ after \in [Programs -> {"none", "ok", "failed", "reboot", "staged"}]
  BY DEF Programs, IInv, TypeOK
<1>2. ASSUME plan' = plan, after'["agent"] = "none" PROVE NextBootInv'
  BY <1>2, NotArmed DEF NextBootInv
<1>3. CASE AgentDone
  <2>1. plan' = plan /\ after'["agent"] = "none"
    BY <1>1, <1>3 DEF AgentDone
  <2> QED BY <1>2, <2>1
<1>4. CASE AgentCrash
  <2>1. after'["agent"] = "none" /\ plan' = [plan EXCEPT !["agent"] = <<>>]
    BY <1>1, <1>4 DEF AgentCrash
  <2>2. \A q \in {"health", "deadman"} : plan'[q] \in Seq(MildWrites)
    BY <1>1, <2>1, OtherPlans
  <2> QED BY <2>1, <2>2, NotArmed
<1>5. CASE Render \/ Abandon \/ OperationFails
  BY <1>2, <1>5 DEF Render, Abandon, OperationFails, Executing, Serving, Idle
<1>6. CASE \E g \in Gens : HostUpgrade(g) \/ \E live \in BOOLEAN : ApplyConfig(g, live)
  BY <1>2, <1>6 DEF HostUpgrade, ApplyConfig, Serving, Idle
<1> QED BY <1>3, <1>4, <1>5, <1>6

\* A promotion, first or resumed, ends with the one-shot boot of its generation.
LEMMA PromotionArmed ==
  ASSUME IInv, oper.kind = "live", Exists(st[oper.gen]), st[oper.gen].avail, NEW resuming \in BOOLEAN, NEW c
  PROVE  Leaves(PromoteLivePlan(oper.gen, resuming), oper.gen, c)
<1>1. PICK g : g = oper.gen
  OBVIOUS
<1>2. PICK B : B = BootableGens \cup {g}
  OBVIOUS
<1>3. /\ B \in SUBSET Gens /\ g \in B /\ TypeOK /\ ~sel.pending
      /\ \A h \in B : Exists(st[h]) /\ st[h].avail
  BY <1>1, <1>2 DEF IInv, OperInv, Quiet, BootableGens
<1>4. sel \in Settled(Selections(B, mode, running))
  BY <1>2, <1>3 DEF IInv, AllSelections, Selections, Settled
<1>5. PICK x \in Seq(Writes3(B, Settled(Selections(B, mode, running)))) :
        \E e : PromoteLivePlan(g, resuming) = x \o SetOneshot(g, e)
  BY <1>3, <1>4, LivePlan
<1>6. PICK e : PromoteLivePlan(g, resuming) = x \o SetOneshot(g, e)
  BY <1>5
<1>7. Leaves(x \o SetOneshot(g, e), g, c)
  BY EndsArmed
<1> QED BY <1>1, <1>6, <1>7

LEMMA PromoteLiveNext == ASSUME IInv, NextBootInv, PromoteLive PROVE NextBootInv'
<1>1. /\ oper.run /\ oper.kind = "live" /\ entries' = entries \cup {oper.gen} /\ oper' = oper
      /\ Run("agent", PromoteLivePlan(oper.gen, FALSE), "ok") /\ efi' = efi
  BY DEF PromoteLive, Executing, RunLocked, AgentOnly
<1>2. Exists(st[oper.gen]) /\ st[oper.gen].avail
  BY <1>1 DEF IInv, OperInv
<1>3. Leaves(PromoteLivePlan(oper.gen, FALSE), oper'.gen, efi'.once)
  BY <1>1, <1>2, PromotionArmed
<1> QED BY <1>1, <1>3, AgentNext

LEMMA TrialsNext == ASSUME IInv, NextBootInv, CommitTrial \/ ArmUpgrade PROVE NextBootInv'
<1>1. PICK g : g = oper.gen
  OBVIOUS
<1>2. OperInv
  BY DEF IInv
<1>3. entries' = entries \cup {g} /\ oper'.gen = g
  BY <1>1, <1>2 DEF CommitTrial, ArmUpgrade, OperInv
<1>4. PICK n : \E o, x : Run("agent", WriteSelection(n) \o SetOneshot(g, WriteSelection(o)) \o WriteStatus(g, x), "ok")
  BY <1>1 DEF CommitTrial, ArmUpgrade
<1>5. PICK o, x : Run("agent", WriteSelection(n) \o SetOneshot(g, WriteSelection(o)) \o WriteStatus(g, x), "ok")
  BY <1>4
<1>6. Leaves(WriteSelection(n) \o SetOneshot(g, WriteSelection(o)) \o WriteStatus(g, x), g, efi'.once)
  BY TrialArmed
<1> QED BY <1>3, <1>5, <1>6, AgentNext

LEMMA AgentStartNext == ASSUME IInv, NextBootInv, AgentStart PROVE NextBootInv'
<1>1. ~agent /\ oper' = oper /\ entries' = entries /\ efi' = efi
  BY DEF AgentStart, AgentOnly
<1>2. ~oper.run
  BY <1>1 DEF IInv, OperInv
<1>3. CASE Resumable
  <2> DEFINE end == IF ResumeRefused THEN "failed" ELSE "ok"
  <2>1. Run("agent", ResumePlan, end)
    BY <1>3 DEF AgentStart, RunLocked
  <2>2. oper.kind = "live" /\ oper.gen \in entries /\ Exists(st[oper.gen]) /\ st[oper.gen].avail
    BY <1>3 DEF Resumable, IInv, OperInv, IsKnownGood, Accepted, Exists
  <2>3. ASSUME end = "ok" PROVE Leaves(ResumePlan, oper'.gen, efi'.once)
    <3>1. ~ResumeRefused
      BY <2>3
    <3>2. CASE sel.def = oper.gen
      <4>1. ResumePlan = SetDefault(oper.gen, <<>>) \o SetOneshot(oper.gen, <<>>)
        BY <3>1, <3>2 DEF ResumePlan
      <4>2. oper.gen \in Pointer
        BY <2>2 DEF IInv, OperInv, Pointer
      <4>3. SetDefault(oper.gen, <<>>) \in Seq(MildWrites)
        BY <4>2, MildPlanning DEF MildWrites
      <4> QED BY <1>1, <4>1, <4>3, EndsArmed
    <3>3. CASE sel.def # oper.gen
      <4>1. ResumePlan = PromoteLivePlan(oper.gen, TRUE)
        BY <3>1, <3>3 DEF ResumePlan
      <4> QED BY <1>1, <2>2, <4>1, PromotionArmed
    <3> QED BY <3>2, <3>3
  <2> HIDE DEF end
  <2> QED BY <1>1, <2>1, <2>2, <2>3, AgentNext
<1>4. CASE ~Resumable /\ Discardable
  <2>1. Run("agent", RemovePlan(oper.gen), "ok")
    BY <1>4 DEF AgentStart, RunLocked
  <2>2. ~ArmsBoot'
    BY <1>1, <1>2, <1>4 DEF ArmsBoot, Discardable
  <2> QED BY <2>1, <2>2, AgentNext
<1>5. CASE ~Resumable /\ ~Discardable
  <2>1. UNCHANGED <<plan, after>>
    BY <1>5 DEF AgentStart
  <2> QED BY <1>1, <2>1, AgentRests DEF NextBootInv
<1> QED BY <1>3, <1>4, <1>5

\* Selections, removals and the invalidation of a slot arm no operation's boot.
LEMMA OthersNext ==
  ASSUME IInv, NextBootInv,
         \/ InvalidateSlot
         \/ \E g \in Gens : Remove(g) \/ \E oneShot \in BOOLEAN : Select(g, oneShot)
  PROVE  NextBootInv'
<1>1. CASE InvalidateSlot
  <2>1. PICK writes : \E end \in {"failed", "staged"} : Run("agent", writes, end)
    BY <1>1 DEF InvalidateSlot, RunLocked
  <2>2. PICK end \in {"failed", "staged"} : Run("agent", writes, end)
    BY <2>1
  <2>3. end # "ok"
    BY <2>2
  <2> QED BY <2>2, <2>3, AgentNext
<1>2. CASE \E g \in Gens : Remove(g) \/ \E oneShot \in BOOLEAN : Select(g, oneShot)
  <2>1. PICK writes : Run("agent", writes, "ok") /\ oper' = NoOper
    BY <1>2 DEF Remove, Select, RunLocked
  <2>2. ~ArmsBoot'
    BY <2>1 DEF ArmsBoot, NoOper
  <2> QED BY <2>1, <2>2, AgentNext
<1> QED BY <1>1, <1>2

LEMMA NextBootStep == IInv /\ NextBootInv /\ [Next]_vars => NextBootInv'
<1> SUFFICES ASSUME IInv, NextBootInv, [Next]_vars PROVE NextBootInv'
  OBVIOUS
<1>1. CASE UNCHANGED vars
  BY <1>1, AgentRests DEF vars, disk, NextBootInv
<1>2. CASE Steps
  <2>1. CASE Boot \/ Activate \/ Reboot \/ DeadlinePasses \/ \E p \in Programs : Exit(p)
    BY <2>1, MachineNext DEF Reboot
  <2>2. CASE HealthSuccess \/ Recovery \/ Deadman
    BY <2>2, HealthNext
  <2>3. CASE AgentStart \/ PromoteLive \/ CommitTrial \/ ArmUpgrade
    BY <2>3, AgentStartNext, PromoteLiveNext, TrialsNext
  <2>4. CASE AgentDone \/ Render \/ Abandon \/ InvalidateSlot
    BY <2>4, AgentQuietNext, OthersNext
  <2>5. CASE \E p \in Programs : Write(p) \/ Drop(p)
    BY <2>5, WriteNext, DropNext
  <2> QED BY <1>2, <2>1, <2>2, <2>3, <2>4, <2>5 DEF Steps
<1>3. CASE Faults
  <2>1. CASE PowerLoss \/ ActivationFailure \/ HealthDependencyFailure \/ HealthBookkeepingFailure
    BY <2>1, MachineNext DEF PowerLoss
  <2>2. CASE HealthNetworkFailure \/ HealthSuccess
    BY <2>2, HealthNext
  <2>3. CASE AgentCrash \/ OperationFails
    BY <2>3, AgentQuietNext
  <2>4. CASE \E p \in Programs : EfiError(p)
    BY <2>4, EfiErrorNext
  <2> QED BY <1>3, <2>1, <2>2, <2>3, <2>4 DEF Faults
<1>4. CASE Requests
  BY <1>4, AgentQuietNext, OthersNext DEF Requests
<1> QED BY <1>1, <1>2, <1>3, <1>4 DEF Next

-----------------------------------------------------------------------------
(* The theorems.                                                           *)

\* The inductive step.
LEMMA NextIsInvariant == IInv /\ [Next]_vars => IInv'
<1> SUFFICES ASSUME IInv, [Next]_vars PROVE IInv'
  OBVIOUS
<1>1. CASE UNCHANGED vars
  <2>1. UNCHANGED <<st, slot, entries, sel, efi, mode, running, armed, unit, deadman, agent, oper,
                    plan, after, holder>>
    BY <1>1 DEF vars, disk, volatile
  <2>2. BootableGens' = BootableGens /\ AllSelections' = AllSelections
    BY <2>1, SameRecords
  <2>3. PlansInv'
    BY <2>1, SamePlans DEF IInv
  <2>4. TypeOK' /\ MachineInv' /\ RebootInv'
    BY <2>1, <2>2 DEF IInv, TypeOK, MachineInv, RebootInv
  <2>5. OperInv'
    BY <2>1, <2>2 DEF IInv, OperInv
  <2> QED BY <2>1, <2>2, <2>3, <2>4, <2>5 DEF IInv
<1>2. CASE Steps
  <2>1. CASE Boot \/ Reboot
    BY <2>1, BootStep, PowerOffStep DEF Reboot
  <2>2. CASE Activate
    BY <2>2, ActivateStep DEF Activate
  <2>3. CASE HealthSuccess
    BY <2>3, HealthSuccessStep
  <2>4. CASE Recovery \/ Deadman
    BY <2>4, RecoverySteps
  <2>5. CASE DeadlinePasses
    BY <2>5, UnitSteps
  <2>6. CASE AgentStart \/ AgentDone
    BY <2>6, AgentStartStep, AgentDoneStep
  <2>7. CASE Render \/ Abandon
    BY <2>7, RenderStep, OperationEnds
  <2>8. CASE PromoteLive \/ CommitTrial
    BY <2>8, PromoteLiveStep, CommitTrialStep
  <2>9. CASE InvalidateSlot \/ ArmUpgrade
    BY <2>9, InvalidateSlotStep, ArmUpgradeStep
  <2>10. CASE \E p \in Programs : Write(p) \/ Drop(p) \/ Exit(p)
    BY <2>10, WriteStep, DropStep, ExitStep
  <2> QED BY <1>2, <2>1, <2>2, <2>3, <2>4, <2>5, <2>6, <2>7, <2>8, <2>9, <2>10 DEF Steps
<1>3. CASE Faults
  <2>1. CASE PowerLoss
    BY <2>1, PowerOffStep DEF PowerLoss
  <2>2. CASE AgentCrash \/ OperationFails
    BY <2>2, AgentCrashStep, OperationEnds
  <2>3. CASE ActivationFailure
    BY <2>3, ActivateStep DEF ActivationFailure
  <2>4. CASE HealthNetworkFailure \/ HealthBookkeepingFailure
    BY <2>4, HealthNetworkFailureStep, HealthBookkeepingFailureStep
  <2>5. CASE HealthDependencyFailure \/ HealthSuccess
    BY <2>5, UnitSteps, HealthSuccessStep
  <2>6. CASE \E p \in Programs : EfiError(p)
    BY <2>6, EfiErrorStep
  <2> QED BY <1>3, <2>1, <2>2, <2>3, <2>4, <2>5, <2>6 DEF Faults
<1>4. CASE Requests
  <2>1. PICK g \in Gens : \/ HostUpgrade(g) \/ Remove(g)
                          \/ \E live \in BOOLEAN : ApplyConfig(g, live)
                          \/ \E oneShot \in BOOLEAN : Select(g, oneShot)
    BY <1>4 DEF Requests
  <2> QED BY <2>1, RequestStep, RemoveStep, SelectStep
<1> QED BY <1>1, <1>2, <1>3, <1>4 DEF Next

\* Every behaviour of the three programs, of the firmware and of crashes keeps
\* the inductive invariant.
THEOREM Invariance == Spec => []IInv
<1> QED BY InitIsInvariant, NextIsInvariant, PTL DEF Spec

\* Type correctness.
THEOREM TypeCorrect == Spec => []TypeOK
<1>1. IInv => TypeOK
  BY DEF IInv
<1> QED BY <1>1, Invariance, PTL

\* Whatever is promoted, rolled back, armed, invalidated, removed or discarded,
\* and wherever a crash falls: every generation selection.json relies on exists,
\* is in a slot that was not overwritten, and has its loader entry.
THEOREM SelectionAlwaysBoots == Spec => []PointersBootable
<1>1. IInv => PointersBootable
  BY DEF IInv, AllSelections, Selections, Names, BootableGens, PointersBootable
<1> QED BY <1>1, Invariance, PTL

\* A node that is up never takes another generation for the one it runs.
THEOREM BootRecordedTruly == Spec => []RecordedBootIsRunning
<1>1. IInv => RecordedBootIsRunning
  BY DEF IInv, AllSelections, Selections, RecordedBootIsRunning
<1> QED BY <1>1, Invariance, PTL

\* The failure of the health service and the deadline request one reboot between
\* them: the one that has the lock first spends the authorization.
THEOREM RebootsOnce == Spec => []OneAutomaticReboot
<1>1. IInv => OneAutomaticReboot
  <2> SUFFICES ASSUME IInv PROVE OneAutomaticReboot
    OBVIOUS
  <2> DEFINE R == {p \in Programs : after[p] = "reboot"}
  <2>1. \A p, q \in R : p = q
    BY DEF IInv, RebootInv
  <2>2. CASE R = {}
    BY <2>2, FS_EmptySet DEF OneAutomaticReboot
  <2>3. CASE R # {}
    <3>1. PICK p \in R : TRUE
      BY <2>3
    <3>2. R = {p}
      BY <2>1, <3>1
    <3>3. Cardinality({p}) = 1
      BY FS_Singleton
    <3> HIDE DEF R
    <3>4. Cardinality(R) <= 1
      BY <3>2, <3>3
    <3> QED BY <3>4 DEF R, OneAutomaticReboot
  <2> QED BY <2>2, <2>3
<1> QED BY <1>1, Invariance, PTL

\* Whatever earlier choices left in the firmware, and whatever boot health and
\* the deadline write meanwhile: what the agent acknowledges boots next.
THEOREM AcknowledgedBootsNext == Spec => []AcknowledgedIsNext
<1>1. Init => NextBootInv
  <2> SUFFICES ASSUME Init PROVE NextBootInv
    OBVIOUS
  <2>1. /\ after["agent"] = "none"
        /\ \A p \in {"health", "deadman"} : plan[p] \in Seq(MildWrites)
    BY EmptySeq DEF Init, Programs
  <2> QED BY <2>1 DEF NextBootInv
<1>2. IInv /\ NextBootInv /\ [Next]_vars => NextBootInv'
  BY NextBootStep
<1>3. NextBootInv => AcknowledgedIsNext
  <2> SUFFICES ASSUME NextBootInv, after["agent"] = "ok", plan["agent"] = <<>>, ArmsBoot
               PROVE  FirmwareChoice = oper.gen
    BY DEF AcknowledgedIsNext, ArmsBoot
  <2>1. oper.gen \in entries /\ Leaves(<<>>, oper.gen, efi.once)
    BY DEF NextBootInv
  <2>2. Len(<<>>) = 0
    OBVIOUS
  <2>3. efi.once = oper.gen
    BY <2>1, <2>2 DEF Leaves
  <2> QED BY <2>1, <2>3 DEF FirmwareChoice
<1> QED BY <1>1, <1>2, <1>3, Invariance, PTL DEF Spec
=============================================================================
