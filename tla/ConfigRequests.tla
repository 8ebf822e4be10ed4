--------------------------- MODULE ConfigRequests ---------------------------
(***************************************************************************)
(* Configuration requests on one node: admission, the audit record that    *)
(* gives every desired version one decision, rendering of the candidate    *)
(* generation, the live apply or the boot trial, and what the operation    *)
(* reports, with steps that fail and an agent that is restarted.           *)
(* Promotion and boot selection themselves are modelled in BootSelection,  *)
(* the live executor in HostConfigurationApply.                            *)
(***************************************************************************)
EXTENDS ConfigPlan, Sequences, SequencesExt

CONSTANTS Versions,     \* desired versions, numbers
          Bodies,       \* node overlays a request may carry
          Candidates,   \* generations a client may name; NoGen is none
          MaxOps,       \* bound: operations submitted
          MaxFaults,    \* bound: steps that fail
          MaxCrashes    \* bound: agent restarts

Initial == [f \in Fields |-> 0]
(* Generation 0 is the installed one; operation i names generation i       *)
(* unless the client names one.                                            *)
NoGen == -1
GenIds == 0..MaxOps \cup (Candidates \ {NoGen})
NoAudit == [digest |-> <<>>, decision |-> "none", candidate |-> NoGen]
NoOp == [id |-> 0]

VARIABLES audit,        \* version -> its audit record
          gens,         \* generation -> [commit, conf, mode, version]
          cur, trial,   \* current generation, pending boot trial
          running,      \* the configuration in force
          ops,          \* operation records, by number
          job,          \* the operation being executed and where it is
          faults, crashes

vars == <<audit, gens, cur, trial, running, ops, job, faults, crashes>>
node == <<gens, cur, trial, running>>

Absent == [commit |-> "absent", conf |-> Initial, mode |-> "", version |-> 0]
Init ==
  /\ audit = [v \in Versions |-> NoAudit]
  /\ gens = [g \in GenIds |-> IF g = 0 THEN [Absent EXCEPT !.commit = "committed"] ELSE Absent]
  /\ cur = 0 /\ trial = NoGen /\ running = Initial
  /\ ops = <<>> /\ job = NoOp /\ faults = 0 /\ crashes = 0

Fault == faults < MaxFaults /\ faults' = faults + 1

----------------------------------------------------------------------------
(* Admission                                                               *)

ValidateMutationBase(expected) ==
  /\ trial = NoGen /\ expected \in {NoGen, cur}
  /\ \A g \in GenIds : gens[g].commit # "candidate"
validateCandidateGenerationAvailable(g) ==
  gens[g].commit = "absent" /\ ValidateMutationBase(NoGen)

Request(body) ==
  [current |-> gens[cur].conf, cluster |-> <<>>, roles |-> <<>>, node |-> body,
   initialized |-> TRUE, proxy |-> 0, drifted |-> FALSE, rebound |-> FALSE,
   external |-> FALSE, externalEndpoint |-> 0]
Planned(body) == PlanTrustedBundle(Request(body), "auto")

Running(o) == o.result = ""
acceptConfigApplyOperation ==
  /\ Len(ops) < MaxOps /\ \A i \in DOMAIN ops : ~Running(ops[i])
  /\ \E v \in Versions, body \in Bodies, c \in Candidates :
       LET id == Len(ops) + 1
           cand == IF c = NoGen THEN id ELSE c
       IN /\ validateCandidateGenerationAvailable(cand)
          /\ Planned(body).mode # "refused"
          /\ ops' = Append(ops, [id |-> id, version |-> v, body |-> body, cand |-> cand,
                                 base |-> cur, result |-> "", repair |-> FALSE,
                                 started |-> FALSE, noop |-> FALSE, replay |-> FALSE])
  /\ UNCHANGED <<audit, node, job, faults, crashes>>

----------------------------------------------------------------------------
(* Execution                                                               *)

Op == ops[job.id]
At(pc) == job.id # 0 /\ job.pc = pc
Go(pc) == job' = [job EXCEPT !.pc = pc]
Ends(fields) ==
  /\ ops' = [ops EXCEPT ![job.id] = fields @@ @]
  /\ job' = NoOp
Result(r, repair) == [result |-> r, repair |-> repair]
(* A failed phase needs repair once the operation changed something.       *)
failRecordPhase == Ends(IF Op.started THEN Result("failed-needs-repair", TRUE)
                        ELSE Result("failed", FALSE))

executeConfigApply ==
  /\ job = NoOp
  /\ \E i \in DOMAIN ops :
       /\ Running(ops[i])
       /\ IF ValidateMutationBase(ops[i].base)
          THEN /\ job' = [id |-> i, pc |-> "plan", mode |-> "", conf |-> Initial, apply |-> ""]
               /\ UNCHANGED ops
          ELSE /\ ops' = [ops EXCEPT ![i].result = "failed"] /\ UNCHANGED job
  /\ UNCHANGED <<audit, node, faults, crashes>>

(* The request is planned again from the current generation.               *)
PlanAgain ==
  /\ At("plan")
  /\ LET p == Planned(Op.body)
     IN \/ /\ p.mode \in {"live", "next-boot"}
           /\ job' = [job EXCEPT !.mode = p.mode, !.conf = p.m,
                                 !.pc = IF p.mode = "live" THEN "volumes" ELSE "freshness"]
           /\ ops' = [ops EXCEPT ![job.id].started = (p.mode = "live")]
        \/ p.mode = "rejected" /\ failRecordPhase
        \/ p.mode = "no-changes" /\ Go("noop") /\ UNCHANGED ops
  /\ UNCHANGED <<audit, node, faults, crashes>>

completeConfigApplyNoop == Ends([noop |-> TRUE] @@ Result("succeeded", FALSE))
(* Host configuration that differs from the files is set again when that   *)
(* can be done live; otherwise the request is refused until a reboot.      *)
reconcileConfigApplyNoop ==
  /\ At("noop")
  /\ LET drift == running.host # gens[cur].conf.host
     IN \/ ~drift /\ completeConfigApplyNoop /\ UNCHANGED <<running, faults>>
        \/ drift /\ failRecordPhase /\ UNCHANGED <<running, faults>>
        \/ /\ drift /\ running' = [running EXCEPT !.host = gens[cur].conf.host]
           /\ completeConfigApplyNoop /\ UNCHANGED faults
        \/ drift /\ Fault /\ Ends(Result("failed-needs-repair", TRUE)) /\ UNCHANGED running
  /\ UNCHANGED <<audit, gens, cur, trial, crashes>>

(* Stopping and preparing volumes, before the request's version is looked  *)
(* at.                                                                     *)
applyVolumes ==
  /\ At("volumes")
  /\ \/ /\ changedVolumes(running, job.conf)
        /\ running' = [running EXCEPT !.volumes = job.conf.volumes]
        /\ \/ Go("freshness") /\ UNCHANGED <<ops, faults>>
           \/ Fault /\ failRecordPhase
     \/ ~changedVolumes(running, job.conf) /\ Go("freshness") /\ UNCHANGED <<running, ops, faults>>
  /\ UNCHANGED <<audit, gens, cur, trial, crashes>>

requestDigest(o) == <<o.version, o.cand, gens[cur].conf, o.body>>
Audit(decision, cand) ==
  audit' = [audit EXCEPT ![Op.version] =
              [digest |-> requestDigest(Op), decision |-> decision, candidate |-> cand]]
latestVersion == {v \in Versions : audit[v].decision # "none"}
(* M: recorded versions are not compared.                                  *)
NeverStale(v) == FALSE
compareVersion(v) == \E w \in latestVersion : v < w

(* A replayed request returns the status of the recorded generation, when  *)
(* that is there, and no accepted mode: nothing is promoted or staged.     *)
replayResult(a) == IF a.candidate = NoGen THEN "" ELSE gens[a.candidate].mode

(* One decision per version: the same request again is answered from its   *)
(* record, another one is refused, and so is an older version.             *)
checkFreshness ==
  /\ At("freshness")
  /\ LET a == audit[Op.version]
     IN \/ /\ a.decision # "none" /\ a.digest # requestDigest(Op)
           /\ Go("fail") /\ UNCHANGED <<audit, ops>>
        \/ /\ a.decision # "none" /\ a.digest = requestDigest(Op)
           /\ job' = [job EXCEPT !.pc = "complete", !.mode = replayResult(a)]
           /\ ops' = [ops EXCEPT ![job.id].replay = TRUE] /\ UNCHANGED audit
        \/ /\ a.decision = "none" /\ compareVersion(Op.version)
           /\ Audit("rejected", NoGen) /\ Go("fail") /\ UNCHANGED ops
        \/ /\ a.decision = "none" /\ ~compareVersion(Op.version)
           /\ Go("audit") /\ UNCHANGED <<audit, ops>>
  /\ UNCHANGED <<node, faults, crashes>>

(* The change is validated and rendered in memory; the decision is written *)
(* before anything else is.                                                *)
writeAudit ==
  /\ At("audit")
  /\ \/ Audit("accepted", Op.cand) /\ Go("render") /\ UNCHANGED faults
     \/ Fault /\ Go("fail") /\ (UNCHANGED audit \/ Audit("rejected", NoGen))
  /\ UNCHANGED <<node, ops, crashes>>

(* Rendering leaves files; when it fails the request is audited rejected.  *)
RenderGenerationTree ==
  /\ At("render")
  /\ \/ /\ gens' = [gens EXCEPT ![Op.cand].commit = "partial"]
        /\ Go("generation") /\ UNCHANGED <<audit, faults>>
     \/ /\ Fault /\ gens' = [gens EXCEPT ![Op.cand].commit = "partial"]
        /\ Audit("rejected", Op.cand) /\ Go("fail")
  /\ UNCHANGED <<cur, trial, running, ops, crashes>>

WriteGeneration ==
  /\ At("generation")
  /\ \/ /\ gens' = [gens EXCEPT ![Op.cand] = [commit |-> "candidate", conf |-> job.conf,
                                              mode |-> job.mode, version |-> Op.version]]
        /\ Go(IF job.mode = "live" THEN "live" ELSE "commit") /\ UNCHANGED faults
     \/ Fault /\ Go("fail") /\ UNCHANGED gens
  /\ UNCHANGED <<audit, cur, trial, running, ops, crashes>>

(* The live executor: everything of the new configuration is in force, or  *)
(* it was restored (the volumes are not its business), or neither.         *)
ExecuteLive ==
  /\ At("live")
  /\ \/ /\ running' = job.conf /\ job' = [job EXCEPT !.pc = "promote", !.apply = "active"]
        /\ UNCHANGED <<audit, faults>>
     \/ /\ Fault /\ Audit("failed", Op.cand)
        /\ \E how \in {"rolled-back", "rollback-failed", "failed"} :
             /\ job' = [job EXCEPT !.pc = "fail", !.apply = how]
             /\ IF how = "rollback-failed"
                THEN running' \in {running, job.conf} ELSE UNCHANGED running
  /\ UNCHANGED <<gens, cur, trial, ops, crashes>>

Commit == gens' = [gens EXCEPT ![Op.cand].commit = "committed"]
(* M: an error of the promotion is dropped.                                *)
PromotionErrorDropped ==
  /\ At("promote") /\ Go("complete")
  /\ \/ Commit /\ cur' = Op.cand /\ UNCHANGED faults
     \/ Fault /\ UNCHANGED <<gens, cur>>
  /\ UNCHANGED <<audit, trial, running, ops, crashes>>
promoteLiveGeneration ==
  /\ At("promote")
  /\ \/ Commit /\ cur' = Op.cand /\ Go("complete") /\ UNCHANGED faults
     \/ Fault /\ Go("fail") /\ UNCHANGED <<gens, cur>>
  /\ UNCHANGED <<audit, trial, running, ops, crashes>>
commitTrialGeneration ==
  /\ At("commit")
  /\ \/ Commit /\ trial' = Op.cand /\ Go("complete") /\ UNCHANGED faults
     \/ Fault /\ Go("fail") /\ UNCHANGED <<gens, trial>>
  /\ UNCHANGED <<audit, cur, running, ops, crashes>>

completeConfigApply ==
  /\ At("complete")
  /\ Ends(Result("succeeded", FALSE))
  /\ UNCHANGED <<audit, node, faults, crashes>>

(* A network file is restored, the running network perhaps not.            *)
networkChanged(o) == "host" \in DOMAIN o.body /\ o.body.host = 3
(* The record says whether the runtime was restored.                       *)
failConfigApplyRecord ==
  /\ At("fail")
  /\ IF job.apply = "rolled-back"
     THEN /\ gens' = [gens EXCEPT ![Op.cand].commit = "abandoned"]
          /\ Ends(IF networkChanged(Op) THEN Result("failed-needs-repair", TRUE)
                  ELSE Result("failed-rolled-back", FALSE))
     ELSE Ends(Result("failed-needs-repair", TRUE)) /\ UNCHANGED gens
  /\ UNCHANGED <<audit, cur, trial, running, faults, crashes>>

----------------------------------------------------------------------------
(* The agent is restarted: an operation that changed nothing is discarded  *)
(* with its candidate, a promotion is completed, the rest needs repair.    *)
interruptedConfigRender(i) ==
  ~ops[i].started /\ gens[ops[i].cand].commit \in {"absent", "partial", "candidate"}
  /\ trial # ops[i].cand
Restart ==
  /\ job # NoOp /\ crashes < MaxCrashes /\ crashes' = crashes + 1 /\ job' = NoOp
  /\ LET i == job.id
         g == ops[i].cand
     IN IF interruptedConfigRender(i)
        THEN /\ gens' = [gens EXCEPT ![g] = Absent]
             /\ ops' = [ops EXCEPT ![i] = Result("failed", FALSE) @@ @]
        ELSE IF gens[g].commit = "committed" /\ gens[g].mode = "live"
        THEN ops' = [ops EXCEPT ![i] = Result("succeeded", FALSE) @@ @] /\ UNCHANGED gens
        ELSE ops' = [ops EXCEPT ![i] = Result("failed-needs-repair", TRUE) @@ @] /\ UNCHANGED gens
  /\ UNCHANGED <<audit, cur, trial, running, faults>>

(* The trial generation boots and is kept, or the node falls back; a       *)
(* reboot puts the selected configuration in force.                        *)
BootTrial ==
  /\ trial # NoGen /\ job = NoOp
  /\ \E ok \in BOOLEAN :
       /\ cur' = IF ok THEN trial ELSE cur
       /\ running' = gens[cur'].conf
  /\ trial' = NoGen
  /\ UNCHANGED <<audit, gens, ops, job, faults, crashes>>
(* An operator removes a candidate that a failed operation left.           *)
RemoveGeneration ==
  /\ job = NoOp
  /\ \E g \in GenIds : /\ gens[g].commit = "candidate" /\ g # trial
                       /\ gens' = [gens EXCEPT ![g] = Absent]
  /\ UNCHANGED <<audit, cur, trial, running, ops, job, faults, crashes>>

Execute ==
  \/ executeConfigApply \/ PlanAgain \/ reconcileConfigApplyNoop \/ applyVolumes \/ checkFreshness \/ writeAudit
  \/ RenderGenerationTree \/ WriteGeneration \/ ExecuteLive \/ promoteLiveGeneration
  \/ commitTrialGeneration \/ completeConfigApply \/ failConfigApplyRecord
Next == acceptConfigApplyOperation \/ Execute \/ Restart \/ BootTrial \/ RemoveGeneration
Spec == Init /\ [][Next]_vars

----------------------------------------------------------------------------
(* Every variable keeps its type.                                          *)
TypeOK ==
  /\ \A v \in Versions : audit[v].decision \in {"none", "accepted", "rejected", "failed"}
  /\ \A g \in GenIds : gens[g].commit \in {"absent", "partial", "candidate", "committed", "abandoned"}
  /\ cur \in GenIds /\ trial \in GenIds \cup {NoGen} /\ running \in [Fields -> 0..3]
  /\ \A i \in DOMAIN ops : ops[i].result \in
       {"", "succeeded", "failed", "failed-rolled-back", "failed-needs-repair"}
  /\ job.id \in 0..MaxOps /\ faults \in 0..MaxFaults /\ crashes \in 0..MaxCrashes

(* What the last operation asks for, and has it.                           *)
Wanted(o) == [f \in Fields |-> IF f \in DOMAIN o.body THEN o.body[f] ELSE gens[o.base].conf[f]]

Same(o, p) == o.version = p.version /\ o.cand = p.cand /\ o.body = p.body
(* An operation reported successful has done what it says: its candidate   *)
(* is committed and holds the wanted configuration, or nothing had to be   *)
(* done.  The exception is a request answered from its audit record        *)
(* (runtime_apply.go 153-159): it repeats an earlier request that did not  *)
(* succeed, for the candidate of one that did is not available, and the    *)
(* success it is given stands for nothing that was applied.                *)
SuccessApplied ==
  \A i \in DOMAIN ops : ops[i].result = "succeeded" =>
    IF ops[i].noop THEN Wanted(ops[i]) = gens[ops[i].base].conf
    ELSE IF ops[i].replay
    THEN \E j \in 1..(i - 1) : Same(ops[i], ops[j]) /\ ops[j].result # "succeeded"
    ELSE gens[ops[i].cand].commit = "committed" /\ gens[ops[i].cand].conf = Wanted(ops[i])

(* A node never goes back to an older desired version: the generation that *)
(* becomes current, or is tried, has a version newer than the current one. *)
VersionsIncrease ==
  /\ trial' \notin {trial, NoGen} => gens'[trial'].version > gens[cur].version
  /\ cur' # cur => gens[cur'].version > gens[cur].version

(* An operation that failed without asking for repair left the node as it  *)
(* was: the current generation's configuration is in force, but for the    *)
(* volumes.  Those are changed before the live apply, which restores what  *)
(* it did itself, and the record says rolled back (generation_apply.go     *)
(* 618-628, 846-885).                                                      *)
FailureRestored ==
  \A i \in DOMAIN ops : i = Len(ops) /\ ops[i].result \in {"failed", "failed-rolled-back"}
    /\ (\A j \in DOMAIN ops : ~ops[j].repair)
    => \A f \in Fields \ {"volumes"} : running[f] = gens[cur].conf[f]
=============================================================================
