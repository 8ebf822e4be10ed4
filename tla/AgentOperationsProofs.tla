----------------------- MODULE AgentOperationsProofs -----------------------
(***************************************************************************)
(* Proofs about AgentOperations, for any callers, request identifiers,     *)
(* operation kinds and bounds: submissions exclude each other, every       *)
(* operation is accounted for, and a host operation is created on the      *)
(* current generation.  The invariant says what submitMu protects between  *)
(* the checks and the record, who holds a record before its worker does,   *)
(* and what the startup audit has established before the agent serves.     *)
(***************************************************************************)
EXTENDS AgentOperations, FiniteSetTheorems, SequenceTheorems, TLAPS

(* A record, and the places of callers and workers.                        *)
Phases == {"accepted", "join-material-ready", "mutating"}
Record ==
  [id : ReqIds, kind : Kinds, base : 0..MaxOps, phase : Phases, marked : BOOLEAN,
   inv : {"none", "open", "closed"}, invBoot : Nat, terminal : BOOLEAN,
   class : {"", "post-mutation", "ambiguous", "pre-mutation"}]

InCall == {"submit", "admit", "create", "materialize", "dispatch"}
InLock == {"admit", "create", "materialize", "material"}
Handing == {"materialize", "dispatch"}
Places == {"idle", "material", "reboot"} \cup InCall
Busy == {"begin", "prepare", "start", "running", "lost"}

(* Types: the records, and the other variables.                            *)
OpsType == ops \in Seq(Record) /\ Len(ops) <= MaxOps
RestType ==
  /\ agent \in {"down", "reconcile", "audit", "recover", "serving", "stopping"}
  /\ mu \in Clients \cup {None}
  /\ pc \in [Clients -> Places] /\ req \in [Clients -> Requests \cup {None}]
  /\ worker \in [OpIds -> Busy \cup {"none", "release"}]
  /\ mlock \in 0..MaxOps
  /\ gen \in Nat /\ kubelet \in BOOLEAN /\ boot \in Nat /\ reboot \in BOOLEAN
  /\ runs \in [OpIds -> Nat] /\ faults \in Nat

(* submitMu is held from the checks until the record is created ...        *)
LockInv ==
  \A c \in Clients :
    /\ pc[c] \in InLock => mu = c
    /\ pc[c] \in InCall => req[c] \in Requests

(* ... so what was checked still holds when the record is created.         *)
CreateInv ==
  \A c \in Clients : pc[c] = "create" =>
    /\ ActiveOperationIDs = {} /\ ~Known(req[c]) /\ ValidateMutationBase(req[c])

(* A created record is its caller's alone until it is dispatched.          *)
Fresh(o) == ~ops[o].terminal /\ worker[o] = "none" /\ runs[o] = 0
HandInv ==
  /\ \A c \in Clients : pc[c] \in Handing =>
       \E o \in DOMAIN ops : ops[o].id = req[c].id /\ Fresh(o)
  /\ \A c, d \in Clients : pc[c] \in Handing /\ pc[d] \in Handing => c = d

(* No two operations are unfinished.                                      *)
OneInv == \A i, j \in DOMAIN ops : ~ops[i].terminal /\ ~ops[j].terminal => i = j

(* What a worker has done, from its place: an unfinished record, a marker  *)
(* before the tool, one start of the tool.                                 *)
WorkInv ==
  \A o \in OpIds :
    /\ worker[o] # "none" => o \in DOMAIN ops
    /\ worker[o] \in Busy => ~ops[o].terminal
    /\ worker[o] = "release" => ops[o].terminal
    /\ worker[o] \in {"start", "running"} => ops[o].marked
    /\ worker[o] \in {"begin", "prepare", "start"} => runs[o] = 0
    /\ runs[o] <= 1 /\ (runs[o] = 1 => o \in DOMAIN ops /\ ops[o].marked)

(* An agent that does not serve has no caller and no worker.               *)
DownInv ==
  agent \notin {"serving", "stopping"} =>
    /\ \A o \in OpIds : worker[o] = "none"
    /\ \A c \in Clients : pc[c] = "idle"

(* The audit has classified every unfinished record, or saw it alive.      *)
Audited(o) == ops[o].class # "" \/ (PidReuse /\ ops[o].inv = "open" /\ ops[o].invBoot = boot)
AuditInv == agent \in {"audit", "recover"} => \A o \in ActiveOperationIDs : Audited(o)

IInv ==
  /\ OpsType /\ RestType /\ LockInv /\ CreateInv /\ HandInv /\ OneInv
  /\ OneOperationPerRequest /\ WorkInv /\ DownInv /\ AuditInv /\ NoForgottenOperation

----------------------------------------------------------------------------
(* Facts about the records.                                                *)

(* The records are numbered from one and fit the bound.                    *)
LEMMA OpsFacts ==
  ASSUME OpsType
  PROVE  /\ Len(ops) \in Nat /\ Len(ops) <= MaxOps
         /\ DOMAIN ops = 1..Len(ops) /\ DOMAIN ops \subseteq OpIds
         /\ \A i \in DOMAIN ops : ops[i] \in Record
<1>1. Len(ops) \in Nat /\ DOMAIN ops = 1..Len(ops) /\ ops \in [1..Len(ops) -> Record]
  BY LenProperties DEF OpsType
<1> QED BY <1>1, AgentAssumption DEF OpsType, OpIds

(* Rewriting one record leaves the others alone.                           *)
LEMMA SetFacts ==
  ASSUME OpsType, NEW o \in DOMAIN ops, NEW r \in Record, Set(o, r)
  PROVE  /\ OpsType' /\ DOMAIN ops' = DOMAIN ops /\ ops'[o] = r
         /\ \A i \in DOMAIN ops : i # o => ops'[i] = ops[i]
<1>1. o \in 1..Len(ops) /\ DOMAIN ops = 1..Len(ops) /\ Len(ops) \in Nat
  BY OpsFacts
<1>2. /\ ops' \in Seq(Record) /\ Len(ops') = Len(ops)
      /\ \A j \in 1..Len(ops) : ops'[j] = IF j = o THEN r ELSE ops[j]
  BY <1>1, ExceptSeq DEF Set, OpsType
<1>3. DOMAIN ops' = 1..Len(ops')
  BY <1>2, LenProperties
<1> QED BY <1>1, <1>2, <1>3 DEF OpsType

(* Rewriting every record keeps their number.                              *)
LEMMA MapFacts ==
  ASSUME OpsType, NEW f, f \in [DOMAIN ops -> Record], ops' = f
  PROVE  OpsType' /\ DOMAIN ops' = DOMAIN ops
<1>1. DOMAIN ops = 1..Len(ops) /\ Len(ops) \in Nat /\ Len(ops) <= MaxOps
  BY OpsFacts
<1>2. f \in Seq(Record)
  BY <1>1, SeqDef
<1>3. DOMAIN f = 1..Len(f) /\ Len(f) \in Nat
  BY <1>2, LenProperties
<1>4. Len(f) = Len(ops)
  BY <1>1, <1>3
<1> QED BY <1>1, <1>2, <1>3, <1>4 DEF OpsType

(* A new record gets the next number.                                      *)
LEMMA AppendFacts ==
  ASSUME OpsType, Len(ops) < MaxOps, NEW r \in Record, ops' = Append(ops, r)
  PROVE  /\ OpsType' /\ Len(ops) + 1 \in OpIds
         /\ DOMAIN ops' = DOMAIN ops \cup {Len(ops) + 1}
         /\ Len(ops) + 1 \notin DOMAIN ops /\ ops'[Len(ops) + 1] = r
         /\ \A i \in DOMAIN ops : ops'[i] = ops[i]
<1>1. DOMAIN ops = 1..Len(ops) /\ Len(ops) \in Nat
  BY OpsFacts
<1>2. /\ ops' \in Seq(Record) /\ Len(ops') = Len(ops) + 1
      /\ ops'[Len(ops) + 1] = r /\ \A i \in 1..Len(ops) : ops'[i] = ops[i]
  BY <1>1, AppendProperties DEF OpsType
<1>3. DOMAIN ops' = 1..(Len(ops) + 1)
  BY <1>2, LenProperties
<1> QED BY <1>1, <1>2, <1>3, AgentAssumption DEF OpsType, OpIds

(* Any two kinds share generation-state.lock, so a request conflicts with  *)
(* every unfinished operation.                                             *)
LEMMA AllKindsConflict == \A k : ConflictingOperation(k) = ActiveOperationIDs
BY DEF ConflictingOperation, ActiveOperationIDs, ResourceLocks

----------------------------------------------------------------------------
(* The initial state, and the steps of the callers.                        *)

(* The invariant holds before the first request.                           *)
LEMMA InitInv == Init => IInv
<1> SUFFICES ASSUME Init PROVE IInv
  OBVIOUS
<1>1. OpsType /\ DOMAIN ops = {}
  BY EmptySeq, AgentAssumption DEF Init, OpsType
<1>2. RestType
  <2>1. mu \in Clients \cup {None} /\ kubelet \in BOOLEAN /\ reboot \in BOOLEAN
    BY DEF Init
  <2>2. /\ agent \in {"down", "reconcile", "audit", "recover", "serving", "stopping"}
        /\ pc \in [Clients -> Places] /\ req \in [Clients -> Requests \cup {None}]
        /\ worker \in [OpIds -> Busy \cup {"none", "release"}]
    BY DEF Init, Places
  <2>3. mlock \in 0..MaxOps /\ gen \in Nat /\ boot \in Nat /\ faults \in Nat /\ runs \in [OpIds -> Nat]
    BY AgentAssumption DEF Init
  <2> QED BY <2>1, <2>2, <2>3 DEF RestType
<1> QED
  BY <1>1, <1>2 DEF Init, IInv, LockInv, CreateInv, HandInv, OneInv, OneOperationPerRequest,
     WorkInv, DownInv, AuditInv, NoForgottenOperation, InLock, InCall, Handing, Busy, ActiveOperationIDs

(* A step that leaves records, workers and runs alone.                     *)
LEMMA CallerKeeps ==
  ASSUME IInv, NEW c \in Clients, UNCHANGED <<ops, agent, worker, mlock, gen, boot, runs>>,
         \A d \in Clients \ {c} : pc'[d] = pc[d] /\ req'[d] = req[d],
         pc[c] \notin Handing, pc'[c] \notin Handing, pc'[c] # "create" \/ pc[c] = "admit",
         pc'[c] = "create" => Admissible(req[c]) /\ req'[c] = req[c],
         agent \in {"serving", "stopping"}, RestType', LockInv'
  PROVE  IInv'
<1> USE DEF IInv
<1>1. OpsType' /\ OneInv' /\ OneOperationPerRequest' /\ WorkInv'
  BY DEF OpsType, OneInv, OneOperationPerRequest, WorkInv
<1>2. CreateInv'
  <2> SUFFICES ASSUME NEW d \in Clients, pc'[d] = "create"
               PROVE  ActiveOperationIDs' = {} /\ ~Known(req[d])' /\ ValidateMutationBase(req[d])'
    BY DEF CreateInv
  <2>1. CASE d # c
    BY <2>1 DEF CreateInv, ActiveOperationIDs, Known, FindClientRequest, ValidateMutationBase
  <2>2. CASE d = c
    BY <2>2, AllKindsConflict
    DEF Admissible, ActiveOperationIDs, Known, FindClientRequest, ValidateMutationBase
  <2> QED BY <2>1, <2>2
<1>3. HandInv'
  BY DEF HandInv, Fresh
<1>4. DownInv' /\ AuditInv'
  BY DEF DownInv, AuditInv
<1>5. NoForgottenOperation'
  BY ZenonT(30) DEF NoForgottenOperation, ActiveOperationIDs, Handing
<1> QED BY <1>1, <1>2, <1>3, <1>4, <1>5

(* The steps of a call that only move the caller and submitMu.             *)
LEMMA CallInv ==
  ASSUME IInv, NEW c \in Clients,
         \/ ValidateSubmit(c) \/ LockSubmit(c) \/ AnswerExisting(c) \/ Refuse(c) \/ Admit(c)
         \/ CreateWorkerJoinMaterial(c) \/ JoinMaterialCreated(c)
         \/ RebootCheck(c) \/ ScheduleReboot(c)
  PROVE  IInv'
<1> USE DEF node, client
<1>0. None \notin Clients
  BY AgentAssumption DEF None
<1>1. CASE ValidateSubmit(c)
  <2>1. PICK r \in Requests : req' = [req EXCEPT ![c] = r]
    BY <1>1 DEF ValidateSubmit
  <2>2. RestType' /\ LockInv'
    BY <1>1, <2>1 DEF ValidateSubmit, IInv, RestType, LockInv, InLock, InCall, Places
  <2> QED BY <1>1, <2>1, <2>2, CallerKeeps DEF ValidateSubmit, IInv, RestType, Handing
<1>2. CASE LockSubmit(c)
  <2>1. agent \in {"serving", "stopping"}
    BY <1>2 DEF LockSubmit, IInv, DownInv, RestType
  <2>2. RestType' /\ LockInv'
    BY <1>2, <1>0 DEF LockSubmit, IInv, RestType, LockInv, InLock, InCall, Places
  <2> QED BY <1>2, <2>1, <2>2, CallerKeeps DEF LockSubmit, IInv, RestType, Handing
<1>3. CASE AnswerExisting(c) \/ Refuse(c)
  <2>1. agent \in {"serving", "stopping"}
    BY <1>3 DEF AnswerExisting, Refuse, IInv, DownInv, RestType
  <2>2. RestType' /\ LockInv'
    BY <1>3, <1>0 DEF AnswerExisting, Refuse, Answer, IInv, RestType, LockInv, InLock, InCall, Places
  <2> QED BY <1>3, <2>1, <2>2, CallerKeeps DEF AnswerExisting, Refuse, Answer, IInv, RestType, Handing
<1>4. CASE Admit(c)
  <2>1. agent \in {"serving", "stopping"}
    BY <1>4 DEF Admit, IInv, DownInv, RestType
  <2>2. RestType' /\ LockInv'
    BY <1>4, <1>0 DEF Admit, IInv, RestType, LockInv, InLock, InCall, Places
  <2> QED BY <1>4, <2>1, <2>2, CallerKeeps DEF Admit, IInv, RestType, Handing
<1>5. CASE CreateWorkerJoinMaterial(c)
  <2>2. RestType' /\ LockInv'
    BY <1>5, <1>0 DEF CreateWorkerJoinMaterial, IInv, RestType, LockInv, InLock, InCall, Places
  <2> QED BY <1>5, <2>2, CallerKeeps DEF CreateWorkerJoinMaterial, IInv, RestType, Handing
<1>6. CASE JoinMaterialCreated(c)
  <2>1. agent \in {"serving", "stopping"}
    BY <1>6 DEF JoinMaterialCreated, IInv, DownInv, RestType
  <2>2. RestType' /\ LockInv'
    BY <1>6, <1>0 DEF JoinMaterialCreated, IInv, RestType, LockInv, InLock, InCall, Places
  <2> QED BY <1>6, <2>1, <2>2, CallerKeeps DEF JoinMaterialCreated, IInv, RestType, Handing
<1>7. CASE RebootCheck(c)
  <2>2. RestType' /\ LockInv'
    BY <1>7, <1>0 DEF RebootCheck, IInv, RestType, LockInv, InLock, InCall, Places
  <2> QED BY <1>7, <2>2, CallerKeeps DEF RebootCheck, IInv, RestType, Handing
<1>8. CASE ScheduleReboot(c)
  <2>1. agent \in {"serving", "stopping"}
    BY <1>8 DEF ScheduleReboot, IInv, DownInv, RestType
  <2>2. RestType' /\ LockInv'
    BY <1>8, <1>0 DEF ScheduleReboot, IInv, RestType, LockInv, InLock, InCall, Places
  <2> QED BY <1>8, <2>1, <2>2, CallerKeeps DEF ScheduleReboot, IInv, RestType, Handing
<1> QED BY <1>1, <1>2, <1>3, <1>4, <1>5, <1>6, <1>7, <1>8

(* Creating a record: submitMu kept what was checked true.                 *)
LEMMA CreatedInv ==
  ASSUME IInv, NEW c \in Clients, AcceptOperation(c), Created(c)
  PROVE  IInv'
<1>n. PICK n : n = Len(ops) + 1
  OBVIOUS
<1>r. PICK r : r = NewRecord(req[c])
  OBVIOUS
<1>0. /\ pc[c] = "create" /\ mu = c /\ req[c] \in Requests /\ ActiveOperationIDs = {}
      /\ ~Known(req[c]) /\ agent \in {"serving", "stopping"}
  BY DEF AcceptOperation, IInv, LockInv, InLock, InCall, CreateInv, DownInv, RestType
<1>1. /\ r \in Record /\ r.id = req[c].id /\ ~r.terminal
  BY <1>r, <1>0 DEF NewRecord, Record, Requests, Phases
<1>2. /\ OpsType' /\ n \in OpIds /\ DOMAIN ops' = DOMAIN ops \cup {n} /\ n \notin DOMAIN ops
      /\ ops'[n] = r /\ \A i \in DOMAIN ops : ops'[i] = ops[i]
  BY <1>n, <1>r, <1>1, AppendFacts DEF AcceptOperation, Created, IInv
<1>3. /\ pc'[c] \in Handing /\ \A d \in Clients \ {c} : pc'[d] = pc[d]
      /\ pc' \in [Clients -> Places]
      /\ req' = req /\ worker' = worker /\ runs' = runs /\ agent' = agent /\ gen' = gen /\ boot' = boot
  BY DEF AcceptOperation, Created, IInv, RestType, Handing, Places, InCall, node
<1>4. \A i \in DOMAIN ops : ops[i].terminal
  BY <1>0 DEF ActiveOperationIDs
<1>5. \A d \in Clients : pc[d] \notin Handing
  BY <1>4 DEF IInv, HandInv, Fresh
<1>6. worker[n] = "none" /\ runs[n] = 0
  BY <1>2 DEF IInv, WorkInv, RestType
<1>7. RestType' /\ LockInv'
  <2>1. mu' \in Clients \cup {None}
    BY <1>0 DEF AcceptOperation, Created
  <2>2. RestType'
    BY <1>3, <2>1 DEF AcceptOperation, Created, IInv, RestType, node
  <2>3. mu' = IF IsJoin(req[c].kind) THEN c ELSE None
    BY <1>0 DEF AcceptOperation, Created
  <2>4. pc'[c] = IF IsJoin(req[c].kind) THEN "materialize" ELSE "dispatch"
    BY DEF Created, IInv, RestType
  <2>5. \A d \in Clients \ {c} : pc[d] \notin InLock
    BY <1>0 DEF IInv, LockInv
  <2> QED BY <1>0, <1>3, <2>2, <2>3, <2>4, <2>5 DEF LockInv, InLock, InCall, IInv
<1>8. CreateInv'
  BY <1>0, <1>3 DEF CreateInv, IInv, LockInv, InLock, Handing
<1>9. HandInv'
  <2>1. \A d \in Clients : pc'[d] \in Handing => d = c
    BY <1>3, <1>5
  <2>2. ops'[n].id = req'[c].id /\ Fresh(n)' /\ n \in DOMAIN ops'
    BY <1>1, <1>2, <1>3, <1>6 DEF Fresh
  <2> QED BY <2>1, <2>2 DEF HandInv
<1>10. OneInv'
  BY <1>2, <1>4 DEF OneInv
<1>11. OneOperationPerRequest'
  BY <1>0, <1>1, <1>2 DEF OneOperationPerRequest, IInv, Known, FindClientRequest
<1>12. WorkInv'
  BY <1>2, <1>3, <1>6 DEF WorkInv, IInv, Busy
<1>13. DownInv' /\ AuditInv'
  BY <1>0, <1>3 DEF DownInv, AuditInv
<1>14. NoForgottenOperation'
  <2> SUFFICES ASSUME NEW o \in ActiveOperationIDs'
               PROVE  \E d \in Clients : pc'[d] \in {"materialize", "dispatch"} /\ req'[d].id = ops'[o].id
    BY DEF NoForgottenOperation
  <2>1. o = n
    BY <1>2, <1>4 DEF ActiveOperationIDs
  <2> QED BY <2>1, <1>1, <1>2, <1>3 DEF Handing
<1> QED BY <1>2, <1>7, <1>8, <1>9, <1>10, <1>11, <1>12, <1>13, <1>14 DEF IInv

(* A Create that errs leaves no record, or one nobody works on.            *)
LEMMA CreateErrsInv ==
  ASSUME IInv, NEW c \in Clients, AcceptOperation(c), CreateErrs(c)
  PROVE  IInv'
<1>n. PICK n : n = Len(ops) + 1
  OBVIOUS
<1>r. PICK r : r = NewRecord(req[c])
  OBVIOUS
<1>0. /\ pc[c] = "create" /\ mu = c /\ req[c] \in Requests /\ ActiveOperationIDs = {}
      /\ ~Known(req[c]) /\ agent \in {"serving", "stopping"} /\ Len(ops) < MaxOps
      /\ UNCHANGED <<agent, mlock, node, runs>> /\ WriteFails /\ Answer(c)
  BY DEF AcceptOperation, CreateErrs, IInv, LockInv, InLock, InCall, CreateInv, DownInv, RestType
<1>1. None \notin Clients
  BY AgentAssumption DEF None
<1>2. /\ pc'[c] = "idle" /\ \A d \in Clients \ {c} : pc'[d] = pc[d] /\ req'[d] = req[d]
      /\ mu' = None /\ pc' \in [Clients -> Places] /\ req' \in [Clients -> Requests \cup {None}]
      /\ faults' \in Nat /\ \A d \in Clients \ {c} : pc[d] \notin InLock
  BY <1>0, AgentAssumption DEF WriteFails, Answer, IInv, RestType, LockInv, Places
<1>3. LockInv'
  BY <1>2 DEF LockInv, InLock, InCall, IInv
<1>4. CASE UNCHANGED <<ops, worker>>
  <2>1. RestType'
    BY <1>0, <1>2, <1>4 DEF IInv, RestType, node
  <2> QED BY <1>0, <1>2, <1>3, <1>4, <2>1, CallerKeeps DEF Handing, node
<1>5. CASE ops' = Append(ops, r) /\ worker' = [worker EXCEPT ![n] = "lost"]
  <2>1. r \in Record /\ r.id = req[c].id /\ ~r.terminal
    BY <1>r, <1>0 DEF NewRecord, Record, Requests, Phases
  <2>2. /\ OpsType' /\ n \in OpIds /\ DOMAIN ops' = DOMAIN ops \cup {n} /\ n \notin DOMAIN ops
        /\ ops'[n] = r /\ \A i \in DOMAIN ops : ops'[i] = ops[i]
    BY <1>n, <1>0, <1>5, <2>1, AppendFacts DEF IInv
  <2>3. /\ worker' \in [OpIds -> Busy \cup {"none", "release"}] /\ worker'[n] = "lost"
        /\ \A i \in OpIds : i # n => worker'[i] = worker[i]
    BY <1>5, <2>2 DEF IInv, RestType, Busy
  <2>4. RestType'
    BY <1>0, <1>2, <2>3 DEF IInv, RestType, node
  <2>5. \A i \in DOMAIN ops : ops[i].terminal
    BY <1>0 DEF ActiveOperationIDs
  <2>6. \A d \in Clients : pc'[d] \notin Handing /\ pc'[d] # "create"
    <3>1. \A d \in Clients : pc[d] \notin Handing
      BY <2>5 DEF IInv, HandInv, Fresh
    <3> QED BY <3>1, <1>2 DEF Handing, InLock
  <2>7. CreateInv' /\ HandInv'
    BY <2>6 DEF CreateInv, HandInv
  <2>8. OneInv'
    BY <2>2, <2>5 DEF OneInv
  <2>9. OneOperationPerRequest'
    BY <1>0, <2>1, <2>2 DEF OneOperationPerRequest, IInv, Known, FindClientRequest
  <2>10. runs[n] = 0
    BY <2>2 DEF IInv, WorkInv, RestType
  <2>11. WorkInv'
    BY <1>0, <2>1, <2>2, <2>3, <2>10 DEF WorkInv, IInv, Busy
  <2>12. DownInv' /\ AuditInv'
    BY <1>0 DEF DownInv, AuditInv
  <2>13. NoForgottenOperation'
    BY <2>2, <2>3, <2>5 DEF NoForgottenOperation, ActiveOperationIDs
  <2> QED BY <1>3, <2>2, <2>4, <2>7, <2>8, <2>9, <2>11, <2>12, <2>13 DEF IInv
<1> QED BY <1>n, <1>r, <1>4, <1>5 DEF CreateErrs

(* The record a caller hands over is the one it created.                   *)
LEMMA MyOpFacts ==
  ASSUME IInv, NEW c \in Clients, pc[c] \in Handing
  PROVE  /\ MyOp(c) \in DOMAIN ops /\ ops[MyOp(c)].id = req[c].id /\ Fresh(MyOp(c))
         /\ MyOp(c) \in OpIds /\ ops[MyOp(c)] \in Record
         /\ \A d \in Clients \ {c} : pc[d] \notin Handing
         /\ agent \in {"serving", "stopping"} /\ req[c] \in Requests
<1>1. PICK o \in DOMAIN ops : ops[o].id = req[c].id /\ Fresh(o)
  BY DEF IInv, HandInv
<1>2. MyOp(c) = o
  BY <1>1 DEF MyOp, IInv, OneOperationPerRequest
<1>3. o \in OpIds /\ ops[o] \in Record
  BY <1>1, OpsFacts DEF IInv
<1>4. agent \in {"serving", "stopping"} /\ req[c] \in Requests
  BY DEF IInv, DownInv, LockInv, RestType, Handing, InCall
<1> QED BY <1>1, <1>2, <1>3, <1>4 DEF IInv, HandInv

(* Ending a record keeps what identifies it.                               *)
LEMMA FailFacts ==
  ASSUME NEW r \in Record
  PROVE  /\ Fail(r) \in Record /\ Fail(r).terminal
         /\ Fail(r).id = r.id /\ Fail(r).marked = r.marked
BY DEF Fail, Record

(* A step that rewrites one record and keeps what identifies it.           *)
LEMMA OneRecord ==
  ASSUME IInv, NEW o \in DOMAIN ops, NEW r \in Record, Set(o, r),
         r.id = ops[o].id, ops[o].marked => r.marked, ops[o].terminal => r.terminal
  PROVE  /\ OpsType' /\ OneInv' /\ OneOperationPerRequest'
         /\ DOMAIN ops' = DOMAIN ops /\ ops'[o] = r
         /\ \A i \in DOMAIN ops : /\ i # o => ops'[i] = ops[i]
                                  /\ ops'[i].id = ops[i].id
                                  /\ ops[i].terminal => ops'[i].terminal
                                  /\ ops[i].marked => ops'[i].marked
         /\ \A q : Known(q)' = Known(q)
         /\ ActiveOperationIDs = {} => ActiveOperationIDs' = {}
<1>1. /\ OpsType' /\ DOMAIN ops' = DOMAIN ops /\ ops'[o] = r
      /\ \A i \in DOMAIN ops : i # o => ops'[i] = ops[i]
  BY SetFacts DEF IInv
<1>2. \A i \in DOMAIN ops : /\ ops'[i].id = ops[i].id
                            /\ ops[i].terminal => ops'[i].terminal
                            /\ ops[i].marked => ops'[i].marked
  BY <1>1
<1>3. OneInv'
  BY <1>1, <1>2 DEF IInv, OneInv
<1>4. OneOperationPerRequest'
  BY <1>1, <1>2 DEF IInv, OneOperationPerRequest
<1>5. \A q : Known(q)' = Known(q)
  BY <1>1, <1>2 DEF Known, FindClientRequest
<1>6. ActiveOperationIDs = {} => ActiveOperationIDs' = {}
  BY <1>1, <1>2 DEF ActiveOperationIDs
<1> QED BY <1>1, <1>2, <1>3, <1>4, <1>5, <1>6

(* Materializing a join and dispatching the operation.                     *)
LEMMA HandOverInv ==
  ASSUME IInv, NEW c \in Clients, MaterializeJoinConfig(c) \/ Dispatch(c)
  PROVE  IInv'
<1>o. PICK o : o = MyOp(c)
  OBVIOUS
<1>1. /\ o \in DOMAIN ops /\ ops[o].id = req[c].id /\ Fresh(o) /\ o \in OpIds /\ ops[o] \in Record
      /\ \A d \in Clients \ {c} : pc[d] \notin Handing
      /\ agent \in {"serving", "stopping"} /\ req[c] \in Requests /\ pc[c] \in Handing
  BY <1>o, MyOpFacts DEF MaterializeJoinConfig, Dispatch, Handing
<1>2. /\ agent' = agent /\ gen' = gen /\ boot' = boot /\ runs' = runs
      /\ \A d \in Clients \ {c} : pc'[d] = pc[d] /\ req'[d] = req[d]
      /\ kubelet' = kubelet /\ reboot' = reboot /\ mlock' = mlock
  BY DEF MaterializeJoinConfig, Dispatch, Answer, IInv, RestType, node
<1>f. faults' \in Nat
  BY AgentAssumption DEF MaterializeJoinConfig, Dispatch, WriteFails, IInv, RestType
<1>3. \A d \in Clients : pc[d] # "create"
  BY <1>1 DEF IInv, CreateInv, ActiveOperationIDs, Fresh
<1>4. mu' \in Clients \cup {None} /\ (mu # c => mu' = mu)
  BY DEF IInv, RestType, MaterializeJoinConfig, Dispatch, Answer
<1>m. /\ MaterialReady(ops[o]) \in Record /\ MaterialReady(ops[o]).id = ops[o].id
      /\ MaterialReady(ops[o]).marked = ops[o].marked
      /\ MaterialReady(ops[o]).terminal = ops[o].terminal
  BY <1>1 DEF Record, Phases, MaterialReady
<1>5. CASE pc[c] = "materialize" /\ Set(o, MaterialReady(ops[o]))
           /\ pc' = [pc EXCEPT ![c] = "dispatch"] /\ UNCHANGED <<req, worker>>
  <2>r. PICK r : r = MaterialReady(ops[o])
    OBVIOUS
  <2>1. r \in Record /\ r.id = ops[o].id /\ r.marked = ops[o].marked /\ r.terminal = ops[o].terminal
    BY <1>m, <2>r
  <2>2. /\ OpsType' /\ OneInv' /\ OneOperationPerRequest' /\ DOMAIN ops' = DOMAIN ops /\ ops'[o] = r
        /\ \A i \in DOMAIN ops : i # o => ops'[i] = ops[i]
    BY <1>1, <1>5, <2>r, <2>1, OneRecord, ZenonT(30)
  <2>3. RestType' /\ LockInv'
    BY <1>1, <1>2, <1>4, <1>f, <1>5 DEF IInv, RestType, LockInv, InLock, InCall, Places, Handing
  <2>4. CreateInv'
    BY <1>2, <1>3, <1>5 DEF CreateInv, IInv, RestType
  <2>5. HandInv'
    BY <1>1, <1>2, <1>5, <2>1, <2>2 DEF HandInv, Fresh, IInv, RestType, Handing
  <2>6. WorkInv'
    BY <1>1, <1>2, <1>5, <2>1, <2>2 DEF WorkInv, IInv, Fresh, Busy
  <2>7. DownInv' /\ AuditInv'
    BY <1>1, <1>2 DEF DownInv, AuditInv
  <2>8. NoForgottenOperation'
    <3> SUFFICES ASSUME NEW i \in ActiveOperationIDs'
                 PROVE  \E d \in Clients : pc'[d] \in {"materialize", "dispatch"} /\ req'[d].id = ops'[i].id
      BY DEF NoForgottenOperation
    <3>1. i = o
      BY <1>1, <2>1, <2>2 DEF OneInv, ActiveOperationIDs, Fresh
    <3> QED BY <3>1, <1>1, <1>5, <2>1, <2>2 DEF IInv, RestType
  <2> QED BY <2>2, <2>3, <2>4, <2>5, <2>6, <2>7, <2>8 DEF IInv
<1>6. CASE Set(o, Fail(ops[o])) /\ pc' = [pc EXCEPT ![c] = "idle"]
           /\ req' = [req EXCEPT ![c] = None] /\ UNCHANGED worker
  <2>r. PICK r : r = Fail(ops[o])
    OBVIOUS
  <2>1. r \in Record /\ r.id = ops[o].id /\ r.marked = ops[o].marked /\ r.terminal
    BY <1>1, <2>r, FailFacts
  <2>2. /\ OpsType' /\ OneInv' /\ OneOperationPerRequest' /\ DOMAIN ops' = DOMAIN ops /\ ops'[o] = r
        /\ \A i \in DOMAIN ops : i # o => ops'[i] = ops[i]
    BY <1>1, <1>6, <2>r, <2>1, OneRecord
  <2>3. RestType' /\ LockInv'
    BY <1>1, <1>2, <1>4, <1>f, <1>6 DEF IInv, RestType, LockInv, InLock, InCall, Places, Handing
  <2>4. CreateInv'
    BY <1>2, <1>3, <1>6 DEF CreateInv, IInv, RestType
  <2>5. HandInv'
    BY <1>1, <1>2, <1>6 DEF HandInv, IInv, RestType, Handing
  <2>6. WorkInv'
    BY <1>1, <1>2, <1>6, <2>1, <2>2 DEF WorkInv, IInv, Fresh, Busy
  <2>7. DownInv' /\ AuditInv'
    BY <1>1, <1>2 DEF DownInv, AuditInv
  <2>8. ActiveOperationIDs' = {}
    BY <1>1, <2>1, <2>2 DEF IInv, OneInv, ActiveOperationIDs, Fresh
  <2>9. NoForgottenOperation'
    BY <2>8 DEF NoForgottenOperation
  <2> QED BY <2>2, <2>3, <2>4, <2>5, <2>6, <2>7, <2>9 DEF IInv
<1>7. CASE worker' = [worker EXCEPT ![o] = "begin"] /\ UNCHANGED ops
           /\ pc' = [pc EXCEPT ![c] = "idle"] /\ req' = [req EXCEPT ![c] = None]
  <2>3. RestType' /\ LockInv'
    BY <1>1, <1>2, <1>4, <1>f, <1>7 DEF IInv, RestType, LockInv, InLock, InCall, Places, Handing, Busy
  <2>4. CreateInv'
    BY <1>2, <1>3, <1>7 DEF CreateInv, IInv, RestType
  <2>5. HandInv'
    BY <1>1, <1>2, <1>7 DEF HandInv, IInv, RestType, Handing
  <2>6. WorkInv'
    BY <1>1, <1>2, <1>7 DEF WorkInv, IInv, Fresh, Busy, RestType
  <2>7. DownInv' /\ AuditInv'
    BY <1>1, <1>2 DEF DownInv, AuditInv
  <2>8. NoForgottenOperation'
    <3> SUFFICES ASSUME NEW i \in ActiveOperationIDs'
                 PROVE  worker'[i] # "none"
      BY DEF NoForgottenOperation
    <3>1. i = o
      BY <1>1, <1>7 DEF IInv, OneInv, ActiveOperationIDs, Fresh
    <3> QED BY <3>1, <1>1, <1>7 DEF IInv, RestType
  <2>9. OpsType' /\ OneInv' /\ OneOperationPerRequest'
    BY <1>7 DEF IInv, OpsType, OneInv, OneOperationPerRequest
  <2> QED BY <2>3, <2>4, <2>5, <2>6, <2>7, <2>8, <2>9 DEF IInv
<1>8. ASSUME NEW r \in Record, Loses(o, r), r.id = ops[o].id, r.marked = ops[o].marked,
             r.terminal = ops[o].terminal,
             pc' = [pc EXCEPT ![c] = "idle"], req' = [req EXCEPT ![c] = None]
      PROVE  IInv'
  <2>1. Set(o, r) /\ worker' = [worker EXCEPT ![o] = "lost"]
    BY <1>8 DEF Loses
  <2>2. /\ OpsType' /\ OneInv' /\ OneOperationPerRequest' /\ DOMAIN ops' = DOMAIN ops /\ ops'[o] = r
        /\ \A i \in DOMAIN ops : i # o => ops'[i] = ops[i]
    BY <1>1, <1>8, <2>1, OneRecord
  <2>3. RestType' /\ LockInv'
    BY <1>1, <1>2, <1>4, <1>f, <1>8, <2>1 DEF IInv, RestType, LockInv, InLock, InCall, Places, Handing, Busy
  <2>4. CreateInv'
    BY <1>2, <1>3, <1>8 DEF CreateInv, IInv, RestType
  <2>5. HandInv'
    BY <1>1, <1>2, <1>8 DEF HandInv, IInv, RestType, Handing
  <2>6. WorkInv'
    BY <1>1, <1>2, <1>8, <2>1, <2>2 DEF WorkInv, IInv, Fresh, Busy, RestType
  <2>7. DownInv' /\ AuditInv'
    BY <1>1, <1>2 DEF DownInv, AuditInv
  <2>8. NoForgottenOperation'
    <3> SUFFICES ASSUME NEW i \in ActiveOperationIDs'
                 PROVE  worker'[i] # "none"
      BY DEF NoForgottenOperation
    <3>1. i = o
      BY <1>1, <1>8, <2>2 DEF OneInv, ActiveOperationIDs, Fresh
    <3> QED BY <3>1, <1>1, <2>1 DEF IInv, RestType
  <2> QED BY <2>2, <2>3, <2>4, <2>5, <2>6, <2>7, <2>8 DEF IInv
<1>9. CASE MaterializeJoinConfig(c)
  <2>1. CASE Set(o, Fail(ops[o])) /\ Answer(c) /\ UNCHANGED worker
    BY <1>6, <2>1 DEF Answer
  <2>2. CASE (Loses(o, ops[o]) \/ Loses(o, MaterialReady(ops[o]))) /\ Answer(c)
    BY <1>1, <1>m, <1>8, <2>2 DEF Answer
  <2> QED BY <1>o, <1>5, <1>9, <2>1, <2>2 DEF MaterializeJoinConfig
<1>10. CASE Dispatch(c)
  BY <1>o, <1>1, <1>6, <1>7, <1>8, <1>10 DEF Dispatch
<1> QED BY <1>9, <1>10

----------------------------------------------------------------------------
(* The steps of the workers.                                               *)

(* Leaving a record alone is rewriting it by itself.                       *)
LEMMA SetSame ==
  ASSUME OpsType, NEW o \in DOMAIN ops, UNCHANGED ops
  PROVE  Set(o, ops[o])
<1>1. ops \in [1..Len(ops) -> Record]
  BY LenProperties DEF OpsType
<1> QED BY <1>1 DEF Set

(* A worker moves on and rewrites its record.                              *)
LEMMA WorkerKeeps ==
  ASSUME IInv, NEW o \in OpIds, o \in DOMAIN ops, worker[o] # "none",
         agent \in {"serving", "stopping"}, UNCHANGED <<agent, client, boot>>,
         NEW r \in Record, Set(o, r), r.id = ops[o].id,
         ops[o].marked => r.marked, ops[o].terminal => r.terminal,
         NEW w \in Busy \cup {"none", "release"}, worker' = [worker EXCEPT ![o] = w],
         w \in Busy <=> ~r.terminal, w \in {"start", "running"} => r.marked,
         runs' \in [OpIds -> Nat], \A i \in OpIds \ {o} : runs'[i] = runs[i],
         w \in {"begin", "prepare", "start"} => runs'[o] = 0,
         runs'[o] <= 1, runs'[o] = 1 => r.marked,
         gen' = gen \/ ~ops[o].terminal, RestType'
  PROVE  IInv'
<1>1. /\ OpsType' /\ OneInv' /\ OneOperationPerRequest' /\ DOMAIN ops' = DOMAIN ops /\ ops'[o] = r
      /\ \A i \in DOMAIN ops : i # o => ops'[i] = ops[i]
      /\ \A q : Known(q)' = Known(q)
      /\ ActiveOperationIDs = {} => ActiveOperationIDs' = {}
  BY OneRecord
<1>2. /\ worker'[o] = w /\ \A i \in OpIds \ {o} : worker'[i] = worker[i]
      /\ pc' = pc /\ req' = req /\ mu' = mu
  BY DEF IInv, RestType, client
<1>3. DOMAIN ops \subseteq OpIds
  BY OpsFacts DEF IInv
<1>4. LockInv'
  BY <1>2 DEF IInv, LockInv
<1>5. CreateInv'
  <2> SUFFICES ASSUME NEW c \in Clients, pc[c] = "create"
               PROVE  ActiveOperationIDs' = {} /\ ~Known(req[c])' /\ ValidateMutationBase(req[c])'
    BY <1>2 DEF CreateInv
  <2>1. ActiveOperationIDs = {} /\ ~Known(req[c]) /\ ValidateMutationBase(req[c])
    BY DEF IInv, CreateInv
  <2>2. gen' = gen
    BY <2>1 DEF ActiveOperationIDs
  <2>3. ~Known(req[c])'
    BY <1>1, <1>2, <2>1 DEF Known, FindClientRequest
  <2> QED BY <1>1, <1>2, <2>1, <2>2, <2>3 DEF ValidateMutationBase
<1>6. HandInv'
  <2>1. ASSUME NEW c \in Clients, pc'[c] \in Handing
        PROVE  \E i \in DOMAIN ops' : ops'[i].id = req'[c].id /\ Fresh(i)'
    <3>1. PICK i \in DOMAIN ops : ops[i].id = req[c].id /\ Fresh(i)
      BY <1>2, <2>1 DEF IInv, HandInv
    <3>2. i # o
      BY <3>1 DEF Fresh
    <3> QED BY <1>1, <1>2, <1>3, <3>1, <3>2 DEF Fresh
  <2> QED BY <1>2, <2>1 DEF IInv, HandInv
<1>7. WorkInv'
  BY <1>1, <1>2, <1>3 DEF IInv, WorkInv, Busy
<1>8. DownInv' /\ AuditInv'
  BY DEF DownInv, AuditInv
<1>9. NoForgottenOperation'
  <2> SUFFICES ASSUME agent' = "serving", NEW i \in ActiveOperationIDs'
               PROVE  \/ worker'[i] # "none" \/ ops'[i].class # ""
                      \/ \E c \in Clients : pc'[c] \in {"materialize", "dispatch"} /\ req'[c].id = ops'[i].id
                      \/ PidReuse /\ ops'[i].inv = "open" /\ ops'[i].invBoot = boot'
    BY DEF NoForgottenOperation
  <2>1. CASE i = o
    BY <1>1, <1>2, <2>1 DEF ActiveOperationIDs, Busy
  <2>2. CASE i # o
    <3>1. i \in ActiveOperationIDs /\ ops'[i] = ops[i] /\ worker'[i] = worker[i]
      BY <1>1, <1>2, <1>3, <2>2 DEF ActiveOperationIDs
    <3> QED BY <1>2, <3>1, ZenonT(30) DEF IInv, NoForgottenOperation
  <2> QED BY <2>1, <2>2
<1> QED BY <1>1, <1>4, <1>5, <1>6, <1>7, <1>8, <1>9 DEF IInv

(* Every step of an operation's worker.                                    *)
LEMMA WorkerInv ==
  ASSUME IInv, NEW o \in OpIds, WorkerStep(o)
  PROVE  IInv'
<1> USE DEF node, client
<1>1. /\ o \in DOMAIN ops /\ ops[o] \in Record /\ worker[o] # "none" /\ agent \in {"serving", "stopping"}
  BY OpsFacts DEF WorkerStep, AcquireMutationLock, PrepareFails, MarkMutation, RunTool, ToolDone,
     ReleaseMutationLock, Work, IInv, WorkInv
<1>2. /\ worker[o] \in Busy <=> ~ops[o].terminal
      /\ worker[o] \in {"start", "running"} => ops[o].marked
      /\ worker[o] \in {"begin", "prepare", "start"} => runs[o] = 0
      /\ runs[o] <= 1 /\ (runs[o] = 1 => ops[o].marked) /\ runs \in [OpIds -> Nat] /\ OpsType
  BY <1>1 DEF IInv, WorkInv, RestType, Busy
<1>3. CASE AcquireMutationLock(o)
  <2>1. CASE mlock = 0
    <3>1. RestType'
      BY <1>3, <2>1, AgentAssumption DEF AcquireMutationLock, IInv, RestType, Busy, OpIds
    <3>2. Set(o, ops[o]) /\ worker' = [worker EXCEPT ![o] = "prepare"] /\ runs' = runs
      BY <1>1, <1>2, <1>3, <2>1, SetSame DEF AcquireMutationLock
    <3> QED BY <1>1, <1>2, <1>3, <3>1, <3>2, WorkerKeeps DEF AcquireMutationLock, Work, Busy
  <2>2. CASE mlock # 0
    <3>r. PICK r : r = Fail(ops[o])
      OBVIOUS
    <3>s. PICK s : s = ops[o]
      OBVIOUS
    <3>1. /\ r \in Record /\ r.terminal /\ r.id = ops[o].id /\ r.marked = ops[o].marked
          /\ s \in Record /\ s.terminal = ops[o].terminal /\ s.id = ops[o].id
          /\ s.marked = ops[o].marked
      BY <1>1, <3>r, <3>s DEF Fail, Record
    <3>2. CASE Set(o, r) /\ worker' = [worker EXCEPT ![o] = "none"] /\ UNCHANGED faults
      <4>1. RestType'
        BY <1>3, <2>2, <3>2 DEF AcquireMutationLock, IInv, RestType
      <4> QED BY <1>1, <1>2, <1>3, <3>1, <3>2, <4>1, WorkerKeeps DEF AcquireMutationLock, Busy
    <3>3. CASE WriteFails /\ Loses(o, s)
      <4>1. RestType'
        BY <1>3, <2>2, <3>3 DEF AcquireMutationLock, WriteFails, Loses, IInv, RestType, Busy
      <4> QED BY <1>1, <1>2, <1>3, <3>1, <3>3, <4>1, WorkerKeeps
              DEF AcquireMutationLock, Work, Loses, Busy
    <3> QED BY <1>3, <2>2, <3>r, <3>s, <3>2, <3>3 DEF AcquireMutationLock
  <2> QED BY <2>1, <2>2
(* A worker that gives up: the record is ended, or lost as it is.          *)
<1>f. ASSUME worker[o] \in Busy, runs' = runs, UNCHANGED <<agent, client, boot>>,
             gen' \in Nat, kubelet' \in BOOLEAN, UNCHANGED reboot,
             NEW s \in Record, s.id = ops[o].id, s.terminal = ops[o].terminal,
             ops[o].marked => s.marked, faults' \in Nat,
             \/ Set(o, Fail(s)) /\ worker' = [worker EXCEPT ![o] = "release"] /\ UNCHANGED mlock
             \/ Loses(o, s) /\ mlock' = 0
      PROVE  IInv'
  <2>1. RestType'
    BY <1>f, AgentAssumption DEF IInv, RestType, Loses, Busy
  <2>r. PICK r : r = Fail(s)
    OBVIOUS
  <2>2. r \in Record /\ r.terminal /\ r.id = ops[o].id /\ (ops[o].marked => r.marked)
    BY <1>f, <2>r, FailFacts
  <2>3. CASE Set(o, r) /\ worker' = [worker EXCEPT ![o] = "release"]
    BY <1>1, <1>2, <1>f, <2>1, <2>2, <2>3, WorkerKeeps DEF Busy
  <2>4. CASE Loses(o, s)
    BY <1>1, <1>2, <1>f, <2>1, <2>4, WorkerKeeps DEF Busy, Loses
  <2> QED BY <1>f, <2>r, <2>3, <2>4
<1>t. gen \in Nat /\ kubelet \in BOOLEAN /\ faults \in Nat
  BY DEF IInv, RestType
<1>4. CASE PrepareFails(o)
  <2>1. /\ worker[o] \in Busy /\ runs' = runs /\ UNCHANGED <<agent, client, boot, gen, kubelet, reboot>>
        /\ faults' \in Nat
        /\ \/ Set(o, Fail(ops[o])) /\ worker' = [worker EXCEPT ![o] = "release"] /\ UNCHANGED mlock
           \/ Loses(o, ops[o]) /\ mlock' = 0
    BY <1>4, <1>t DEF PrepareFails, EndsWithError, Work, Busy, WriteFails
  <2> QED BY <1>1, <1>f, <1>t, <2>1
<1>5. CASE MarkMutation(o)
  <2>s. PICK s : s = Marked(ops[o])
    OBVIOUS
  <2>0. s \in Record /\ s.marked /\ s.id = ops[o].id /\ s.terminal = ops[o].terminal
    BY <1>1, <2>s DEF Record, Phases, Marked
  <2>1. CASE Set(o, s) /\ worker' = [worker EXCEPT ![o] = "start"] /\ UNCHANGED <<mlock, faults>>
    <3>2. RestType'
      BY <1>5, <2>1 DEF MarkMutation, IInv, RestType, Busy
    <3> QED BY <1>1, <1>2, <1>5, <2>0, <2>1, <3>2, WorkerKeeps DEF MarkMutation, Work, Busy
  <2>2. ASSUME NEW q \in {ops[o], s}, WriteFails,
               \/ Set(o, Fail(q)) /\ worker' = [worker EXCEPT ![o] = "release"] /\ UNCHANGED mlock
               \/ Loses(o, q) /\ mlock' = 0
        PROVE  IInv'
    <3>1. /\ worker[o] \in Busy /\ runs' = runs /\ UNCHANGED <<agent, client, boot, gen, kubelet, reboot>>
          /\ faults' \in Nat
      BY <1>5, <1>t, <2>2 DEF MarkMutation, Work, Busy, WriteFails
    <3>2. q \in Record /\ q.id = ops[o].id /\ q.terminal = ops[o].terminal /\ (ops[o].marked => q.marked)
      BY <1>1, <2>0
    <3> QED BY <1>f, <1>t, <2>2, <3>1, <3>2
  <2> QED BY <1>5, <2>s, <2>1, <2>2 DEF MarkMutation
<1>6. CASE RunTool(o)
  <2>s. PICK s : s = [ops[o] EXCEPT !.inv = "open", !.invBoot = boot]
    OBVIOUS
  <2>0. boot \in Nat /\ worker[o] = "start" /\ runs[o] = 0
    BY <1>2, <1>6 DEF IInv, RestType, RunTool, Work
  <2>1. s \in Record /\ s.marked = ops[o].marked /\ s.id = ops[o].id /\ s.terminal = ops[o].terminal
    BY <1>1, <2>0, <2>s DEF Record
  <2>2. runs' \in [OpIds -> Nat] /\ runs'[o] = 1 /\ \A i \in OpIds \ {o} : runs'[i] = runs[i]
    BY <1>2, <1>6, <2>0 DEF RunTool
  <2>3. RestType'
    BY <1>6, <2>2 DEF RunTool, WriteFails, IInv, RestType, Busy
  <2>4. /\ worker' = [worker EXCEPT ![o] = "running"]
        /\ UNCHANGED <<agent, client, boot>> /\ gen' = gen
    BY <1>6 DEF RunTool
  <2>5. ~ops[o].terminal /\ ops[o].marked
    BY <1>2, <2>0 DEF Busy
  <2>6. ASSUME NEW q \in Record, Set(o, q), q.id = ops[o].id, q.marked, ~q.terminal
        PROVE  IInv'
    <3>1. /\ "running" \in Busy \cup {"none", "release"} /\ ("running" \in Busy <=> ~q.terminal)
          /\ "running" \in {"start", "running"} => q.marked
          /\ "running" \in {"begin", "prepare", "start"} => runs'[o] = 0
          /\ runs'[o] <= 1 /\ (runs'[o] = 1 => q.marked)
          /\ (ops[o].marked => q.marked) /\ (ops[o].terminal => q.terminal)
      BY <2>2, <2>5, <2>6 DEF Busy
    <3> HIDE DEF client
    <3> QED BY <1>1, <2>2, <2>3, <2>4, <2>6, <3>1, WorkerKeeps
  <2>7. Set(o, s) \/ Set(o, ops[o])
    BY <1>1, <1>2, <1>6, <2>s, SetSame DEF RunTool
  <2> QED BY <1>1, <2>1, <2>5, <2>6, <2>7
<1>7. CASE ToolDone(o)
  <2>s. PICK s : s = [ops[o] EXCEPT !.inv = "closed"]
    OBVIOUS
  <2>1. s \in Record /\ s.terminal = ops[o].terminal /\ s.id = ops[o].id /\ s.marked = ops[o].marked
    BY <1>1, <2>s DEF Record
  <2>2. gen' \in Nat
    BY <1>7, <1>t DEF ToolDone, ToolEffect
  <2>3. kubelet' \in BOOLEAN
    BY <1>7, <1>t DEF ToolDone, ToolEffect
  <2>4. /\ worker[o] \in Busy /\ runs' = runs /\ UNCHANGED <<agent, client, boot, reboot>>
        /\ faults' \in Nat
    BY <1>7, <1>t DEF ToolDone, Work, Busy, WriteFails
  <2>5. CASE Set(o, Fail(s)) /\ worker' = [worker EXCEPT ![o] = "release"] /\ UNCHANGED mlock
    BY <1>f, <2>1, <2>2, <2>3, <2>4, <2>5
  <2>6. CASE \/ Set(o, Fail(ops[o])) /\ worker' = [worker EXCEPT ![o] = "release"] /\ UNCHANGED mlock
             \/ Loses(o, ops[o]) /\ mlock' = 0
    BY <1>1, <1>f, <2>2, <2>3, <2>4, <2>6
  <2> QED BY <1>7, <2>s, <2>5, <2>6 DEF ToolDone
<1>8. CASE ReleaseMutationLock(o)
  <2>1. RestType'
    BY <1>8, AgentAssumption DEF ReleaseMutationLock, IInv, RestType
  <2>2. Set(o, ops[o]) /\ ops[o].terminal
    BY <1>1, <1>2, <1>8, SetSame DEF ReleaseMutationLock, Work, Busy
  <2> QED BY <1>1, <1>2, <1>8, <2>1, <2>2, WorkerKeeps DEF ReleaseMutationLock, Busy
<1> QED BY <1>3, <1>4, <1>5, <1>6, <1>7, <1>8 DEF WorkerStep

----------------------------------------------------------------------------
(* Stopping, crashing and starting again.                                  *)

(* A step that changes nothing.                                            *)
LEMMA StutterInv ==
  ASSUME IInv, UNCHANGED vars
  PROVE  IInv'
<1> USE DEF vars
<1>1. OpsType' /\ RestType'
  BY DEF IInv, OpsType, RestType
<1>2. LockInv' /\ OneInv' /\ OneOperationPerRequest' /\ WorkInv' /\ DownInv'
  BY DEF IInv, LockInv, OneInv, OneOperationPerRequest, WorkInv, DownInv
<1>3. CreateInv'
  BY DEF IInv, CreateInv, ActiveOperationIDs, Known, FindClientRequest, ValidateMutationBase
<1>4. HandInv'
  BY DEF IInv, HandInv, Fresh
<1>5. AuditInv' /\ NoForgottenOperation'
  BY DEF IInv, AuditInv, Audited, NoForgottenOperation, ActiveOperationIDs
<1> QED BY <1>1, <1>2, <1>3, <1>4, <1>5 DEF IInv

(* Stopping, being killed and rebooting.                                   *)
LEMMA StopInv ==
  ASSUME IInv, Stop \/ Exit \/ Crash \/ NodeReboot \/ Quiet
  PROVE  IInv'
<1> USE DEF node, client
<1>1. CASE Stop
  <2>1. RestType'
    BY <1>1 DEF Stop, IInv, RestType
  <2>2. OpsType' /\ OneInv' /\ OneOperationPerRequest' /\ WorkInv' /\ LockInv' /\ DownInv' /\ AuditInv'
    BY <1>1 DEF Stop, IInv, OpsType, OneInv, OneOperationPerRequest, WorkInv, LockInv, DownInv, AuditInv
  <2>3. CreateInv'
    BY <1>1 DEF Stop, IInv, CreateInv, ActiveOperationIDs, Known, FindClientRequest, ValidateMutationBase
  <2>4. HandInv' /\ NoForgottenOperation'
    BY <1>1 DEF Stop, IInv, HandInv, Fresh, NoForgottenOperation
  <2> QED BY <2>1, <2>2, <2>3, <2>4 DEF IInv
<1>2. ASSUME Stopped, UNCHANGED <<ops, runs>>, faults' \in Nat, gen' \in Nat, boot' \in Nat,
             kubelet' \in BOOLEAN, reboot' \in BOOLEAN
      PROVE  IInv'
  <2>1. RestType'
    BY <1>2, AgentAssumption DEF Stopped, IInv, RestType, Places
  <2>2. OpsType' /\ OneInv' /\ OneOperationPerRequest'
    BY <1>2 DEF IInv, OpsType, OneInv, OneOperationPerRequest
  <2>3. LockInv' /\ CreateInv' /\ HandInv'
    BY <1>2 DEF Stopped, LockInv, CreateInv, HandInv, InLock, InCall, Handing
  <2>4. WorkInv'
    BY <1>2 DEF Stopped, IInv, WorkInv, Busy
  <2>5. DownInv' /\ AuditInv' /\ NoForgottenOperation'
    BY <1>2 DEF Stopped, DownInv, AuditInv, NoForgottenOperation
  <2> QED BY <2>1, <2>2, <2>3, <2>4, <2>5 DEF IInv
<1>3. CASE Exit
  BY <1>2, <1>3 DEF Exit, IInv, RestType
<1>4. CASE Crash
  BY <1>2, <1>4 DEF Crash, IInv, RestType
<1>5. CASE NodeReboot
  <2>1. reboot' \in BOOLEAN /\ kubelet' \in BOOLEAN
    BY <1>5 DEF NodeReboot, IInv, RestType
  <2> QED BY <1>2, <1>5, <2>1 DEF NodeReboot, IInv, RestType
<1>6. CASE Quiet
  BY <1>6, StutterInv DEF Quiet
<1> QED BY <1>1, <1>3, <1>4, <1>5, <1>6

(* A step of the startup audit rewrites records of an idle agent.          *)
LEMMA AuditKeeps ==
  ASSUME IInv, agent \notin {"serving", "stopping"},
         UNCHANGED <<mu, pc, req, worker, mlock, gen, kubelet, boot, reboot, runs>>, faults' \in Nat,
         agent' \in {"down", "reconcile", "audit", "recover", "serving"},
         OpsType', DOMAIN ops' = DOMAIN ops,
         \A i \in DOMAIN ops : /\ ops'[i].id = ops[i].id /\ ops'[i].marked = ops[i].marked
                               /\ ops[i].terminal => ops'[i].terminal,
         agent' \notin {"down", "reconcile"} => \A i \in DOMAIN ops : ~ops'[i].terminal => Audited(i)'
  PROVE  IInv'
<1>1. RestType'
  BY DEF IInv, RestType
<1>2. OneInv' /\ OneOperationPerRequest'
  BY DEF IInv, OneInv, OneOperationPerRequest
<1>3. \A o \in OpIds : worker[o] = "none"
  BY DEF IInv, DownInv
<1>4. \A c \in Clients : pc[c] = "idle"
  BY DEF IInv, DownInv
<1>5. LockInv' /\ CreateInv' /\ HandInv'
  BY <1>4 DEF LockInv, CreateInv, HandInv, InLock, InCall, Handing
<1>6. WorkInv'
  BY <1>3 DEF IInv, WorkInv, Busy
<1>7. DownInv' /\ AuditInv'
  BY <1>3, <1>4 DEF DownInv, AuditInv, ActiveOperationIDs
<1>8. NoForgottenOperation'
  BY DEF NoForgottenOperation, ActiveOperationIDs, Audited
<1> QED BY <1>1, <1>2, <1>5, <1>6, <1>7, <1>8 DEF IInv

(* Each step of the startup audit.                                         *)
LEMMA StartInv ==
  ASSUME IInv, StartStep
  PROVE  IInv'
<1> USE DEF node, client
<1>1. \A i \in DOMAIN ops : ops[i] \in Record
  BY OpsFacts DEF IInv
<1>0. faults' \in Nat
  <2>1. faults \in Nat
    BY DEF IInv, RestType
  <2>2. faults' = faults \/ faults' = faults + 1
    BY DEF StartStep, Serve, ReconcileBoot, AuditFails, FailAcceptedButNotStarted,
           RecoverInterruptedConfigApplies, WriteFails
  <2> QED BY <2>1, <2>2
<1>2. CASE Serve \/ AuditFails
  <2>1. OpsType'
    BY <1>2 DEF Serve, AuditFails, IInv, OpsType
  <2> QED BY <1>0, <1>2, <2>1, AuditKeeps DEF Serve, AuditFails
<1>3. CASE ReconcileBoot
  <2>1. PICK alive \in IF PidReuse THEN BOOLEAN ELSE {FALSE} :
          ops' = [o \in DOMAIN ops |->
                    IF ops[o].terminal \/ HasLiveInvocation(ops[o], alive) THEN ops[o]
                    ELSE [ops[o] EXCEPT !.class = ClassifyStale(ops[o])]]
    BY <1>3 DEF ReconcileBoot
  <2>2. ASSUME NEW i \in DOMAIN ops
        PROVE  /\ ops'[i] \in Record /\ ops'[i].id = ops[i].id /\ ops'[i].marked = ops[i].marked
               /\ ops'[i].terminal = ops[i].terminal
               /\ ~ops[i].terminal => \/ ops'[i].class # ""
                                      \/ ops'[i].inv = "open" /\ ops'[i].invBoot = boot /\ PidReuse
    <3>1. CASE ops[i].terminal \/ HasLiveInvocation(ops[i], alive)
      <4>1. ops'[i] = ops[i]
        BY <2>1, <3>1
      <4>2. alive => PidReuse
        BY AgentAssumption
      <4> QED BY <1>1, <3>1, <4>1, <4>2 DEF HasLiveInvocation
    <3>2. CASE ~(ops[i].terminal \/ HasLiveInvocation(ops[i], alive))
      <4>1. ops'[i] = [ops[i] EXCEPT !.class = ClassifyStale(ops[i])]
        BY <2>1, <3>2
      <4>2. ClassifyStale(ops[i]) \in {"post-mutation", "ambiguous", "pre-mutation"}
        BY <3>2 DEF ClassifyStale
      <4>3. \A k \in {"post-mutation", "ambiguous", "pre-mutation"} :
              LET s == [ops[i] EXCEPT !.class = k]
              IN  s \in Record /\ s.id = ops[i].id /\ s.marked = ops[i].marked
                  /\ s.terminal = ops[i].terminal /\ s.class # ""
        BY <1>1 DEF Record
      <4> QED BY <4>1, <4>2, <4>3
    <3> QED BY <3>1, <3>2
  <2>3. OpsType' /\ DOMAIN ops' = DOMAIN ops
    <3>1. ops' \in [DOMAIN ops -> Record]
      BY <2>1, <2>2
    <3> QED BY <3>1, MapFacts DEF IInv
  <2> QED BY <1>0, <1>3, <2>2, <2>3, AuditKeeps DEF ReconcileBoot, Audited
<1>4. CASE FailAcceptedButNotStarted
  <2>1. ASSUME NEW i \in DOMAIN ops
        PROVE  /\ ops'[i] \in {ops[i], Fail(ops[i])} /\ ops'[i] \in Record
               /\ ops'[i].id = ops[i].id /\ ops'[i].marked = ops[i].marked
               /\ ops[i].terminal => ops'[i].terminal
               /\ ~ops'[i].terminal => ops'[i] = ops[i]
    <3>1. ops'[i] \in {ops[i], Fail(ops[i])}
      BY <1>4 DEF FailAcceptedButNotStarted
    <3> QED BY <1>1, <3>1, FailFacts
  <2>2. OpsType' /\ DOMAIN ops' = DOMAIN ops
    <3>1. ops' \in [DOMAIN ops -> Record]
      BY <1>4, <2>1 DEF FailAcceptedButNotStarted
    <3> QED BY <3>1, MapFacts DEF IInv
  <2>3. \A i \in DOMAIN ops : ~ops'[i].terminal => Audited(i)'
    BY <1>4, <2>1 DEF FailAcceptedButNotStarted, IInv, AuditInv, ActiveOperationIDs, Audited
  <2> QED BY <1>0, <1>4, <2>1, <2>2, <2>3, AuditKeeps DEF FailAcceptedButNotStarted
<1>5. CASE RecoverInterruptedConfigApplies
  <2>1. ASSUME NEW i \in DOMAIN ops
        PROVE  /\ ops'[i] \in {ops[i], Fail(ops[i])} /\ ops'[i] \in Record
               /\ ops'[i].id = ops[i].id /\ ops'[i].marked = ops[i].marked
               /\ ops[i].terminal => ops'[i].terminal
               /\ ~ops'[i].terminal => ops'[i] = ops[i]
    <3>1. ops'[i] \in {ops[i], Fail(ops[i])}
      BY <1>5 DEF RecoverInterruptedConfigApplies
    <3> QED BY <1>1, <3>1, FailFacts
  <2>2. OpsType' /\ DOMAIN ops' = DOMAIN ops
    <3>1. CASE ops' = ops
      BY <3>1 DEF IInv, OpsType
    <3>2. CASE ops' # ops
      <4>1. ops' \in [DOMAIN ops -> Record]
        BY <1>5, <2>1, <3>2 DEF RecoverInterruptedConfigApplies
      <4> QED BY <4>1, MapFacts DEF IInv
    <3> QED BY <3>1, <3>2
  <2>3. \A i \in DOMAIN ops : ~ops'[i].terminal => Audited(i)'
    BY <1>5, <2>1 DEF RecoverInterruptedConfigApplies, IInv, AuditInv, ActiveOperationIDs, Audited
  <2> QED BY <1>0, <1>5, <2>1, <2>2, <2>3, AuditKeeps DEF RecoverInterruptedConfigApplies
<1> QED BY <1>2, <1>3, <1>4, <1>5 DEF StartStep

----------------------------------------------------------------------------
(* The theorems.                                                           *)

(* Every step keeps the invariant.                                         *)
LEMMA NextInv == IInv /\ [Next]_vars => IInv'
<1> SUFFICES ASSUME IInv, [Next]_vars PROVE IInv'
  OBVIOUS
<1>1. CASE UNCHANGED vars
  BY <1>1, StutterInv
<1>2. ASSUME NEW c \in Clients, ClientStep(c) PROVE IInv'
  BY <1>2, CallInv, CreatedInv, CreateErrsInv, HandOverInv DEF ClientStep, AcceptOperation
<1>3. ASSUME NEW o \in OpIds, WorkerStep(o) PROVE IInv'
  BY <1>3, WorkerInv
<1>4. CASE StartStep
  BY <1>4, StartInv
<1>5. CASE Stop \/ Exit \/ Crash \/ NodeReboot \/ Quiet
  BY <1>5, StopInv
<1> QED BY <1>1, <1>2, <1>3, <1>4, <1>5 DEF Next

(* The inductive invariant holds in every reachable state of the agent,    *)
(* for any number of callers, request identifiers, operations and faults.  *)
THEOREM AgentInvariant == Spec => []IInv
BY InitInv, NextInv, PTL DEF Spec

(* At most one operation is unfinished, and a repeated clientRequestID     *)
(* never creates a second one: submitMu covers the check and the create.   *)
THEOREM OperationsExclusive == Spec => []OneOperation
<1>1. IInv => OneOperation
  <2> SUFFICES ASSUME IInv PROVE OneActiveOperation
    BY DEF OneOperation, IInv
  <2>1. CASE ActiveOperationIDs = {}
    BY <2>1, FS_EmptySet DEF OneActiveOperation
  <2>2. CASE ActiveOperationIDs # {}
    <3>1. PICK o : ActiveOperationIDs = {o}
      BY <2>2 DEF IInv, OneInv, ActiveOperationIDs
    <3>2. Cardinality(ActiveOperationIDs) = 1
      BY <3>1, FS_Singleton
    <3> QED BY <3>2 DEF OneActiveOperation
  <2> QED BY <2>1, <2>2
<1> QED BY <1>1, AgentInvariant, PTL

(* No tool runs twice or without its marker, across retries, crashes and   *)
(* the startup audit; and an unfinished operation nobody works on and the  *)
(* audit has not classified is one the running process failed to write, or *)
(* whose recorded pid is in use: the next start classifies the former.     *)
THEOREM OperationsAccounted == Spec => []OperationAccounted
<1>1. IInv => OperationAccounted
  BY DEF OperationAccounted, ToolRunsOnceMarked, IInv, WorkInv
<1> QED BY <1>1, AgentInvariant, PTL

(* Only AcceptOperation adds a record.                                     *)
LEMMA OnlyAcceptAdds ==
  ASSUME IInv, Next, DOMAIN ops' # DOMAIN ops
  PROVE  \E c \in Clients : AcceptOperation(c)
<1> USE DEF node, client
<1>1. ASSUME NEW o \in OpIds, WorkerStep(o) PROVE FALSE
  <2>1. ops' = ops \/ \E r : ops' = [ops EXCEPT ![o] = r]
    BY <1>1 DEF WorkerStep, AcquireMutationLock, PrepareFails, MarkMutation, RunTool, ToolDone,
       ReleaseMutationLock, EndsWithError, Loses, Set
  <2> QED BY <2>1
<1>2. ASSUME NEW c \in Clients, ClientStep(c), ~AcceptOperation(c) PROVE FALSE
  <2>1. ops' = ops \/ \E o, r : ops' = [ops EXCEPT ![o] = r]
    BY <1>2 DEF ClientStep, ValidateSubmit, LockSubmit, AnswerExisting, Refuse, Admit,
       MaterializeJoinConfig, Dispatch, CreateWorkerJoinMaterial, JoinMaterialCreated,
       RebootCheck, ScheduleReboot, Loses, Set
  <2> QED BY <2>1
<1>3. CASE StartStep
  <2>1. CASE Serve \/ AuditFails
    BY <2>1 DEF Serve, AuditFails
  <2>2. CASE ReconcileBoot
    BY <2>2 DEF ReconcileBoot
  <2>3. CASE FailAcceptedButNotStarted
    BY <2>3 DEF FailAcceptedButNotStarted
  <2>4. CASE RecoverInterruptedConfigApplies
    BY <2>4 DEF RecoverInterruptedConfigApplies
  <2> QED BY <1>3, <2>1, <2>2, <2>3, <2>4 DEF StartStep
<1>4. CASE Stop \/ Exit \/ Crash \/ NodeReboot \/ Quiet
  BY <1>4 DEF Stop, Exit, Crash, NodeReboot, Quiet, vars
<1> QED BY <1>1, <1>2, <1>3, <1>4 DEF Next

(* The generation a host operation was validated against is the current    *)
(* one when its record is created.                                         *)
THEOREM AcceptedOnCurrent == Spec => AcceptedOnCurrentBase
<1>1. IInv /\ [Next]_vars => [CreatedOnCurrentBase]_vars
  <2> SUFFICES ASSUME IInv, Next, NEW o \in DOMAIN ops' \ DOMAIN ops,
                      ops'[o].kind \in {"generation-apply", "host-upgrade"}
               PROVE  ops'[o].base = gen
    BY DEF CreatedOnCurrentBase
  <2>1. PICK c \in Clients : AcceptOperation(c)
    BY OnlyAcceptAdds
  <2>r. PICK r : r = NewRecord(req[c])
    OBVIOUS
  <2>2. req[c] \in Requests /\ ValidateMutationBase(req[c])
    BY <2>1 DEF AcceptOperation, IInv, LockInv, InCall, CreateInv
  <2>3. r \in Record /\ r.kind = req[c].kind /\ r.base = req[c].base
    BY <2>2, <2>r DEF NewRecord, Record, Requests, Phases
  <2>4. ops'[o] = r
    BY <2>1, <2>r, <2>3, AppendFacts DEF AcceptOperation, Created, CreateErrs, IInv
  <2> QED BY <2>2, <2>3, <2>4 DEF ValidateMutationBase
<1> QED BY <1>1, AgentInvariant, PTL DEF Spec, AcceptedOnCurrentBase
=============================================================================
