----------------------------- MODULE ApiVipProofs -----------------------------
(* The API address of a control-plane node, for every set of configurations   *)
(* and any number of netlink errors and failing status writes: the controller *)
(* fails closed and takes the address only after the probes its configuration *)
(* asks for.                                                                  *)
EXTENDS ApiVip, TLAPS

Places == {"down", "begin", "observe", "probe", "decide", "sleep", "stopping", "failed", "unwritten", "post"}

(* The values the variables have. *)
Types ==
  /\ config \in Configs
  /\ addr \in BOOLEAN /\ iface \in BOOLEAN /\ api \in BOOLEAN
  /\ term \in BOOLEAN /\ acquired \in BOOLEAN
  /\ pc \in Places
  /\ ctl \in [started : BOOLEAN, success : Nat, failure : Nat]
  /\ seen \in [ready : BOOLEAN, owned : BOOLEAN, failure : BOOLEAN, healthy : BOOLEAN]
  /\ status \in [exists : BOOLEAN, owned : BOOLEAN, recovery : BOOLEAN]
  /\ faults \in Nat /\ streak \in Nat

(* A process that got past its configuration has thresholds above zero.       *)
Configured == pc \notin {"down", "post"} => Normalize(config)

(* An address of an earlier process survives the first pass only as a         *)
(* failure this pass has noted, which ends the process.                       *)
LeftBehind ==
  /\ pc = "begin" /\ ctl.started /\ addr => acquired
  /\ pc \in {"observe", "probe", "decide"} /\ addr /\ ~acquired => seen.failure

(* What a pass has read of the address stays an upper bound: only the         *)
(* controller adds it, and only after it has read.                            *)
ReadIsBound == pc \in {"probe", "decide"} /\ ~seen.failure /\ addr => seen.owned

IInv ==
  /\ Types
  /\ addr => iface
  /\ ctl.success = streak
  /\ Configured /\ LeftBehind /\ ReadIsBound
  /\ AddressFailsClosed

-----------------------------------------------------------------------------
(* Lemmas about the operators                                                 *)

(* The parts of a pair.                                                       *)
LEMMA PairParts == ASSUME NEW a, NEW b PROVE <<a, b>>[1] = a /\ <<a, b>>[2] = b
  OBVIOUS

(* Thresholds of a usable configuration are positive: 0 means the default.    *)
LEMMA ThresholdsPositive ==
  ASSUME Types, Normalize(config)
  PROVE  /\ SuccessThreshold \in Nat /\ SuccessThreshold > 0
         /\ FailureThreshold \in Nat /\ FailureThreshold > 0
<1>1. config.health.success \in Int /\ config.health.failure \in Int
  BY VipAssumption DEF Types
<1>2. config.health.success >= 0 /\ config.health.failure >= 0
  BY DEF Normalize, normalizeHealth
<1>3. ASSUME NEW n \in Int, n >= 0, NEW d \in Nat, d > 0
      PROVE  Threshold(n, d) \in Nat /\ Threshold(n, d) > 0
  BY <1>3 DEF Threshold
<1>4. 2 \in Nat /\ 2 > 0 /\ 3 \in Nat /\ 3 > 0
  OBVIOUS
<1> QED
  BY <1>1, <1>2, <1>3, <1>4, Zenon DEF SuccessThreshold, FailureThreshold

(* What a release may leave: the address is gone, or an error is reported,    *)
(* which was counted.                                                         *)
LEMMA ReleaseOrError ==
  ASSUME Types, addr => iface, NEW r \in SetOwned(FALSE)
  PROVE  /\ r[1] \in BOOLEAN /\ r[2] \in BOOLEAN
         /\ r[1] => addr
         /\ ~r[2] => ~r[1]
         /\ r[2] => faults < MaxFaults
<1>1. addr \in BOOLEAN /\ iface \in BOOLEAN /\ Owned = addr
  BY DEF Types, Owned
<1>2. \/ Owned = FALSE /\ r = <<addr, FALSE>>
      \/ Owned # FALSE /\ ~iface /\ r = <<addr, FALSE>>
      \/ Owned # FALSE /\ iface /\ r = <<FALSE, FALSE>>
      \/ faults < MaxFaults /\ r = <<addr, TRUE>>
      \/ faults < MaxFaults /\ iface /\ r = <<FALSE, TRUE>>
  BY Zenon DEF SetOwned
<1>3. CASE Owned = FALSE /\ r = <<addr, FALSE>>
  BY <1>1, <1>3, PairParts, Zenon
<1>4. CASE Owned # FALSE /\ ~iface /\ r = <<addr, FALSE>>
  BY <1>1, <1>4, PairParts, Zenon
<1>5. CASE Owned # FALSE /\ iface /\ r = <<FALSE, FALSE>>
  BY <1>1, <1>5, PairParts, Zenon
<1>6. CASE faults < MaxFaults /\ r = <<addr, TRUE>>
  BY <1>1, <1>6, PairParts, Zenon
<1>7. CASE faults < MaxFaults /\ iface /\ r = <<FALSE, TRUE>>
  BY <1>1, <1>7, PairParts, Zenon
<1> QED
  BY <1>2, <1>3, <1>4, <1>5, <1>6, <1>7, Zenon

(* What SetOwned(TRUE) may leave: an address needs its interface.             *)
LEMMA TakeOrError ==
  ASSUME Types, addr => iface, NEW r \in SetOwned(TRUE)
  PROVE  /\ r[1] \in BOOLEAN /\ r[2] \in BOOLEAN
         /\ r[1] => iface
         /\ ~r[2] => r[1]
<1>1. addr \in BOOLEAN /\ iface \in BOOLEAN /\ Owned = addr
  BY DEF Types, Owned
<1>2. \/ Owned = TRUE /\ r = <<addr, FALSE>>
      \/ Owned # TRUE /\ ~iface /\ r = <<addr, TRUE>>
      \/ Owned # TRUE /\ iface /\ r = <<TRUE, FALSE>>
      \/ faults < MaxFaults /\ r = <<addr, TRUE>>
      \/ faults < MaxFaults /\ iface /\ r = <<TRUE, TRUE>>
  BY Zenon DEF SetOwned
<1>3. CASE Owned = TRUE /\ r = <<addr, FALSE>>
  BY <1>1, <1>3, PairParts, Zenon
<1>4. CASE Owned # TRUE /\ ~iface /\ r = <<addr, TRUE>>
  BY <1>1, <1>4, PairParts, Zenon
<1>5. CASE Owned # TRUE /\ iface /\ r = <<TRUE, FALSE>>
  BY <1>1, <1>5, PairParts, Zenon
<1>6. CASE faults < MaxFaults /\ r = <<addr, TRUE>>
  BY <1>1, <1>6, PairParts, Zenon
<1>7. CASE faults < MaxFaults /\ iface /\ r = <<TRUE, TRUE>>
  BY <1>1, <1>7, PairParts, Zenon
<1> QED
  BY <1>2, <1>3, <1>4, <1>5, <1>6, <1>7, Zenon

LEMMA MayFailIs == MayFail \subseteq BOOLEAN
  BY Zenon DEF MayFail

(* A write leaves a status, and the one written unless it failed.             *)
LEMMA WriteLeaves ==
  ASSUME IInv, NEW o \in BOOLEAN, NEW f \in BOOLEAN, NEW lost \in BOOLEAN, WriteStatus(StatusOf(o, f), lost)
  PROVE  /\ status' \in [exists : BOOLEAN, owned : BOOLEAN, recovery : BOOLEAN]
         /\ ~lost => status'.owned = o /\ status'.recovery = f
<1>1. CASE lost
  <2>1. status' = status \/ status' = NoStatus
    BY <1>1, Zenon DEF WriteStatus
  <2>2. status \in [exists : BOOLEAN, owned : BOOLEAN, recovery : BOOLEAN]
    BY DEF IInv, Types
  <2>3. NoStatus \in [exists : BOOLEAN, owned : BOOLEAN, recovery : BOOLEAN]
    BY DEF NoStatus
  <2> QED
    BY <1>1, <2>1, <2>2, <2>3, Zenon
<1>2. CASE ~lost
  <2>1. status' = StatusOf(o, f)
    BY <1>2, Zenon DEF WriteStatus
  <2> QED
    BY <1>2, <2>1 DEF StatusOf
<1> QED
  BY <1>1, <1>2

(* Counting a fault keeps the count a number, and it never goes back to 0.    *)
LEMMA FaultCounts ==
  ASSUME Types, NEW e \in BOOLEAN, Fault(e)
  PROVE  faults' \in Nat /\ (faults' = 0 => faults = 0) /\ (e /\ faults < MaxFaults => faults' # 0)
  BY VipAssumption DEF Fault, Types

-----------------------------------------------------------------------------
(* The initial states and each action                                         *)

LEMMA InitHolds == Init => IInv
<1> SUFFICES ASSUME Init PROVE IInv
  OBVIOUS
<1>1. Types
  BY Zenon DEF Init, Types, Places, Fresh, Unseen, NoStatus
<1> QED
  BY <1>1 DEF Init, IInv, Configured, LeftBehind, ReadIsBound, AddressFailsClosed, OwnAddressOnly,
     WithdrawnOnFailure, FailClosed, StatusHonest, Fresh, Unseen, NoStatus


LEMMA StartKeeps == ASSUME IInv, Start PROVE IInv'
<1>1. Types'
  BY DEF IInv, Types, Start, Places, Fresh, Unseen
<1> QED
  BY <1>1 DEF IInv, Types, Start, Fresh, Unseen, Configured, LeftBehind, ReadIsBound,
     AddressFailsClosed, OwnAddressOnly, WithdrawnOnFailure, FailClosed, StatusHonest

LEMMA BeginKeeps == ASSUME IInv, Begin PROVE IInv'
<1>1. CASE ctl.started /\ UNCHANGED <<addr, faults>> /\ seen' = Unseen
  <2>1. Types'
    BY <1>1 DEF IInv, Types, Begin, Places, Unseen
  <2> QED
    BY <1>1, <2>1 DEF IInv, Types, Begin, Release, Unseen, Configured, LeftBehind, ReadIsBound,
       AddressFailsClosed, OwnAddressOnly, WithdrawnOnFailure, FailClosed, StatusHonest
<1>2. ASSUME NEW r \in SetOwned(FALSE), addr' = r[1], Fault(r[2]),
             seen' = [Unseen EXCEPT !.failure = r[2]]
      PROVE  IInv'
  <2>1. /\ r[1] \in BOOLEAN /\ r[2] \in BOOLEAN /\ (r[1] => addr) /\ (~r[2] => ~r[1])
        /\ faults' \in Nat
    BY <1>2, ReleaseOrError, FaultCounts DEF IInv
  <2>2. Types'
    BY <1>2, <2>1 DEF IInv, Types, Begin, Places, Unseen
  <2> QED
    BY <1>2, <2>1, <2>2 DEF IInv, Types, Begin, Release, Unseen, Configured, LeftBehind, ReadIsBound,
       AddressFailsClosed, OwnAddressOnly, WithdrawnOnFailure, FailClosed, StatusHonest
<1> QED
  BY <1>1, <1>2, Zenon DEF Begin, Release

LEMMA ObserveKeeps == ASSUME IInv, Observe PROVE IInv'
<1>1. PICK err \in BOOLEAN :
        /\ seen' = [seen EXCEPT !.ready = iface, !.owned = ~err /\ Owned, !.failure = @ \/ err]
        /\ Fault(err /\ ~term)
  BY Zenon DEF Observe
<1>2. term \in BOOLEAN /\ (err /\ ~term) \in BOOLEAN
  BY Zenon DEF IInv, Types
<1>3. faults' \in Nat /\ (faults' = 0 => faults = 0)
  BY <1>1, <1>2, FaultCounts, Zenon DEF IInv
<1>4. Types'
  BY <1>1, <1>3, ZenonT(30) DEF IInv, Types, Observe, Places, Owned
<1> QED
  BY <1>1, <1>3, <1>4 DEF IInv, Types, Observe, Owned, Configured, LeftBehind, ReadIsBound,
     AddressFailsClosed, OwnAddressOnly, WithdrawnOnFailure, FailClosed, StatusHonest

LEMMA ProbeKeeps == ASSUME IInv, Probe PROVE IInv'
<1>1. Types'
  BY DEF IInv, Types, Probe, Places
<1> QED
  BY <1>1 DEF IInv, Types, Probe, Configured, LeftBehind, ReadIsBound,
     AddressFailsClosed, OwnAddressOnly, WithdrawnOnFailure, FailClosed, StatusHonest

LEMMA WakeKeeps == ASSUME IInv, Wake PROVE IInv'
<1>1. Types'
  BY DEF IInv, Types, Wake, Places
<1> QED
  BY <1>1 DEF IInv, Types, Wake, Configured, LeftBehind, ReadIsBound,
     AddressFailsClosed, OwnAddressOnly, WithdrawnOnFailure, FailClosed, StatusHonest

LEMMA StopKeeps == ASSUME IInv, Stop PROVE IInv'
<1>0. PICK err \in BOOLEAN, lost \in BOOLEAN :
        \E r \in IF ~err /\ Owned THEN SetOwned(FALSE) ELSE {<<addr, FALSE>>} :
          /\ addr' = r[1] /\ Fault(err \/ r[2] \/ lost)
          /\ WriteStatus(StatusOf(~err /\ Owned /\ r[2], err \/ r[2]), lost)
  BY MayFailIs, Zenon DEF Stop
<1>1. PICK r \in IF ~err /\ Owned THEN SetOwned(FALSE) ELSE {<<addr, FALSE>>} :
          /\ addr' = r[1] /\ Fault(err \/ r[2] \/ lost)
          /\ WriteStatus(StatusOf(~err /\ Owned /\ r[2], err \/ r[2]), lost)
  BY <1>0, Zenon
<1>2. r[1] \in BOOLEAN /\ r[2] \in BOOLEAN /\ (r[1] => addr)
  <2>1. CASE r \in SetOwned(FALSE)
    BY <2>1, ReleaseOrError DEF IInv
  <2>2. CASE r = <<addr, FALSE>>
    BY <2>2, PairParts, Zenon DEF IInv, Types
  <2> QED
    BY <1>1, <2>1, <2>2, Zenon
<1>3. (err \/ r[2]) \in BOOLEAN /\ (err \/ r[2] \/ lost) \in BOOLEAN /\ (~err /\ Owned /\ r[2]) \in BOOLEAN
  BY Zenon
<1>4. faults' \in Nat
  BY <1>1, <1>3, FaultCounts, Zenon DEF IInv
<1>5. status' \in [exists : BOOLEAN, owned : BOOLEAN, recovery : BOOLEAN]
  BY <1>1, <1>3, WriteLeaves
<1>6. Types'
  BY <1>1, <1>2, <1>4, <1>5 DEF IInv, Types, Stop, Places
<1> QED
  BY <1>1, <1>2, <1>6 DEF IInv, Types, Stop, Configured, LeftBehind, ReadIsBound,
     AddressFailsClosed, OwnAddressOnly, WithdrawnOnFailure, FailClosed, StatusHonest

(* The helper and the fail-closed exit: the address is gone or a fault was    *)
(* counted.                                                                   *)
LEMMA WithdrawEffect ==
  ASSUME IInv, withdrawWith
  PROVE  addr' \in BOOLEAN /\ faults' \in Nat /\ (addr' => addr) /\ (faults' = 0 => ~addr')
<1>1. PICK r \in SetOwned(FALSE) : addr' = r[1] /\ Fault(r[2])
  BY DEF withdrawWith
<1>2. /\ r[1] \in BOOLEAN /\ r[2] \in BOOLEAN /\ (r[1] => addr)
      /\ (~r[2] => ~r[1]) /\ (r[2] => faults < MaxFaults)
  BY ReleaseOrError DEF IInv
<1>3. faults' \in Nat /\ (r[2] /\ faults < MaxFaults => faults' # 0)
  BY <1>1, <1>2, FaultCounts DEF IInv
<1> QED
  BY <1>1, <1>2, <1>3, Zenon

LEMMA failClosedKeeps == ASSUME IInv, failClosed PROVE IInv'
<1>1. addr' \in BOOLEAN /\ faults' \in Nat /\ (addr' => addr)
  BY WithdrawEffect DEF failClosed
<1>2. Types'
  BY <1>1 DEF IInv, Types, failClosed, Places
<1> QED
  BY <1>1, <1>2 DEF IInv, Types, failClosed, Configured, LeftBehind, ReadIsBound,
     AddressFailsClosed, OwnAddressOnly, WithdrawnOnFailure, FailClosed, StatusHonest

LEMMA ExecStopPostKeeps == ASSUME IInv, ExecStopPost PROVE IInv'
<1>1. addr' \in BOOLEAN /\ faults' \in Nat /\ (addr' => addr) /\ (Normalize(config) /\ faults' = 0 => ~addr')
  BY WithdrawEffect, Zenon DEF ExecStopPost, IInv, Types
<1>2. Types'
  BY <1>1 DEF IInv, Types, ExecStopPost, Places, NoStatus
<1> QED
  BY <1>1, <1>2 DEF IInv, Types, ExecStopPost, NoStatus, Configured, LeftBehind, ReadIsBound,
     AddressFailsClosed, OwnAddressOnly, WithdrawnOnFailure, FailClosed, StatusHonest

LEMMA EnvironmentKeeps ==
  ASSUME IInv, Killed \/ Terminated \/ ApiChanges \/ InterfaceChanges PROVE IInv'
<1>1. CASE Killed
  <2>1. Types'
    BY <1>1 DEF IInv, Types, Killed, Places
  <2> QED
    BY <1>1, <2>1 DEF IInv, Types, Killed, Configured, LeftBehind, ReadIsBound,
       AddressFailsClosed, OwnAddressOnly, WithdrawnOnFailure, FailClosed, StatusHonest
<1>2. CASE Terminated
  <2>1. Types'
    BY <1>2 DEF IInv, Types, Terminated, Places
  <2> QED
    BY <1>2, <2>1 DEF IInv, Types, Terminated, Configured, LeftBehind, ReadIsBound,
       AddressFailsClosed, OwnAddressOnly, WithdrawnOnFailure, FailClosed, StatusHonest, FailureThreshold
<1>3. CASE ApiChanges
  <2>1. Types'
    BY <1>3 DEF IInv, Types, ApiChanges, Places
  <2> QED
    BY <1>3, <2>1 DEF IInv, Types, ApiChanges, Configured, LeftBehind, ReadIsBound,
       AddressFailsClosed, OwnAddressOnly, WithdrawnOnFailure, FailClosed, StatusHonest, FailureThreshold
<1>4. CASE InterfaceChanges
  <2>1. addr' \in BOOLEAN /\ iface' \in BOOLEAN /\ (addr' => addr) /\ (addr' => iface')
    BY <1>4, Zenon DEF InterfaceChanges, IInv, Types
  <2>2. Types'
    BY <1>4, <2>1 DEF IInv, Types, InterfaceChanges, Places
  <2> QED
    BY <1>4, <2>1, <2>2 DEF IInv, Types, InterfaceChanges, Configured, LeftBehind, ReadIsBound,
       AddressFailsClosed, OwnAddressOnly, WithdrawnOnFailure, FailClosed, StatusHonest, FailureThreshold
<1> QED
  BY <1>1, <1>2, <1>3, <1>4

(* The counts after a pass: a good pass adds one success and forgets the      *)
(* failures, any other pass forgets the successes; the streak follows.        *)
LEMMA CountsAre ==
  ASSUME IInv, pc = "decide"
  PROVE  /\ Counts \in [started : BOOLEAN, success : Nat, failure : Nat]
         /\ Counts.success = IF Good THEN streak + (IF streak < SuccessThreshold THEN 1 ELSE 0) ELSE 0
         /\ Good => Counts.failure = 0
         /\ ~Good => Counts.success = 0
<1>1. SuccessThreshold \in Nat /\ FailureThreshold \in Nat
  BY ThresholdsPositive DEF IInv, Configured
<1>2. ctl \in [started : BOOLEAN, success : Nat, failure : Nat] /\ ctl.success = streak
  BY DEF IInv, Types
<1>3. CASE Good
  <2>1. Counts = [ctl EXCEPT !.success = IF @ < SuccessThreshold THEN @ + 1 ELSE @, !.failure = 0]
    BY <1>3, Zenon DEF Counts
  <2>2. Counts = [started |-> ctl.started, failure |-> 0,
                  success |-> IF ctl.success < SuccessThreshold THEN ctl.success + 1 ELSE ctl.success]
    BY <1>2, <2>1
  <2> QED
    BY <1>1, <1>2, <1>3, <2>2
<1>4. CASE ~Good
  <2>1. Counts = [ctl EXCEPT !.success = 0, !.failure = IF @ < FailureThreshold THEN @ + 1 ELSE @]
    BY <1>4, Zenon DEF Counts
  <2>2. Counts = [started |-> ctl.started, success |-> 0,
                  failure |-> IF ctl.failure < FailureThreshold THEN ctl.failure + 1 ELSE ctl.failure]
    BY <1>2, <2>1
  <2> QED
    BY <1>1, <1>2, <1>4, <2>2
<1> QED
  BY <1>3, <1>4

(* A pass that wants the address and did not read it was good often enough.   *)
LEMMA WantedWhenHealthy ==
  ASSUME IInv, pc = "decide"
  PROVE  /\ DesiredOwned \in BOOLEAN
         /\ DesiredOwned => ~seen.failure
         /\ DesiredOwned /\ ~seen.owned => config.enabled /\ Counts.success >= SuccessThreshold
<1>1. config.enabled \in BOOLEAN /\ seen.owned \in BOOLEAN /\ seen.failure \in BOOLEAN /\ seen.ready \in BOOLEAN
  BY VipAssumption DEF IInv, Types
<1> QED
  BY <1>1, Zenon DEF DesiredOwned

(* Once the failures reach the threshold a pass without errors releases.      *)
LEMMA ReleasedOnFailures ==
  ASSUME IInv, pc = "decide", Counts.failure >= FailureThreshold
  PROVE  ~DesiredOwned
<1>1. /\ SuccessThreshold \in Nat /\ SuccessThreshold > 0
      /\ FailureThreshold \in Nat /\ FailureThreshold > 0
  BY ThresholdsPositive DEF IInv, Configured
<1>2. ~Good /\ Counts.success = 0
  BY <1>1, CountsAre
<1>3. ~(Counts.success >= SuccessThreshold)
  BY <1>1, <1>2
<1> QED
  BY <1>3, Zenon DEF DesiredOwned

LEMMA DecideKeeps ==
  ASSUME IInv, Decide
  PROVE  /\ IInv'
         /\ addr' /\ ~addr => config.enabled /\ streak' >= SuccessThreshold
<1>1. PICK r \in IF DesiredOwned = seen.owned THEN {<<addr, FALSE>>} ELSE SetOwned(DesiredOwned), lost \in BOOLEAN :
        /\ addr' = r[1] /\ Fault(r[2] \/ lost)
        /\ acquired' = (acquired \/ (r[1] /\ ~addr))
        /\ WriteStatus(StatusOf(IF r[2] THEN seen.owned ELSE DesiredOwned, seen.failure \/ r[2]), lost)
        /\ pc' = IF lost THEN "unwritten" ELSE IF seen.failure \/ r[2] THEN "failed" ELSE "sleep"
  BY MayFailIs, Zenon DEF Decide
<1>2. /\ DesiredOwned \in BOOLEAN /\ (DesiredOwned => ~seen.failure)
      /\ DesiredOwned /\ ~seen.owned => config.enabled /\ Counts.success >= SuccessThreshold
  BY WantedWhenHealthy DEF Decide
<1>3. /\ addr \in BOOLEAN /\ seen.owned \in BOOLEAN /\ seen.failure \in BOOLEAN /\ acquired \in BOOLEAN
      /\ (addr => iface) /\ (~seen.failure /\ addr => seen.owned) /\ (addr /\ ~acquired => seen.failure)
  BY DEF IInv, Types, Decide, ReadIsBound, LeftBehind
(* What the change may leave. *)
<1>4. /\ r[1] \in BOOLEAN /\ r[2] \in BOOLEAN
      /\ r[1] => iface
      /\ ~r[2] /\ ~seen.failure /\ ~DesiredOwned => ~r[1]
      /\ r[1] /\ ~addr => DesiredOwned /\ ~seen.owned
  <2>1. CASE DesiredOwned = seen.owned /\ r = <<addr, FALSE>>
    BY <1>2, <1>3, <2>1, PairParts, Zenon
  <2>2. CASE DesiredOwned # seen.owned /\ ~DesiredOwned /\ r \in SetOwned(DesiredOwned)
    <3>1. DesiredOwned = FALSE
      BY <1>2, <2>2, Zenon
    <3>2. r \in SetOwned(FALSE)
      BY <2>2, <3>1, Zenon
    <3>3. r[1] \in BOOLEAN /\ r[2] \in BOOLEAN /\ (r[1] => addr) /\ (~r[2] => ~r[1])
      BY <3>2, ReleaseOrError DEF IInv
    <3> QED
      BY <1>3, <3>3, Zenon
  <2>3. CASE DesiredOwned # seen.owned /\ DesiredOwned /\ r \in SetOwned(DesiredOwned)
    <3>1. DesiredOwned = TRUE
      BY <1>2, <2>3, Zenon
    <3>2. r \in SetOwned(TRUE)
      BY <2>3, <3>1, Zenon
    <3>3. r[1] \in BOOLEAN /\ r[2] \in BOOLEAN /\ (r[1] => iface)
      BY <3>2, TakeOrError DEF IInv
    <3> QED
      BY <1>3, <2>3, <3>1, <3>3, Zenon
  <2> QED
    BY <1>1, <1>2, <2>1, <2>2, <2>3, Zenon
<1>5. /\ Counts \in [started : BOOLEAN, success : Nat, failure : Nat]
      /\ ctl' = Counts /\ streak' = Counts.success /\ streak' \in Nat
  BY CountsAre DEF Decide
<1>6. faults' \in Nat /\ (faults' = 0 => faults = 0)
  <2>1. (r[2] \/ lost) \in BOOLEAN
    BY <1>4, Zenon
  <2> QED
    BY <1>1, <2>1, FaultCounts DEF IInv
<1>7. (seen.failure \/ r[2]) \in BOOLEAN /\ (IF r[2] THEN seen.owned ELSE DesiredOwned) \in BOOLEAN
      /\ (acquired \/ (r[1] /\ ~addr)) \in BOOLEAN
  BY <1>2, <1>3, <1>4, Zenon
<1>8. /\ status' \in [exists : BOOLEAN, owned : BOOLEAN, recovery : BOOLEAN]
      /\ ~lost => /\ status'.owned = (IF r[2] THEN seen.owned ELSE DesiredOwned)
                  /\ status'.recovery = (seen.failure \/ r[2])
  BY <1>1, <1>7, WriteLeaves DEF IInv
<1>9. Types'
  <2>1. acquired' \in BOOLEAN /\ addr' \in BOOLEAN /\ pc' \in Places
    BY <1>1, <1>4, <1>7, Zenon DEF Places
  <2>2. seen' \in [ready : BOOLEAN, owned : BOOLEAN, failure : BOOLEAN, healthy : BOOLEAN]
    BY DEF Decide, Unseen
  <2> QED
    BY <1>5, <1>6, <1>8, <2>1, <2>2, Zenon DEF Types, IInv, Decide
<1>10. addr' => iface'
  BY <1>1, <1>4, Zenon DEF Decide
<1>11. /\ pc' \in {"failed", "unwritten", "sleep"} /\ (pc' = "sleep" => ~seen.failure /\ ~r[2])
       /\ lost => pc' = "unwritten"
  BY <1>1, Zenon
<1>12. Configured' /\ LeftBehind' /\ ReadIsBound'
  BY <1>11 DEF Configured, LeftBehind, ReadIsBound, IInv, Decide
<1>13. OwnAddressOnly'
  <2> SUFFICES ASSUME pc' = "sleep", addr' PROVE acquired'
    BY Zenon DEF OwnAddressOnly
  <2> QED
    BY <1>1, <1>3, <1>11, Zenon
<1>14. WithdrawnOnFailure'
  <2> SUFFICES ASSUME pc' = "sleep", ctl'.failure >= FailureThreshold' PROVE ~addr'
    BY Zenon DEF WithdrawnOnFailure
  <2>1. FailureThreshold' = FailureThreshold
    BY DEF FailureThreshold, Decide
  <2>2. ~DesiredOwned
    BY <1>5, <2>1, ReleasedOnFailures DEF Decide
  <2> QED
    BY <1>1, <1>4, <1>11, <2>2, Zenon
<1>15. FailClosed'
  BY <1>11 DEF FailClosed
<1>16. StatusHonest'
  <2> SUFFICES ASSUME pc' \in {"sleep", "failed"}, addr', ~status'.owned, ~status'.recovery PROVE FALSE
    BY <1>8, Zenon DEF StatusHonest
  <2>0. ~lost
    BY <1>11
  <2>1. ~seen.failure /\ ~r[2] /\ ~DesiredOwned
    BY <1>3, <1>4, <1>8, <2>0, Zenon
  <2> QED
    BY <1>1, <1>4, <2>1, Zenon
<1>17. addr' /\ ~addr => config.enabled /\ streak' >= SuccessThreshold
  BY <1>1, <1>2, <1>4, <1>5, Zenon
<1>18. ctl'.success = streak'
  BY <1>5
<1> QED
  BY <1>9, <1>10, <1>12, <1>13, <1>14, <1>15, <1>16, <1>17, <1>18, Zenon DEF IInv, AddressFailsClosed

-----------------------------------------------------------------------------
(* Theorems                                                                   *)

(* No step but the controller's decision adds the address.                    *)
LEMMA OnlyDecideTakes ==
  ASSUME IInv, Next, ~Decide PROVE addr' => addr
<1>1. CASE Begin
  <2>1. CASE UNCHANGED <<addr, faults>>
    BY <2>1
  <2>2. ASSUME NEW r \in SetOwned(FALSE), addr' = r[1] PROVE addr' => addr
    BY <2>2, ReleaseOrError DEF IInv
  <2> QED
    BY <1>1, <2>1, <2>2, Zenon DEF Begin, Release
<1>2. CASE Stop
  <2>1. ASSUME NEW r \in SetOwned(FALSE), addr' = r[1] PROVE addr' => addr
    BY <2>1, ReleaseOrError DEF IInv
  <2>2. ASSUME NEW r, r = <<addr, FALSE>>, addr' = r[1] PROVE addr' => addr
    BY <2>2, PairParts, Zenon
  <2> QED
    BY <1>2, <2>1, <2>2, Zenon DEF Stop
<1>3. CASE failClosed
  BY <1>3, WithdrawEffect DEF failClosed
<1>4. CASE ExecStopPost
  BY <1>4, WithdrawEffect DEF ExecStopPost
<1>5. CASE Start \/ Observe \/ Probe \/ Wake
  BY <1>5 DEF Start, Observe, Probe, Wake
<1>6. CASE Killed \/ Terminated \/ ApiChanges
  BY <1>6 DEF Killed, Terminated, ApiChanges
<1>7. CASE InterfaceChanges
  BY <1>7, Zenon DEF InterfaceChanges
<1> QED
  BY <1>1, <1>2, <1>3, <1>4, <1>5, <1>6, <1>7, Zenon DEF Next, Controller

LEMMA StutterKeeps == ASSUME IInv, UNCHANGED vars PROVE IInv'
<1>1. Types'
  BY DEF vars, IInv, Types
<1> QED
  BY <1>1 DEF vars, IInv, Types, Configured, LeftBehind, ReadIsBound, AddressFailsClosed, OwnAddressOnly,
     WithdrawnOnFailure, FailClosed, StatusHonest, FailureThreshold

LEMMA NextKeeps == ASSUME IInv, [Next]_vars PROVE IInv'
  BY StartKeeps, BeginKeeps, ObserveKeeps, ProbeKeeps, DecideKeeps, WakeKeeps, StopKeeps, failClosedKeeps,
     ExecStopPostKeeps, EnvironmentKeeps, StutterKeeps, Zenon DEF Next, Controller

(* The inductive invariant of the advertiser.                                 *)
THEOREM VipInvariant == Spec => []IInv
  BY InitHolds, NextKeeps, PTL DEF Spec

(* Whatever netlink, the status file, the interface, the API server and       *)
(* signals do, the advertiser fails closed: see AddressFailsClosed.           *)
THEOREM AddressAlwaysFailsClosed == Spec => []AddressFailsClosed
<1>1. IInv => AddressFailsClosed
  BY DEF IInv
<1> QED
  BY <1>1, VipInvariant, PTL

(* The address is added only by a pass that completes the row of good probes  *)
(* the configuration asks for: see TakenWhenHealthy.                          *)
THEOREM AddressTakenWhenHealthy == Spec => TakenWhenHealthy
<1>1. IInv /\ [Next]_vars => [(addr' /\ ~addr) => (config.enabled /\ streak' >= SuccessThreshold)]_vars
  BY DecideKeeps, OnlyDecideTakes, Zenon
<1> QED
  BY <1>1, VipInvariant, PTL DEF Spec, TakenWhenHealthy
===============================================================================
