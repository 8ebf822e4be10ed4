-------------------------------- MODULE ApiVip --------------------------------
(* The controller that holds the API address on a control-plane node while   *)
(* the node's API server is ready (internal/installer/apivip, run by          *)
(* cmd/katl-endpoint-advertiser), with the service manager around it: a       *)
(* withdraw helper runs after every exit and the service is started again.    *)
(*                                                                            *)
(* A netlink call may fail, and an address change may fail in the caller's    *)
(* eyes although the kernel has made it (the acknowledgement timed out); the   *)
(* status file may refuse to be written.                                      *)
EXTENDS Integers

CONSTANTS Configs,      \* the configurations the service may be given
          MaxFaults     \* bound on netlink errors and failing status writes

ASSUME VipAssumption ==
  /\ MaxFaults \in Nat
  /\ \A c \in Configs : c.enabled \in BOOLEAN /\ c.health.success \in Int /\ c.health.failure \in Int

VARIABLES config,   \* the configuration file
          addr,     \* the address is on the interface
          iface,    \* the interface exists
          api,      \* the local API server answers its readiness probe
          pc,       \* where the service is
          ctl,      \* the controller's memory
          seen,     \* what this pass has observed
          status,   \* the status file
          term,     \* SIGTERM has arrived
          faults,
          streak,   \* healthy probes in a row, in this process
          acquired  \* this process has taken the address

vars == <<config, addr, iface, api, pc, ctl, seen, status, term, faults, streak, acquired>>

NoStatus == [exists |-> FALSE, owned |-> FALSE, recovery |-> FALSE]
Fresh == [started |-> FALSE, success |-> 0, failure |-> 0]
Unseen == [ready |-> FALSE, owned |-> FALSE, failure |-> FALSE, healthy |-> FALSE]

-----------------------------------------------------------------------------
(* The configuration: 0 and "" are fields left out *)

(* One host address of the right family: a /32, or a /128. *)
validateVIP(e) == e.host # "" /\ e.bits \in {32, 128} /\ e.usable

Family(e) == IF e.bits = 32 THEN "ipv4" ELSE "ipv6"

validateEndpoint(e) ==
  /\ e.port \in 0..65535
  /\ e.provenance \in {"", "platform-host"}
  /\ e.family \in {"", Family(e)}

normalizeInterface(i) == i.kind \in {"", "dummy", "loopback"} /\ (i.mtu = 0 \/ i.mtu \in 68..65535)

LocalHost(e) == IF e.bits = 32 THEN "127.0.0.1" ELSE "::1"

(* The probe is of this node's own API server. *)
normalizeHealth(h, e) ==
  /\ h.host \in {"", LocalHost(e)}
  /\ h.port \in {0, e.port}
  /\ h.success >= 0 /\ h.failure >= 0

Threshold(n, default) == IF n = 0 THEN default ELSE n

(* Start-released, acquire-after-healthy and release-on-failure are not       *)
(* optional.                                                                  *)
Normalize(c) ==
  /\ validateVIP(c.endpoint) /\ validateEndpoint(c.endpoint)
  /\ normalizeInterface(c.interface)
  /\ c.roles \subseteq {"control-plane"}
  /\ c.startReleased /\ c.acquireAfterHealthy /\ c.releaseOnFailure
  /\ normalizeHealth(c.health, c.endpoint)

SuccessThreshold == Threshold(config.health.success, 2)
FailureThreshold == Threshold(config.health.failure, 3)

-----------------------------------------------------------------------------
(* Netlink *)

(* Owned: an absent interface owns nothing. *)
Owned == iface /\ addr

(* What SetOwned(want) may do and say: <<address afterwards, error>>. *)
SetOwned(want) ==
  (IF Owned = want THEN {<<addr, FALSE>>}
   ELSE IF ~iface THEN {<<addr, want>>}
   ELSE {<<want, FALSE>>})
  \cup (IF faults < MaxFaults THEN {<<addr, TRUE>>} \cup (IF iface THEN {<<want, TRUE>>} ELSE {}) ELSE {})

Fault(err) == faults' = IF err /\ faults < MaxFaults THEN faults + 1 ELSE faults

-----------------------------------------------------------------------------
Init ==
  /\ config \in Configs
  /\ addr \in BOOLEAN /\ iface \in BOOLEAN /\ (addr => iface) /\ api \in BOOLEAN
  /\ pc = "down" /\ ctl = Fresh /\ seen = Unseen /\ status = NoStatus
  /\ term = FALSE /\ faults = 0 /\ streak = 0 /\ acquired = FALSE

(* The service starts; a configuration it cannot use ends it at once. *)
Start ==
  /\ pc = "down"
  /\ pc' = IF Normalize(config) THEN "begin" ELSE "post"
  /\ ctl' = Fresh /\ seen' = Unseen /\ term' = FALSE /\ streak' = 0 /\ acquired' = FALSE
  /\ UNCHANGED <<config, addr, iface, api, status, faults>>

(* A pass of RunOnce.  The first one releases whatever is there. *)
Release ==
  /\ pc = "begin"
  /\ IF ctl.started THEN UNCHANGED <<addr, faults>> /\ seen' = Unseen
     ELSE \E r \in SetOwned(FALSE) :
            addr' = r[1] /\ Fault(r[2]) /\ seen' = [Unseen EXCEPT !.failure = r[2]]

Begin ==
  /\ Release
  /\ ctl' = [ctl EXCEPT !.started = TRUE]
  /\ pc' = "observe"
  /\ UNCHANGED <<config, iface, api, status, term, streak, acquired>>

(* The interface and the address are read; a failed read counts as not owned. *)
Observe ==
  /\ pc = "observe"
  /\ \E err \in (IF faults < MaxFaults THEN BOOLEAN ELSE {FALSE}) \cup (IF term THEN {TRUE} ELSE {}) :
       /\ seen' = [seen EXCEPT !.ready = iface, !.owned = ~err /\ Owned, !.failure = @ \/ err]
       /\ Fault(err /\ ~term)
  /\ pc' = "probe"
  /\ UNCHANGED <<config, addr, iface, api, ctl, status, term, streak, acquired>>

Probe ==
  /\ pc = "probe"
  /\ seen' = [seen EXCEPT !.healthy = api /\ ~term]
  /\ pc' = "decide"
  /\ UNCHANGED <<config, addr, iface, api, ctl, status, term, faults, streak, acquired>>

Good == seen.healthy /\ seen.ready /\ ~seen.failure

(* M: a bad pass does not start the count of good ones over. *)
KeepSuccesses ==
  IF Good THEN [ctl EXCEPT !.success = IF @ < SuccessThreshold THEN @ + 1 ELSE @, !.failure = 0]
  ELSE [ctl EXCEPT !.failure = IF @ < FailureThreshold THEN @ + 1 ELSE @]

(* The counts, capped at the thresholds they are compared with. *)
Counts ==
  IF Good THEN [ctl EXCEPT !.success = IF @ < SuccessThreshold THEN @ + 1 ELSE @, !.failure = 0]
  ELSE [ctl EXCEPT !.success = 0, !.failure = IF @ < FailureThreshold THEN @ + 1 ELSE @]

(* The first condition that applies decides. *)
DesiredOwned ==
  IF ~seen.ready \/ seen.failure \/ ~config.enabled THEN FALSE
  ELSE IF Counts.success >= SuccessThreshold THEN TRUE
  ELSE IF Counts.failure >= FailureThreshold THEN FALSE
  ELSE seen.owned

(* The status file: any failure is recorded as recovery required. *)
StatusOf(owned, failure) == [exists |-> TRUE, owned |-> owned, recovery |-> failure]

(* What a write of the status leaves: a failing one leaves the file as it was *)
(* or cut off.                                                                *)
WriteStatus(s, lost) == status' \in IF lost THEN {status, NoStatus} ELSE {s}

MayFail == IF faults < MaxFaults THEN BOOLEAN ELSE {FALSE}

(* The address is set if it differs from what was read, the status is         *)
(* written, and any failure, of the write too, ends the process.              *)
Decide ==
  /\ pc = "decide"
  /\ ctl' = Counts
  /\ streak' = IF Good THEN streak + (IF streak < SuccessThreshold THEN 1 ELSE 0) ELSE 0
  /\ \E r \in IF DesiredOwned = seen.owned THEN {<<addr, FALSE>>} ELSE SetOwned(DesiredOwned), lost \in MayFail :
       LET failure == seen.failure \/ r[2] IN
       /\ addr' = r[1] /\ Fault(r[2] \/ lost)
       /\ acquired' = (acquired \/ (r[1] /\ ~addr))
       /\ WriteStatus(StatusOf(IF r[2] THEN seen.owned ELSE DesiredOwned, failure), lost)
       /\ pc' = IF lost THEN "unwritten" ELSE IF failure THEN "failed" ELSE "sleep"
  /\ seen' = Unseen
  /\ UNCHANGED <<config, iface, api, term>>

Wake ==
  /\ pc = "sleep"
  /\ pc' = IF term THEN "stopping" ELSE "begin"
  /\ UNCHANGED <<config, addr, iface, api, ctl, seen, status, term, faults, streak, acquired>>

(* Stop: a read that fails leaves the address to the helper. *)
Stop ==
  /\ pc = "stopping"
  /\ \E err \in MayFail, lost \in MayFail :
       \E r \in IF ~err /\ Owned THEN SetOwned(FALSE) ELSE {<<addr, FALSE>>} :
         /\ addr' = r[1] /\ Fault(err \/ r[2] \/ lost)
         /\ WriteStatus(StatusOf(~err /\ Owned /\ r[2], err \/ r[2]), lost)
  /\ pc' = "post"
  /\ UNCHANGED <<config, iface, api, ctl, seen, term, streak, acquired>>

(* M: the helper does nothing. *)
NoWithdraw == UNCHANGED <<addr, faults>>

withdrawWith == \E r \in SetOwned(FALSE) : addr' = r[1] /\ Fault(r[2])

(* A pass that returned an error withdraws before the process ends. *)
failClosed ==
  /\ pc \in {"failed", "unwritten"}
  /\ withdrawWith
  /\ pc' = "post"
  /\ UNCHANGED <<config, iface, api, ctl, seen, status, term, streak, acquired>>

(* The helper after every exit.  The service's runtime directory, and the     *)
(* status in it, go with the service; a configuration the helper cannot read  *)
(* leaves the address alone.                                                  *)
ExecStopPost ==
  /\ pc = "post"
  /\ IF Normalize(config) THEN withdrawWith ELSE UNCHANGED <<addr, faults>>
  /\ status' = NoStatus
  /\ pc' = "down"
  /\ UNCHANGED <<config, iface, api, ctl, seen, term, streak, acquired>>

-----------------------------------------------------------------------------
(* The environment *)

Killed ==
  /\ pc \notin {"down", "post"}
  /\ pc' = "post"
  /\ UNCHANGED <<config, addr, iface, api, ctl, seen, status, term, faults, streak, acquired>>

Terminated ==
  /\ pc \notin {"down", "post"} /\ ~term
  /\ term' = TRUE
  /\ UNCHANGED <<config, addr, iface, api, pc, ctl, seen, status, faults, streak, acquired>>

ApiChanges ==
  /\ api' = ~api
  /\ UNCHANGED <<config, addr, iface, pc, ctl, seen, status, term, faults, streak, acquired>>

(* The interface goes with its addresses. *)
InterfaceChanges ==
  /\ iface' = ~iface /\ addr' = (addr /\ ~iface)
  /\ UNCHANGED <<config, api, pc, ctl, seen, status, term, faults, streak, acquired>>

Controller == Start \/ Begin \/ Observe \/ Probe \/ Decide \/ Wake \/ Stop \/ failClosed \/ ExecStopPost

Next == Controller \/ Killed \/ Terminated \/ ApiChanges \/ InterfaceChanges

Spec == Init /\ [][Next]_vars

-----------------------------------------------------------------------------
(* Properties *)

(* Every variable holds a value of its kind. *)
TypeOK ==
  /\ pc \in {"down", "begin", "observe", "probe", "decide", "sleep", "stopping", "failed", "unwritten", "post"}
  /\ addr => iface
  /\ ctl.success \in 0..SuccessThreshold /\ ctl.failure \in 0..FailureThreshold
  /\ ctl.success = 0 \/ ctl.failure = 0
  /\ faults \in 0..MaxFaults

(* The address is taken only after the API server has passed as many probes   *)
(* in a row, in this process, as the threshold says, and an advertiser that   *)
(* is not enabled takes none.                                                 *)
TakenWhenHealthy ==
  [][(addr' /\ ~addr) => (config.enabled /\ streak' >= SuccessThreshold)]_vars

(* Between passes the address is there only if this process took it: what a   *)
(* process that died left behind is gone before the first pass ends, or the   *)
(* process has ended.                                                         *)
OwnAddressOnly == (pc = "sleep" /\ addr) => acquired

(* Between passes the address is not there once the probes have failed as     *)
(* often as the threshold says.                                               *)
WithdrawnOnFailure == (pc = "sleep" /\ ctl.failure >= FailureThreshold) => ~addr

(* A service that is down has withdrawn the address, unless something failed  *)
(* on the way or its configuration was unusable: it fails closed however it   *)
(* ended.                                                                     *)
FailClosed == (pc = "down" /\ faults = 0 /\ Normalize(config) /\ ctl.started) => ~addr

(* After a pass whose status was written, a status that says the address is   *)
(* not there while it is says that recovery is required.  A status that could *)
(* not be written may still deny the address: that pass ends the process, and *)
(* its exit withdraws.                                                        *)
StatusHonest ==
  (pc \in {"sleep", "failed"} /\ status.exists /\ addr /\ ~status.owned) => status.recovery

(* Between passes the API address is there only if this process took it and   *)
(* the probes have not failed too often; a service that is down withdrew it   *)
(* unless netlink failed; and the status a pass has written asks for recovery *)
(* if it denies an address that is there.                                     *)
AddressFailsClosed == OwnAddressOnly /\ WithdrawnOnFailure /\ FailClosed /\ StatusHonest

===============================================================================
