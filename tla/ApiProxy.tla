------------------------------- MODULE ApiProxy -------------------------------
(* The node-local proxy in front of the cluster's API servers                *)
(* (internal/apiproxy, cmd/katl-api-proxy): one monitor per backend and one   *)
(* for the canonical endpoint, one goroutine per connection, the pool they    *)
(* share and the status file that each of them rewrites.                      *)
EXTENDS Naturals, Sequences, FiniteSets, SequencesExt

CONSTANTS Configs,     \* the configurations the proxy may be given
          Conns,       \* the connections clients open
          MaxFlaps,    \* bound on how often an API server changes
          MaxFaults,   \* bound on failed writes of the status file
          MaxTicks,    \* bound on the monitors' later rounds, together
          Endless      \* they go on without bound

VARIABLES config, main, canceled, pool, canonical, at, conn, holder, draft, file,
          up, flaps, faults, answer, ticks

vars == <<config, main, canceled, pool, canonical, at, conn, holder, draft, file,
          up, flaps, faults, answer, ticks>>

None == "none"
NoFile == [exists |-> FALSE, eligible |-> <<>>, canonical |-> None]

-----------------------------------------------------------------------------
(* The configuration: 0 and "" are fields left out; durations in milliseconds *)

Loopback == {"127.0.0.1", "127.0.0.2"}
Unicast == {"10.0.0.1", "10.0.0.2", "10.0.0.3"} \cup Loopback

literalEndpoint(e, port) == e.host \in Unicast /\ e.port = port

Period(d) == d = 0 \/ d \in 250..60000

(* A node-local listener is on 127.0.0.1, a workstation listener is not on    *)
(* a loopback address.                                                        *)
Exposed(l) ==
  \/ l.exposure = "node-local" /\ l.host = "127.0.0.1"
  \/ l.exposure = "workstation" /\ l.host \notin Loopback

Normalize(c) ==
  /\ c.tls # "" /\ c.canonicalPort \in {0, 6443}
  /\ Period(c.interval) /\ Period(c.timeout)
  /\ \A i \in DOMAIN c.listeners :
       /\ literalEndpoint(c.listeners[i], 7445) /\ Exposed(c.listeners[i])
       /\ \A j \in 1..(i - 1) : c.listeners[j].host # c.listeners[i].host
  /\ \E i \in DOMAIN c.listeners : c.listeners[i].exposure = "node-local"
  /\ c.backends # <<>>
  /\ \A i \in DOMAIN c.backends :
       /\ c.backends[i].name # 0 /\ literalEndpoint(c.backends[i], 6443)
       /\ \A j \in 1..(i - 1) : c.backends[j].name # c.backends[i].name /\ c.backends[j].host # c.backends[i].host
  /\ Cardinality({i \in DOMAIN c.backends : c.backends[i].local}) <= 1

(* The backends in the order of their names: the pool knows them by place. *)
Backends == SortSeq(config.backends, LAMBDA a, b : a.name < b.name)
Places == DOMAIN config.backends
Size == Len(config.backends)

-----------------------------------------------------------------------------
(* The pool *)

newPool == [eligible |-> [b \in Places |-> FALSE], next |-> 1]

update(b, ok) == [pool EXCEPT !.eligible[b] = ok]

Open(excluded) == {b \in Places : pool.eligible[b] /\ b \notin excluded}
LocalOpen(excluded) == {b \in Open(excluded) : Backends[b].local}
PeersOpen(excluded) == {b \in Open(excluded) : ~Backends[b].local}

(* Places counted from 1; the search goes around once from next. *)
Around(n) == ((n - 1) % Size) + 1
Offset(b) == (b + Size - pool.next) % Size

(* The local server if it can be used, else the peers in turn; 0 is none. *)
selectBackend(excluded) ==
  IF LocalOpen(excluded) # {} THEN [backend |-> CHOOSE b \in LocalOpen(excluded) : TRUE, next |-> pool.next]
  ELSE IF PeersOpen(excluded) = {} THEN [backend |-> 0, next |-> pool.next]
  ELSE LET b == CHOOSE p \in PeersOpen(excluded) : \A q \in PeersOpen(excluded) : Offset(p) <= Offset(q)
       IN [backend |-> b, next |-> Around(b + 1)]

-----------------------------------------------------------------------------
(* Actors.  Monitors are 0 (the canonical endpoint) and the backends' places; *)
(* an actor at "write" is about to take the status lock.                      *)

Monitors == {0} \cup Places

NewConn == [pc |-> None, backend |-> 0, excluded |-> {}, tries |-> <<>>]

Init ==
  /\ config \in Configs
  /\ main = "start" /\ canceled = FALSE
  /\ pool = newPool /\ canonical = "not-checked"
  /\ at = [k \in Monitors |-> "off"]
  /\ conn = [c \in Conns |-> NewConn]
  /\ holder = <<>> /\ draft = NoFile
  /\ file \in {NoFile, [exists |-> TRUE, eligible |-> [b \in Places |-> TRUE], canonical |-> "reachable"]}
  /\ up = [k \in Monitors |-> TRUE] /\ flaps = 0 /\ faults = 0
  /\ answer = [k \in Monitors |-> FALSE] /\ ticks = 0

Snapshot == [exists |-> TRUE, eligible |-> pool.eligible, canonical |-> canonical]

(* Run: a configuration that cannot be used, or an address that cannot be     *)
(* listened on, ends the proxy; the old status goes first.                    *)
Start ==
  /\ main = "start"
  /\ \/ ~Normalize(config) /\ main' = "returned" /\ UNCHANGED file
     \/ Normalize(config) /\ file' = NoFile /\ main' \in {"returned", "listening"}
  /\ UNCHANGED <<config, canceled, pool, canonical, at, conn, holder, draft, up, flaps, faults, answer, ticks>>

(* The first status has to be written; then the workers start. *)
FirstStatus ==
  /\ main = "listening"
  /\ \/ /\ file' = Snapshot /\ main' = "running" /\ at' = [k \in Monitors |-> "check"]
        /\ UNCHANGED <<canceled, faults>>
     \/ /\ faults < MaxFaults /\ faults' = faults + 1
        /\ main' = "stopping" /\ canceled' = TRUE /\ UNCHANGED <<file, at>>
  /\ UNCHANGED <<config, pool, canonical, conn, holder, draft, up, flaps, answer, ticks>>

(* A signal, or a listener that stops accepting, ends Run's wait. *)
Leave ==
  /\ main = "running"
  /\ main' = "stopping" /\ canceled' = TRUE
  /\ UNCHANGED <<config, pool, canonical, at, conn, holder, draft, file, up, flaps, faults, answer, ticks>>

Done == (\A k \in Monitors : at[k] = "off") /\ (\A c \in Conns : conn[c].pc \in {None, "closed"})

Return ==
  /\ main = "stopping" /\ Done
  /\ main' = "returned"
  /\ UNCHANGED <<config, canceled, pool, canonical, at, conn, holder, draft, file, up, flaps, faults, answer, ticks>>

(* A monitor probes; a probe in flight when the proxy is stopped fails. *)
checkReady(k) ==
  /\ at[k] = "check"
  /\ answer' = [answer EXCEPT ![k] = up[k] /\ ~canceled]
  /\ at' = [at EXCEPT ![k] = "report"]
  /\ UNCHANGED <<config, main, canceled, pool, canonical, conn, holder, draft, file, up, flaps, faults, ticks>>

(* M: a monitor does not write the status. *)
Unwritten(k) ==
  /\ at[k] = "report"
  /\ k # 0 /\ pool' = update(k, answer[k]) /\ UNCHANGED canonical
  /\ at' = [at EXCEPT ![k] = "wait"] /\ answer' = [answer EXCEPT ![k] = FALSE]
  /\ UNCHANGED <<config, main, canceled, conn, holder, draft, file, up, flaps, faults, ticks>>

Report(k) ==
  /\ at[k] = "report"
  /\ IF k = 0
     THEN /\ holder = <<>>
          /\ canonical' = IF answer[k] THEN "reachable" ELSE "unreachable"
          /\ UNCHANGED pool
     ELSE pool' = update(k, answer[k]) /\ UNCHANGED canonical
  /\ at' = [at EXCEPT ![k] = "write"] /\ answer' = [answer EXCEPT ![k] = FALSE]
  /\ UNCHANGED <<config, main, canceled, conn, holder, draft, file, up, flaps, faults, ticks>>

(* The ticker; it may win over the cancellation it races with. *)
Tick(k) ==
  /\ at[k] = "wait"
  /\ at' = [at EXCEPT ![k] = "check"]
  /\ Endless \/ ticks < MaxTicks
  /\ ticks' = IF Endless THEN ticks ELSE ticks + 1
  /\ UNCHANGED <<config, main, canceled, pool, canonical, conn, holder, draft, file, up, flaps, faults, answer>>

StopMonitor(k) ==
  /\ at[k] = "wait" /\ canceled
  /\ at' = [at EXCEPT ![k] = "off"]
  /\ UNCHANGED <<config, main, canceled, pool, canonical, conn, holder, draft, file, up, flaps, faults, answer, ticks>>

-----------------------------------------------------------------------------
(* Connections *)

accept(c) ==
  /\ main = "running" /\ conn[c].pc = None
  /\ conn' = [conn EXCEPT ![c].pc = "select"]
  /\ UNCHANGED <<config, main, canceled, pool, canonical, at, holder, draft, file, up, flaps, faults, answer, ticks>>

Select(c) ==
  /\ conn[c].pc = "select"
  /\ LET s == selectBackend(conn[c].excluded) IN
       /\ pool' = [pool EXCEPT !.next = s.next]
       /\ conn' = [conn EXCEPT ![c].pc = IF s.backend = 0 THEN "closed" ELSE "dial", ![c].backend = s.backend,
                               ![c].tries = IF s.backend = 0 THEN @ ELSE Append(@, s.backend)]
  /\ UNCHANGED <<config, main, canceled, canonical, at, holder, draft, file, up, flaps, faults, answer, ticks>>

Excluded(c) == conn[c].excluded \cup {conn[c].backend}

(* A dial may also time out. *)
Dial(c) ==
  /\ conn[c].pc = "dial"
  /\ \/ /\ up[conn[c].backend] /\ ~canceled
        /\ conn' = [conn EXCEPT ![c].pc = "forward"] /\ UNCHANGED pool
     \/ /\ pool' = update(conn[c].backend, FALSE)
        /\ conn' = [conn EXCEPT ![c].pc = "write", ![c].excluded = Excluded(c)]
  /\ UNCHANGED <<config, main, canceled, canonical, at, holder, draft, file, up, flaps, faults, answer, ticks>>

(* Either side closes, or the proxy stops. *)
forward(c) ==
  /\ conn[c].pc = "forward"
  /\ conn' = [conn EXCEPT ![c].pc = "closed"]
  /\ UNCHANGED <<config, main, canceled, pool, canonical, at, holder, draft, file, up, flaps, faults, answer, ticks>>

-----------------------------------------------------------------------------
(* The status file: the pool is read under the status lock and the file is    *)
(* renamed into place before the lock is let go; a failed write only logs.    *)

Writing == {<<"monitor", k>> : k \in {k \in Monitors : at[k] = "write"}}
           \cup {<<"conn", c>> : c \in {c \in Conns : conn[c].pc = "write"}}

After(w) ==
  IF w[1] = "monitor" THEN at' = [at EXCEPT ![w[2]] = "wait"] /\ UNCHANGED conn
  ELSE conn' = [conn EXCEPT ![w[2]].pc = "select"] /\ UNCHANGED at

Lock(w) ==
  /\ w \in Writing /\ holder = <<>>
  /\ holder' = w /\ draft' = Snapshot
  /\ UNCHANGED <<config, main, canceled, pool, canonical, at, conn, file, up, flaps, faults, answer, ticks>>

writeStatus(w) ==
  /\ holder = w /\ w # <<>>
  /\ \/ file' = draft /\ UNCHANGED faults
     \/ faults < MaxFaults /\ faults' = faults + 1 /\ UNCHANGED file
  /\ holder' = <<>> /\ draft' = NoFile
  /\ After(w)
  /\ UNCHANGED <<config, main, canceled, pool, canonical, up, flaps, answer, ticks>>

-----------------------------------------------------------------------------
UpChanges ==
  /\ flaps < MaxFlaps /\ main = "running"
  /\ flaps' = flaps + 1
  /\ \E k \in Monitors : up' = [up EXCEPT ![k] = ~@]
  /\ UNCHANGED <<config, main, canceled, pool, canonical, at, conn, holder, draft, file, faults, answer, ticks>>

Monitor(k) == checkReady(k) \/ Report(k) \/ Tick(k) \/ StopMonitor(k) \/ Lock(<<"monitor", k>>) \/ writeStatus(<<"monitor", k>>)

serveConnection(c) == Select(c) \/ Dial(c) \/ Lock(<<"conn", c>>) \/ writeStatus(<<"conn", c>>)

Next ==
  \/ Start \/ FirstStatus \/ Leave \/ Return \/ UpChanges
  \/ \E k \in Monitors : Monitor(k)
  \/ \E c \in Conns : accept(c) \/ serveConnection(c) \/ forward(c)
  \/ main = "returned" /\ UNCHANGED vars

Spec == Init /\ [][Next]_vars

-----------------------------------------------------------------------------
(* Properties *)

(* Every variable holds a value of its kind, and the lock is held by someone  *)
(* who is writing.                                                            *)
TypeOK ==
  /\ main \in {"start", "listening", "running", "stopping", "returned"}
  /\ pool.next \in Places \cup {1}
  /\ holder # <<>> => holder \in Writing
  /\ draft.exists <=> holder # <<>>

(* When nobody is about to write, the status file says what the pool and the  *)
(* canonical check say, in whatever order the monitors and the connections    *)
(* changed them, unless a write failed.                                       *)
StatusSettles ==
  (main = "running" /\ Writing = {} /\ faults = 0) => file = Snapshot

(* A connection dials no backend twice, although a monitor may have made a    *)
(* backend eligible again after it failed to answer: it ends.                 *)
NoBackendTwice == \A c \in Conns : IsInjective(conn[c].tries)

(* When Run returns, no worker is left to touch the status file, the pool or  *)
(* a connection.                                                              *)
StoppedIsQuiet == main = "returned" => Done /\ holder = <<>>

(* A stopped proxy returns, and a connection is served or refused.            *)
Ends ==
  /\ main = "stopping" ~> main = "returned"
  /\ \A c \in Conns : conn[c].pc = "select" ~> conn[c].pc \in {"forward", "closed"}
===============================================================================
