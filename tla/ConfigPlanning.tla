--------------------------- MODULE ConfigPlanning ---------------------------
(***************************************************************************)
(* One request planned and applied to a node, then submitted again.        *)
(***************************************************************************)
EXTENDS ConfigPlan

CONSTANTS Requests,     \* requests, as mergeRuntimeConfig takes them
          Modes         \* requested apply modes

VARIABLES q,            \* the request, and the node's side of it
          mode,         \* the mode it asks for
          decision,     \* what was planned for the last submission
          from,         \* the configuration it was planned from
          applied       \* submissions so far

vars == <<q, mode, decision, from, applied>>

Init == /\ q \in Requests /\ mode \in Modes
        /\ decision = [m |-> q.current, domains |-> {}, mode |-> ""]
        /\ from = q.current /\ applied = 0

(* A kubeadm input the node has is not a change any more.                  *)
nodeOverlay(ov) == [f \in DOMAIN ov \ {"kubeadmInput"} |-> ov[f]]

Live(d) == d.mode \in {"live", "next-boot"}
(* The planned configuration is in force: at once, or after the next boot. *)
Apply ==
  /\ applied < 2
  /\ LET d == PlanTrustedBundle(q, mode)
         last == lastAPIProxy(<<q.cluster,
                   IF d.m.role \in DOMAIN q.roles THEN q.roles[d.m.role] ELSE <<>>, q.node>>)
     IN /\ decision' = d /\ from' = q.current /\ applied' = applied + 1
        /\ q' = IF ~Live(d) THEN q
                ELSE [q EXCEPT !.current = d.m, !.drifted = FALSE, !.rebound = FALSE,
                               !.proxy = IF last = {} THEN @ ELSE CHOOSE p \in last : TRUE,
                               !.cluster = nodeOverlay(@), !.node = nodeOverlay(@),
                               !.roles = [r \in DOMAIN @ |-> nodeOverlay(@[r])]]
  /\ UNCHANGED mode

Next == Apply \/ (applied = 2 /\ UNCHANGED vars)
Spec == Init /\ [][Next]_vars

----------------------------------------------------------------------------
(* Every variable keeps its type.                                          *)
TypeOK ==
  /\ q.current \in [Fields -> 0..3] /\ mode \in Modes /\ applied \in 0..2
  /\ decision.mode \in {"", "live", "next-boot", "rejected", "refused", "no-changes"}
  /\ decision.domains \subseteq DOMAIN domainPolicies

Accepted == Live(decision)
Differs(f) == from[f] # decision.m[f]

(* The accepted mode suits everything that really changes: nothing that    *)
(* belongs to an operation is applied, nothing staged is applied live,     *)
(* volumes are never staged, and a strict mode is kept.                    *)
AcceptedModeSafe ==
  /\ Accepted =>
       /\ ~Differs("role") /\ ~Differs("address")
       /\ Differs("volumes") => decision.mode = "live"
       /\ Differs("endpoint") /\ q.initialized =>
            EndpointIdentity(from.endpoint) = EndpointIdentity(decision.m.endpoint)
       /\ mode \in {"live", "next-boot"} => decision.mode = mode
       /\ q.external => ~Differs("hostname")
  /\ decision.mode = "live" =>
       /\ \A f \in {"hostname", "keys", "kernel"} : ~Differs(f)
       /\ from.ext \div 2 = decision.m.ext \div 2
       /\ HostLive(from, decision.m)

(* Each field has the value of the last layer that gives one: the node's   *)
(* override before its role's, the role's before the cluster default.      *)
MergedPrecedence ==
  Accepted =>
    \A f \in Fields :
      LET role == IF decision.m.role \in DOMAIN q.roles THEN q.roles[decision.m.role] ELSE <<>>
      IN decision.m[f] = IF f \in DOMAIN q.node THEN q.node[f]
                         ELSE IF f \in DOMAIN role THEN role[f]
                         ELSE IF f \in DOMAIN q.cluster THEN q.cluster[f]
                         ELSE from[f]

Disjoint == \A f \in Fields :
  Cardinality({x \in {<<"c", q.cluster>>, <<"n", q.node>>} \cup
                     {<<"r", q.roles[r]>> : r \in DOMAIN q.roles} : f \in DOMAIN x[2]}) <= 1
(* "Unchanged configuration is a no-op": a request that was applied        *)
(* changes nothing when it is submitted again.  Requests whose layers give *)
(* one field different values are left out: each layer is compared with    *)
(* the one below it, so a value that one changes and the next sets back    *)
(* counts as a change every time (runtime_apply.go applyOverlay).          *)
SecondApplyNoChanges ==
  applied = 1 /\ Live(decision) /\ Disjoint => decision'.mode = "no-changes"
=============================================================================
