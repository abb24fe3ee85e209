---------------------------- MODULE ProviderRetry ----------------------------
(***************************************************************************)
(* What a call of the provider in which nothing fails achieves, after any  *)
(* number of calls that failed half-way: Provider with a history variable  *)
(* that tells those calls apart.                                           *)
(***************************************************************************)
EXTENDS Provider

VARIABLE course       \* course[t]: how the last call of t has gone so far

Course == {"untouched", "touched", "disturbed"}

(* A failure and a change of listeners, backends or load balancers are those
   of the thread that moves. *)
Recorded(t) ==
    IF pc[t] = pc'[t] /\ view[t] = view'[t] /\ plan[t] = plan'[t] THEN course[t]
    ELSE IF ~Busy(t) THEN "untouched"
    ELSE IF faults' # faults \/ course[t] = "disturbed" THEN "disturbed"
    ELSE IF <<lbs, listeners, backends>>' # <<lbs, listeners, backends>> THEN "touched"
    ELSE course[t]

RetryInit == Init /\ course = [t \in Thread |-> "untouched"]
RetryNext == Next /\ course' = [t \in Thread |-> Recorded(t)]
RetrySpec == RetryInit /\ [][RetryNext]_<<vars, course>>

-----------------------------------------------------------------------------
(* Properties.                                                             *)

(* Whatever was left behind by calls before, a call that changes listeners,
   backends or attributes itself and returns success has them applied: every
   change of ensureLoadBalancer and updateLoadBalancer marks the load balancer
   as modified. *)
OwnChangesApplied ==
    \A t \in Thread :
        /\ pc[t] = "ok" /\ req[t].op \in {"ensure", "update"} /\ course[t] = "touched"
        => lbs[view[t].lb].applied

(* Whatever was left behind by calls before, a delete in which no call fails
   and that returns success has removed the service's load balancer, unless
   others use it, and has released the EIPs allocated for it. *)
DeleteConverges ==
    [][\A t \in Thread :
          LET o == req[t].obj
          IN  /\ Busy(t) /\ req[t].op = "delete" /\ pc'[t] = "ok"
              /\ course'[t] # "disturbed"
              => /\ o.strategy = "exclusive" =>
                       \A l \in LB : lbs'[l].name = o.svc =>
                           \E x \in listeners' : x.lb = l /\ x.svc # o.svc
                 /\ \A e \in view[t].created : eips'[e] \in LB \cup {Gone}]_<<vars, course>>
=============================================================================
