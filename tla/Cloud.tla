-------------------------------- MODULE Cloud -------------------------------
(***************************************************************************)
(* The QingCloud resources the cloud controller manager works on, and the  *)
(* calls of the executor package that read and change them.                *)
(*                                                                         *)
(* Each call is given by the condition under which the cloud accepts it    *)
(* (Can...) and by its effect.  That a call may also fail, or take effect  *)
(* and still report a failure, is the business of the caller's module.     *)
(* The cloud itself is external code; its behaviour is what the executor   *)
(* relies on.                                                              *)
(*                                                                         *)
(* Listeners and backends are never modified, only added and removed, so   *)
(* the record of one stands for its id; gen tells it from an earlier one   *)
(* with the same content.                                                  *)
(***************************************************************************)
EXTENDS BackendSelection

CONSTANTS
    Service,          \* services of the cluster
    LB,               \* ids of load balancers
    NoLB,             \* no load balancer / no load-balancer-id annotation
    UserLB,           \* the load balancers the user made by hand
    EIP,              \* ids of elastic IPs
    UserEIP,          \* the elastic IPs the user owns; the rest is the quota
    PortNo,           \* listener ports
    NodePort,         \* node ports
    Attr,             \* what ModifyLB can change of a load balancer
    DefaultAttr,      \* the value fillLBDefaultFileds gives
    NoAttr,           \* the service does not configure it
    LsnAttr,          \* the attributes of a listener other than its port
    BadLsnAttr,       \* those generateLoadBalancerListeners rejects
    User,             \* owner of the listeners made by hand; name of UserLB
    Anon,             \* the empty load balancer name
    MaxGen,           \* bound on equal listeners or backends told apart
    UserListener      \* the listeners made by hand

Gen == 0 .. MaxGen
Unborn == "unborn"    \* an LB id or an EIP not given out yet
Gone == "gone"        \* an LB or an EIP that was deleted
Free == "free"        \* an EIP not associated with anything

LBRecord == [name: Service \cup {User, Anon, Unborn, Gone},
             attr: Attr, vxnet: BOOLEAN, applied: BOOLEAN]
Listener == [lb: LB, svc: Service \cup {User}, port: PortNo, attr: LsnAttr,
             gen: Gen]
Backend == [lsn: Listener, node: Node, np: NodePort, gen: Gen]

ASSUME CloudAssumption ==
    /\ NoLB \notin LB /\ UserLB \subseteq LB /\ UserEIP \subseteq EIP
    /\ DefaultAttr \in Attr /\ NoAttr \notin Attr /\ BadLsnAttr \subseteq LsnAttr
    /\ User \notin Service /\ Anon \notin Service /\ User # Anon
    /\ {Unborn, Gone} \cap (Service \cup {User, Anon}) = {}
    /\ {Unborn, Gone, Free} \cap LB = {}
    /\ MaxGen \in Nat
    /\ UserListener \subseteq { x \in Listener : x.lb \in UserLB /\ x.svc = User }

(* Port numbers are int32. *)
ASSUME PortAssumption == IsFiniteSet(PortNo)

VARIABLES
    lbs,              \* the load balancers, by id
    listeners,        \* the listeners of all load balancers
    backends,         \* the backends of all listeners
    eips              \* where each EIP is: an LB id, Free, Unborn or Gone

cloudVars == <<lbs, listeners, backends, eips>>

CloudTypeOK ==
    /\ lbs \in [LB -> LBRecord]
    /\ listeners \subseteq Listener
    /\ backends \subseteq Backend
    /\ eips \in [EIP -> LB \cup {Free, Unborn, Gone}]

CloudInit ==
    /\ lbs = [l \in LB |-> [name |-> IF l \in UserLB THEN User ELSE Unborn,
                            attr |-> DefaultAttr, vxnet |-> l \in UserLB,
                            applied |-> TRUE]]
    /\ listeners = UserListener
    /\ backends = {}
    /\ eips = [e \in EIP |-> IF e \in UserEIP THEN Free ELSE Unborn]

-----------------------------------------------------------------------------
(* What the describe calls return. *)

Exists(l) == l \in LB /\ lbs[l].name \notin {Unborn, Gone}

(* Mutant of ByName: a load balancer with changes to be applied is skipped. *)
ByNameApplied(name) == { l \in LB : Exists(l) /\ lbs[l].name = name /\ lbs[l].applied }

ByName(name) == { l \in LB : Exists(l) /\ lbs[l].name = name }
ListenersOf(l) == { x \in listeners : x.lb = l }
BackendsOf(x) == { b \in backends : b.lsn = x }
EIPsOf(l) == { e \in EIP : eips[e] = l }

(* Mutant of CreatedEIPs: the name of an EIP is not looked at. *)
AllEIPsCreated(es) == es

(* convertLoadBalancerStatus: an LB is reachable over the address of its
   vxnet or over an EIP, and an EIP is recognised by its name as one the
   controller manager allocated itself. *)
HasVIP(l) == lbs[l].vxnet \/ EIPsOf(l) # {}
CreatedEIPs(es) == es \ UserEIP

(* GetAvaliableEIPs *)
AvailableEIPs == { e \in EIP : eips[e] = Free }

-----------------------------------------------------------------------------
(* The calls that change something. *)

Unapplied(ls) == [l \in LB |-> IF l \in ls THEN [lbs[l] EXCEPT !.applied = FALSE]
                                          ELSE lbs[l]]

CanCreateLB(l, es) == l \in LB /\ lbs[l].name = Unborn /\ es \subseteq AvailableEIPs

CreateLBEffect(l, name, attr, vxnet, es) ==
    /\ lbs' = [lbs EXCEPT ![l] = [name |-> name, attr |-> attr,
                                  vxnet |-> vxnet, applied |-> TRUE]]
    /\ eips' = [e \in EIP |-> IF e \in es THEN l ELSE eips[e]]
    /\ UNCHANGED <<listeners, backends>>

ModifyLBEffect(l, attr) ==
    /\ lbs' = [lbs EXCEPT ![l].attr = attr, ![l].applied = FALSE]
    /\ UNCHANGED <<listeners, backends, eips>>

UpdateLBEffect(l) ==
    /\ lbs' = [lbs EXCEPT ![l].applied = TRUE]
    /\ UNCHANGED <<listeners, backends, eips>>

(* With the load balancer go its listeners and their backends; its EIPs
   become available. *)
DeleteLBEffect(l) ==
    /\ lbs' = [lbs EXCEPT ![l].name = Gone]
    /\ listeners' = { x \in listeners : x.lb # l }
    /\ backends' = { b \in backends : b.lsn.lb # l }
    /\ eips' = [e \in EIP |-> IF eips[e] = l THEN Free ELSE eips[e]]

CanAssociate(l, es) == Exists(l) /\ es \subseteq AvailableEIPs
AssociateEffect(l, es) ==
    /\ eips' = [e \in EIP |-> IF e \in es THEN l ELSE eips[e]]
    /\ UNCHANGED <<lbs, listeners, backends>>

CanDissociate(l, es) == es \subseteq EIPsOf(l)
DissociateEffect(es) ==
    /\ eips' = [e \in EIP |-> IF e \in es THEN Free ELSE eips[e]]
    /\ UNCHANGED <<lbs, listeners, backends>>

CanAllocate(e) == eips[e] = Unborn
AllocateEffect(e) ==
    /\ eips' = [eips EXCEPT ![e] = Free]
    /\ UNCHANGED <<lbs, listeners, backends>>

CanRelease(es) == es \subseteq AvailableEIPs
ReleaseEffect(es) ==
    /\ eips' = [e \in EIP |-> IF e \in es THEN Gone ELSE eips[e]]
    /\ UNCHANGED <<lbs, listeners, backends>>

(* The cloud refuses a second listener on a port of a load balancer. *)
CanAddListeners(l, new) ==
    /\ Exists(l)
    /\ \A x \in new : \A y \in listeners : x.lb = y.lb => x.port # y.port

AddListenersEffect(l, new) ==
    /\ listeners' = listeners \cup new
    /\ lbs' = Unapplied({l})
    /\ UNCHANGED <<backends, eips>>

CanDeleteListeners(xs) == xs \subseteq listeners
DeleteListenersEffect(xs) ==
    /\ listeners' = listeners \ xs
    /\ backends' = { b \in backends : b.lsn \notin xs }
    /\ lbs' = Unapplied({ x.lb : x \in xs })
    /\ UNCHANGED eips

CanAddBackends(x) == x \in listeners
AddBackendsEffect(x, new) ==
    /\ backends' = backends \cup new
    /\ lbs' = Unapplied({x.lb})
    /\ UNCHANGED <<listeners, eips>>

CanDeleteBackends(bs) == bs \subseteq backends
DeleteBackendsEffect(bs) ==
    /\ backends' = backends \ bs
    /\ lbs' = Unapplied({ b.lsn.lb : b \in bs })
    /\ UNCHANGED <<listeners, eips>>
=============================================================================
