------------------------------ MODULE Provider ------------------------------
(***************************************************************************)
(* The cloud provider: EnsureLoadBalancer, UpdateLoadBalancer,             *)
(* EnsureLoadBalancerDeleted and GetLoadBalancer, run by the goroutines of *)
(* the controllers against the shared state of the cloud.                  *)
(*                                                                         *)
(* A thread executes one call at a time.  pc names the next step of the    *)
(* code; a step is one call to the cloud together with the local           *)
(* computation that follows it.  Between two steps the other threads run.  *)
(* Every call to the cloud may fail without effect or take effect and      *)
(* still report a failure (a lost answer, a job or a status that does not  *)
(* finish within operationWaitTimeout); MaxFaults bounds how often.        *)
(***************************************************************************)
EXTENDS Cloud

CONSTANTS
    Thread,           \* goroutines that call the provider
    Ops,              \* Ops[t]: the operations thread t calls
    Worker,           \* the service controller's workers
    Object,           \* versions of the Service objects
    NodeSet,          \* sets of ready nodes passed to the provider
    EpSet,            \* contents of the endpoint cache
    NoListener,       \* no listener is being worked on
    NoNodePort,       \* the listener has no backend to read a node port from
    NoRequest,        \* the thread has not been called yet
    MaxFaults         \* bound on the failures of cloud calls

Strategy == {"exclusive", "reuse-lb", "reuse"}
EipSource == {"none", "allocate", "use-available", "auto"}
PortSpec == [port: PortNo, np: NodePort, attr: LsnAttr]

(* What the provider reads of a Service. *)
ServiceObject ==
    [svc: Service, parses: BOOLEAN, strategy: Strategy, lbid: LB \cup {NoLB},
     ports: SUBSET PortSpec, cfg: BackendConfig, eipIDs: SUBSET EIP,
     source: EipSource, replace: BOOLEAN, internal: BOOLEAN, vxnet: BOOLEAN,
     attr: Attr \cup {NoAttr}]

Operation == {"ensure", "update", "delete", "exists"}

ASSUME ProviderAssumption ==
    /\ Ops \in [Thread -> SUBSET Operation] /\ Worker \subseteq Thread
    /\ Object \subseteq ServiceObject
    /\ \A o \in Object : o.ports # {}
    /\ NodeSet \subseteq SUBSET Node
    /\ EpSet \subseteq (SUBSET Node) \cup {NoEndpoints}
    /\ NoListener \notin Listener /\ NoNodePort \notin NodePort
    /\ MaxFaults \in Nat

VARIABLES
    pc,               \* pc[t]: the next step of thread t
    req,              \* req[t]: the arguments of its call
    view,             \* view[t]: its copy of the load balancer
    plan,             \* plan[t]: its other local variables
    eps,              \* the endpoint cache
    faults            \* number of failed cloud calls so far

threadVars == <<pc, req, view, plan>>
vars == <<cloudVars, threadVars, eps, faults>>

Steps == {"get", "modify", "eip", "available", "allocate", "create",
          "associate", "dissociate", "refresh", "listeners", "dellsn",
          "addlsn", "getnew", "fill", "sync", "delbk", "addbk", "apply",
          "dellb", "release"}
Results == {"ok", "error", "absent"}
(* "hang": inside getRandomNodes, in a loop that cannot end. *)
PC == {"idle", "hang"} \cup Steps \cup Results

Request == [op: Operation, obj: Object, nodes: SUBSET Node]
(* The fields of apis.LoadBalancer that are used after the lookup. *)
View == [lb: LB \cup {NoLB}, own: SUBSET Listener, others: BOOLEAN,
         eips: SUBSET EIP, created: SUBSET EIP, vip: BOOLEAN, attr: Attr]
Plan == [sel: SUBSET Node, count: Nat, addEip: SUBSET EIP, delEip: SUBSET EIP,
         delLsn: SUBSET Listener, addPort: SUBSET PortSpec, new: SUBSET Listener,
         todo: SUBSET Listener, snap: SUBSET Backend, cur: Listener \cup {NoListener},
         delBk: SUBSET Backend, addNode: SUBSET Node, modify: BOOLEAN]

NoView == [lb |-> NoLB, own |-> {}, others |-> FALSE, eips |-> {},
           created |-> {}, vip |-> FALSE, attr |-> DefaultAttr]
NoPlan == [sel |-> {}, count |-> 0, addEip |-> {}, delEip |-> {}, delLsn |-> {},
           addPort |-> {}, new |-> {}, todo |-> {}, snap |-> {},
           cur |-> NoListener, delBk |-> {}, addNode |-> {}, modify |-> FALSE]

ThreadTypeOK ==
    /\ pc \in [Thread -> PC]
    /\ req \in [Thread -> Request \cup {NoRequest}]
    /\ view \in [Thread -> View]
    /\ plan \in [Thread -> Plan]
    /\ \A t \in Thread : pc[t] # "idle" => req[t] \in Request

TypeOK ==
    /\ CloudTypeOK
    /\ ThreadTypeOK
    /\ eps \in [Service -> EpSet]
    /\ faults \in 0 .. MaxFaults

Init ==
    /\ CloudInit
    /\ pc = [t \in Thread |-> "idle"]
    /\ req = [t \in Thread |-> NoRequest]
    /\ view = [t \in Thread |-> NoView]
    /\ plan = [t \in Thread |-> NoPlan]
    /\ eps \in [Service -> EpSet]
    /\ faults = 0

-----------------------------------------------------------------------------
(* Control flow: leaving a call, and the outcomes of a call to the cloud.  *)

Busy(t) == pc[t] \in Steps \cup {"hang"}

Goto(t, step) == pc' = [pc EXCEPT ![t] = step]

GotoWith(t, step, p) ==
    /\ Goto(t, step)
    /\ plan' = [plan EXCEPT ![t] = p]
    /\ UNCHANGED <<req, view>>

(* The call returns; what a property needs of its locals is kept. *)
Return(t, result) ==
    /\ Goto(t, result)
    /\ plan' = [plan EXCEPT ![t] = [NoPlan EXCEPT !.sel = plan[t].sel,
                                                  !.count = plan[t].count]]
    /\ view' = [view EXCEPT ![t] = [NoView EXCEPT !.lb = view[t].lb]]
    /\ UNCHANGED req

Fault == faults < MaxFaults /\ faults' = faults + 1

(* A step without a call to the cloud, or after a call that only reads. *)
Local(Then) == UNCHANGED <<cloudVars, eps, faults>> /\ Then

Reject(t) == Local(Return(t, "error"))

Read(t, Then) ==
    \/ Local(Then)
    \/ UNCHANGED <<cloudVars, eps>> /\ Fault /\ Return(t, "error")

(* A call the cloud accepts when can holds; otherwise it returns an error. *)
Call(t, can, Effect, Then) ==
    /\ UNCHANGED eps
    /\ \/ can /\ Effect /\ UNCHANGED faults /\ Then
       \/ can /\ Effect /\ Fault /\ Return(t, "error")
       \/ can /\ UNCHANGED cloudVars /\ Fault /\ Return(t, "error")
       \/ ~can /\ UNCHANGED <<cloudVars, faults>> /\ Return(t, "error")

(* The service controller's workqueue never hands out a key that is being
   processed: two of its workers never work on the same service. *)
KeyFree(t, o) ==
    t \in Worker => \A u \in Worker \ {t} : Busy(u) => req[u].obj.svc # o.svc

(* A controller calls the provider. *)
Start(t) ==
    /\ ~Busy(t)
    /\ \E op \in Ops[t], o \in Object, ns \in NodeSet :
          /\ KeyFree(t, o)
          /\ req' = [req EXCEPT ![t] = [op |-> op, obj |-> o, nodes |-> ns]]
    /\ Goto(t, "get")
    /\ view' = [view EXCEPT ![t] = NoView]
    /\ plan' = [plan EXCEPT ![t] = NoPlan]
    /\ UNCHANGED <<cloudVars, eps, faults>>

(* The informer delivers new endpoints. *)
EndpointsChange(s) ==
    /\ \E e \in EpSet \ {eps[s]} : eps' = [eps EXCEPT ![s] = e]
    /\ UNCHANGED <<cloudVars, threadVars, faults>>

-----------------------------------------------------------------------------
(* Finding the load balancer.                                              *)

ForDelete(op) == op \in {"delete", "exists"}

(* Mutant of LookupID: delete never takes the annotation. *)
LookupIDForEnsure(op, o) == IF ForDelete(op) THEN NoLB ELSE o.lbid

(* ParseServiceLBConfig takes the load-balancer-id annotation whatever the
   strategy; parseServiceLBAndEIP, used by delete and exists, takes it with
   reuse-lb only. *)
LookupID(op, o) ==
    IF ForDelete(op) /\ o.strategy # "reuse-lb" THEN NoLB ELSE o.lbid

(* The load balancer's name is made of the service's namespace, name and
   uid; ParseServiceLBConfig sets it for the exclusive strategy only. *)
LookupName(op, o) ==
    IF ForDelete(op) \/ o.strategy = "exclusive" THEN o.svc ELSE Anon

ConfigOK(op, o) ==
    /\ ForDelete(op) \/ (o.parses /\ (o.strategy = "reuse-lb" => o.lbid # NoLB))
    /\ LookupID(op, o) # NoLB \/ LookupName(op, o) # Anon

Lookup(op, o) ==
    IF LookupID(op, o) # NoLB
    THEN { l \in {LookupID(op, o)} : Exists(l) }
    ELSE ByName(LookupName(op, o))

(* Mutant of ViewOf: all listeners are taken for the service's own. *)
ViewOfAnyName(l, s) ==
    [lb |-> l, own |-> ListenersOf(l), others |-> FALSE,
     eips |-> EIPsOf(l), created |-> CreatedEIPs(EIPsOf(l)),
     vip |-> HasVIP(l), attr |-> lbs[l].attr]

(* filterListeners by the prefix that names the service, and what the
   conversions of the executor keep of a load balancer. *)
ViewOf(l, s) ==
    LET own == { x \in ListenersOf(l) : x.svc = s }
    IN  [lb |-> l, own |-> own, others |-> ListenersOf(l) # own,
         eips |-> EIPsOf(l), created |-> CreatedEIPs(EIPsOf(l)),
         vip |-> HasVIP(l), attr |-> lbs[l].attr]

(* prepareEip starts with the available EIPs unless it may only allocate. *)
PrepareStep(o) == IF o.source = "allocate" THEN "allocate" ELSE "available"

(* ensureLoadBalancer when there is no load balancer yet. *)
CreateStep(o) == IF o.eipIDs = {} /\ o.source # "none" THEN PrepareStep(o) ELSE "create"

(* Mutant of OnlyListeners: the listeners of others do not count. *)
OnlyListenersOfReused(o, v) == LookupID("delete", o) # NoLB

(* Other listeners, or a load balancer given by id: it is not deleted. *)
OnlyListeners(o, v) == LookupID("delete", o) # NoLB \/ v.others

(* The lookup of ensureLoadBalancerDeleted found a load balancer. *)
FoundForDelete(t, v) ==
    LET only == OnlyListeners(req[t].obj, v)
    IN  \/ only /\ v.own = {} /\ Return(t, "ok")
        \/ /\ only => v.own # {}
           /\ view' = [view EXCEPT ![t] = v]
           /\ plan' = [plan EXCEPT ![t].delLsn = IF only THEN v.own ELSE {}]
           /\ Goto(t, IF only THEN "dellsn" ELSE "dellb")
           /\ UNCHANGED req

Found(t, l) ==
    LET op == req[t].op
        o  == req[t].obj
        f  == FilterNodes(o.cfg, req[t].nodes, eps[o.svc])
    IN  \/ op = "exists" /\ Return(t, "ok")
        \/ op = "delete" /\ FoundForDelete(t, ViewOf(l, o.svc))
        \/ op \in {"ensure", "update"} /\ ~f.ok /\ Return(t, "error")
        \/ /\ op \in {"ensure", "update"} /\ f.ok
           /\ view' = [view EXCEPT ![t] = ViewOf(l, o.svc)]
           /\ plan' = [plan EXCEPT ![t].sel = f.nodes, ![t].count = f.count]
           /\ Goto(t, IF op = "ensure" THEN "modify" ELSE "listeners")
           /\ UNCHANGED req

NotFound(t) ==
    LET op == req[t].op
        o  == req[t].obj
        f  == FilterNodes(o.cfg, req[t].nodes, eps[o.svc])
    IN  \/ op = "exists" /\ Return(t, "absent")
        \/ op = "delete" /\ Return(t, "ok")
        \/ op = "update" /\ Return(t, "error")
        \/ op = "ensure" /\ (o.strategy = "reuse-lb" \/ ~f.ok) /\ Return(t, "error")
        \/ /\ op = "ensure" /\ o.strategy # "reuse-lb" /\ f.ok
           /\ GotoWith(t, CreateStep(o),
                       [plan[t] EXCEPT !.sel = f.nodes, !.count = f.count,
                                       !.addEip = o.eipIDs, !.addPort = o.ports,
                                       !.modify = TRUE])

(* getLoadBalancer (ensure, update) or getLoadBalancerBeforeDelete (delete,
   exists) up to the first call that follows it.  GetLoadBalancer reports
   any failure of the lookup as "no load balancer". *)
GetLoadBalancer(t) ==
    LET op == req[t].op
        o  == req[t].obj
        found == Lookup(op, o)
    IN  /\ pc[t] = "get"
        /\ \/ ~ConfigOK(op, o) /\ Reject(t)
           \/ /\ ConfigOK(op, o)
              /\ UNCHANGED <<cloudVars, eps>>
              /\ \/ \E l \in found : Found(t, l) /\ UNCHANGED faults
                 \/ found = {} /\ NotFound(t) /\ UNCHANGED faults
                 \/ Fault /\ Return(t, IF op = "exists" THEN "absent" ELSE "error")

-----------------------------------------------------------------------------
(* Attributes and EIPs of the load balancer.                               *)

(* Mutant of NeedUpdateAttr: an attribute that is not configured differs. *)
NeedUpdateAttrUnset(o, v) == o.attr # v.attr

NeedUpdateAttr(o, v) == o.attr # NoAttr /\ o.attr # v.attr

ModifyLB(t) ==
    LET o == req[t].obj
        l == view[t].lb
    IN  /\ pc[t] = "modify"
        /\ \/ ~NeedUpdateAttr(o, view[t]) /\ Local(GotoWith(t, "eip", plan[t]))
           \/ /\ NeedUpdateAttr(o, view[t])
              /\ Call(t, Exists(l), ModifyLBEffect(l, o.attr),
                      GotoWith(t, "eip", [plan[t] EXCEPT !.modify = TRUE]))

(* diffLBEip without the EIP that prepareEip may still have to find. *)
DiffLBEip(o, v) ==
    IF o.eipIDs # {}
    THEN [add |-> o.eipIDs \ v.eips,
          del |-> IF o.replace THEN v.eips \ o.eipIDs ELSE {}]
    ELSE [add |-> {},
          del |-> IF o.source = "none" /\ o.internal THEN v.eips ELSE {}]

NeedsEip(o, v) == o.eipIDs = {} /\ o.source # "none" /\ v.eips = {}

(* updateLBEip; a load balancer given by id keeps its EIPs. *)
UpdateLBEip(t) ==
    LET o == req[t].obj
        d == DiffLBEip(o, view[t])
    IN  /\ pc[t] = "eip"
        /\ Local(
             IF o.lbid # NoLB
             THEN GotoWith(t, "listeners", plan[t])
             ELSE IF NeedsEip(o, view[t])
             THEN GotoWith(t, PrepareStep(o), plan[t])
             ELSE GotoWith(t, IF d.add # {} THEN "associate"
                              ELSE IF d.del # {} THEN "dissociate" ELSE "listeners",
                           [plan[t] EXCEPT !.addEip = d.add, !.delEip = d.del]))

UseEip(t, e) ==
    GotoWith(t, IF view[t].lb = NoLB THEN "create" ELSE "associate",
             [plan[t] EXCEPT !.addEip = {e}])

(* prepareEip: the first of the available EIPs, in no particular order. *)
GetAvailableEIP(t) ==
    /\ pc[t] = "available"
    /\ Read(t, \/ \E e \in AvailableEIPs : UseEip(t, e)
               \/ /\ AvailableEIPs = {}
                  /\ IF req[t].obj.source = "auto"
                     THEN GotoWith(t, "allocate", plan[t])
                     ELSE Return(t, "error"))

AllocateEIP(t) ==
    /\ pc[t] = "allocate"
    /\ \/ \E e \in EIP : CanAllocate(e) /\ Call(t, TRUE, AllocateEffect(e), UseEip(t, e))
       \/ (\A e \in EIP : ~CanAllocate(e)) /\ Reject(t)

AssociateEIPs(t) ==
    LET l == view[t].lb
        p == plan[t]
    IN  /\ pc[t] = "associate"
        /\ Call(t, CanAssociate(l, p.addEip), AssociateEffect(l, p.addEip),
                GotoWith(t, IF p.delEip # {} THEN "dissociate" ELSE "refresh", p))

DissociateEIPs(t) ==
    LET p == plan[t]
    IN  /\ pc[t] = "dissociate"
        /\ Call(t, CanDissociate(view[t].lb, p.delEip), DissociateEffect(p.delEip),
                GotoWith(t, "refresh", p))

(* The status is read again after a change of the EIPs, by name; the spec
   (EIPs, attributes) stays as it was. *)
RefreshStatus(t) ==
    LET o == req[t].obj
        found == ByName(LookupName("ensure", o))
        status(l) == [ViewOf(l, o.svc) EXCEPT !.eips = view[t].eips, !.attr = view[t].attr]
    IN  /\ pc[t] = "refresh"
        /\ Read(t, \/ /\ \E l \in found : view' = [view EXCEPT ![t] = status(l)]
                      /\ Goto(t, "listeners")
                      /\ UNCHANGED <<req, plan>>
                   \/ found = {} /\ Return(t, "error"))

(* CreateLB with an EIP or in a vxnet; the listeners come next. *)
CreateLB(t) ==
    LET o  == req[t].obj
        es == plan[t].addEip
        attr == IF o.attr = NoAttr THEN DefaultAttr ELSE o.attr
        created(l) == [NoView EXCEPT !.lb = l, !.vip = TRUE, !.attr = attr]
        unborn == { l \in LB : lbs[l].name = Unborn }
    IN  /\ pc[t] = "create"
        /\ \/ (unborn = {} \/ (~o.vxnet /\ es = {})) /\ Reject(t)
           \/ /\ o.vxnet \/ es # {}
              /\ \E l \in unborn :
                    Call(t, CanCreateLB(l, es),
                         CreateLBEffect(l, LookupName("ensure", o), attr, o.vxnet, es),
                         /\ view' = [view EXCEPT ![t] = created(l)]
                         /\ Goto(t, "addlsn")
                         /\ UNCHANGED <<req, plan>>)

-----------------------------------------------------------------------------
(* Listeners.                                                              *)

(* The node port diffListeners takes from the first backend of a listener;
   the cloud lists backends in no particular order. *)
FirstNodePorts(xs, bs) ==
    { f \in [xs -> NodePort \cup {NoNodePort}] :
        \A x \in xs : LET nps == { b.np : b \in { c \in bs : c.lsn = x } }
                      IN  f[x] \in (IF nps = {} THEN {NoNodePort} ELSE nps) }

(* Mutant of SameListener: a changed node port is not noticed. *)
SameListenerAnyNodePort(x, np, p) == x.port = p.port /\ x.attr = p.attr

(* The comparison of diffListeners: port, node port and attributes. *)
SameListener(x, np, p) == x.port = p.port /\ x.attr = p.attr /\ np = p.np

(* Mutant of DiffListeners: everything is replaced. *)
DiffListenersAll(xs, first, ports) == [del |-> xs, keep |-> {}, add |-> ports]

DiffListeners(xs, first, ports) ==
    LET keep == { x \in xs : \E p \in ports : SameListener(x, first[x], p) }
    IN  [del |-> xs \ keep, keep |-> keep,
         add |-> { p \in ports : \A x \in xs : ~SameListener(x, first[x], p) }]

(* filterListeners and GetListeners.  Listeners that are gone by now are not
   returned.  update looks at the backends of all of them. *)
GetListeners(t) ==
    LET o == req[t].obj
        own == view[t].own
        xs == own \cap listeners
        bs == { b \in backends : b.lsn \in xs }
    IN  /\ pc[t] = "listeners"
        /\ \/ /\ own = {} /\ req[t].op = "update"
              /\ Local(Return(t, "ok"))
           \/ /\ own = {} /\ req[t].op = "ensure"
              /\ Local(GotoWith(t, "addlsn", [plan[t] EXCEPT !.addPort = o.ports,
                                                             !.modify = TRUE]))
           \/ /\ own # {} /\ req[t].op = "update"
              /\ Read(t, GotoWith(t, "sync", [plan[t] EXCEPT !.todo = xs, !.snap = bs]))
           \/ /\ own # {} /\ req[t].op = "ensure"
              /\ Read(t, \E first \in FirstNodePorts(xs, bs) :
                            LET d == DiffListeners(xs, first, o.ports)
                            IN  GotoWith(t, IF d.del # {} THEN "dellsn" ELSE "addlsn",
                                     [plan[t] EXCEPT !.delLsn = d.del, !.addPort = d.add,
                                                     !.todo = d.keep, !.snap = bs]))

DeleteListener(t) ==
    LET xs == plan[t].delLsn
    IN  /\ pc[t] = "dellsn"
        /\ Call(t, CanDeleteListeners(xs), DeleteListenersEffect(xs),
                GotoWith(t, IF req[t].op = "delete" THEN "apply" ELSE "addlsn",
                         [plan[t] EXCEPT !.modify = TRUE]))

FreshGen(used) == { g \in Gen : g \notin used /\ \A h \in 0 .. g - 1 : h \in used }

(* The listeners that exist or that some thread holds the id of. *)
KnownListeners == listeners \cup UNION { view[u].own \cup plan[u].new : u \in Thread }

NewListeners(l, s, ports, g) ==
    { [lb |-> l, svc |-> s, port |-> p.port, attr |-> p.attr, gen |-> g] : p \in ports }

(* generateLoadBalancerListeners and AddLoadBalancerListeners. *)
CreateListener(t) ==
    LET l == view[t].lb
        ports == plan[t].addPort
        new(g) == NewListeners(l, req[t].obj.svc, ports, g)
        fresh == FreshGen({ x.gen : x \in { y \in KnownListeners : y.lb = l } })
        generated == \A p \in ports : p.attr \notin BadLsnAttr
    IN  /\ pc[t] = "addlsn"
        /\ \/ ports = {} /\ Local(GotoWith(t, "sync", plan[t]))
           \/ ports # {} /\ (~generated \/ fresh = {}) /\ Reject(t)
           \/ /\ ports # {} /\ generated
              /\ \E g \in fresh :
                    Call(t, CanAddListeners(l, new(g)), AddListenersEffect(l, new(g)),
                         GotoWith(t, "getnew", [plan[t] EXCEPT !.new = new(g),
                                                               !.modify = TRUE]))

(* CreateListener reads the new listeners back; createListenersAndBackends
   then draws the nodes all of them get. *)
GetNewListeners(t) ==
    LET p == plan[t]
        xs == p.new \cap listeners
        bs == { b \in backends : b.lsn \in xs }
        chosen == IF p.count = 0 THEN {p.sel} ELSE RandomItems(p.sel, p.count)
    IN  /\ pc[t] = "getnew"
        /\ Read(t, \/ chosen = {} /\ GotoWith(t, "hang", p)
                   \/ \E r \in chosen :
                         GotoWith(t, "fill", [p EXCEPT !.new = xs, !.addNode = r,
                                                       !.snap = p.snap \cup bs]))

-----------------------------------------------------------------------------
(* Backends.                                                               *)

(* getLoadBalancerListenerNodePort: of the listener's backends, or else of
   the service's port; no value if there is neither. *)
ListenerNodePorts(x, bs, ports) ==
    LET nps == { b.np : b \in { c \in bs : c.lsn = x } }
    IN  IF nps # {} THEN nps ELSE { p.np : p \in { q \in ports : q.port = x.port } }

(* The backends that exist or that some thread holds the id of. *)
KnownBackends == backends \cup UNION { plan[u].snap : u \in Thread }

(* CreateBackends for generateLoadBalancerBackends; without a node there is
   no call. *)
CreateBackends(t, x, ns, Then) ==
    LET nps == ListenerNodePorts(x, plan[t].snap, req[t].obj.ports)
        fresh == FreshGen({ b.gen : b \in { c \in KnownBackends : c.lsn = x } })
        new(np, g) == { [lsn |-> x, node |-> n, np |-> np, gen |-> g] : n \in ns }
    IN  \/ ns = {} /\ Local(Then)
        \/ ns # {} /\ (nps = {} \/ fresh = {}) /\ Reject(t)
        \/ /\ ns # {}
           /\ \E np \in nps, g \in fresh :
                 Call(t, CanAddBackends(x), AddBackendsEffect(x, new(np, g)), Then)

(* createListenersAndBackends: the backends of one new listener. *)
FillListener(t) ==
    LET p == plan[t]
    IN  /\ pc[t] = "fill"
        /\ \/ p.new = {} /\ Local(GotoWith(t, "sync", [p EXCEPT !.addNode = {}]))
           \/ \E x \in p.new :
                CreateBackends(t, x, p.addNode,
                               GotoWith(t, "fill", [p EXCEPT !.new = p.new \ {x}]))

(* The loop over the listeners that stay: diffBackend of the next one, and
   after the last one the decision whether there is anything to apply. *)
SyncListener(t) ==
    LET p == plan[t]
        diffs(x) == DiffBackend({ b \in p.snap : b.lsn = x }, p.sel, p.count)
        next(d) == IF d.del # {} THEN "delbk" ELSE IF d.add # {} THEN "addbk" ELSE "sync"
        step(x, d) == [p EXCEPT !.todo = p.todo \ {x}, !.cur = x,
                                !.delBk = d.del, !.addNode = d.add]
    IN  /\ pc[t] = "sync"
        /\ \/ p.todo = {} /\ ~p.modify /\ Local(Return(t, "ok"))
           \/ /\ p.todo = {} /\ p.modify /\ req[t].op = "ensure" /\ ~view[t].vip
              /\ Reject(t)
           \/ /\ p.todo = {} /\ p.modify /\ (req[t].op = "ensure" => view[t].vip)
              /\ Local(GotoWith(t, "apply", p))
           \/ /\ p.todo # {}
              /\ Local(\E x \in p.todo :
                         \/ diffs(x) = {} /\ GotoWith(t, "hang", p)
                         \/ \E d \in diffs(x) : GotoWith(t, next(d), step(x, d)))

DeleteBackends(t) ==
    LET p == plan[t]
    IN  /\ pc[t] = "delbk"
        /\ Call(t, CanDeleteBackends(p.delBk), DeleteBackendsEffect(p.delBk),
                GotoWith(t, IF p.addNode # {} THEN "addbk" ELSE "sync",
                         [p EXCEPT !.delBk = {}, !.modify = TRUE]))

(* Mutant of AddBackends: the load balancer is not marked as modified. *)
AddBackendsUnmarked(t) ==
    /\ pc[t] = "addbk"
    /\ CreateBackends(t, plan[t].cur, plan[t].addNode,
                      GotoWith(t, "sync", [plan[t] EXCEPT !.addNode = {}]))

AddBackends(t) ==
    LET p == plan[t]
    IN  /\ pc[t] = "addbk"
        /\ CreateBackends(t, p.cur, p.addNode,
                          GotoWith(t, "sync", [p EXCEPT !.addNode = {}, !.modify = TRUE]))

(* UpdateLB: makes the changes of listeners and backends effective. *)
UpdateLB(t) ==
    /\ pc[t] = "apply"
    /\ Call(t, Exists(view[t].lb), UpdateLBEffect(view[t].lb), Return(t, "ok"))

-----------------------------------------------------------------------------
(* Deleting the load balancer.                                             *)

(* Mutant of AfterDeleteLB: the EIPs are forgotten. *)
AfterDeleteLBNoRelease(t) == Return(t, "ok")

AfterDeleteLB(t) ==
    IF view[t].created # {} THEN GotoWith(t, "release", plan[t]) ELSE Return(t, "ok")

(* DeleteLB returns an error only when the cloud accepted the request and
   its job did not finish; a request that fails, or that is refused until
   the timeout, is reported as a success. *)
DeleteLB(t) ==
    LET l == view[t].lb
    IN  /\ pc[t] = "dellb"
        /\ UNCHANGED eps
        /\ \/ ~Exists(l) /\ UNCHANGED <<cloudVars, faults>> /\ AfterDeleteLB(t)
           \/ Exists(l) /\ DeleteLBEffect(l) /\ UNCHANGED faults /\ AfterDeleteLB(t)
           \/ Exists(l) /\ DeleteLBEffect(l) /\ Fault /\ Return(t, "error")
           \/ Exists(l) /\ UNCHANGED cloudVars /\ Fault /\ Return(t, "error")
           \/ Exists(l) /\ UNCHANGED cloudVars /\ Fault /\ AfterDeleteLB(t)

ReleaseEIP(t) ==
    LET es == view[t].created
    IN  /\ pc[t] = "release"
        /\ Call(t, CanRelease(es), ReleaseEffect(es), Return(t, "ok"))

-----------------------------------------------------------------------------
Step(t) ==
    \/ GetLoadBalancer(t) \/ ModifyLB(t)
    \/ UpdateLBEip(t) \/ GetAvailableEIP(t) \/ AllocateEIP(t)
    \/ AssociateEIPs(t) \/ DissociateEIPs(t) \/ RefreshStatus(t) \/ CreateLB(t)
    \/ GetListeners(t) \/ DeleteListener(t) \/ CreateListener(t) \/ GetNewListeners(t)
    \/ FillListener(t) \/ SyncListener(t) \/ DeleteBackends(t) \/ AddBackends(t)
    \/ UpdateLB(t) \/ DeleteLB(t) \/ ReleaseEIP(t)

Next ==
    \/ \E t \in Thread : Start(t) \/ Step(t)
    \/ \E s \in Service : EndpointsChange(s)

Spec == Init /\ [][Next]_vars

-----------------------------------------------------------------------------
(* Properties.                                                             *)

(* The thread whose step this is: every step of a thread that changes the
   cloud moves its pc. *)
Acting(t) == pc'[t] # pc[t]

(* What the user made by hand is never destroyed: no load balancer reused by
   id is deleted by ensureLoadBalancerDeleted, none of the listeners on it
   that do not carry the service's listener name is removed, and ReleaseEIP
   only gets EIPs the controller manager allocated. *)
UserResourcesKept ==
    /\ \A l \in UserLB : lbs[l].name = User
    /\ UserListener \subseteq listeners
    /\ \A e \in UserEIP : eips[e] # Gone

(* The lookup by name in ensureLoadBalancer keeps retries, after whatever
   failure, from creating a second load balancer for a service. *)
OneLBPerService ==
    \A k, l \in LB : Exists(k) /\ Exists(l) /\ lbs[k].name = lbs[l].name
                       /\ lbs[k].name \in Service => k = l

(* A call removes listeners of its own service only, also when it deletes
   the whole load balancer because it saw no other listener on it. *)
ForeignListenersKept ==
    [][\A t \in Thread : Acting(t) =>
          \A x \in listeners \ listeners' : x.svc = req[t].obj.svc]_vars

(* getRandomNodes and GetRandomItems are never asked for more items than
   they are given, which would keep the goroutine in their loop forever. *)
NeverHang == \A t \in Thread : pc[t] # "hang"

(* The backends of a listener are what selection sel, count asks for. *)
RightBackends(x, p, sel, count) ==
    LET bs == BackendsOf(x)
    IN  /\ NodesOf(bs) \subseteq sel
        /\ \A b \in bs : b.np = p.np
        /\ Cardinality(NodesOf(bs)) = Cardinality(bs)
        /\ Cardinality(bs) = IF count = 0 THEN Cardinality(sel) ELSE count

Converged(o, l, sel, count) ==
    LET own == { x \in ListenersOf(l) : x.svc = o.svc }
    IN  /\ Cardinality(own) = Cardinality(o.ports)
        /\ \A p \in o.ports : \E x \in own :
              x.port = p.port /\ x.attr = p.attr /\ RightBackends(x, p, sel, count)

(* Whatever calls failed before and wherever they stopped, an ensure that
   returns success leaves exactly one listener per service port, each with
   the right node port and the right backends. *)
EnsureConverges ==
    \A t \in Thread : pc[t] = "ok" /\ req[t].op = "ensure" =>
        Converged(req[t].obj, view[t].lb, plan[t].sel, plan[t].count)

(* ensureLoadBalancer leaves a service alone whose listeners and backends
   are as they should be: it is about to change something only if they are
   not.  (Without any node a listener has no backend to read the node port
   from, and is created again each time.) *)
NoNeedlessChange ==
    \A t \in Thread :
        /\ req[t] # NoRequest /\ req[t].op = "ensure" /\ plan[t].sel # {}
        /\ pc[t] \in {"dellsn", "addlsn", "delbk", "addbk"}
        /\ pc[t] = "addlsn" => plan[t].addPort # {}
        => ~Converged(req[t].obj, view[t].lb, plan[t].sel, plan[t].count)

(* diffBackend does not shuffle backends: it takes a backend off a listener
   that stays only because its node is not selected any more, or to come
   down to exactly the wanted number. *)
StickyBackends ==
    [][\A t \in Thread : Acting(t) =>
          \A b \in backends \ backends' :
              b.lsn \in listeners' =>
                  \/ b.node \notin plan[t].sel
                  \/ /\ plan[t].count > 0
                     /\ Cardinality({ c \in backends' : c.lsn = b.lsn }) = plan[t].count]_vars

(* A delete that returns success has removed the service's listeners from
   the load balancer it reuses. *)
ReusedListenersDeleted ==
    \A t \in Thread :
        LET o == req[t].obj
        IN  pc[t] = "ok" /\ req[t].op = "delete" /\ o.strategy = "reuse-lb" =>
                \A x \in listeners : x.lb = o.lbid => x.svc # o.svc

(* An EIP that prepareEip allocates for a service ends up on a load balancer
   or released again, unless a call fails or the cloud refuses one more load
   balancer. *)
Leaked(e) ==
    /\ e \notin UserEIP /\ eips[e] = Free
    /\ \A t \in Thread : Busy(t) => e \notin plan[t].addEip \cup view[t].created

AllocatedEIPUsed ==
    faults = 0 /\ (\E l \in LB : lbs[l].name = Unborn) => \A e \in EIP : ~Leaked(e)

-----------------------------------------------------------------------------
(* What comments and documents say of the program and it does not do.      *)

(* "creates a new load balancer 'name', or updates the existing one": after
   a successful ensure the changes are in effect, as the "need update lb" of
   the calls that make them asks for. *)
EnsureApplies ==
    \A t \in Thread : pc[t] = "ok" /\ req[t].op = "ensure" => lbs[view[t].lb].applied

(* "returning nil if the load balancer specified either didn't exist or was
   successfully deleted" (of a service with a load balancer of its own). *)
DeleteDeletes ==
    \A t \in Thread :
        LET o == req[t].obj
        IN  pc[t] = "ok" /\ req[t].op = "delete" /\ o.strategy = "exclusive" =>
                \A x \in listeners : lbs[x.lb].name = o.svc => x.svc # o.svc

(* "returns whether the specified load balancer exists" *)
AbsentMeansAbsent ==
    \A t \in Thread : pc[t] = "absent" => ByName(req[t].obj.svc) = {}

(* "if the service config reuse lb id, we use lb id first": the service's
   listeners are deleted from the load balancer its annotation names. *)
AnnotatedListenersDeleted ==
    \A t \in Thread :
        LET o == req[t].obj
        IN  pc[t] = "ok" /\ req[t].op = "delete" /\ o.lbid # NoLB =>
                \A x \in listeners : x.lb = o.lbid => x.svc # o.svc

(* The plugin does not change any attribute of a load balancer it reuses. *)
ReusedAttrsKept == \A l \in UserLB : lbs[l].attr = DefaultAttr

(* "a Get could say that the LB doesn't exist even if some part of it is
   still laying around": when a delete ends, every EIP that was allocated
   for the load balancer is released or still on it, for the retry to find. *)
NothingLeftBehind ==
    [][\A t \in Thread : pc[t] \in Steps /\ req[t].op = "delete" /\ pc'[t] \in Results =>
          \A e \in view[t].created : eips'[e] \in LB \cup {Gone}]_vars
=============================================================================
