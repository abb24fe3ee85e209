----------------------------- MODULE BackendSync ----------------------------
(***************************************************************************)
(* How a change of pods or nodes reaches the backends: the endpoint        *)
(* controller and the cluster node controller with their informers and     *)
(* queues, beside the service controller of k8s.io/cloud-provider.         *)
(*                                                                         *)
(* The call of the provider each of them ends in is cut down to what its   *)
(* interleavings are about: it selects the nodes, reads the backends the   *)
(* listeners have, and then adds and deletes the difference.  (Provider    *)
(* has the calls in full.)  There are at most three nodes, so a selection  *)
(* is never narrowed down to a number of them.                             *)
(***************************************************************************)
EXTENDS FiniteSets, Integers

CONSTANTS
    Service, Node,
    Local,            \* services with externalTrafficPolicy Local
    Labelled,         \* Cluster services with a backend-label annotation
    Broken,           \* services whose calls always fail
    Marked,           \* the nodes that carry the label at first
    NoPods,           \* the provider's informer has not been filled
    NoCall, NoPass,
    Changing,         \* what changes: "pods", "ready" or "label"
    MaxChanges,       \* bound on these changes
    MaxEdits,         \* bound on the edits of services
    MaxFaults,        \* bound on the failed calls of the cloud
    MaxRestarts,      \* bound on the restarts of the program
    MaxEvents         \* bound on all of these together

ASSUME SyncAssumption ==
    /\ Local \subseteq Service /\ Labelled \subseteq Service \ Local
    /\ Broken \subseteq Service /\ Marked \subseteq Node /\ Cardinality(Node) <= 3
    /\ {MaxChanges, MaxEdits, MaxFaults, MaxRestarts, MaxEvents} \subseteq Nat

VARIABLES
    pods, node,       \* the cluster: nodes with pods of a service; the nodes
    podCache,         \* endpoints in the shared informer
    nodeCache,        \* nodes in the shared informer
    provCache,        \* endpoints in the provider's own informer
    hosts,            \* the ready nodes the service controller last acted on
    queue,            \* queue[t]: the keys waiting for thread t
    call,             \* call[t]: the provider call thread t is in
    pass,             \* the node controller's loop over the services
    backends,         \* the cloud: the backends of a service's listeners
    changes, edits, faults, restarts

cluster == <<pods, node, changes, edits>>
caches == <<podCache, nodeCache, provCache, hosts>>
vars == <<cluster, caches, queue, call, pass, backends, faults, restarts>>

Thread == {"service", "hosts", "endpoint", "node"}
NodeState == [ready: BOOLEAN, label: BOOLEAN]
Nodes == [Node -> NodeState]
Call == [svc: Service, step: {"filter", "listeners", "apply"},
         want: SUBSET Node, have: SUBSET Node]
Pass == [key: Node, left: SUBSET Service, nodes: Nodes]

ASSUME NoneAssumption == NoCall \notin Call /\ NoPass \notin Pass

TypeOK ==
    /\ pods \in [Service -> SUBSET Node] /\ node \in Nodes
    /\ podCache \in [Service -> SUBSET Node] /\ nodeCache \in Nodes
    /\ provCache \in [Service -> (SUBSET Node) \cup {NoPods}]
    /\ hosts \subseteq Node
    /\ queue \in [Thread -> SUBSET (Service \cup Node)]
    /\ call \in [Thread -> Call \cup {NoCall}]
    /\ pass \in Pass \cup {NoPass}
    /\ backends \in [Service -> SUBSET Node]

(* NodeConditionCheck *)
Ready(nodes) == { n \in Node : nodes[n].ready }

(* filterNodes, with fewer than four nodes: what it selects by the nodes it
   was given, and what it leaves of them by the endpoints. *)
Candidates(s, nodes) ==
    LET labelled == { n \in Ready(nodes) : nodes[n].label }
    IN  IF s \in Labelled /\ labelled # {} THEN labelled ELSE Ready(nodes)

WithPods(s, ns, ep) == IF s \in Local THEN ns \cap ep ELSE ns

Wanted(s) == WithPods(s, Candidates(s, node), pods[s])

(* Everything is in place: the load balancers exist and are up to date. *)
Init ==
    /\ pods = [s \in Service |-> Node]
    /\ node = [n \in Node |-> [ready |-> TRUE, label |-> n \in Marked]]
    /\ podCache = pods /\ nodeCache = node /\ provCache = pods
    /\ hosts = Node
    /\ queue = [t \in Thread |-> {}]
    /\ call = [t \in Thread |-> NoCall]
    /\ pass = NoPass
    /\ backends = [s \in Service |-> Wanted(s)]
    /\ changes = 0 /\ edits = 0 /\ faults = 0 /\ restarts = 0

-----------------------------------------------------------------------------
(* The cluster changes.                                                    *)

Calm == changes + edits + faults + restarts < MaxEvents

Change == Calm /\ changes < MaxChanges /\ changes' = changes + 1

PodsMove(s) ==
    /\ "pods" \in Changing /\ Change
    /\ \E ns \in (SUBSET Node) \ {pods[s]} : pods' = [pods EXCEPT ![s] = ns]
    /\ UNCHANGED <<node, edits, caches, queue, call, pass, backends, faults, restarts>>

NodeChanges(n) ==
    /\ Change
    /\ \/ "ready" \in Changing /\ node' = [node EXCEPT ![n].ready = ~@]
       \/ "label" \in Changing /\ node' = [node EXCEPT ![n].label = ~@]
    /\ UNCHANGED <<pods, edits, caches, queue, call, pass, backends, faults, restarts>>

Enqueue(t, keys) == queue' = [queue EXCEPT ![t] = @ \cup keys]

(* The user edits something of a service that does not matter here, and the
   service controller has to ensure its load balancer. *)
EditService(s) ==
    /\ Calm /\ edits < MaxEdits /\ edits' = edits + 1
    /\ Enqueue("service", {s})
    /\ UNCHANGED <<pods, node, changes, caches, call, pass, backends, faults, restarts>>

-----------------------------------------------------------------------------
(* Informers and their event handlers.                                     *)

(* The provider's own informer knows of no event handler. *)
ProviderSees(s) ==
    /\ provCache[s] # pods[s]
    /\ provCache' = [provCache EXCEPT ![s] = pods[s]]
    /\ UNCHANGED <<cluster, podCache, nodeCache, hosts, queue, call, pass,
                   backends, faults, restarts>>

(* Mutant of EnqueueEndpoint: only an object that changed is enqueued, as
   the node controller does it. *)
EnqueueChangedEndpoint(s) ==
    IF podCache[s] = pods[s] THEN UNCHANGED queue ELSE Enqueue("endpoint", {s})

EnqueueEndpoint(s) == Enqueue("endpoint", {s})

(* An update of the endpoints, or the periodic resync of the informer,
   which delivers the object it has as an update of itself. *)
EndpointEvent(s) ==
    /\ podCache' = [podCache EXCEPT ![s] = pods[s]]
    /\ EnqueueEndpoint(s)
    /\ UNCHANGED <<cluster, nodeCache, provCache, hosts, call, pass, backends,
                   faults, restarts>>

(* needsUpdate: only the labels count. *)
NeedsUpdate(old, new) == old.label # new.label

NodeEvent(n) ==
    /\ nodeCache[n] # node[n]
    /\ nodeCache' = [nodeCache EXCEPT ![n] = node[n]]
    /\ IF NeedsUpdate(nodeCache[n], node[n]) THEN Enqueue("node", {n})
                                             ELSE UNCHANGED queue
    /\ UNCHANGED <<cluster, podCache, provCache, hosts, call, pass, backends,
                   faults, restarts>>

(* The service controller updates every load balancer when the set of ready
   nodes is another than the last time it looked. *)
HostsChange ==
    /\ hosts # Ready(nodeCache)
    /\ hosts' = Ready(nodeCache)
    /\ Enqueue("hosts", Service)
    /\ UNCHANGED <<cluster, podCache, nodeCache, provCache, call, pass, backends,
                   faults, restarts>>

-----------------------------------------------------------------------------
(* Workers take a key and call the provider.                               *)

NewCall(s, nodes) ==
    [svc |-> s, step |-> "filter", want |-> Candidates(s, nodes), have |-> {}]

Take(t, key) ==
    /\ call[t] = NoCall /\ key \in queue[t]
    /\ queue' = [queue EXCEPT ![t] = @ \ {key}]

Frame == UNCHANGED <<cluster, caches, backends, faults, restarts>>

(* The service controller: EnsureLoadBalancer, or UpdateLoadBalancer after
   the set of ready nodes has changed. *)
ServiceStart(t, s) ==
    /\ t \in {"service", "hosts"} /\ Take(t, s)
    /\ call' = [call EXCEPT ![t] = NewCall(s, nodeCache)]
    /\ Frame /\ UNCHANGED pass

(* handleEndpointsUpdate *)
EndpointStart(s) ==
    /\ Take("endpoint", s)
    /\ call' = IF s \in Local
               THEN [call EXCEPT !["endpoint"] = NewCall(s, nodeCache)]
               ELSE call
    /\ Frame /\ UNCHANGED pass

(* handleNodesUpdate does not look at its key: it lists the nodes and goes
   through all services with a backend label. *)
NodeStart(n) ==
    /\ pass = NoPass /\ Take("node", n)
    /\ pass' = IF Labelled = {} THEN NoPass
               ELSE [key |-> n, left |-> Labelled, nodes |-> nodeCache]
    /\ Frame /\ UNCHANGED call

(* Mutant of NextOf: the services come in a fixed order. *)
NextOfSorted(left) == { s \in left : s \in Broken \/ left \cap Broken = {} }

(* The lister iterates over a map: in any order. *)
NextOf(left) == left

NodeNext(s) ==
    /\ pass # NoPass /\ call["node"] = NoCall
    /\ s \in NextOf(pass.left)
    /\ call' = [call EXCEPT !["node"] = NewCall(s, pass.nodes)]
    /\ Frame /\ UNCHANGED <<queue, pass>>

-----------------------------------------------------------------------------
(* The call and how its result is handled.                                 *)

(* Forget the key and, in the node controller, go on with the next service. *)
Succeed(t) ==
    LET left == pass.left \ {call[t].svc}
    IN  /\ call' = [call EXCEPT ![t] = NoCall]
        /\ pass' = IF t # "node" THEN pass
                   ELSE IF left = {} THEN NoPass ELSE [pass EXCEPT !.left = left]
        /\ UNCHANGED queue

(* Mutant of Retry: the key is forgotten with the call. *)
RetryForgotten(t) == Enqueue(t, {IF t = "node" THEN pass.key ELSE NoCall})

(* Mutant of Retry: the loop over the services is left for good. *)
RetryCallsOnly(t) == Enqueue(t, IF t = "node" THEN {} ELSE {call[t].svc})

(* AddRateLimited *)
Retry(t) == Enqueue(t, {IF t = "node" THEN pass.key ELSE call[t].svc})

(* The node controller leaves its loop at the first service that fails. *)
Fail(t) ==
    /\ call' = [call EXCEPT ![t] = NoCall]
    /\ Retry(t)
    /\ pass' = IF t = "node" THEN NoPass ELSE pass

Goto(t, c) == call' = [call EXCEPT ![t] = c] /\ UNCHANGED <<queue, pass>>

Fault == Calm /\ faults < MaxFaults /\ faults' = faults + 1

Filter(t) ==
    LET c == call[t]
        stuck == c.svc \in Broken \/ (c.svc \in Local /\ provCache[c.svc] = NoPods)
    IN  /\ c # NoCall /\ c.step = "filter"
        /\ IF stuck THEN Fail(t)
           ELSE Goto(t, [c EXCEPT !.step = "listeners",
                                  !.want = WithPods(c.svc, @, provCache[c.svc])])
        /\ UNCHANGED <<cluster, caches, backends, faults, restarts>>

GetListeners(t) ==
    LET c == call[t]
    IN  /\ c # NoCall /\ c.step = "listeners"
        /\ \/ /\ Goto(t, [c EXCEPT !.step = "apply", !.have = backends[c.svc]])
              /\ UNCHANGED faults
           \/ Fault /\ Fail(t)
        /\ UNCHANGED <<cluster, caches, backends, restarts>>

(* DeleteBackends and CreateBackends for the difference; the cloud refuses
   to delete a backend that is gone. *)
Apply(t) ==
    LET c == call[t]
        s == c.svc
        del == c.have \ c.want
        add == c.want \ c.have
        Set(bs) == backends' = [backends EXCEPT ![s] = bs]
    IN  /\ c # NoCall /\ c.step = "apply"
        /\ \/ ~(del \subseteq backends[s]) /\ Fail(t) /\ UNCHANGED <<backends, faults>>
           \/ /\ del \subseteq backends[s]
              /\ \/ Set((backends[s] \ del) \cup add) /\ Succeed(t) /\ UNCHANGED faults
                 \/ Set((backends[s] \ del) \cup add) /\ Fail(t) /\ Fault
                 \/ Set(backends[s] \ del) /\ Fail(t) /\ Fault
                 \/ UNCHANGED backends /\ Fail(t) /\ Fault
        /\ UNCHANGED <<cluster, caches, restarts>>

Work(t) == Filter(t) \/ GetListeners(t) \/ Apply(t)

(* The program ends and starts again: queues and calls are gone, the shared
   informers are filled before the controllers run, the provider's later,
   and the service controller finds every service new. *)
Restart ==
    /\ Calm /\ restarts < MaxRestarts /\ restarts' = restarts + 1
    /\ podCache' = pods /\ nodeCache' = node /\ hosts' = {}
    /\ provCache' = [s \in Service |-> NoPods]
    /\ queue' = [t \in Thread |-> IF t = "service" THEN Service ELSE {}]
    /\ call' = [t \in Thread |-> NoCall]
    /\ pass' = NoPass
    /\ UNCHANGED <<cluster, backends, faults>>

Next ==
    \/ \E s \in Service : \/ PodsMove(s) \/ EditService(s) \/ ProviderSees(s)
                          \/ EndpointEvent(s) \/ EndpointStart(s) \/ NodeNext(s)
    \/ \E n \in Node : NodeChanges(n) \/ NodeEvent(n) \/ NodeStart(n)
    \/ \E t \in Thread : Work(t) \/ \E s \in Service : ServiceStart(t, s)
    \/ HostsChange \/ Restart

(* Informers deliver and resync, and workers run, for ever; a queue hands
   out every key and a map iteration starts everywhere.  Nothing makes the
   cluster change, calls fail or the program restart. *)
Fairness ==
    /\ \A s \in Service : /\ WF_vars(ProviderSees(s)) /\ WF_vars(EndpointEvent(s))
                          /\ SF_vars(EndpointStart(s)) /\ SF_vars(NodeNext(s))
    /\ \A n \in Node : WF_vars(NodeEvent(n))
    /\ WF_vars(\E n \in Node : NodeStart(n))
    /\ \A t \in Thread : WF_vars(Work(t)) /\ WF_vars(\E s \in Service : ServiceStart(t, s))
    /\ WF_vars(HostsChange)

Spec == Init /\ [][Next]_vars /\ Fairness

-----------------------------------------------------------------------------
(* Properties.                                                             *)

(* However informers, calls and failures interleave, the backends of a
   service with policy Local end up on the ready nodes with its pods.  (The
   handler may find the provider's endpoints older than the event, and an
   ensure may add a node it selected before; it is the resync that repairs
   this, because the handler does not compare.) *)
LocalSettles ==
    \A s \in Local \ Broken : <>[](backends[s] = Wanted(s))

(* A change of the nodes' labels reaches the backends of every service with
   a backend label, although each pass over the services stops at the first
   that fails. *)
LabelsReachServices ==
    \A s \in Labelled \ Broken : <>[](backends[s] = Wanted(s))

(* The node controller forgets no label: while the backends of a service with
   a backend label are not on the nodes the labels ask for, an event is on its
   way, a key is waiting, or the loop over the services has still to come to
   this one.  (With nobody else working on the service; see v_labels.) *)
LabelsNotForgotten ==
    \A s \in Labelled :
        \/ backends[s] = Wanted(s)
        \/ nodeCache # node
        \/ queue["node"] # {}
        \/ pass # NoPass /\ s \in pass.left
=============================================================================
