----------------------------- MODULE SyncProofs -----------------------------
(***************************************************************************)
(* BackendSync keeps its types for any number of services, nodes, changes, *)
(* failures and restarts.  What is not obvious is that the node            *)
(* controller's calls belong to a pass: when such a call ends, its result  *)
(* is put down to the pass it is in, and the key to retry is the pass's.   *)
(*                                                                         *)
(* The second part shows, for any number of labelled services, failures    *)
(* and changes of labels, that the node controller forgets none of these   *)
(* changes: what a pass has done is right by the nodes it began with, and  *)
(* these are the present ones or a key waits for the next pass.            *)
(***************************************************************************)
EXTENDS BackendSync, TLAPS

(* A call of the node controller is part of a pass over the services. *)
CallInPass == call["node"] # NoCall => pass # NoPass

SyncInv == TypeOK /\ CallInPass

(* What a call selects are nodes. *)
LEMMA CallType ==
    /\ \A s \in Service, nodes \in Nodes : NewCall(s, nodes) \in Call
    /\ \A s \in Service : \A ns, ep : ns \subseteq Node => WithPods(s, ns, ep) \subseteq Node
BY DEF NewCall, Call, Candidates, Ready, WithPods

LEMMA EnqueueType ==
    ASSUME TypeOK, NEW t \in Thread, NEW keys \in SUBSET (Service \cup Node), Enqueue(t, keys)
    PROVE  queue' \in [Thread -> SUBSET (Service \cup Node)]
BY DEF TypeOK, Enqueue

(* The ways a call ends or goes on. *)
LEMMA EndType ==
    ASSUME SyncInv, NEW t \in Thread, call[t] # NoCall,
           Succeed(t) \/ Fail(t) \/ \E c \in Call : Goto(t, c)
    PROVE  /\ call' \in [Thread -> Call \cup {NoCall}] /\ pass' \in Pass \cup {NoPass}
           /\ queue' \in [Thread -> SUBSET (Service \cup Node)]
           /\ CallInPass'
<1>1. /\ call \in [Thread -> Call \cup {NoCall}] /\ pass \in Pass \cup {NoPass}
      /\ queue \in [Thread -> SUBSET (Service \cup Node)]
      /\ call[t] \in Call /\ call[t].svc \in Service
      /\ t = "node" => pass \in Pass /\ pass # NoPass
  BY DEF SyncInv, TypeOK, CallInPass, Call
<1>2. CASE Succeed(t)
  <2>1. pass' \in Pass \cup {NoPass} /\ (t # "node" => pass' = pass)
    BY <1>1, <1>2 DEF Succeed, Pass
  <2>2. /\ call' \in [Thread -> Call \cup {NoCall}] /\ queue' = queue
        /\ call'["node"] = IF t = "node" THEN NoCall ELSE call["node"]
    BY <1>1, <1>2 DEF Succeed, Thread
  <2>3. CallInPass'
    BY <2>1, <2>2 DEF SyncInv, CallInPass
  <2> QED BY <1>1, <2>1, <2>2, <2>3
<1>3. CASE Fail(t)
  <2>1. pass' \in Pass \cup {NoPass} /\ (t # "node" => pass' = pass)
    BY <1>1, <1>3 DEF Fail
  <2>2. /\ call' \in [Thread -> Call \cup {NoCall}]
        /\ call'["node"] = IF t = "node" THEN NoCall ELSE call["node"]
    BY <1>1, <1>3 DEF Fail, Thread
  <2>3. {IF t = "node" THEN pass.key ELSE call[t].svc} \in SUBSET (Service \cup Node)
    BY <1>1 DEF Pass
  <2>4. queue' \in [Thread -> SUBSET (Service \cup Node)]
    BY <1>3, <2>3, EnqueueType DEF Fail, Retry, SyncInv
  <2> QED BY <2>1, <2>2, <2>4 DEF SyncInv, CallInPass
<1>4. CASE \E c \in Call : Goto(t, c)
  BY <1>1, <1>4 DEF Goto, SyncInv, CallInPass
<1> QED BY <1>2, <1>3, <1>4

(* A call's steps. *)
LEMMA WorkType ==
    ASSUME SyncInv, NEW t \in Thread, Work(t)
    PROVE  SyncInv'
<1>1. /\ call[t] # NoCall /\ call[t] \in Call /\ call[t].svc \in Service
      /\ call[t].want \subseteq Node /\ call[t].have \subseteq Node
      /\ backends \in [Service -> SUBSET Node]
  BY DEF Work, Filter, GetListeners, Apply, SyncInv, TypeOK, Call
<1>2. UNCHANGED <<cluster, caches>>
  BY DEF Work, Filter, GetListeners, Apply
<1>3. backends' \in [Service -> SUBSET Node]
  BY <1>1 DEF Work, Filter, GetListeners, Apply
<1>4. Succeed(t) \/ Fail(t) \/ \E c \in Call : Goto(t, c)
  <2>1. CASE Filter(t)
    <3>1. [call[t] EXCEPT !.step = "listeners",
                          !.want = WithPods(call[t].svc, call[t].want, provCache[call[t].svc])]
            \in Call
      <4>1. PICK ns : ns = WithPods(call[t].svc, call[t].want, provCache[call[t].svc])
        OBVIOUS
      <4>2. ns \subseteq Node
        BY <1>1, <4>1, CallType
      <4> QED BY <1>1, <4>1, <4>2 DEF Call
    <3> QED BY <2>1, <3>1 DEF Filter
  <2>2. CASE GetListeners(t)
    <3>1. [call[t] EXCEPT !.step = "apply", !.have = backends[call[t].svc]] \in Call
      BY <1>1 DEF Call
    <3> QED BY <2>2, <3>1 DEF GetListeners
  <2>3. CASE Apply(t)
    BY <2>3 DEF Apply
  <2> QED BY <2>1, <2>2, <2>3 DEF Work
<1> QED BY <1>1, <1>2, <1>3, <1>4, EndType DEF SyncInv, TypeOK, cluster, caches

(* The cluster changes, and the informers deliver it. *)
LEMMA EventsType ==
    ASSUME SyncInv,
           \/ \E s \in Service : \/ PodsMove(s) \/ EditService(s) \/ ProviderSees(s)
                                 \/ EndpointEvent(s)
           \/ \E n \in Node : NodeChanges(n) \/ NodeEvent(n)
           \/ HostsChange
    PROVE  SyncInv'
<1> USE DEF SyncInv
<1>1. /\ pods \in [Service -> SUBSET Node] /\ node \in Nodes
      /\ podCache \in [Service -> SUBSET Node] /\ nodeCache \in Nodes
      /\ provCache \in [Service -> (SUBSET Node) \cup {NoPods}]
  BY DEF TypeOK
<1>2. /\ UNCHANGED <<call, pass, backends>>
      /\ CallInPass'
  BY DEF PodsMove, EditService, ProviderSees, EndpointEvent, NodeChanges, NodeEvent,
         HostsChange, CallInPass
<1>3. ASSUME NEW s \in Service, PodsMove(s) \/ ProviderSees(s) PROVE TypeOK'
  BY <1>1, <1>3 DEF PodsMove, ProviderSees, TypeOK, cluster, caches
<1>4. ASSUME NEW n \in Node, NodeChanges(n) PROVE TypeOK'
  <2>1. PICK c \in {[node[n] EXCEPT !.ready = ~@], [node[n] EXCEPT !.label = ~@]} :
            node' = [node EXCEPT ![n] = c]
    BY <1>4 DEF NodeChanges
  <2>2. node[n] \in NodeState
    BY <1>1 DEF Nodes
  <2>3. c \in NodeState
    BY <2>2 DEF NodeState
  <2>4. node' \in Nodes
    BY <1>1, <2>1, <2>3 DEF Nodes
  <2> QED BY <1>4, <2>4 DEF NodeChanges, TypeOK, caches
<1>5. ASSUME NEW s \in Service, EditService(s) \/ EndpointEvent(s) PROVE TypeOK'
  <2>1. {s} \in SUBSET (Service \cup Node) /\ {"service", "endpoint"} \subseteq Thread
    BY DEF Thread
  <2>2. queue' \in [Thread -> SUBSET (Service \cup Node)]
    BY <1>5, <2>1, EnqueueType DEF EditService, EndpointEvent, EnqueueEndpoint
  <2> QED BY <1>1, <1>5, <2>2 DEF EditService, EndpointEvent, TypeOK, cluster, caches
<1>6. ASSUME NEW n \in Node, NodeEvent(n) PROVE TypeOK'
  <2>1. {n} \in SUBSET (Service \cup Node) /\ "node" \in Thread
    BY DEF Thread
  <2>2. queue' \in [Thread -> SUBSET (Service \cup Node)]
    BY <1>6, <2>1, EnqueueType DEF NodeEvent, TypeOK
  <2>3. nodeCache' \in Nodes
    BY <1>1, <1>6 DEF NodeEvent, Nodes
  <2> QED BY <1>6, <2>2, <2>3 DEF NodeEvent, TypeOK, cluster
<1>7. CASE HostsChange
  <2>1. Service \in SUBSET (Service \cup Node) /\ "hosts" \in Thread
    BY DEF Thread
  <2>2. queue' \in [Thread -> SUBSET (Service \cup Node)]
    BY <1>7, <2>1, EnqueueType DEF HostsChange
  <2>3. hosts' \subseteq Node
    BY <1>7 DEF HostsChange, Ready
  <2>4. UNCHANGED <<pods, node, podCache, nodeCache, provCache, call, pass, backends>>
    BY <1>7 DEF HostsChange, cluster
  <2>5. TypeOK'
    BY <2>2, <2>3, <2>4 DEF TypeOK
  <2> QED BY <1>2, <2>5
<1> QED BY <1>2, <1>3, <1>4, <1>5, <1>6, <1>7

(* The workers take their keys, and the program starts again. *)
LEMMA StartsType ==
    ASSUME SyncInv,
           \/ \E t \in Thread, s \in Service : ServiceStart(t, s)
           \/ \E s \in Service : EndpointStart(s) \/ NodeNext(s)
           \/ \E n \in Node : NodeStart(n)
           \/ Restart
    PROVE  SyncInv'
<1> USE DEF SyncInv
<1>1. /\ call \in [Thread -> Call \cup {NoCall}] /\ pass \in Pass \cup {NoPass}
      /\ queue \in [Thread -> SUBSET (Service \cup Node)] /\ nodeCache \in Nodes
  BY DEF TypeOK
<1>2. ASSUME NEW t \in Thread, NEW key, Take(t, key)
      PROVE  queue' \in [Thread -> SUBSET (Service \cup Node)]
  BY <1>1, <1>2 DEF Take
<1>3. ASSUME Frame, call' \in [Thread -> Call \cup {NoCall}], pass' \in Pass \cup {NoPass},
             queue' \in [Thread -> SUBSET (Service \cup Node)]
      PROVE  TypeOK'
  BY <1>3 DEF Frame, TypeOK, cluster, caches
<1>4. ASSUME NEW t \in Thread, NEW s \in Service, ServiceStart(t, s) PROVE SyncInv'
  <2>1. t # "node" /\ NewCall(s, nodeCache) \in Call
    BY <1>1, <1>4, CallType DEF ServiceStart
  <2> QED BY <1>1, <1>2, <1>3, <1>4, <2>1 DEF ServiceStart, CallInPass
<1>5. ASSUME NEW s \in Service, EndpointStart(s) PROVE SyncInv'
  <2>1. "endpoint" \in Thread /\ NewCall(s, nodeCache) \in Call
    BY <1>1, CallType DEF Thread
  <2> QED BY <1>1, <1>2, <1>3, <1>5, <2>1 DEF EndpointStart, CallInPass
<1>6. ASSUME NEW n \in Node, NodeStart(n) PROVE SyncInv'
  <2>1. "node" \in Thread /\ [key |-> n, left |-> Labelled, nodes |-> nodeCache] \in Pass
    BY <1>1, SyncAssumption DEF Thread, Pass
  <2>2. CallInPass'
    BY <1>6 DEF NodeStart, CallInPass
  <2> QED BY <1>1, <1>2, <1>3, <1>6, <2>1, <2>2 DEF NodeStart
<1>7. ASSUME NEW s \in Service, NodeNext(s) PROVE SyncInv'
  <2>1. "node" \in Thread /\ NewCall(s, pass.nodes) \in Call
    BY <1>1, <1>7, CallType DEF Thread, Pass, NodeNext
  <2> QED BY <1>1, <1>3, <1>7, <2>1 DEF NodeNext, CallInPass
<1>8. CASE Restart
  <2>1. /\ queue' \in [Thread -> SUBSET (Service \cup Node)]
        /\ call' \in [Thread -> Call \cup {NoCall}]
        /\ call'["node"] = NoCall /\ pass' = NoPass
    BY <1>8 DEF Restart, Thread
  <2>2. provCache' \in [Service -> (SUBSET Node) \cup {NoPods}] /\ hosts' = {}
    BY <1>8 DEF Restart
  <2>3. /\ pods' = pods /\ node' = node /\ podCache' = pods /\ nodeCache' = node
        /\ backends' = backends
    BY <1>8 DEF Restart, cluster
  <2> QED BY <2>1, <2>2, <2>3 DEF TypeOK, CallInPass
<1> QED BY <1>4, <1>5, <1>6, <1>7, <1>8

(* The invariant holds at first, and every step keeps it. *)
LEMMA SyncInit == Init => SyncInv
<1> SUFFICES ASSUME Init PROVE SyncInv
  OBVIOUS
<1>1. node \in Nodes /\ pods \in [Service -> SUBSET Node]
  BY DEF Init, Nodes, NodeState
<1>2. \A s \in Service : Wanted(s) \subseteq Node
  BY DEF Wanted, WithPods, Candidates, Ready
<1> QED BY <1>1, <1>2 DEF Init, SyncInv, TypeOK, CallInPass, Thread

LEMMA SyncNext == SyncInv /\ [Next]_vars => SyncInv'
<1> SUFFICES ASSUME SyncInv, [Next]_vars PROVE SyncInv'
  OBVIOUS
<1>1. CASE Next
  BY <1>1, WorkType, EventsType, StartsType DEF Next
<1>2. CASE UNCHANGED vars
  BY <1>2 DEF SyncInv, TypeOK, CallInPass, vars, cluster, caches
<1> QED BY <1>1, <1>2

(* Every variable of the controllers keeps its type, however events, calls,
   failures and restarts interleave: in particular a key that is put back
   into a queue is a service or a node. *)
THEOREM SyncTypeCorrect == Spec => []TypeOK
BY SyncInit, SyncNext, PTL DEF Spec, SyncInv

-----------------------------------------------------------------------------
(* No label is forgotten.                                                  *)

(* Nothing but the labels, and the pods, changes: then only the node
   controller works on the services with a backend label.  (An ensure that is
   under way beside it may put the old backends back, see v_labels.) *)
LabelsOnly == "ready" \notin Changing /\ MaxEdits = 0 /\ MaxRestarts = 0

(* The other threads do nothing, or work on services with policy Local. *)
Undisturbed ==
    /\ Ready(node) = Node /\ Ready(nodeCache) = Node /\ hosts = Node
    /\ edits = 0 /\ restarts = 0
    /\ \A t \in {"service", "hosts"} : queue[t] = {} /\ call[t] = NoCall
    /\ call["endpoint"] # NoCall => call["endpoint"].svc \in Local

(* The call c is for a service the pass has not done yet, and uses the nodes
   the pass began with. *)
InTurn(c) ==
    c # NoCall => /\ pass # NoPass /\ c.svc \in pass.left
                  /\ c.want = Candidates(c.svc, pass.nodes)
                  /\ c.step = "apply" => c.have = backends[c.svc]

(* What a pass has done is right by its nodes, and these are the present ones
   unless another pass follows. *)
PassRight ==
    pass # NoPass =>
        /\ pass.left \subseteq Labelled
        /\ \A s \in Labelled \ pass.left : backends[s] = Candidates(s, pass.nodes)
        /\ pass.nodes = nodeCache \/ queue["node"] # {}

(* Between two passes everything is right, or the next one is due. *)
RestRight ==
    pass = NoPass =>
        queue["node"] # {} \/ \A s \in Labelled : backends[s] = Candidates(s, nodeCache)

LabelInv == Undisturbed /\ InTurn(call["node"]) /\ PassRight /\ RestRight

(* The invariant speaks of the backends of the labelled services only. *)
LEMMA LabelsElsewhere ==
    ASSUME LabelInv, Undisturbed', UNCHANGED <<pass, nodeCache>>,
           call'["node"] = call["node"], queue["node"] \subseteq queue'["node"],
           \A s \in Labelled : backends'[s] = backends[s]
    PROVE  LabelInv'
<1>1. InTurn(call["node"])'
  <2>1. PICK c : c = call["node"] /\ c = call'["node"]
    OBVIOUS
  <2>2. InTurn(c)'
    BY <2>1 DEF LabelInv, InTurn, PassRight
  <2> QED BY <2>1, <2>2
<1>2. PassRight' /\ RestRight'
  BY DEF LabelInv, PassRight, RestRight
<1> QED BY <1>1, <1>2 DEF LabelInv

(* The node controller leaves its pass with a key in the queue. *)
LEMMA FailedPassRepeats ==
    ASSUME SyncInv, LabelInv, call["node"] # NoCall, Fail("node"),
           UNCHANGED <<cluster, caches, restarts>>
    PROVE  LabelInv'
<1>1. /\ pass' = NoPass /\ call'["node"] = NoCall /\ queue'["node"] # {}
      /\ \A t \in {"service", "hosts", "endpoint"} : call'[t] = call[t] /\ queue'[t] = queue[t]
  BY DEF Fail, Retry, Enqueue, SyncInv, TypeOK, Thread
<1>2. Undisturbed'
  BY <1>1 DEF LabelInv, Undisturbed, cluster, caches, Ready
<1> QED BY <1>1, <1>2 DEF LabelInv, InTurn, PassRight, RestRight

(* A call of the node controller goes on with the nodes of the pass, and leaves
   the backends it wanted. *)
LEMMA NodeCallKeeps ==
    ASSUME SyncInv, LabelInv, Work("node")
    PROVE  LabelInv'
<1>0. PICK c : c = call["node"]
  OBVIOUS
<1>1. /\ c # NoCall /\ c \in Call /\ "node" \in Thread /\ UNCHANGED <<cluster, caches, restarts>>
      /\ call \in [Thread -> Call \cup {NoCall}] /\ pass \in Pass
      /\ backends \in [Service -> SUBSET Node]
  <2>1. c # NoCall /\ UNCHANGED <<cluster, caches, restarts>> /\ "node" \in Thread
    BY <1>0 DEF Work, Filter, GetListeners, Apply, Thread
  <2> QED BY <1>0, <2>1 DEF SyncInv, TypeOK, CallInPass
<1>2. /\ pass # NoPass /\ c.svc \in pass.left /\ c.want = Candidates(c.svc, pass.nodes)
      /\ c.step = "apply" => c.have = backends[c.svc]
      /\ pass.left \subseteq Labelled
      /\ \A s \in Labelled \ pass.left : backends[s] = Candidates(s, pass.nodes)
      /\ pass.nodes = nodeCache \/ queue["node"] # {}
  BY <1>0, <1>1 DEF LabelInv, InTurn, PassRight
<1>3. c.svc \in Service /\ c.svc \in Labelled /\ c.svc \notin Local
  BY <1>2, SyncAssumption
<1>4. CASE Fail("node")
  BY <1>0, <1>1, <1>4, FailedPassRepeats
<1>5. ASSUME NEW d, call' = [call EXCEPT !["node"] = d], UNCHANGED <<queue, pass, backends>>,
             d.svc = c.svc, d.want = c.want, d.step = "apply" => d.have = backends[c.svc]
      PROVE  LabelInv'
  <2>1. call'["node"] = d /\ \A t \in {"service", "hosts", "endpoint"} : call'[t] = call[t]
    BY <1>1, <1>5 DEF Thread
  <2>2. Undisturbed'
    BY <1>1, <1>5, <2>1 DEF LabelInv, Undisturbed, cluster, caches, Ready
  <2>3. InTurn(d)'
    BY <1>2, <1>5 DEF InTurn
  <2>4. PassRight' /\ RestRight'
    BY <1>1, <1>5 DEF LabelInv, PassRight, RestRight, caches
  <2> QED BY <2>1, <2>2, <2>3, <2>4 DEF LabelInv
<1>6. CASE Filter("node")
  <2>1. CASE Goto("node", [c EXCEPT !.step = "listeners",
                                    !.want = WithPods(c.svc, c.want, provCache[c.svc])])
    <3>1. PICK d : d = [c EXCEPT !.step = "listeners", !.want = c.want]
      OBVIOUS
    <3>2. WithPods(c.svc, c.want, provCache[c.svc]) = c.want
      BY <1>3 DEF WithPods
    <3>3. call' = [call EXCEPT !["node"] = d] /\ UNCHANGED <<queue, pass, backends>>
      BY <1>6, <2>1, <3>1, <3>2 DEF Goto, Filter
    <3>4. d.svc = c.svc /\ d.want = c.want /\ d.step = "listeners"
      BY <1>1, <3>1 DEF Call
    <3> QED BY <1>5, <3>3, <3>4
  <2> QED BY <1>0, <1>4, <1>6, <2>1 DEF Filter
<1>7. CASE GetListeners("node")
  <2>1. CASE Goto("node", [c EXCEPT !.step = "apply", !.have = backends[c.svc]])
    <3>1. PICK d : d = [c EXCEPT !.step = "apply", !.have = backends[c.svc]]
      OBVIOUS
    <3>2. d.svc = c.svc /\ d.want = c.want /\ d.have = backends[c.svc]
      BY <1>1, <3>1 DEF Call
    <3>3. call' = [call EXCEPT !["node"] = d] /\ UNCHANGED <<queue, pass, backends>>
      BY <1>7, <2>1, <3>1 DEF Goto, GetListeners
    <3> QED BY <1>5, <3>2, <3>3
  <2> QED BY <1>0, <1>4, <1>7, <2>1 DEF GetListeners
<1>8. CASE Apply("node")
  <2>1. SUFFICES ASSUME ~Fail("node") PROVE LabelInv'
    BY <1>4
  <2>2. /\ Succeed("node") /\ c.step = "apply"
        /\ backends' = [backends EXCEPT ![c.svc] =
                           (backends[c.svc] \ (c.have \ c.want)) \cup (c.want \ c.have)]
    BY <1>0, <1>8, <2>1 DEF Apply
  <2>3. /\ \A s \in Labelled \ {c.svc} : backends'[s] = backends[s]
        /\ backends'[c.svc] = c.want
    BY <1>1, <1>2, <1>3, <2>2, SyncAssumption
  <2>4. PICK left : left = pass.left \ {c.svc}
    OBVIOUS
  <2>5. /\ call'["node"] = NoCall /\ queue' = queue
        /\ \A t \in {"service", "hosts", "endpoint"} : call'[t] = call[t]
        /\ pass' = IF left = {} THEN NoPass ELSE [pass EXCEPT !.left = left]
    BY <1>0, <1>1, <2>2, <2>4 DEF Succeed, Thread
  <2>6. \A s \in Labelled \ left : backends'[s] = Candidates(s, pass.nodes)
    BY <1>2, <2>3, <2>4
  <2>7. Undisturbed' /\ nodeCache' = nodeCache
    BY <1>1, <2>5 DEF LabelInv, Undisturbed, cluster, caches, Ready
  <2>8. CASE left = {}
    BY <1>2, <2>5, <2>6, <2>7, <2>8 DEF LabelInv, InTurn, PassRight, RestRight
  <2>9. CASE left # {}
    <3>1. pass' \in Pass /\ pass'.left = left /\ pass'.nodes = pass.nodes
      BY <1>1, <1>2, <2>4, <2>5, <2>9, SyncAssumption DEF Pass
    <3>2. PassRight'
      BY <1>2, <2>4, <2>5, <2>6, <2>7, <3>1 DEF PassRight
    <3>3. pass' # NoPass
      BY <3>1, NoneAssumption
    <3> QED BY <2>5, <2>7, <3>2, <3>3 DEF LabelInv, InTurn, RestRight
  <2> QED BY <2>8, <2>9
<1> QED BY <1>6, <1>7, <1>8 DEF Work

(* The endpoint controller's call is for a service with policy Local. *)
LEMMA EndpointCallKeeps ==
    ASSUME SyncInv, LabelInv, Work("endpoint")
    PROVE  LabelInv'
<1>0. PICK c : c = call["endpoint"]
  OBVIOUS
<1>1. /\ c # NoCall /\ c \in Call /\ UNCHANGED <<cluster, caches, restarts>>
      /\ call \in [Thread -> Call \cup {NoCall}] /\ backends \in [Service -> SUBSET Node]
      /\ queue \in [Thread -> SUBSET (Service \cup Node)]
      /\ Thread = {"service", "hosts", "endpoint", "node"}
  <2>1. c # NoCall /\ UNCHANGED <<cluster, caches, restarts>>
    BY <1>0 DEF Work, Filter, GetListeners, Apply
  <2> QED BY <1>0, <2>1 DEF SyncInv, TypeOK, Thread
<1>2. c.svc \in Local /\ c.svc \in Service
  BY <1>0, <1>1, SyncAssumption DEF LabelInv, Undisturbed
<1>3. \A s \in Labelled : backends'[s] = backends[s]
  <2>1. backends' = backends \/ \E bs : backends' = [backends EXCEPT ![c.svc] = bs]
    BY <1>0 DEF Work, Filter, GetListeners, Apply
  <2> QED BY <1>1, <1>2, <2>1, SyncAssumption
<1>4. /\ \A t \in {"service", "hosts", "node"} : call'[t] = call[t] /\ queue'[t] = queue[t]
      /\ pass' = pass /\ (call'["endpoint"] # NoCall => call'["endpoint"].svc = c.svc)
  <2>1. CASE Succeed("endpoint")
    BY <1>1, <2>1 DEF Succeed
  <2>2. CASE Fail("endpoint")
    BY <1>1, <2>2 DEF Fail, Retry, Enqueue
  <2>3. ASSUME NEW d, Goto("endpoint", d), d.svc = c.svc
        PROVE  /\ \A t \in {"service", "hosts", "node"} : call'[t] = call[t] /\ queue'[t] = queue[t]
               /\ pass' = pass /\ call'["endpoint"].svc = c.svc
    BY <1>1, <2>3 DEF Goto
  <2>4. \A ns : [c EXCEPT !.step = "listeners", !.want = ns].svc = c.svc
    BY <1>1 DEF Call
  <2>5. \A bs : [c EXCEPT !.step = "apply", !.have = bs].svc = c.svc
    BY <1>1 DEF Call
  <2>6. \/ Succeed("endpoint") \/ Fail("endpoint")
        \/ Goto("endpoint", [c EXCEPT !.step = "listeners",
                                      !.want = WithPods(c.svc, c.want, provCache[c.svc])])
        \/ Goto("endpoint", [c EXCEPT !.step = "apply", !.have = backends[c.svc]])
    BY <1>0 DEF Work, Filter, GetListeners, Apply
  <2> QED BY <2>1, <2>2, <2>3, <2>4, <2>5, <2>6
<1>5. Undisturbed'
  BY <1>1, <1>2, <1>4 DEF LabelInv, Undisturbed, cluster, caches, Ready
<1> QED BY <1>1, <1>3, <1>4, <1>5, LabelsElsewhere DEF caches

(* An event of a node enqueues its key when the label is another. *)
LEMMA NodeEventKeeps ==
    ASSUME SyncInv, LabelInv, NEW n \in Node, NodeEvent(n)
    PROVE  LabelInv'
<1>1. /\ node \in Nodes /\ nodeCache \in Nodes /\ nodeCache[n] # node[n]
      /\ nodeCache' = [nodeCache EXCEPT ![n] = node[n]]
      /\ UNCHANGED <<node, hosts, edits, restarts, call, pass, backends>>
  BY DEF NodeEvent, SyncInv, TypeOK, cluster
<1>2. node[n].ready = TRUE /\ nodeCache[n].ready = TRUE
  BY <1>1 DEF LabelInv, Undisturbed, Ready, Nodes, NodeState
<1>3. NeedsUpdate(nodeCache[n], node[n])
  BY <1>1, <1>2 DEF NeedsUpdate, Nodes, NodeState
<1>4. /\ queue'["node"] # {}
      /\ \A t \in {"service", "hosts"} : queue'[t] = queue[t]
  BY <1>3 DEF NodeEvent, Enqueue, SyncInv, TypeOK, Thread
<1>5. Undisturbed'
  <2>1. Ready(nodeCache)' = Node
    BY <1>1, <1>2 DEF LabelInv, Undisturbed, Ready, Nodes
  <2> QED BY <1>1, <1>4, <2>1 DEF LabelInv, Undisturbed, Ready
<1>6. PassRight' /\ RestRight'
  BY <1>1, <1>4 DEF LabelInv, PassRight, RestRight
<1>7. InTurn(call["node"])'
  BY <1>1 DEF LabelInv, InTurn
<1> QED BY <1>5, <1>6, <1>7 DEF LabelInv

(* A pass begins with the nodes there are, and calls for one service after
   the other. *)
LEMMA PassGoesOn ==
    ASSUME SyncInv, LabelInv,
           (\E n \in Node : NodeStart(n)) \/ (\E s \in Service : NodeNext(s))
    PROVE  LabelInv'
<1>1. /\ UNCHANGED <<cluster, caches, backends, restarts>>
      /\ call \in [Thread -> Call \cup {NoCall}] /\ pass \in Pass \cup {NoPass}
      /\ queue \in [Thread -> SUBSET (Service \cup Node)] /\ nodeCache \in Nodes
      /\ Thread = {"service", "hosts", "endpoint", "node"}
  BY DEF NodeStart, NodeNext, Frame, SyncInv, TypeOK, Thread
<1>2. ASSUME NEW n \in Node, NodeStart(n) PROVE LabelInv'
  <2>1. /\ pass = NoPass /\ call["node"] = NoCall /\ call' = call
        /\ \A t \in {"service", "hosts"} : queue'[t] = queue[t]
        /\ pass' = IF Labelled = {} THEN NoPass
                   ELSE [key |-> n, left |-> Labelled, nodes |-> nodeCache]
    BY <1>1, <1>2 DEF NodeStart, Take, SyncInv, CallInPass
  <2>2. Undisturbed'
    BY <1>1, <2>1 DEF LabelInv, Undisturbed, cluster, caches, Ready
  <2>3. CASE Labelled = {}
    BY <2>1, <2>2, <2>3 DEF LabelInv, InTurn, PassRight, RestRight
  <2>4. CASE Labelled # {}
    <3>1. pass' \in Pass /\ pass'.left = Labelled /\ pass'.nodes = nodeCache'
      BY <1>1, <2>1, <2>4, SyncAssumption DEF Pass, caches
    <3>2. pass' # NoPass
      BY <3>1, NoneAssumption
    <3> QED BY <2>1, <2>2, <3>1, <3>2 DEF LabelInv, InTurn, PassRight, RestRight
  <2> QED BY <2>3, <2>4
<1>3. ASSUME NEW s \in Service, NodeNext(s) PROVE LabelInv'
  <2>1. PICK c : c = NewCall(s, pass.nodes)
    OBVIOUS
  <2>2. /\ pass # NoPass /\ s \in pass.left /\ UNCHANGED <<queue, pass>>
        /\ call' = [call EXCEPT !["node"] = c]
    BY <1>3, <2>1 DEF NodeNext, NextOf
  <2>3. call'["node"] = c /\ \A t \in {"service", "hosts", "endpoint"} : call'[t] = call[t]
    BY <1>1, <2>2
  <2>4. c.svc = s /\ c.step = "filter" /\ c.want = Candidates(s, pass.nodes)
    BY <2>1 DEF NewCall
  <2>5. InTurn(c)'
    BY <2>2, <2>4 DEF InTurn
  <2>6. Undisturbed'
    BY <1>1, <2>2, <2>3 DEF LabelInv, Undisturbed, cluster, caches, Ready
  <2>7. PassRight' /\ RestRight'
    BY <1>1, <2>2 DEF LabelInv, PassRight, RestRight, caches
  <2> QED BY <2>3, <2>5, <2>6, <2>7 DEF LabelInv
<1> QED BY <1>2, <1>3

(* The cluster and the other controllers change nothing of it. *)
LEMMA OthersKeepLabels ==
    ASSUME LabelsOnly, SyncInv, LabelInv,
           \/ \E s \in Service : \/ PodsMove(s) \/ EditService(s) \/ ProviderSees(s)
                                 \/ EndpointEvent(s) \/ EndpointStart(s)
           \/ \E n \in Node : NodeChanges(n)
           \/ \E t \in Thread, s \in Service : ServiceStart(t, s)
           \/ HostsChange \/ Restart \/ UNCHANGED vars
    PROVE  LabelInv'
<1>1. /\ node \in Nodes /\ call \in [Thread -> Call \cup {NoCall}]
      /\ queue \in [Thread -> SUBSET (Service \cup Node)]
      /\ Thread = {"service", "hosts", "endpoint", "node"}
  BY DEF SyncInv, TypeOK, Thread
<1>2. ASSUME NEW s \in Service, PodsMove(s) \/ ProviderSees(s) PROVE LabelInv'
  <2>1. UNCHANGED <<node, nodeCache, hosts, edits, restarts, queue, call, pass, backends>>
    BY <1>2 DEF PodsMove, ProviderSees, cluster, caches
  <2> QED BY <2>1, LabelsElsewhere DEF LabelInv, Undisturbed, Ready
<1>3. ASSUME NEW s \in Service, EndpointEvent(s) PROVE LabelInv'
  <2>1. /\ UNCHANGED <<node, nodeCache, hosts, edits, restarts, call, pass, backends>>
        /\ \A t \in {"service", "hosts", "node"} : queue'[t] = queue[t]
    BY <1>1, <1>3 DEF EndpointEvent, EnqueueEndpoint, Enqueue, cluster
  <2> QED BY <2>1, LabelsElsewhere DEF LabelInv, Undisturbed, Ready
<1>4. ASSUME NEW s \in Service, EndpointStart(s) PROVE LabelInv'
  <2>1. /\ UNCHANGED <<node, nodeCache, hosts, edits, restarts, pass, backends>>
        /\ \A t \in {"service", "hosts", "node"} : queue'[t] = queue[t] /\ call'[t] = call[t]
        /\ call["endpoint"] = NoCall
        /\ call'["endpoint"] # NoCall => s \in Local /\ call'["endpoint"].svc = s
    BY <1>1, <1>4 DEF EndpointStart, Take, Frame, cluster, caches, NewCall
  <2>2. Undisturbed'
    BY <2>1 DEF LabelInv, Undisturbed, Ready
  <2> QED BY <2>1, <2>2, LabelsElsewhere
<1>5. ASSUME NEW n \in Node, NodeChanges(n) PROVE LabelInv'
  <2>1. /\ node' = [node EXCEPT ![n].label = ~@]
        /\ UNCHANGED <<nodeCache, hosts, edits, restarts, queue, call, pass, backends>>
    BY <1>5 DEF NodeChanges, LabelsOnly, caches
  <2>2. \A m \in Node : node'[m].ready = node[m].ready
    BY <1>1, <2>1 DEF Nodes, NodeState
  <2>3. Undisturbed'
    BY <2>1, <2>2 DEF LabelInv, Undisturbed, Ready
  <2> QED BY <2>1, <2>3, LabelsElsewhere
<1>6. ASSUME NEW s \in Service, EditService(s) PROVE FALSE
  BY <1>6 DEF EditService, LabelsOnly, LabelInv, Undisturbed
<1>7. ASSUME NEW t \in Thread, NEW s \in Service, ServiceStart(t, s) PROVE FALSE
  BY <1>7 DEF ServiceStart, Take, LabelInv, Undisturbed
<1>8. CASE HostsChange
  BY <1>8 DEF HostsChange, LabelInv, Undisturbed
<1>9. CASE Restart
  BY <1>9 DEF Restart, LabelsOnly, LabelInv, Undisturbed
<1>10. CASE UNCHANGED vars
  <2>1. UNCHANGED <<node, nodeCache, hosts, edits, restarts, queue, call, pass, backends>>
    BY <1>10 DEF vars, cluster, caches
  <2> QED BY <2>1, LabelsElsewhere DEF LabelInv, Undisturbed, Ready
<1> QED BY <1>2, <1>3, <1>4, <1>5, <1>6, <1>7, <1>8, <1>9, <1>10

(* At first every backend is where the labels ask for. *)
LEMMA LabelInit ==
    ASSUME Init
    PROVE  LabelInv
<1>1. /\ Ready(node) = Node /\ nodeCache = node /\ pass = NoPass
      /\ \A t \in Thread : queue[t] = {} /\ call[t] = NoCall
      /\ \A s \in Service : backends[s] = Wanted(s)
  BY DEF Init, Ready
<1>2. \A s \in Labelled : backends[s] = Candidates(s, nodeCache)
  BY <1>1, SyncAssumption DEF Wanted, WithPods
<1>3. Undisturbed
  BY <1>1 DEF Init, Undisturbed, Thread
<1> QED BY <1>1, <1>2, <1>3 DEF LabelInv, InTurn, PassRight, RestRight, Thread

(* Where only labels and pods change, the node controller forgets no change
   of the labels of any number of nodes: its handler looks at no key and lists
   the nodes once for all services, and it leaves the loop at the first service
   that fails, but then a key is put back, and an event that comes during a
   pass leaves one too. *)
THEOREM LabelsRemembered == LabelsOnly => (Spec => []LabelsNotForgotten)
<1> SUFFICES ASSUME LabelsOnly PROVE Spec => []LabelsNotForgotten
  OBVIOUS
<1>1. Init => SyncInv /\ LabelInv
  BY SyncInit, LabelInit
<1>2. SyncInv /\ [Next]_vars => SyncInv'
  BY SyncNext
<1>3. SyncInv /\ LabelInv /\ [Next]_vars => LabelInv'
  <2> SUFFICES ASSUME SyncInv, LabelInv, [Next]_vars PROVE LabelInv'
    OBVIOUS
  <2>1. ASSUME NEW t \in Thread, Work(t) PROVE LabelInv'
    <3>1. t \in {"service", "hosts"} => call[t] = NoCall
      BY DEF LabelInv, Undisturbed
    <3>2. call[t] # NoCall
      BY <2>1 DEF Work, Filter, GetListeners, Apply
    <3> QED BY <2>1, <3>1, <3>2, NodeCallKeeps, EndpointCallKeeps DEF Thread
  <2> QED BY <2>1, NodeEventKeeps, PassGoesOn, OthersKeepLabels DEF Next
<1>4. SyncInv /\ LabelInv => LabelsNotForgotten
  <2> SUFFICES ASSUME LabelInv, NEW s \in Labelled, nodeCache = node, queue["node"] = {},
                      ~(pass # NoPass /\ s \in pass.left)
               PROVE  backends[s] = Wanted(s)
    BY DEF LabelsNotForgotten
  <2>1. backends[s] = Candidates(s, node)
    BY DEF LabelInv, PassRight, RestRight
  <2> QED BY <2>1, SyncAssumption DEF Wanted, WithPods
<1> QED BY <1>1, <1>2, <1>3, <1>4, PTL DEF Spec
=============================================================================
