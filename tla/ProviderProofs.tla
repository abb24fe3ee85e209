--------------------------- MODULE ProviderProofs ---------------------------
(***************************************************************************)
(* What holds of the provider whoever calls it: nothing is assumed of the  *)
(* threads, of the operations they call, or of the objects they pass.      *)
(*                                                                         *)
(* Types.  Every variable keeps its type.                                  *)
(*                                                                         *)
(* Random choices.  getRandomNodes and GetRandomItems loop until they have *)
(* as many different items as they are asked for.  That they are never     *)
(* asked for more than there are is decided far from where they run: in    *)
(* filterNodes, several cloud calls earlier, by the count of nodes of that *)
(* time, and in diffBackend, from the backends the cloud had when they     *)
(* were read.                                                              *)
(*                                                                         *)
(* Ownership.  Nothing the user made by hand is destroyed.  Between the    *)
(* lookup that decides what a delete may remove and the calls that remove  *)
(* it other goroutines and the cloud move on; the decision stays right     *)
(* because what it rests on never changes: the names of load balancers,    *)
(* listeners and EIPs.                                                     *)
(***************************************************************************)
EXTENDS Provider, FiniteSetTheorems, TLAPS

-----------------------------------------------------------------------------
(* Selecting backends.                                                     *)

(* The number of backends wanted is a natural number that filterNodes never
   makes larger than the number of nodes it leaves. *)
LEMMA FilterNodesCount ==
    ASSUME NEW cfg \in BackendConfig, NEW nodes \in SUBSET Node, NEW ep \in EpSet
    PROVE  LET f == FilterNodes(cfg, nodes, ep)
           IN  f \in Selection /\ f.count <= Cardinality(f.nodes)
<1>0. Cardinality(nodes) \in Nat /\ IsFiniteSet(nodes)
  BY NodeAssumption, FS_Subset, FS_CardinalityType
<1>1. GetDefaultBackendCount(nodes) \in 0 .. Cardinality(nodes)
  BY <1>0 DEF GetDefaultBackendCount, DefaultBackendCount
<1>2. WantedCount(cfg, nodes) \in 0 .. Cardinality(nodes)
  BY <1>0, <1>1 DEF WantedCount, BackendConfig
<1>3. ASSUME NEW ns \in SUBSET nodes PROVE Cardinality(ns) \in Nat
  BY NodeAssumption, FS_Subset, FS_CardinalityType
<1>4. CASE cfg.local
  <2>1. ep \in (SUBSET Node) \cup {NoEndpoints}
    BY ProviderAssumption
  <2>2. FilterNodes(cfg, nodes, ep).nodes \in SUBSET nodes
    BY <1>4 DEF FilterNodes
  <2>3. FilterNodes(cfg, nodes, ep).ok \in BOOLEAN /\ FilterNodes(cfg, nodes, ep).count = 0
    BY <1>4 DEF FilterNodes
  <2> QED BY <1>4, <2>2, <2>3, <1>3 DEF FilterNodes, Selection
<1>5. CASE ~cfg.local
  <2>1. FilterNodes(cfg, nodes, ep) = FilterByConfig(cfg, nodes)
    BY <1>5 DEF FilterNodes
  <2>2. (nodes \cap NodesWith[cfg.label]) \in SUBSET nodes
    OBVIOUS
  <2> QED BY <2>1, <2>2, <1>0, <1>2, <1>3 DEF FilterByConfig, Selection
<1> QED BY <1>4, <1>5 DEF BackendConfig

(* getRandomNodes and GetRandomItems find what they are asked for when it is
   no more than they are given. *)
LEMMA RandomItemsExist ==
    ASSUME NEW items, IsFiniteSet(items), NEW k \in 0 .. Cardinality(items)
    PROVE  RandomItems(items, k) # {}
<1>1. Cardinality(items) \in Nat /\ ExistsBijection(1 .. Cardinality(items), items)
  BY FS_CardinalityType
<1>2. PICK f : f \in Bijection(1 .. Cardinality(items), items)
  BY <1>1 DEF ExistsBijection
<1> DEFINE r == { f[i] : i \in 1 .. k }
           g == [i \in 1 .. k |-> f[i]]
<1>3. k \in Nat /\ 1 .. k \subseteq 1 .. Cardinality(items)
  BY <1>1
<1>4. r \in SUBSET items
  BY <1>2, <1>3 DEF Bijection, Injection
<1>5. g \in Bijection(1 .. k, r)
  <2>1. g \in [1 .. k -> r]
    OBVIOUS
  <2>2. \A i, j \in 1 .. k : g[i] = g[j] => i = j
    BY <1>2, <1>3 DEF Bijection, Injection, IsInjective
  <2>3. \A x \in r : \E i \in 1 .. k : g[i] = x
    OBVIOUS
  <2> QED BY <2>1, <2>2, <2>3 DEF Bijection, Injection, Surjection, IsInjective
<1>6. Cardinality(r) = k
  BY <1>3, <1>5, FS_CountingElements DEF ExistsBijection
<1> QED BY <1>4, <1>6 DEF RandomItems

(* A listener's backends on selected nodes are at least as many as the nodes
   they are on. *)
LEMMA NodesOfBackends ==
    ASSUME NEW bs, IsFiniteSet(bs)
    PROVE  IsFiniteSet(NodesOf(bs)) /\ Cardinality(NodesOf(bs)) <= Cardinality(bs)
<1> DEFINE f == [b \in bs |-> b.node]
<1>1. f \in [bs -> NodesOf(bs)] /\ \A n \in NodesOf(bs) : \E b \in bs : f[b] = n
  BY DEF NodesOf
<1>2. f \in Surjection(bs, NodesOf(bs))
  BY <1>1 DEF Surjection
<1> QED BY <1>2, FS_Surjection

(* diffBackend terminates: whatever backends the listener has, also two on
   one node, it never asks for more random items than there are. *)
LEMMA DiffBackendExists ==
    ASSUME NEW bs, IsFiniteSet(bs), NEW sel \in SUBSET Node,
           NEW count \in 0 .. Cardinality(sel)
    PROVE  DiffBackend(bs, sel, count) # {}
<1> DEFINE gone == { b \in bs : b.node \notin sel }
           left == bs \ gone
           free == sel \ NodesOf(bs)
           surplus == Cardinality(left) - count
<1>1. IsFiniteSet(sel) /\ IsFiniteSet(left) /\ IsFiniteSet(free)
  <2>1. IsFiniteSet(sel)
    BY NodeAssumption, FS_Subset
  <2>2. IsFiniteSet(left)
    BY FS_Difference
  <2>3. IsFiniteSet(free)
    BY <2>1, FS_Difference
  <2> QED BY <2>1, <2>2, <2>3
<1>2. Cardinality(sel) \in Nat /\ Cardinality(left) \in Nat /\ Cardinality(free) \in Nat
  BY <1>1, FS_CardinalityType
<1>3. Cardinality(free) = Cardinality(sel) - Cardinality(sel \cap NodesOf(bs))
  BY <1>1, FS_Difference
<1>4. sel \cap NodesOf(bs) = NodesOf(left)
  BY DEF NodesOf
<1>5. Cardinality(NodesOf(left)) <= Cardinality(left) /\ Cardinality(NodesOf(left)) \in Nat
  BY <1>1, NodesOfBackends, FS_CardinalityType
<1>6. -surplus <= Cardinality(free)
  <2>1. Cardinality(free) = Cardinality(sel) - Cardinality(NodesOf(left))
    BY <1>3, <1>4
  <2>2. Cardinality(sel) >= count /\ count \in Nat
    BY <1>2
  <2> HIDE DEF left, free
  <2> QED BY <1>2, <1>5, <2>1, <2>2
<1>7. CASE count = 0
  BY <1>7 DEF DiffBackend
<1>8. CASE count # 0 /\ surplus > 0
  <2>1. surplus \in 0 .. Cardinality(left)
    BY <1>2, <1>8
  <2>2. RandomItems(left, surplus) # {}
    BY <1>1, <2>1, RandomItemsExist
  <2> QED BY <1>8, <2>2 DEF DiffBackend
<1>9. CASE count # 0 /\ ~(surplus > 0)
  <2>1. -surplus \in 0 .. Cardinality(free)
    BY <1>2, <1>6, <1>9
  <2>2. RandomItems(free, -surplus) # {}
    BY <1>1, <2>1, RandomItemsExist
  <2> QED BY <1>9, <2>2 DEF DiffBackend
<1> QED BY <1>7, <1>8, <1>9

(* What diffBackend takes off and puts on a listener. *)
LEMMA DiffBackendType ==
    ASSUME NEW bs, NEW sel, NEW count, NEW d \in DiffBackend(bs, sel, count)
    PROVE  d.del \in SUBSET bs /\ d.add \in SUBSET sel
BY DEF DiffBackend, RandomItems

-----------------------------------------------------------------------------
(* Type correctness: the cloud.                                            *)

LEMMA UnappliedType ==
    ASSUME CloudTypeOK, NEW ls
    PROVE  Unapplied(ls) \in [LB -> LBRecord]
BY DEF CloudTypeOK, Unapplied, LBRecord

LEMMA CreateLBType ==
    ASSUME CloudTypeOK, NEW l \in LB, NEW name \in Service \cup {Anon},
           NEW attr \in Attr, NEW vxnet \in BOOLEAN, NEW es,
           CreateLBEffect(l, name, attr, vxnet, es)
    PROVE  CloudTypeOK'
BY DEF CloudTypeOK, CreateLBEffect, LBRecord

LEMMA ModifyLBType ==
    ASSUME CloudTypeOK, NEW l, NEW attr \in Attr, ModifyLBEffect(l, attr)
    PROVE  CloudTypeOK'
BY DEF CloudTypeOK, ModifyLBEffect, LBRecord

LEMMA UpdateLBType ==
    ASSUME CloudTypeOK, NEW l, UpdateLBEffect(l)
    PROVE  CloudTypeOK'
BY DEF CloudTypeOK, UpdateLBEffect, LBRecord

LEMMA DeleteLBType ==
    ASSUME CloudTypeOK, NEW l, DeleteLBEffect(l)
    PROVE  CloudTypeOK'
BY DEF CloudTypeOK, DeleteLBEffect, LBRecord

LEMMA EIPType ==
    ASSUME CloudTypeOK, NEW es, NEW l,
           \/ l \in LB /\ AssociateEffect(l, es)
           \/ DissociateEffect(es)
           \/ ReleaseEffect(es)
           \/ AllocateEffect(l)
    PROVE  CloudTypeOK'
BY DEF CloudTypeOK, AssociateEffect, DissociateEffect, ReleaseEffect, AllocateEffect

LEMMA ListenersType ==
    ASSUME CloudTypeOK, NEW l, NEW xs,
           \/ xs \subseteq Listener /\ AddListenersEffect(l, xs)
           \/ DeleteListenersEffect(xs)
    PROVE  CloudTypeOK'
BY UnappliedType DEF CloudTypeOK, AddListenersEffect, DeleteListenersEffect

LEMMA BackendsType ==
    ASSUME CloudTypeOK, NEW x, NEW bs,
           \/ bs \subseteq Backend /\ AddBackendsEffect(x, bs)
           \/ DeleteBackendsEffect(bs)
    PROVE  CloudTypeOK'
BY UnappliedType DEF CloudTypeOK, AddBackendsEffect, DeleteBackendsEffect

LEMMA CloudUnchanged ==
    ASSUME CloudTypeOK, UNCHANGED cloudVars
    PROVE  CloudTypeOK'
BY DEF CloudTypeOK, cloudVars

-----------------------------------------------------------------------------
(* Type correctness: the threads.                                          *)

LEMMA NoPlanType == NoPlan \in Plan
BY DEF NoPlan, Plan

LEMMA NoViewType == NoView \in View
BY CloudAssumption DEF NoView, View

LEMMA ReturnType ==
    ASSUME ThreadTypeOK, NEW t \in Thread, pc[t] # "idle", NEW r \in Results, Return(t, r)
    PROVE  ThreadTypeOK'
<1>1. req[t] \in Request
  BY DEF ThreadTypeOK
<1>2. [NoPlan EXCEPT !.sel = plan[t].sel, !.count = plan[t].count] \in Plan
  BY NoPlanType DEF ThreadTypeOK, Plan
<1>3. [NoView EXCEPT !.lb = view[t].lb] \in View
  BY NoViewType DEF ThreadTypeOK, View
<1>4. r \in PC /\ r # "idle"
  BY DEF PC, Results
<1> QED BY <1>1, <1>2, <1>3, <1>4 DEF Return, Goto, ThreadTypeOK

LEMMA GotoWithType ==
    ASSUME ThreadTypeOK, NEW t \in Thread, pc[t] # "idle", NEW step \in PC, NEW p \in Plan,
           GotoWith(t, step, p)
    PROVE  ThreadTypeOK'
<1>1. req[t] \in Request
  BY DEF ThreadTypeOK
<1> QED BY <1>1 DEF GotoWith, Goto, ThreadTypeOK

LEMMA ViewOfType ==
    ASSUME CloudTypeOK, NEW l \in LB, NEW s
    PROVE  ViewOf(l, s) \in View
<1>1. lbs[l].attr \in Attr /\ HasVIP(l) \in BOOLEAN
  BY DEF CloudTypeOK, LBRecord, HasVIP
<1>2. EIPsOf(l) \in SUBSET EIP /\ CreatedEIPs(EIPsOf(l)) \in SUBSET EIP
  BY DEF EIPsOf, CreatedEIPs
<1>3. { x \in ListenersOf(l) : x.svc = s } \in SUBSET Listener
  BY DEF ListenersOf, CloudTypeOK
<1> QED BY <1>1, <1>2, <1>3 DEF ViewOf, View

LEMMA LookupType ==
    ASSUME NEW op, NEW o
    PROVE  Lookup(op, o) \in SUBSET LB
BY DEF Lookup, ByName, Exists

(* Whatever a step does besides, it leaves the endpoint cache alone and
   counts failures up to their bound. *)
LEMMA RestType ==
    ASSUME TypeOK, UNCHANGED eps, Fault \/ UNCHANGED faults
    PROVE  (eps \in [Service -> EpSet])' /\ (faults \in 0 .. MaxFaults)'
BY ProviderAssumption DEF TypeOK, Fault

LEMMA RequestType ==
    ASSUME TypeOK, NEW t \in Thread, pc[t] # "idle"
    PROVE  /\ req[t] \in Request
           /\ req[t].obj \in ServiceObject /\ req[t].obj \in Object
           /\ req[t].nodes \in SUBSET Node
           /\ view[t] \in View /\ plan[t] \in Plan
           /\ eps[req[t].obj.svc] \in EpSet
<1>1. req[t] \in Request
  BY DEF TypeOK, ThreadTypeOK
<1>2. req[t].obj \in ServiceObject /\ req[t].obj \in Object
  BY <1>1, ProviderAssumption DEF Request
<1>3. req[t].obj.svc \in Service
  BY <1>2 DEF ServiceObject
<1> QED BY <1>1, <1>2, <1>3 DEF TypeOK, ThreadTypeOK, Request

LEMMA SelectedType ==
    ASSUME TypeOK, NEW t \in Thread, pc[t] # "idle"
    PROVE  LET f == FilterNodes(req[t].obj.cfg, req[t].nodes, eps[req[t].obj.svc])
           IN  /\ f \in Selection
               /\ f.nodes \in SUBSET Node /\ f.count \in Nat
               /\ f.count <= Cardinality(f.nodes)
<1>1. req[t].obj.cfg \in BackendConfig
  BY RequestType DEF ServiceObject
<1> QED BY <1>1, RequestType, FilterNodesCount DEF Selection

(* The ways every step ends: an error, or one of the two outcomes above. *)
LEMMA EndType ==
    ASSUME TypeOK, NEW t \in Thread, pc[t] \in Steps,
           CloudTypeOK' \/ UNCHANGED cloudVars, UNCHANGED eps, Fault \/ UNCHANGED faults,
           \/ Return(t, "error") \/ Return(t, "ok")
           \/ \E step \in PC, p \in Plan : GotoWith(t, step, p)
           \/ ThreadTypeOK'
    PROVE  TypeOK'
<1>1. pc[t] # "idle" /\ {"ok", "error"} \subseteq Results
  BY DEF Steps, Results
<1>2. CloudTypeOK'
  BY CloudUnchanged DEF TypeOK
<1>3. ThreadTypeOK'
  BY <1>1, ReturnType, GotoWithType DEF TypeOK
<1> QED BY <1>2, <1>3, RestType DEF TypeOK

(* What a lookup writes into a thread's plan. *)
LEMMA LookupPlan ==
    ASSUME NEW p \in Plan, NEW ds \in SUBSET Listener, NEW ns \in SUBSET Node, NEW n \in Nat
    PROVE  /\ [p EXCEPT !.delLsn = ds] \in Plan /\ [p EXCEPT !.delLsn = ds].delLsn = ds
           /\ [p EXCEPT !.sel = ns, !.count = n] \in Plan
           /\ [p EXCEPT !.sel = ns, !.count = n].delLsn = p.delLsn
<1>1. [p EXCEPT !.delLsn = ds] \in Plan /\ [p EXCEPT !.delLsn = ds].delLsn = ds
  BY DEF Plan
<1>2. [p EXCEPT !.sel = ns, !.count = n] \in Plan
  BY DEF Plan
<1>3. [p EXCEPT !.sel = ns, !.count = n].delLsn = p.delLsn
  BY DEF Plan
<1> QED BY <1>1, <1>2, <1>3

LEMMA GetLoadBalancerType ==
    ASSUME TypeOK, NEW t \in Thread, GetLoadBalancer(t)
    PROVE  TypeOK'
<1> DEFINE op == req[t].op
           o == req[t].obj
           f == FilterNodes(o.cfg, req[t].nodes, eps[o.svc])
<1>1. pc[t] # "idle"
  BY DEF GetLoadBalancer
<1>2. UNCHANGED cloudVars /\ UNCHANGED eps /\ (Fault \/ UNCHANGED faults)
  BY DEF GetLoadBalancer, Reject, Local
<1>3. CloudTypeOK'
  BY <1>2, CloudUnchanged DEF TypeOK
<1>4. ASSUME NEW r \in Results, Return(t, r) PROVE ThreadTypeOK'
  BY <1>1, <1>4, ReturnType DEF TypeOK
<1>5. ASSUME NEW l \in LB, FoundForDelete(t, ViewOf(l, o.svc)) PROVE ThreadTypeOK'
  <2> DEFINE v == ViewOf(l, o.svc)
  <2>1. CASE Return(t, "ok")
    BY <2>1, <1>4 DEF Results
  <2>2. CASE ~Return(t, "ok")
    <3>1. v \in View /\ v.own \in SUBSET Listener
      BY ViewOfType DEF TypeOK, View
    <3> DEFINE only == OnlyListeners(o, v)
               d == IF only THEN v.own ELSE {}
               step == IF only THEN "dellsn" ELSE "dellb"
    <3>2. /\ view' = [view EXCEPT ![t] = v]
          /\ plan' = [plan EXCEPT ![t].delLsn = d]
          /\ Goto(t, step) /\ UNCHANGED req
      BY <1>5, <2>2 DEF FoundForDelete
    <3>3. d \in SUBSET Listener
      BY <3>1
    <3>4. step \in PC
      BY DEF PC, Steps
    <3> HIDE DEF v, d, step
    <3>5. [plan[t] EXCEPT !.delLsn = d] \in Plan
      BY <1>1, <3>3, RequestType DEF Plan
    <3> QED BY <1>1, <3>1, <3>2, <3>5, <3>4, RequestType DEF TypeOK, ThreadTypeOK, Goto
  <2> QED BY <2>1, <2>2
<1>6. ASSUME NEW l \in LB, Found(t, l) PROVE ThreadTypeOK'
  <2>1. CASE Return(t, "ok") \/ Return(t, "error")
    BY <2>1, <1>4 DEF Results
  <2>2. CASE FoundForDelete(t, ViewOf(l, o.svc))
    BY <2>2, <1>5
  <2>3. CASE /\ view' = [view EXCEPT ![t] = ViewOf(l, o.svc)]
             /\ plan' = [plan EXCEPT ![t].sel = f.nodes, ![t].count = f.count]
             /\ Goto(t, IF op = "ensure" THEN "modify" ELSE "listeners")
             /\ UNCHANGED req
    <3>1. f.nodes \in SUBSET Node /\ f.count \in Nat
      BY <1>1, SelectedType
    <3>2. ViewOf(l, o.svc) \in View
      BY ViewOfType DEF TypeOK
    <3> HIDE DEF f, o
    <3>3. [plan[t] EXCEPT !.sel = f.nodes, !.count = f.count] \in Plan
      BY <3>1, LookupPlan DEF TypeOK, ThreadTypeOK
    <3>4. plan' = [plan EXCEPT ![t] = [plan[t] EXCEPT !.sel = f.nodes, !.count = f.count]]
      BY <2>3, <3>3 DEF TypeOK, ThreadTypeOK
    <3>5. {"modify", "listeners"} \subseteq PC
      BY DEF PC, Steps
    <3> QED BY <1>1, <2>3, <3>2, <3>3, <3>4, <3>5, RequestType DEF TypeOK, ThreadTypeOK, Goto
  <2> QED BY <1>6, <2>1, <2>2, <2>3 DEF Found
<1>7. ASSUME NotFound(t) PROVE ThreadTypeOK'
  <2>1. CASE \E r \in Results : Return(t, r)
    BY <2>1, <1>4
  <2>2. CASE GotoWith(t, CreateStep(o), [plan[t] EXCEPT !.sel = f.nodes, !.count = f.count,
                                       !.addEip = o.eipIDs, !.addPort = o.ports,
                                       !.modify = TRUE])
    <3>1. f.nodes \in SUBSET Node /\ f.count \in Nat
      BY <1>1, SelectedType
    <3>2. o.eipIDs \in SUBSET EIP /\ o.ports \in SUBSET PortSpec
      BY <1>1, RequestType DEF ServiceObject
    <3>3. CreateStep(o) \in PC
      BY DEF CreateStep, PrepareStep, PC, Steps
    <3> HIDE DEF f, o
    <3>4. [plan[t] EXCEPT !.sel = f.nodes, !.count = f.count, !.addEip = o.eipIDs,
                          !.addPort = o.ports, !.modify = TRUE] \in Plan
      <4>1. PICK p, ns, n, es, ps : /\ p = plan[t] /\ ns = f.nodes /\ n = f.count
                                    /\ es = o.eipIDs /\ ps = o.ports
        OBVIOUS
      <4>2. /\ p \in Plan /\ ns \in SUBSET Node /\ n \in Nat
            /\ es \in SUBSET EIP /\ ps \in SUBSET PortSpec
        BY <3>1, <3>2, <4>1 DEF TypeOK, ThreadTypeOK
      <4>3. [p EXCEPT !.sel = ns, !.count = n, !.addEip = es, !.addPort = ps,
                      !.modify = TRUE] \in Plan
        BY <4>2 DEF Plan
      <4> QED BY <4>1, <4>3, Zenon
    <3> QED BY <1>1, <2>2, <3>3, <3>4, GotoWithType DEF TypeOK
  <2>3. {"absent", "ok", "error"} \subseteq Results
    BY DEF Results
  <2> QED BY <1>7, <2>1, <2>2, <2>3 DEF NotFound
<1>8. ThreadTypeOK'
  <2>1. {"absent", "error"} \subseteq Results
    BY DEF Results
  <2>2. Lookup(op, o) \in SUBSET LB
    BY LookupType
  <2> QED BY <1>4, <1>6, <1>7, <2>1, <2>2 DEF GetLoadBalancer, Reject, Local
<1> QED BY <1>2, <1>3, <1>8, RestType DEF TypeOK

LEMMA ModifyLBStepType ==
    ASSUME TypeOK, NEW t \in Thread, ModifyLB(t)
    PROVE  TypeOK'
<1> DEFINE o == req[t].obj
           l == view[t].lb
           p == [plan[t] EXCEPT !.modify = TRUE]
<1>1. pc[t] \in Steps /\ pc[t] # "idle" /\ "eip" \in PC
  BY DEF ModifyLB, Steps, PC
<1>2. p \in Plan /\ plan[t] \in Plan
  BY <1>1, RequestType DEF Plan
<1>3. CASE ~NeedUpdateAttr(o, view[t])
  <2>1. GotoWith(t, "eip", plan[t]) /\ UNCHANGED <<cloudVars, eps, faults>>
    BY <1>3 DEF ModifyLB, Local
  <2> QED BY <1>1, <1>2, <2>1, EndType
<1>4. CASE NeedUpdateAttr(o, view[t])
  <2>1. o.attr \in Attr
    BY <1>1, <1>4, RequestType DEF NeedUpdateAttr, ServiceObject
  <2>2. Call(t, Exists(l), ModifyLBEffect(l, o.attr), GotoWith(t, "eip", p))
    BY <1>4 DEF ModifyLB
  <2>3. /\ CloudTypeOK' \/ UNCHANGED cloudVars
        /\ UNCHANGED eps /\ (Fault \/ UNCHANGED faults)
        /\ Return(t, "error") \/ GotoWith(t, "eip", p)
    <3> HIDE DEF o, l, p
    <3> QED BY <2>1, <2>2, ModifyLBType DEF Call, TypeOK
  <2> QED BY <1>1, <1>2, <2>3, EndType
<1> QED BY <1>3, <1>4

LEMMA UpdateLBEipType ==
    ASSUME TypeOK, NEW t \in Thread, UpdateLBEip(t)
    PROVE  TypeOK'
<1> DEFINE o == req[t].obj
           d == DiffLBEip(o, view[t])
           p == [plan[t] EXCEPT !.addEip = d.add, !.delEip = d.del]
<1>1. pc[t] \in Steps /\ pc[t] # "idle"
  BY DEF UpdateLBEip, Steps
<1>2. {"listeners", "associate", "dissociate", PrepareStep(o)} \subseteq PC
  BY DEF PC, Steps, PrepareStep
<1>3. d.add \in SUBSET EIP /\ d.del \in SUBSET EIP
  BY <1>1, RequestType DEF DiffLBEip, ServiceObject, View
<1>4. plan[t] \in Plan /\ p \in Plan
  <2> HIDE DEF d
  <2> QED BY <1>1, <1>3, RequestType DEF Plan
<1>5. /\ UNCHANGED <<cloudVars, eps, faults>>
      /\ \E step \in PC, q \in {plan[t], p} : GotoWith(t, step, q)
  <2> HIDE DEF p
  <2> QED BY <1>2 DEF UpdateLBEip, Local, p
<1> QED BY <1>1, <1>4, <1>5, EndType

LEMMA UseEipType ==
    ASSUME TypeOK, NEW t \in Thread, pc[t] \in Steps, NEW e \in EIP, UseEip(t, e)
    PROVE  \E step \in PC, p \in Plan : GotoWith(t, step, p)
<1> DEFINE p == [plan[t] EXCEPT !.addEip = {e}]
<1>1. p \in Plan
  BY RequestType DEF Plan, Steps
<1>2. {"create", "associate"} \subseteq PC
  BY DEF PC, Steps
<1> QED BY <1>1, <1>2 DEF UseEip

LEMMA PrepareEipType ==
    ASSUME TypeOK, NEW t \in Thread, GetAvailableEIP(t) \/ AllocateEIP(t)
    PROVE  TypeOK'
<1>1. pc[t] \in Steps /\ pc[t] # "idle" /\ "allocate" \in PC /\ plan[t] \in Plan
  BY RequestType DEF GetAvailableEIP, AllocateEIP, Steps, PC
<1>2. ASSUME NEW e \in EIP, UseEip(t, e)
      PROVE  \E step \in PC, p \in Plan : GotoWith(t, step, p)
  BY <1>1, <1>2, UseEipType
<1>3. CASE GetAvailableEIP(t)
  <2>1. /\ UNCHANGED <<cloudVars, eps>> /\ (Fault \/ UNCHANGED faults)
        /\ \/ Return(t, "error")
           \/ \E step \in PC, p \in Plan : GotoWith(t, step, p)
    BY <1>1, <1>2, <1>3 DEF GetAvailableEIP, Read, Local, AvailableEIPs
  <2> QED BY <1>1, <2>1, EndType
<1>4. CASE AllocateEIP(t)
  <2>1. ASSUME NEW e \in EIP, AllocateEffect(e) PROVE CloudTypeOK'
    BY <2>1, EIPType DEF TypeOK
  <2>2. /\ CloudTypeOK' \/ UNCHANGED cloudVars
        /\ UNCHANGED eps /\ (Fault \/ UNCHANGED faults)
        /\ \/ Return(t, "error")
           \/ \E step \in PC, p \in Plan : GotoWith(t, step, p)
    BY <1>2, <1>4, <2>1 DEF AllocateEIP, Call, Reject, Local
  <2> QED BY <1>1, <2>2, EndType
<1> QED BY <1>3, <1>4

LEMMA AssociationType ==
    ASSUME TypeOK, NEW t \in Thread, AssociateEIPs(t) \/ DissociateEIPs(t)
    PROVE  TypeOK'
<1> DEFINE l == view[t].lb
           p == plan[t]
<1>1. pc[t] \in Steps /\ pc[t] # "idle" /\ {"dissociate", "refresh"} \subseteq PC /\ p \in Plan
  BY RequestType DEF AssociateEIPs, DissociateEIPs, Steps, PC
<1>2. CanAssociate(l, p.addEip) /\ AssociateEffect(l, p.addEip) => CloudTypeOK'
  BY EIPType DEF TypeOK, CanAssociate, Exists
<1>3. DissociateEffect(p.delEip) => CloudTypeOK'
  BY EIPType DEF TypeOK
<1>4. /\ CloudTypeOK' \/ UNCHANGED cloudVars
      /\ UNCHANGED eps /\ (Fault \/ UNCHANGED faults)
      /\ \/ Return(t, "error")
         \/ \E step \in PC : GotoWith(t, step, p)
  BY <1>1, <1>2, <1>3 DEF AssociateEIPs, DissociateEIPs, Call
<1> QED BY <1>1, <1>4, EndType

LEMMA RefreshStatusType ==
    ASSUME TypeOK, NEW t \in Thread, RefreshStatus(t)
    PROVE  TypeOK'
<1> DEFINE o == req[t].obj
           status(l) == [ViewOf(l, o.svc) EXCEPT !.eips = view[t].eips, !.attr = view[t].attr]
<1>1. pc[t] \in Steps /\ pc[t] # "idle" /\ "listeners" \in PC /\ "listeners" # "idle"
  BY DEF RefreshStatus, Steps, PC
<1>2. ASSUME NEW l \in LB PROVE status(l) \in View
  BY <1>1, ViewOfType, RequestType DEF TypeOK, View
<1>3. ByName(LookupName("ensure", o)) \in SUBSET LB
  BY DEF ByName
<1>4. /\ UNCHANGED <<cloudVars, eps>> /\ (Fault \/ UNCHANGED faults)
      /\ \/ Return(t, "error")
         \/ \E l \in LB : /\ view' = [view EXCEPT ![t] = status(l)]
                         /\ Goto(t, "listeners") /\ UNCHANGED <<req, plan>>
  BY <1>3 DEF RefreshStatus, Read, Local
<1>5. ASSUME NEW l \in LB, view' = [view EXCEPT ![t] = status(l)],
             Goto(t, "listeners"), UNCHANGED <<req, plan>>
      PROVE  ThreadTypeOK'
  <2> HIDE DEF status
  <2> QED BY <1>1, <1>2, <1>5, RequestType DEF TypeOK, ThreadTypeOK, Goto
<1> QED BY <1>1, <1>4, <1>5, EndType

LEMMA CreateLBStepType ==
    ASSUME TypeOK, NEW t \in Thread, CreateLB(t)
    PROVE  TypeOK'
<1> DEFINE o == req[t].obj
           es == plan[t].addEip
           attr == IF o.attr = NoAttr THEN DefaultAttr ELSE o.attr
           name == LookupName("ensure", o)
           created(l) == [NoView EXCEPT !.lb = l, !.vip = TRUE, !.attr = attr]
<1>1. pc[t] \in Steps /\ pc[t] # "idle" /\ "addlsn" \in PC /\ "addlsn" # "idle"
  BY DEF CreateLB, Steps, PC
<1>2. attr \in Attr /\ name \in Service \cup {Anon} /\ o.vxnet \in BOOLEAN
  BY <1>1, RequestType, CloudAssumption DEF ServiceObject, LookupName
<1>3. ASSUME NEW l \in LB PROVE created(l) \in View
  BY <1>2, NoViewType DEF View
<1>4. ASSUME NEW l \in LB, CreateLBEffect(l, name, attr, o.vxnet, es) PROVE CloudTypeOK'
  BY <1>2, <1>4, CreateLBType DEF TypeOK
<1>5. ASSUME NEW l \in LB, view' = [view EXCEPT ![t] = created(l)],
             Goto(t, "addlsn"), UNCHANGED <<req, plan>>
      PROVE  ThreadTypeOK'
  <2> HIDE DEF created
  <2> QED BY <1>1, <1>3, <1>5, RequestType DEF TypeOK, ThreadTypeOK, Goto
<1>6. /\ CloudTypeOK' \/ UNCHANGED cloudVars
      /\ UNCHANGED eps /\ (Fault \/ UNCHANGED faults)
      /\ Return(t, "error") \/ ThreadTypeOK'
  BY <1>4, <1>5 DEF CreateLB, Call, Reject, Local
<1> QED BY <1>1, <1>6, EndType

LEMMA GetListenersType ==
    ASSUME TypeOK, NEW t \in Thread, GetListeners(t)
    PROVE  TypeOK'
<1> DEFINE o == req[t].obj
           xs == view[t].own \cap listeners
           bs == { b \in backends : b.lsn \in xs }
<1>1. pc[t] \in Steps /\ pc[t] # "idle" /\ {"addlsn", "sync", "dellsn"} \subseteq PC
  BY DEF GetListeners, Steps, PC
<1>2. xs \in SUBSET Listener /\ bs \in SUBSET Backend
  BY DEF TypeOK, CloudTypeOK
<1>3. o.ports \in SUBSET PortSpec /\ plan[t] \in Plan
  BY <1>1, RequestType DEF ServiceObject
<1> HIDE DEF xs, bs
<1>4. [plan[t] EXCEPT !.addPort = o.ports, !.modify = TRUE] \in Plan
  BY <1>3 DEF Plan
<1>5. [plan[t] EXCEPT !.todo = xs, !.snap = bs] \in Plan
  BY <1>2, <1>3 DEF Plan
<1>6. ASSUME NEW first
      PROVE  LET d == DiffListeners(xs, first, o.ports)
             IN  [plan[t] EXCEPT !.delLsn = d.del, !.addPort = d.add,
                                 !.todo = d.keep, !.snap = bs] \in Plan
  <2> DEFINE d == DiffListeners(xs, first, o.ports)
  <2>1. d.del \in SUBSET Listener /\ d.keep \in SUBSET Listener /\ d.add \in SUBSET PortSpec
    BY <1>2, <1>3 DEF DiffListeners
  <2> HIDE DEF d
  <2>2. [plan[t] EXCEPT !.delLsn = d.del, !.addPort = d.add,
                        !.todo = d.keep, !.snap = bs] \in Plan
    BY <1>2, <1>3, <2>1 DEF Plan
  <2> QED BY <2>2 DEF d
<1>7. /\ UNCHANGED <<cloudVars, eps>> /\ (Fault \/ UNCHANGED faults)
      /\ \/ Return(t, "error") \/ Return(t, "ok")
         \/ \E step \in PC, p \in Plan : GotoWith(t, step, p)
  BY <1>1, <1>4, <1>5, <1>6 DEF GetListeners, Read, Local, xs, bs
<1> QED BY <1>1, <1>7, EndType

LEMMA DeleteListenerType ==
    ASSUME TypeOK, NEW t \in Thread, DeleteListener(t)
    PROVE  TypeOK'
<1>1. pc[t] \in Steps /\ pc[t] # "idle" /\ {"apply", "addlsn"} \subseteq PC
  BY DEF DeleteListener, Steps, PC
<1>2. [plan[t] EXCEPT !.modify = TRUE] \in Plan
  BY <1>1, RequestType DEF Plan
<1>3. DeleteListenersEffect(plan[t].delLsn) => CloudTypeOK'
  BY ListenersType DEF TypeOK
<1>4. /\ CloudTypeOK' \/ UNCHANGED cloudVars
      /\ UNCHANGED eps /\ (Fault \/ UNCHANGED faults)
      /\ \/ Return(t, "error")
         \/ \E step \in PC, p \in Plan : GotoWith(t, step, p)
  BY <1>1, <1>2, <1>3 DEF DeleteListener, Call
<1> QED BY <1>1, <1>4, EndType

LEMMA CreateListenerType ==
    ASSUME TypeOK, NEW t \in Thread, CreateListener(t)
    PROVE  TypeOK'
<1> DEFINE l == view[t].lb
           ports == plan[t].addPort
           new(g) == NewListeners(l, req[t].obj.svc, ports, g)
<1>1. pc[t] \in Steps /\ pc[t] # "idle" /\ {"sync", "getnew"} \subseteq PC
  BY DEF CreateListener, Steps, PC
<1>2. plan[t] \in Plan /\ ports \in SUBSET PortSpec /\ req[t].obj.svc \in Service
  BY <1>1, RequestType DEF Plan, ServiceObject
<1>3. ASSUME NEW g \in Gen, l \in LB PROVE new(g) \in SUBSET Listener
  BY <1>2, <1>3 DEF NewListeners, Listener, PortSpec
<1>4. ASSUME NEW g \in Gen, l \in LB
      PROVE  [plan[t] EXCEPT !.new = new(g), !.modify = TRUE] \in Plan
  <2> HIDE DEF new
  <2> QED BY <1>2, <1>3, <1>4 DEF Plan
<1>5. ASSUME NEW g \in Gen, CanAddListeners(l, new(g)), AddListenersEffect(l, new(g))
      PROVE  CloudTypeOK'
  <2>1. l \in LB
    BY <1>5 DEF CanAddListeners, Exists
  <2>2. new(g) \subseteq Listener
    BY <1>3, <2>1
  <2> QED BY <1>5, <2>2, ListenersType DEF TypeOK
<1>6. /\ CloudTypeOK' \/ UNCHANGED cloudVars
      /\ UNCHANGED eps /\ (Fault \/ UNCHANGED faults)
      /\ \/ Return(t, "error")
         \/ \E step \in PC, p \in Plan : GotoWith(t, step, p)
  <2>1. CASE ports = {}
    BY <1>1, <1>2, <2>1 DEF CreateListener, Local
  <2>2. CASE ports # {} /\ Reject(t)
    BY <2>2 DEF Reject, Local
  <2>3. CASE ports # {} /\ ~Reject(t)
    <3>1. PICK g \in Gen :
            Call(t, CanAddListeners(l, new(g)), AddListenersEffect(l, new(g)),
                 GotoWith(t, "getnew", [plan[t] EXCEPT !.new = new(g), !.modify = TRUE]))
      BY <2>3 DEF CreateListener, FreshGen
    <3>2. CanAddListeners(l, new(g)) => l \in LB
      BY DEF CanAddListeners, Exists
    <3> QED BY <1>1, <1>4, <1>5, <3>1, <3>2 DEF Call
  <2> QED BY <2>1, <2>2, <2>3
<1> QED BY <1>1, <1>6, EndType

LEMMA GetNewListenersType ==
    ASSUME TypeOK, NEW t \in Thread, GetNewListeners(t)
    PROVE  TypeOK'
<1> DEFINE p == plan[t]
           xs == p.new \cap listeners
           bs == { b \in backends : b.lsn \in xs }
           chosen == IF p.count = 0 THEN {p.sel} ELSE RandomItems(p.sel, p.count)
           q(r) == [p EXCEPT !.new = xs, !.addNode = r, !.snap = p.snap \cup bs]
<1>1. pc[t] \in Steps /\ pc[t] # "idle" /\ {"fill", "hang"} \subseteq PC
  BY DEF GetNewListeners, Steps, PC
<1>2. p \in Plan /\ p.sel \in SUBSET Node /\ p.snap \in SUBSET Backend
  BY <1>1, RequestType DEF Plan
<1>3. xs \in SUBSET Listener /\ bs \in SUBSET Backend
  BY DEF TypeOK, CloudTypeOK
<1>4. chosen \in SUBSET SUBSET Node
  BY <1>2 DEF RandomItems
<1>5. ASSUME NEW r \in chosen PROVE q(r) \in Plan
  <2>1. p.snap \cup bs \in SUBSET Backend /\ r \in SUBSET Node
    BY <1>2, <1>3, <1>4
  <2> HIDE DEF p, xs, bs, chosen
  <2> QED BY <1>2, <1>3, <2>1 DEF Plan
<1>6. /\ UNCHANGED <<cloudVars, eps>> /\ (Fault \/ UNCHANGED faults)
      /\ \/ Return(t, "error")
         \/ GotoWith(t, "hang", p)
         \/ \E r \in chosen : GotoWith(t, "fill", q(r))
  BY DEF GetNewListeners, Read, Local
<1> HIDE DEF q, chosen, p
<1>7. Return(t, "error") \/ \E step \in PC, r \in Plan : GotoWith(t, step, r)
  BY <1>1, <1>2, <1>5, <1>6
<1> QED BY <1>1, <1>6, <1>7, EndType

(* A call that creates backends gets the node port of the listener from its
   other backends or from the service's port. *)
LEMMA CreateBackendsType ==
    ASSUME TypeOK, NEW t \in Thread, pc[t] \in Steps,
           NEW x \in Listener \cup {NoListener}, NEW ns \in SUBSET Node,
           NEW step \in PC, NEW p \in Plan,
           CreateBackends(t, x, ns, GotoWith(t, step, p))
    PROVE  TypeOK'
<1> DEFINE snap == plan[t].snap
           ports == req[t].obj.ports
           nps == ListenerNodePorts(x, snap, ports)
           new(np, g) == { [lsn |-> x, node |-> n, np |-> np, gen |-> g] : n \in ns }
<1>1. pc[t] # "idle"
  BY DEF Steps
<1>2. snap \in SUBSET Backend /\ ports \in SUBSET PortSpec
  BY <1>1, RequestType DEF Plan, ServiceObject
<1>3. nps \in SUBSET NodePort
  BY <1>2 DEF ListenerNodePorts, Backend, PortSpec
<1>4. ASSUME NEW np \in nps, NEW g \in Gen, CanAddBackends(x),
             AddBackendsEffect(x, new(np, g))
      PROVE  CloudTypeOK'
  <2>1. x \in Listener
    BY <1>4 DEF CanAddBackends, TypeOK, CloudTypeOK
  <2>2. new(np, g) \subseteq Backend
    BY <1>3, <2>1 DEF Backend
  <2> QED BY <1>4, <2>2, BackendsType DEF TypeOK
<1>5. /\ CloudTypeOK' \/ UNCHANGED cloudVars
      /\ UNCHANGED eps /\ (Fault \/ UNCHANGED faults)
      /\ Return(t, "error") \/ GotoWith(t, step, p)
  <2>1. CASE ns = {} \/ Reject(t)
    BY <2>1 DEF CreateBackends, Reject, Local
  <2>2. CASE ns # {} /\ ~Reject(t)
    <3>1. PICK np \in nps, g \in Gen :
            Call(t, CanAddBackends(x), AddBackendsEffect(x, new(np, g)),
                 GotoWith(t, step, p))
      BY <2>2 DEF CreateBackends, FreshGen
    <3> QED BY <1>4, <3>1 DEF Call
  <2> QED BY <2>1, <2>2
<1> QED BY <1>5, EndType

LEMMA FillListenerType ==
    ASSUME TypeOK, NEW t \in Thread, FillListener(t)
    PROVE  TypeOK'
<1> DEFINE p == plan[t]
<1>1. pc[t] \in Steps /\ pc[t] # "idle" /\ {"sync", "fill"} \subseteq PC
  BY DEF FillListener, Steps, PC
<1>2. p \in Plan /\ p.new \in SUBSET Listener /\ p.addNode \in SUBSET Node
  BY <1>1, RequestType DEF Plan
<1>3. CASE p.new = {} /\ Local(GotoWith(t, "sync", [p EXCEPT !.addNode = {}]))
  <2>1. [p EXCEPT !.addNode = {}] \in Plan
    BY <1>2 DEF Plan
  <2> QED BY <1>1, <1>3, <2>1, EndType DEF Local
<1>4. ASSUME NEW x \in p.new,
             CreateBackends(t, x, p.addNode,
                            GotoWith(t, "fill", [p EXCEPT !.new = p.new \ {x}]))
      PROVE  TypeOK'
  <2>1. [p EXCEPT !.new = p.new \ {x}] \in Plan
    BY <1>2 DEF Plan
  <2> QED BY <1>1, <1>2, <1>4, <2>1, CreateBackendsType
<1> QED BY <1>3, <1>4 DEF FillListener

LEMMA SyncListenerType ==
    ASSUME TypeOK, NEW t \in Thread, SyncListener(t)
    PROVE  TypeOK'
<1> DEFINE p == plan[t]
           diffs(x) == DiffBackend({ b \in p.snap : b.lsn = x }, p.sel, p.count)
           next(d) == IF d.del # {} THEN "delbk" ELSE IF d.add # {} THEN "addbk" ELSE "sync"
           step(x, d) == [p EXCEPT !.todo = p.todo \ {x}, !.cur = x,
                                   !.delBk = d.del, !.addNode = d.add]
<1>1. pc[t] \in Steps /\ pc[t] # "idle" /\ {"apply", "hang", "delbk", "addbk", "sync"} \subseteq PC
  BY DEF SyncListener, Steps, PC
<1>2. /\ p \in Plan /\ p.sel \in SUBSET Node /\ p.snap \in SUBSET Backend
      /\ p.todo \in SUBSET Listener
  BY <1>1, RequestType DEF Plan
<1>3. ASSUME NEW x \in p.todo, NEW d \in diffs(x)
      PROVE  step(x, d) \in Plan /\ next(d) \in PC
  <2>1. d.del \in SUBSET Backend /\ d.add \in SUBSET Node
    BY <1>2, DiffBackendType
  <2>2. step(x, d) \in Plan
    <3> HIDE DEF p, diffs
    <3> QED BY <1>2, <2>1 DEF Plan
  <2> QED BY <1>1, <2>2
<1> HIDE DEF step, next, diffs
<1>4. /\ UNCHANGED <<cloudVars, eps, faults>>
      /\ \/ Return(t, "ok") \/ Return(t, "error")
         \/ GotoWith(t, "apply", p) \/ GotoWith(t, "hang", p)
         \/ \E x \in p.todo : \E d \in diffs(x) : GotoWith(t, next(d), step(x, d))
  BY DEF SyncListener, Reject, Local, step, next, diffs
<1>5. /\ UNCHANGED <<cloudVars, eps, faults>>
      /\ \/ Return(t, "ok") \/ Return(t, "error")
         \/ \E s \in PC, q \in Plan : GotoWith(t, s, q)
  BY <1>1, <1>2, <1>3, <1>4
<1> QED BY <1>1, <1>5, EndType

LEMMA BackendStepsType ==
    ASSUME TypeOK, NEW t \in Thread, DeleteBackends(t) \/ AddBackends(t)
    PROVE  TypeOK'
<1> DEFINE p == plan[t]
<1>1. pc[t] \in Steps /\ pc[t] # "idle" /\ {"sync", "addbk"} \subseteq PC
  BY DEF DeleteBackends, AddBackends, Steps, PC
<1>2. /\ p \in Plan /\ p.addNode \in SUBSET Node
      /\ p.cur \in Listener \cup {NoListener}
  BY <1>1, RequestType DEF Plan
<1>3. CASE DeleteBackends(t)
  <2>1. [p EXCEPT !.delBk = {}, !.modify = TRUE] \in Plan
    BY <1>2 DEF Plan
  <2>2. DeleteBackendsEffect(p.delBk) => CloudTypeOK'
    BY BackendsType DEF TypeOK
  <2>3. /\ CloudTypeOK' \/ UNCHANGED cloudVars
        /\ UNCHANGED eps /\ (Fault \/ UNCHANGED faults)
        /\ \/ Return(t, "error")
           \/ \E step \in PC, q \in Plan : GotoWith(t, step, q)
    BY <1>1, <1>3, <2>1, <2>2 DEF DeleteBackends, Call
  <2> QED BY <1>1, <2>3, EndType
<1>4. CASE AddBackends(t)
  <2>1. [p EXCEPT !.addNode = {}, !.modify = TRUE] \in Plan
    BY <1>2 DEF Plan
  <2> QED BY <1>1, <1>2, <1>4, <2>1, CreateBackendsType DEF AddBackends
<1> QED BY <1>3, <1>4

LEMMA UpdateLBStepType ==
    ASSUME TypeOK, NEW t \in Thread, UpdateLB(t)
    PROVE  TypeOK'
<1>1. pc[t] \in Steps
  BY DEF UpdateLB, Steps
<1>2. /\ CloudTypeOK' \/ UNCHANGED cloudVars
      /\ UNCHANGED eps /\ (Fault \/ UNCHANGED faults)
      /\ Return(t, "error") \/ Return(t, "ok")
  BY UpdateLBType DEF UpdateLB, Call, TypeOK
<1> QED BY <1>1, <1>2, EndType

LEMMA DeletionType ==
    ASSUME TypeOK, NEW t \in Thread, DeleteLB(t) \/ ReleaseEIP(t)
    PROVE  TypeOK'
<1>1. pc[t] \in Steps /\ pc[t] # "idle" /\ "release" \in PC
  BY DEF DeleteLB, ReleaseEIP, Steps, PC
<1>2. plan[t] \in Plan
  BY <1>1, RequestType
<1>3. DeleteLBEffect(view[t].lb) \/ ReleaseEffect(view[t].created) => CloudTypeOK'
  BY DeleteLBType, EIPType DEF TypeOK
<1>4. /\ CloudTypeOK' \/ UNCHANGED cloudVars
      /\ UNCHANGED eps /\ (Fault \/ UNCHANGED faults)
      /\ \/ Return(t, "error") \/ Return(t, "ok")
         \/ GotoWith(t, "release", plan[t])
  BY <1>3 DEF DeleteLB, ReleaseEIP, AfterDeleteLB, Call
<1> QED BY <1>1, <1>2, <1>4, EndType

LEMMA StartType ==
    ASSUME TypeOK, NEW t \in Thread, Start(t)
    PROVE  TypeOK'
<1>1. PICK op \in Ops[t], o \in Object, ns \in NodeSet :
         req' = [req EXCEPT ![t] = [op |-> op, obj |-> o, nodes |-> ns]]
  BY DEF Start
<1>2. [op |-> op, obj |-> o, nodes |-> ns] \in Request
  BY ProviderAssumption DEF Request
<1>3. CloudTypeOK'
  BY CloudUnchanged DEF TypeOK, Start
<1>4. "get" \in PC
  BY DEF PC, Steps
<1>5. ThreadTypeOK'
  BY <1>1, <1>2, <1>4, NoViewType, NoPlanType DEF Start, Goto, TypeOK, ThreadTypeOK
<1> QED BY <1>3, <1>5, RestType DEF TypeOK, Start

LEMMA EndpointsChangeType ==
    ASSUME TypeOK, NEW s \in Service, EndpointsChange(s)
    PROVE  TypeOK'
<1>1. CloudTypeOK' /\ ThreadTypeOK'
  BY CloudUnchanged DEF TypeOK, EndpointsChange, threadVars, ThreadTypeOK
<1>2. PICK e \in EpSet : eps' = [eps EXCEPT ![s] = e]
  BY DEF EndpointsChange
<1> QED BY <1>1, <1>2 DEF TypeOK, EndpointsChange

LEMMA InitType == Init => TypeOK
<1> SUFFICES ASSUME Init PROVE TypeOK
  OBVIOUS
<1>1. CloudTypeOK
  BY CloudAssumption DEF Init, CloudInit, CloudTypeOK, LBRecord
<1>2. ThreadTypeOK
  BY NoViewType, NoPlanType DEF Init, ThreadTypeOK, PC
<1> QED BY <1>1, <1>2, ProviderAssumption DEF Init, TypeOK

LEMMA StepType ==
    ASSUME TypeOK, NEW t \in Thread, Step(t)
    PROVE  TypeOK'
BY GetLoadBalancerType, ModifyLBStepType, UpdateLBEipType, PrepareEipType,
   AssociationType, RefreshStatusType, CreateLBStepType, GetListenersType,
   DeleteListenerType, CreateListenerType, GetNewListenersType, FillListenerType,
   SyncListenerType, BackendStepsType, UpdateLBStepType, DeletionType DEF Step

(* Every variable keeps its type, whatever calls interleave or fail: in
   particular the ids a call works on are ids, the count of wanted backends
   is a natural number, and a thread that is in a call has its request. *)
THEOREM TypeCorrect == Spec => []TypeOK
<1>1. TypeOK /\ [Next]_vars => TypeOK'
  <2> SUFFICES ASSUME TypeOK, [Next]_vars PROVE TypeOK'
    OBVIOUS
  <2>1. CASE Next
    BY <2>1, StartType, StepType, EndpointsChangeType DEF Next
  <2>2. CASE UNCHANGED vars
    BY <2>2 DEF TypeOK, CloudTypeOK, ThreadTypeOK, vars, cloudVars, threadVars
  <2> QED BY <2>1, <2>2
<1> QED BY <1>1, InitType, PTL DEF Spec

-----------------------------------------------------------------------------
(* The random choices always end.                                          *)

(* A plan wants no more backends than there are nodes to choose from, and
   knows finitely many backends of each listener. *)
Satisfiable(p) == p.count \in 0 .. Cardinality(p.sel) /\ IsFiniteSet(p.snap)

SelectionInv ==
    /\ NeverHang
    /\ IsFiniteSet(backends)
    /\ \A t \in Thread : Satisfiable(plan[t])

LEMMA NoPlanSatisfiable == Satisfiable(NoPlan)
BY FS_EmptySet DEF Satisfiable, NoPlan

(* The ways a step of a call ends. *)
LEMMA SelectionEnd ==
    ASSUME TypeOK, SelectionInv, NEW t \in Thread, IsFiniteSet(backends'),
           \/ \E r \in Results : Return(t, r)
           \/ \E step \in Steps : \E p : Satisfiable(p) /\ GotoWith(t, step, p)
           \/ \E step \in Steps : Goto(t, step) /\ UNCHANGED plan
    PROVE  SelectionInv'
<1>1. "hang" \notin Results \cup Steps
  BY DEF Results, Steps
<1>2. pc \in [Thread -> PC] /\ plan \in [Thread -> Plan]
  BY DEF TypeOK, ThreadTypeOK
<1>3. CASE \E r \in Results : Return(t, r)
  <2> DEFINE p == [NoPlan EXCEPT !.sel = plan[t].sel, !.count = plan[t].count]
  <2>1. p.sel = plan[t].sel /\ p.count = plan[t].count /\ p.snap = {}
    BY DEF NoPlan
  <2>2. Satisfiable(p)
    BY <2>1, FS_EmptySet DEF SelectionInv, Satisfiable
  <2>3. /\ plan' = [plan EXCEPT ![t] = p]
        /\ \E r \in Results : pc' = [pc EXCEPT ![t] = r]
    BY <1>3 DEF Return, Goto
  <2> HIDE DEF p
  <2> QED BY <1>1, <1>2, <2>2, <2>3 DEF SelectionInv, NeverHang, Satisfiable
<1>4. CASE \E step \in Steps : \E p : Satisfiable(p) /\ GotoWith(t, step, p)
  BY <1>1, <1>2, <1>4 DEF GotoWith, Goto, SelectionInv, NeverHang, Satisfiable
<1>5. CASE \E step \in Steps : Goto(t, step) /\ UNCHANGED plan
  BY <1>1, <1>2, <1>5 DEF Goto, SelectionInv, NeverHang, Satisfiable
<1> QED BY <1>3, <1>4, <1>5

LEMMA FewerBackends ==
    ASSUME SelectionInv, backends' \subseteq backends
    PROVE  IsFiniteSet(backends')
BY FS_Subset DEF SelectionInv

(* filterNodes decides on a count the nodes it leaves can satisfy. *)
LEMMA GetLoadBalancerSelects ==
    ASSUME TypeOK, SelectionInv, NEW t \in Thread, GetLoadBalancer(t)
    PROVE  SelectionInv'
<1> DEFINE o == req[t].obj
           f == FilterNodes(o.cfg, req[t].nodes, eps[o.svc])
<1>1. pc[t] # "idle" /\ UNCHANGED cloudVars
  BY DEF GetLoadBalancer, Reject, Local
<1>2. IsFiniteSet(backends')
  BY <1>1 DEF SelectionInv, cloudVars
<1>3. f.nodes \in SUBSET Node /\ f.count \in Nat /\ f.count <= Cardinality(f.nodes)
  BY <1>1, SelectedType
<1>4. /\ Cardinality(f.nodes) \in Nat /\ plan[t] \in Plan /\ plan \in [Thread -> Plan]
      /\ IsFiniteSet(plan[t].snap)
  BY <1>1, <1>3, RequestType, NodeAssumption, FS_Subset, FS_CardinalityType
     DEF SelectionInv, Satisfiable, TypeOK, ThreadTypeOK
<1>5. {"modify", "listeners", "dellsn", "dellb", CreateStep(o)} \subseteq Steps
  BY DEF Steps, CreateStep, PrepareStep
<1>6. ASSUME NEW q, q.sel = f.nodes, q.count = f.count, q.snap = plan[t].snap
      PROVE  Satisfiable(q)
  BY <1>3, <1>4, <1>6 DEF Satisfiable
<1>7. ASSUME NEW l, Found(t, l) PROVE SelectionInv'
  <2>1. CASE \E r \in Results : Return(t, r)
    BY <1>2, <2>1, SelectionEnd
  <2>2. CASE FoundForDelete(t, ViewOf(l, o.svc)) /\ ~Return(t, "ok")
    <3>1. PICK step \in Steps, d \in {{}, ViewOf(l, o.svc).own} :
            Goto(t, step) /\ plan' = [plan EXCEPT ![t].delLsn = d]
      BY <1>5, <2>2 DEF FoundForDelete
    <3>2. Satisfiable([plan[t] EXCEPT !.delLsn = d])
      BY <1>4 DEF SelectionInv, Satisfiable, Plan
    <3>3. /\ pc \in [Thread -> PC] /\ "hang" \notin Steps
          /\ plan' = [plan EXCEPT ![t] = [plan[t] EXCEPT !.delLsn = d]]
      BY <1>4, <3>1 DEF TypeOK, ThreadTypeOK, Steps
    <3> QED BY <1>2, <1>4, <3>1, <3>2, <3>3 DEF Goto, SelectionInv, NeverHang
  <2>3. CASE /\ plan' = [plan EXCEPT ![t].sel = f.nodes, ![t].count = f.count]
             /\ Goto(t, IF req[t].op = "ensure" THEN "modify" ELSE "listeners")
    <3> DEFINE q == [plan[t] EXCEPT !.sel = f.nodes, !.count = f.count]
    <3>1. q.sel = f.nodes /\ q.count = f.count /\ q.snap = plan[t].snap
      BY <1>4 DEF Plan
    <3>2. Satisfiable(q)
      BY <1>6, <3>1
    <3>3. plan' = [plan EXCEPT ![t] = q]
      BY <1>4, <2>3
    <3>4. pc \in [Thread -> PC] /\ "hang" \notin Steps
      BY DEF TypeOK, ThreadTypeOK, Steps
    <3> HIDE DEF q
    <3> QED BY <1>2, <1>4, <1>5, <2>3, <3>2, <3>3, <3>4 DEF Goto, SelectionInv, NeverHang
  <2>4. {"ok", "error"} \subseteq Results
    BY DEF Results
  <2> QED BY <1>7, <2>1, <2>2, <2>3, <2>4 DEF Found
<1>8. ASSUME NotFound(t) PROVE SelectionInv'
  <2> DEFINE q == [plan[t] EXCEPT !.sel = f.nodes, !.count = f.count, !.addEip = o.eipIDs,
                                  !.addPort = o.ports, !.modify = TRUE]
  <2>1. q.sel = f.nodes /\ q.count = f.count /\ q.snap = plan[t].snap
    BY <1>4 DEF Plan
  <2>2. Satisfiable(q)
    BY <1>6, <2>1
  <2>3. {"ok", "error", "absent"} \subseteq Results
    BY DEF Results
  <2>4. (\E r \in Results : Return(t, r)) \/ GotoWith(t, CreateStep(o), q)
    BY <1>8, <2>3 DEF NotFound
  <2> HIDE DEF q
  <2> QED BY <1>2, <1>5, <2>2, <2>4, SelectionEnd
<1>9. CASE \E r \in Results : Return(t, r)
  BY <1>2, <1>9, SelectionEnd
<1>10. {"absent", "error"} \subseteq Results
  BY DEF Results
<1> QED BY <1>7, <1>8, <1>9, <1>10 DEF GetLoadBalancer, Reject, Local

(* A step that leaves the selection alone and adds no backend. *)
LEMMA KeptSelection ==
    ASSUME TypeOK, SelectionInv, NEW t \in Thread, IsFiniteSet(backends'),
           \/ \E r \in Results : Return(t, r)
           \/ \E step \in Steps : \E p :
                /\ p.sel = plan[t].sel /\ p.count = plan[t].count /\ p.snap = plan[t].snap
                /\ GotoWith(t, step, p)
           \/ \E step \in Steps : Goto(t, step) /\ UNCHANGED plan
    PROVE  SelectionInv'
<1>1. \A p : /\ p.sel = plan[t].sel /\ p.count = plan[t].count /\ p.snap = plan[t].snap
             => Satisfiable(p)
  BY DEF SelectionInv, Satisfiable
<1> QED BY <1>1, SelectionEnd

LEMMA EipStepsSelect ==
    ASSUME TypeOK, SelectionInv, NEW t \in Thread,
           \/ ModifyLB(t) \/ UpdateLBEip(t) \/ GetAvailableEIP(t) \/ AllocateEIP(t)
           \/ AssociateEIPs(t) \/ DissociateEIPs(t) \/ RefreshStatus(t) \/ CreateLB(t)
    PROVE  SelectionInv'
<1> DEFINE Keeps == \/ \E r \in Results : Return(t, r)
                    \/ \E step \in Steps : \E p :
                         /\ p.sel = plan[t].sel /\ p.count = plan[t].count
                         /\ p.snap = plan[t].snap /\ GotoWith(t, step, p)
                    \/ \E step \in Steps : Goto(t, step) /\ UNCHANGED plan
<1>1. "error" \in Results /\ plan[t] \in Plan
  BY DEF Results, TypeOK, ThreadTypeOK
<1>2. {"eip", "listeners", "associate", "dissociate", "create", "refresh", "allocate",
       "available", "addlsn"} \subseteq Steps
  BY DEF Steps
<1>3. CASE ModifyLB(t)
  <2>1. Keeps /\ UNCHANGED backends
    BY <1>1, <1>2, <1>3 DEF ModifyLB, Call, Local, ModifyLBEffect, cloudVars, Plan
  <2> QED BY <2>1, KeptSelection DEF SelectionInv
<1>4. CASE UpdateLBEip(t)
  <2>1. Keeps /\ UNCHANGED backends
    BY <1>1, <1>2, <1>4 DEF UpdateLBEip, Local, PrepareStep, cloudVars, Plan
  <2> QED BY <2>1, KeptSelection DEF SelectionInv
<1>5. CASE GetAvailableEIP(t)
  <2>1. Keeps /\ UNCHANGED backends
    BY <1>1, <1>2, <1>5 DEF GetAvailableEIP, UseEip, Read, Local, cloudVars, Plan
  <2> QED BY <2>1, KeptSelection DEF SelectionInv
<1>6. CASE AllocateEIP(t)
  <2>1. Keeps /\ UNCHANGED backends
    BY <1>1, <1>2, <1>6 DEF AllocateEIP, UseEip, Call, Reject, Local, AllocateEffect,
                          cloudVars, Plan
  <2> QED BY <2>1, KeptSelection DEF SelectionInv
<1>7. CASE AssociateEIPs(t) \/ DissociateEIPs(t)
  <2>1. Keeps /\ UNCHANGED backends
    BY <1>1, <1>2, <1>7 DEF AssociateEIPs, DissociateEIPs, Call, AssociateEffect,
                          DissociateEffect, cloudVars
  <2> QED BY <2>1, KeptSelection DEF SelectionInv
<1>8. CASE RefreshStatus(t) \/ CreateLB(t)
  <2>1. Keeps /\ UNCHANGED backends
    BY <1>1, <1>2, <1>8 DEF RefreshStatus, CreateLB, Read, Call, Reject, Local,
                          CreateLBEffect, cloudVars
  <2> QED BY <2>1, KeptSelection DEF SelectionInv
<1> QED BY <1>3, <1>4, <1>5, <1>6, <1>7, <1>8

LEMMA RemovalsSelect ==
    ASSUME TypeOK, SelectionInv, NEW t \in Thread,
           \/ DeleteListener(t) \/ CreateListener(t) \/ DeleteBackends(t)
           \/ UpdateLB(t) \/ DeleteLB(t) \/ ReleaseEIP(t)
    PROVE  SelectionInv'
<1> DEFINE Keeps == \/ \E r \in Results : Return(t, r)
                    \/ \E step \in Steps : \E p :
                         /\ p.sel = plan[t].sel /\ p.count = plan[t].count
                         /\ p.snap = plan[t].snap /\ GotoWith(t, step, p)
<1>1. {"error", "ok"} \subseteq Results /\ plan[t] \in Plan
  BY DEF Results, TypeOK, ThreadTypeOK
<1>2. {"apply", "addlsn", "sync", "getnew", "addbk", "release"} \subseteq Steps
  BY DEF Steps
<1>3. CASE DeleteListener(t)
  <2>1. Keeps /\ backends' \subseteq backends
    BY <1>1, <1>2, <1>3 DEF DeleteListener, Call, DeleteListenersEffect, cloudVars, Plan
  <2> QED BY <2>1, FewerBackends, KeptSelection
<1>4. CASE CreateListener(t)
  <2>1. Keeps /\ backends' \subseteq backends
    BY <1>1, <1>2, <1>4 DEF CreateListener, Call, Reject, Local, AddListenersEffect,
                          cloudVars, Plan
  <2> QED BY <2>1, FewerBackends, KeptSelection
<1>5. CASE DeleteBackends(t)
  <2>1. Keeps /\ backends' \subseteq backends
    BY <1>1, <1>2, <1>5 DEF DeleteBackends, Call, DeleteBackendsEffect, cloudVars, Plan
  <2> QED BY <2>1, FewerBackends, KeptSelection
<1>6. CASE UpdateLB(t) \/ DeleteLB(t) \/ ReleaseEIP(t)
  <2>1. Keeps /\ backends' \subseteq backends
    BY <1>1, <1>2, <1>6 DEF UpdateLB, DeleteLB, AfterDeleteLB, ReleaseEIP, Call,
         UpdateLBEffect, DeleteLBEffect, ReleaseEffect, cloudVars
  <2> QED BY <2>1, FewerBackends, KeptSelection
<1> QED BY <1>3, <1>4, <1>5, <1>6

(* The backends read from the cloud are finitely many, and so is what is
   drawn from them and from the nodes. *)
LEMMA GetListenersSelects ==
    ASSUME TypeOK, SelectionInv, NEW t \in Thread, GetListeners(t)
    PROVE  SelectionInv'
<1> DEFINE xs == view[t].own \cap listeners
           bs == { b \in backends : b.lsn \in xs }
<1>1. {"error", "ok"} \subseteq Results /\ plan[t] \in Plan
  BY DEF Results, TypeOK, ThreadTypeOK
<1>2. {"addlsn", "sync", "dellsn"} \subseteq Steps
  BY DEF Steps
<1>3. IsFiniteSet(bs) /\ UNCHANGED backends
  BY FS_Subset DEF SelectionInv, GetListeners, Read, Local, cloudVars
<1>4. ASSUME NEW p, p.sel = plan[t].sel, p.count = plan[t].count,
             p.snap \in {bs, plan[t].snap}
      PROVE  Satisfiable(p)
  BY <1>3, <1>4 DEF SelectionInv, Satisfiable
<1> HIDE DEF bs
<1>5. \/ \E r \in Results : Return(t, r)
      \/ \E step \in Steps : \E p :
            /\ p.sel = plan[t].sel /\ p.count = plan[t].count
            /\ p.snap \in {bs, plan[t].snap} /\ GotoWith(t, step, p)
  BY <1>1, <1>2 DEF GetListeners, Read, Local, Plan, bs
<1> QED BY <1>3, <1>4, <1>5, SelectionEnd DEF SelectionInv

LEMMA GetNewListenersSelects ==
    ASSUME TypeOK, SelectionInv, NEW t \in Thread, GetNewListeners(t)
    PROVE  SelectionInv'
<1> DEFINE p == plan[t]
           xs == p.new \cap listeners
           bs == { b \in backends : b.lsn \in xs }
           chosen == IF p.count = 0 THEN {p.sel} ELSE RandomItems(p.sel, p.count)
           q(r) == [p EXCEPT !.new = xs, !.addNode = r, !.snap = p.snap \cup bs]
<1>1. "error" \in Results /\ "fill" \in Steps /\ p \in Plan /\ pc[t] # "idle"
  BY DEF Results, Steps, TypeOK, ThreadTypeOK, GetNewListeners
<1>2. UNCHANGED backends
  BY DEF GetNewListeners, Read, Local, cloudVars
<1>3. chosen # {}
  <2>1. IsFiniteSet(p.sel)
    BY <1>1, NodeAssumption, FS_Subset DEF Plan
  <2> QED BY <2>1, RandomItemsExist DEF SelectionInv, Satisfiable
<1>4. ASSUME NEW r PROVE Satisfiable(q(r))
  <2>1. IsFiniteSet(bs)
    BY FS_Subset DEF SelectionInv
  <2>2. IsFiniteSet(p.snap \cup bs)
    BY <2>1, FS_Union DEF SelectionInv, Satisfiable
  <2>3. q(r).sel = p.sel /\ q(r).count = p.count /\ q(r).snap = p.snap \cup bs
    BY <1>1 DEF Plan
  <2> QED BY <2>2, <2>3 DEF SelectionInv, Satisfiable
<1>5. Return(t, "error") \/ \E r : GotoWith(t, "fill", q(r))
  BY <1>3 DEF GetNewListeners, Read, Local
<1> HIDE DEF q
<1> QED BY <1>1, <1>2, <1>4, <1>5, SelectionEnd DEF SelectionInv

LEMMA CreateBackendsFinite ==
    ASSUME TypeOK, SelectionInv, NEW t \in Thread, NEW x, NEW ns \in SUBSET Node,
           NEW step \in Steps, NEW p,
           p.sel = plan[t].sel, p.count = plan[t].count, p.snap = plan[t].snap,
           CreateBackends(t, x, ns, GotoWith(t, step, p))
    PROVE  SelectionInv'
<1> DEFINE new(np, g) == { [lsn |-> x, node |-> n, np |-> np, gen |-> g] : n \in ns }
<1>1. ASSUME NEW np, NEW g PROVE IsFiniteSet(new(np, g))
  <2> DEFINE f == [n \in ns |-> [lsn |-> x, node |-> n, np |-> np, gen |-> g]]
  <2>1. f \in Surjection(ns, new(np, g))
    BY DEF Surjection
  <2>2. IsFiniteSet(ns)
    BY NodeAssumption, FS_Subset
  <2> QED BY <2>1, <2>2, FS_Surjection
<1>2. ASSUME NEW np, NEW g, AddBackendsEffect(x, new(np, g)) PROVE IsFiniteSet(backends')
  <2>1. IsFiniteSet(new(np, g)) /\ IsFiniteSet(backends)
    BY <1>1 DEF SelectionInv
  <2>2. backends' = backends \cup new(np, g)
    BY <1>2 DEF AddBackendsEffect
  <2> HIDE DEF new
  <2> QED BY <2>1, <2>2, FS_Union
<1>3. Return(t, "error") \/ GotoWith(t, step, p)
  BY DEF CreateBackends, Reject, Local, Call
<1>4. UNCHANGED backends \/ \E np, g : AddBackendsEffect(x, new(np, g))
  BY DEF CreateBackends, Reject, Local, Call, cloudVars
<1> HIDE DEF new
<1>5. IsFiniteSet(backends')
  BY <1>2, <1>4 DEF SelectionInv
<1> QED BY <1>3, <1>5, KeptSelection DEF Results

LEMMA BackendStepsSelect ==
    ASSUME TypeOK, SelectionInv, NEW t \in Thread, FillListener(t) \/ AddBackends(t)
    PROVE  SelectionInv'
<1> DEFINE p == plan[t]
<1>1. {"sync", "fill"} \subseteq Steps /\ p \in Plan /\ p.addNode \in SUBSET Node
  BY DEF Steps, TypeOK, ThreadTypeOK, Plan
<1>2. CASE p.new = {} /\ Local(GotoWith(t, "sync", [p EXCEPT !.addNode = {}]))
  <2>1. UNCHANGED backends
    BY <1>2 DEF Local, cloudVars
  <2> QED BY <1>1, <1>2, <2>1, KeptSelection DEF Local, SelectionInv, Plan
<1>3. ASSUME NEW x \in p.new,
             CreateBackends(t, x, p.addNode,
                            GotoWith(t, "fill", [p EXCEPT !.new = p.new \ {x}]))
      PROVE  SelectionInv'
  BY <1>1, <1>3, CreateBackendsFinite DEF Plan
<1>4. CASE AddBackends(t)
  <2> DEFINE q == [p EXCEPT !.addNode = {}, !.modify = TRUE]
  <2>1. q.sel = p.sel /\ q.count = p.count /\ q.snap = p.snap
    BY <1>1 DEF Plan
  <2>2. CreateBackends(t, p.cur, p.addNode, GotoWith(t, "sync", q))
    BY <1>4 DEF AddBackends
  <2> HIDE DEF q
  <2> QED BY <1>1, <2>1, <2>2, CreateBackendsFinite
<1> QED BY <1>2, <1>3, <1>4 DEF FillListener

LEMMA SyncListenerSelects ==
    ASSUME TypeOK, SelectionInv, NEW t \in Thread, SyncListener(t)
    PROVE  SelectionInv'
<1> DEFINE p == plan[t]
           diffs(x) == DiffBackend({ b \in p.snap : b.lsn = x }, p.sel, p.count)
           next(d) == IF d.del # {} THEN "delbk" ELSE IF d.add # {} THEN "addbk" ELSE "sync"
           step(x, d) == [p EXCEPT !.todo = p.todo \ {x}, !.cur = x,
                                   !.delBk = d.del, !.addNode = d.add]
<1>1. /\ {"error", "ok"} \subseteq Results /\ p \in Plan
      /\ {"apply", "delbk", "addbk", "sync"} \subseteq Steps
  BY DEF Results, Steps, TypeOK, ThreadTypeOK
<1>2. UNCHANGED backends
  BY DEF SyncListener, Reject, Local, cloudVars
<1>3. ASSUME NEW x PROVE diffs(x) # {}
  <2>1. IsFiniteSet({ b \in p.snap : b.lsn = x })
    BY FS_Subset DEF SelectionInv, Satisfiable
  <2>2. p.sel \in SUBSET Node /\ p.count \in 0 .. Cardinality(p.sel)
    BY <1>1 DEF SelectionInv, Satisfiable, Plan
  <2> QED BY <2>1, <2>2, DiffBackendExists
<1>4. \A x, d : /\ step(x, d).sel = p.sel /\ step(x, d).count = p.count
                /\ step(x, d).snap = p.snap
  BY <1>1 DEF Plan
<1>5. \A d : next(d) \in Steps
  BY <1>1
<1> HIDE DEF step, next
<1>6. \/ \E r \in Results : Return(t, r)
      \/ GotoWith(t, "apply", p)
      \/ \E x, d : GotoWith(t, next(d), step(x, d))
  BY <1>1, <1>3 DEF SyncListener, Reject, Local, step, next
<1> QED BY <1>1, <1>2, <1>4, <1>5, <1>6, KeptSelection DEF SelectionInv

LEMMA SelectionInit == Init => SelectionInv
<1> SUFFICES ASSUME Init PROVE SelectionInv
  OBVIOUS
<1>1. pc = [t \in Thread |-> "idle"] /\ plan = [t \in Thread |-> NoPlan] /\ backends = {}
  BY DEF Init, CloudInit
<1> QED BY <1>1, NoPlanSatisfiable, FS_EmptySet DEF SelectionInv, NeverHang

LEMMA SelectionNext ==
    ASSUME TypeOK, SelectionInv, [Next]_vars
    PROVE  SelectionInv'
<1>1. ASSUME NEW t \in Thread, Start(t) PROVE SelectionInv'
  <2>1. /\ UNCHANGED backends
        /\ pc' = [pc EXCEPT ![t] = "get"] /\ plan' = [plan EXCEPT ![t] = NoPlan]
    BY <1>1 DEF Start, Goto, cloudVars
  <2>2. pc \in [Thread -> PC] /\ plan \in [Thread -> Plan]
    BY DEF TypeOK, ThreadTypeOK
  <2> QED BY <2>1, <2>2, NoPlanSatisfiable DEF SelectionInv, NeverHang
<1>2. ASSUME NEW t \in Thread, Step(t) PROVE SelectionInv'
  BY <1>2, GetLoadBalancerSelects, EipStepsSelect, RemovalsSelect, GetListenersSelects,
     GetNewListenersSelects, BackendStepsSelect, SyncListenerSelects DEF Step
<1>3. CASE (\E s \in Service : EndpointsChange(s)) \/ UNCHANGED vars
  BY <1>3 DEF EndpointsChange, vars, cloudVars, threadVars, SelectionInv, NeverHang,
              Satisfiable
<1> QED BY <1>1, <1>2, <1>3 DEF Next

(* No goroutine ever stays in the loop of getRandomNodes or GetRandomItems:
   whatever nodes, labels, counts and traffic policy a service has, and also
   when another goroutine changes its backends or leaves two of them on one
   node, there are at least as many items to choose from as are wanted. *)
THEOREM SelectionEnds == Spec => []NeverHang
<1>1. Init => TypeOK /\ SelectionInv
  BY InitType, SelectionInit
<1>2. TypeOK /\ TypeOK' /\ SelectionInv /\ [Next]_vars => SelectionInv'
  BY SelectionNext
<1>3. SelectionInv => NeverHang
  BY DEF SelectionInv
<1> QED BY <1>1, <1>2, <1>3, TypeCorrect, PTL DEF Spec

-----------------------------------------------------------------------------
(* Nothing the user made by hand is destroyed.                             *)

(* What a thread remembers to release or to delete is not the user's. *)
NotUsers(v, p) ==
    /\ v.created \cap UserEIP = {}
    /\ \A x \in v.own \cup p.delLsn : x.svc # User

OwnershipInv ==
    /\ UserResourcesKept
    /\ \A t \in Thread : NotUsers(view[t], plan[t])
    /\ \A t \in Thread : pc[t] = "dellb" => view[t].lb \notin UserLB

(* Every call to the cloud keeps the user's resources, if the thread's
   memory is right. *)
LEMMA CallsKeep ==
    ASSUME TypeOK, UserResourcesKept,
           \/ UNCHANGED cloudVars
           \/ \E l, attr : ModifyLBEffect(l, attr) \/ UpdateLBEffect(l)
           \/ \E l, n, a, x, es : l \in LB /\ lbs[l].name = Unborn
                                  /\ CreateLBEffect(l, n, a, x, es)
           \/ \E l \in LB \ UserLB : DeleteLBEffect(l)
           \/ \E l \in LB : \E es : AssociateEffect(l, es)
           \/ \E es : DissociateEffect(es)
           \/ \E e : AllocateEffect(e)
           \/ \E es : es \cap UserEIP = {} /\ ReleaseEffect(es)
           \/ \E l, xs : AddListenersEffect(l, xs)
           \/ \E xs : (\A x \in xs : x.svc # User) /\ DeleteListenersEffect(xs)
           \/ \E x, bs : AddBackendsEffect(x, bs) \/ DeleteBackendsEffect(bs)
    PROVE  UserResourcesKept'
<1> USE CloudAssumption DEF UserResourcesKept, TypeOK, CloudTypeOK, Unborn, Gone, Free
<1>1. CASE UNCHANGED cloudVars
  BY <1>1 DEF cloudVars
<1>2. ASSUME NEW l, NEW attr, ModifyLBEffect(l, attr) \/ UpdateLBEffect(l)
      PROVE  UserResourcesKept'
  <2>1. \A k \in UserLB : k \in LB /\ lbs'[k].name = lbs[k].name
    BY <1>2 DEF ModifyLBEffect, UpdateLBEffect, LBRecord
  <2> QED BY <1>2, <2>1 DEF ModifyLBEffect, UpdateLBEffect
<1>3. CASE \E l, n, a, x, es : l \in LB /\ lbs[l].name = Unborn
                               /\ CreateLBEffect(l, n, a, x, es)
  BY <1>3 DEF CreateLBEffect
<1>4. CASE \E l \in LB \ UserLB : DeleteLBEffect(l)
  BY <1>4 DEF DeleteLBEffect, LBRecord
<1>5. CASE \/ \E l \in LB : \E es : AssociateEffect(l, es)
           \/ \E es : DissociateEffect(es)
           \/ \E e : AllocateEffect(e)
           \/ \E es : es \cap UserEIP = {} /\ ReleaseEffect(es)
  BY <1>5 DEF AssociateEffect, DissociateEffect, AllocateEffect, ReleaseEffect
<1>6. ASSUME NEW ls PROVE \A l \in UserLB : Unapplied(ls)[l].name = lbs[l].name
  BY DEF Unapplied, LBRecord
<1>7. CASE \E l, xs : AddListenersEffect(l, xs)
  BY <1>6, <1>7 DEF AddListenersEffect
<1>8. CASE \E xs : (\A x \in xs : x.svc # User) /\ DeleteListenersEffect(xs)
  BY <1>6, <1>8 DEF DeleteListenersEffect
<1>9. CASE \E x, bs : AddBackendsEffect(x, bs) \/ DeleteBackendsEffect(bs)
  BY <1>6, <1>9 DEF AddBackendsEffect, DeleteBackendsEffect
<1> QED BY <1>1, <1>2, <1>3, <1>4, <1>5, <1>7, <1>8, <1>9

(* The ways a step of a call ends. *)
LEMMA OwnershipEnd ==
    ASSUME TypeOK, OwnershipInv, UserResourcesKept', NEW t \in Thread,
           \/ \E r \in Results : Return(t, r)
           \/ \E step \in PC \ {"dellb"} : \E p :
                p.delLsn = plan[t].delLsn /\ GotoWith(t, step, p)
           \/ \E step \in PC, v \in View, p \in Plan :
                /\ pc' = [pc EXCEPT ![t] = step]
                /\ view' = [view EXCEPT ![t] = v] /\ plan' = [plan EXCEPT ![t] = p]
                /\ NotUsers(v, p) /\ (step = "dellb" => v.lb \notin UserLB)
    PROVE  OwnershipInv'
<1>1. pc \in [Thread -> PC] /\ view \in [Thread -> View] /\ plan \in [Thread -> Plan]
  BY DEF TypeOK, ThreadTypeOK
<1>2. "dellb" \notin Results
  BY DEF Results
<1>3. CASE \E r \in Results : Return(t, r)
  <2> DEFINE p == [NoPlan EXCEPT !.sel = plan[t].sel, !.count = plan[t].count]
             v == [NoView EXCEPT !.lb = view[t].lb]
  <2>1. p.delLsn = {} /\ v.own = {} /\ v.created = {}
    BY DEF NoPlan, NoView
  <2>2. NotUsers(v, p)
    BY <2>1 DEF NotUsers
  <2>3. /\ plan' = [plan EXCEPT ![t] = p] /\ view' = [view EXCEPT ![t] = v]
        /\ \E r \in Results : pc' = [pc EXCEPT ![t] = r]
    BY <1>3 DEF Return, Goto
  <2> HIDE DEF p, v
  <2> QED BY <1>1, <1>2, <2>2, <2>3 DEF OwnershipInv
<1>4. CASE \E step \in PC \ {"dellb"} : \E p :
             p.delLsn = plan[t].delLsn /\ GotoWith(t, step, p)
  BY <1>1, <1>4 DEF GotoWith, Goto, OwnershipInv, NotUsers
<1>5. CASE \E step \in PC, v \in View, p \in Plan :
                /\ pc' = [pc EXCEPT ![t] = step]
                /\ view' = [view EXCEPT ![t] = v] /\ plan' = [plan EXCEPT ![t] = p]
                /\ NotUsers(v, p) /\ (step = "dellb" => v.lb \notin UserLB)
  BY <1>1, <1>5 DEF OwnershipInv
<1> QED BY <1>3, <1>4, <1>5

(* A thread's copy of a load balancer holds listeners with the name of its
   service and EIPs with the name of those that were allocated. *)
LEMMA ViewOfNotUsers ==
    ASSUME TypeOK, NEW l \in LB, NEW s \in Service
    PROVE  LET v == ViewOf(l, s)
           IN  /\ v \in View /\ v.lb = l
               /\ v.created \cap UserEIP = {} /\ \A x \in v.own : x.svc # User
BY ViewOfType, CloudAssumption DEF TypeOK, ViewOf, CreatedEIPs

LEMMA GetLoadBalancerKeeps ==
    ASSUME TypeOK, OwnershipInv, NEW t \in Thread, GetLoadBalancer(t)
    PROVE  OwnershipInv'
<1> DEFINE op == req[t].op
           o == req[t].obj
           f == FilterNodes(o.cfg, req[t].nodes, eps[o.svc])
<1>1. pc[t] # "idle" /\ UserResourcesKept'
  BY CallsKeep DEF GetLoadBalancer, Reject, Local, OwnershipInv
<1>2. /\ pc \in [Thread -> PC] /\ view \in [Thread -> View] /\ plan \in [Thread -> Plan]
      /\ NotUsers(view[t], plan[t]) /\ o.svc \in Service
  BY <1>1, RequestType DEF TypeOK, ThreadTypeOK, OwnershipInv, ServiceObject
<1>3. CASE \E r \in Results : Return(t, r)
  BY <1>1, <1>3, OwnershipEnd
<1>4. {"absent", "error", "ok"} \subseteq Results
  BY DEF Results
<1>5. ASSUME NEW l \in LB, l \in Lookup(op, o), op = "delete",
             FoundForDelete(t, ViewOf(l, o.svc)), ~Return(t, "ok")
      PROVE  OwnershipInv'
  <2> DEFINE v == ViewOf(l, o.svc)
             only == OnlyListeners(o, v)
             d == IF only THEN v.own ELSE {}
             p == [plan[t] EXCEPT !.delLsn = d]
             step == IF only THEN "dellsn" ELSE "dellb"
  <2>1. /\ v \in View /\ v.lb = l /\ v.created \cap UserEIP = {}
        /\ \A x \in v.own : x.svc # User
    BY <1>2, ViewOfNotUsers
  <2>2. step = "dellb" => v.lb \notin UserLB
    <3>1. CASE only
      BY <3>1
    <3>2. CASE ~only
      <4>1. LookupID("delete", o) = NoLB
        BY <3>2 DEF OnlyListeners
      <4>2. l \in ByName(o.svc)
        BY <1>5, <4>1 DEF Lookup, LookupName, ForDelete
      <4>3. lbs[l].name \in Service
        BY <1>2, <4>2 DEF ByName
      <4>4. l \notin UserLB
        BY <4>3, CloudAssumption DEF OwnershipInv, UserResourcesKept
      <4> QED BY <2>1, <4>4
    <3> QED BY <3>1, <3>2
  <2>3. d \in SUBSET Listener /\ step \in PC
    BY <2>1 DEF View, PC, Steps
  <2>4. view' = [view EXCEPT ![t] = v] /\ pc' = [pc EXCEPT ![t] = step]
        /\ plan' = [plan EXCEPT ![t].delLsn = d]
    BY <1>5 DEF FoundForDelete, Goto
  <2>5. \A x \in d : x.svc # User
    BY <2>1
  <2> HIDE DEF d, v, step
  <2>6. p \in Plan /\ p.delLsn = d
    BY <1>2, <2>3, LookupPlan
  <2>7. plan' = [plan EXCEPT ![t] = p]
    BY <1>2, <2>4
  <2>8. NotUsers(v, p)
    BY <2>1, <2>5, <2>6 DEF NotUsers
  <2> HIDE DEF p
  <2> QED BY <1>1, <2>1, <2>2, <2>3, <2>4, <2>6, <2>7, <2>8, OwnershipEnd
<1>6. ASSUME NEW l \in LB, view' = [view EXCEPT ![t] = ViewOf(l, o.svc)],
             plan' = [plan EXCEPT ![t].sel = f.nodes, ![t].count = f.count],
             Goto(t, IF op = "ensure" THEN "modify" ELSE "listeners")
      PROVE  OwnershipInv'
  <2> DEFINE v == ViewOf(l, o.svc)
             p == [plan[t] EXCEPT !.sel = f.nodes, !.count = f.count]
             step == IF op = "ensure" THEN "modify" ELSE "listeners"
  <2>1. /\ v \in View /\ v.created \cap UserEIP = {} /\ \A x \in v.own : x.svc # User
    BY <1>2, ViewOfNotUsers
  <2>2. f.nodes \in SUBSET Node /\ f.count \in Nat
    BY <1>1, SelectedType
  <2>3. step \in PC /\ step # "dellb" /\ pc' = [pc EXCEPT ![t] = step]
    BY <1>6 DEF PC, Steps, Goto
  <2>7. view' = [view EXCEPT ![t] = v]
    BY <1>6
  <2> HIDE DEF f, v, step
  <2>4. p \in Plan /\ p.delLsn = plan[t].delLsn
    <3>1. PICK p0, ns, n : p0 = plan[t] /\ ns = f.nodes /\ n = f.count
      OBVIOUS
    <3>2. p0 \in Plan /\ ns \in SUBSET Node /\ n \in Nat
      BY <1>2, <2>2, <3>1
    <3>3. /\ [p0 EXCEPT !.sel = ns, !.count = n] \in Plan
          /\ [p0 EXCEPT !.sel = ns, !.count = n].delLsn = p0.delLsn
      BY <3>2, LookupPlan, Zenon
    <3> QED BY <3>1, <3>3, Zenon
  <2>5. plan' = [plan EXCEPT ![t] = p]
    BY <1>2, <1>6
  <2>6. NotUsers(v, p)
    BY <1>2, <2>1, <2>4 DEF NotUsers
  <2> HIDE DEF p
  <2> QED BY <1>1, <2>1, <2>3, <2>4, <2>5, <2>6, <2>7, OwnershipEnd
<1>7. ASSUME NotFound(t), ~\E r \in Results : Return(t, r) PROVE OwnershipInv'
  <2>1. CreateStep(o) \in PC \ {"dellb"}
    BY DEF CreateStep, PrepareStep, PC, Steps
  <2>2. GotoWith(t, CreateStep(o), [plan[t] EXCEPT !.sel = f.nodes, !.count = f.count,
                                       !.addEip = o.eipIDs, !.addPort = o.ports,
                                       !.modify = TRUE])
    BY <1>4, <1>7 DEF NotFound
  <2> QED BY <1>1, <1>2, <2>1, <2>2, OwnershipEnd DEF Plan
<1>8. ASSUME ~\E r \in Results : Return(t, r), NEW l \in Lookup(op, o), Found(t, l)
      PROVE  OwnershipInv'
  <2>1. l \in LB
    BY LookupType
  <2> QED BY <1>4, <1>5, <1>6, <1>8, <2>1 DEF Found
<1> QED BY <1>3, <1>4, <1>7, <1>8 DEF GetLoadBalancer, Reject, Local

(* A step that keeps what the thread would delete, and calls the cloud in
   one of the ways of CallsKeep. *)
LEMMA EipStepsKeep ==
    ASSUME TypeOK, OwnershipInv, NEW t \in Thread,
           \/ ModifyLB(t) \/ UpdateLBEip(t) \/ GetAvailableEIP(t) \/ AllocateEIP(t)
           \/ AssociateEIPs(t) \/ DissociateEIPs(t)
    PROVE  OwnershipInv'
<1> DEFINE Ends == \/ \E r \in Results : Return(t, r)
                   \/ \E step \in PC \ {"dellb"} : \E p :
                        p.delLsn = plan[t].delLsn /\ GotoWith(t, step, p)
<1>1. "error" \in Results /\ plan[t] \in Plan /\ UserResourcesKept
  BY DEF Results, TypeOK, ThreadTypeOK, OwnershipInv
<1>2. {"eip", "listeners", "associate", "dissociate", "create", "refresh", "allocate",
       "available"} \subseteq PC \ {"dellb"}
  BY DEF PC, Steps
<1>3. CASE ModifyLB(t)
  <2>1. Ends
    BY <1>1, <1>2, <1>3 DEF ModifyLB, Call, Local, Plan
  <2>2. UNCHANGED cloudVars \/ \E l, attr : ModifyLBEffect(l, attr)
    BY <1>3 DEF ModifyLB, Call, Local
  <2> QED BY <1>1, <2>1, <2>2, CallsKeep, OwnershipEnd
<1>4. CASE UpdateLBEip(t)
  <2>1. Ends /\ UNCHANGED cloudVars
    BY <1>1, <1>2, <1>4 DEF UpdateLBEip, Local, PrepareStep, Plan
  <2> QED BY <1>1, <2>1, CallsKeep, OwnershipEnd
<1>5. CASE GetAvailableEIP(t)
  <2>1. Ends /\ UNCHANGED cloudVars
    BY <1>1, <1>2, <1>5 DEF GetAvailableEIP, UseEip, Read, Local, Plan
  <2> QED BY <1>1, <2>1, CallsKeep, OwnershipEnd
<1>6. CASE AllocateEIP(t)
  <2>1. Ends
    BY <1>1, <1>2, <1>6 DEF AllocateEIP, UseEip, Call, Reject, Local, Plan
  <2>2. UNCHANGED cloudVars \/ \E e : AllocateEffect(e)
    BY <1>6 DEF AllocateEIP, Call, Reject, Local
  <2> QED BY <1>1, <2>1, <2>2, CallsKeep, OwnershipEnd
<1>7. CASE AssociateEIPs(t) \/ DissociateEIPs(t)
  <2>1. Ends
    BY <1>1, <1>2, <1>7 DEF AssociateEIPs, DissociateEIPs, Call
  <2>2. \/ UNCHANGED cloudVars
        \/ \E l \in LB : \E es : AssociateEffect(l, es)
        \/ \E es : DissociateEffect(es)
    BY <1>7 DEF AssociateEIPs, DissociateEIPs, Call, CanAssociate, Exists
  <2> QED BY <1>1, <2>1, <2>2, CallsKeep, OwnershipEnd
<1> QED BY <1>3, <1>4, <1>5, <1>6, <1>7

(* The two steps that take a new copy of the load balancer. *)
LEMMA RefreshStatusKeeps ==
    ASSUME TypeOK, OwnershipInv, NEW t \in Thread, RefreshStatus(t)
    PROVE  OwnershipInv'
<1> DEFINE o == req[t].obj
           status(l) == [ViewOf(l, o.svc) EXCEPT !.eips = view[t].eips, !.attr = view[t].attr]
<1>1. /\ pc[t] # "idle" /\ "error" \in Results /\ "listeners" \in PC \ {"dellb"}
      /\ plan \in [Thread -> Plan] /\ view[t] \in View /\ NotUsers(view[t], plan[t])
  BY DEF RefreshStatus, Results, PC, Steps, TypeOK, ThreadTypeOK, OwnershipInv
<1>2. o.svc \in Service /\ UserResourcesKept'
  BY <1>1, RequestType, CallsKeep DEF ServiceObject, RefreshStatus, Read, Local, OwnershipInv
<1>3. ASSUME NEW l \in LB
      PROVE  status(l) \in View /\ NotUsers(status(l), plan[t])
  <2>1. LET v == ViewOf(l, o.svc)
        IN  /\ v \in View /\ v.created \cap UserEIP = {} /\ \A x \in v.own : x.svc # User
    BY <1>2, ViewOfNotUsers
  <2>2. /\ status(l) \in View
        /\ status(l).own = ViewOf(l, o.svc).own
        /\ status(l).created = ViewOf(l, o.svc).created
    BY <1>1, <2>1 DEF View
  <2> QED BY <1>1, <2>1, <2>2 DEF NotUsers
<1>4. ByName(LookupName("ensure", o)) \in SUBSET LB
  BY DEF ByName
<1>5. \/ Return(t, "error")
      \/ \E l \in LB : /\ view' = [view EXCEPT ![t] = status(l)]
                       /\ Goto(t, "listeners") /\ UNCHANGED plan
  BY <1>4 DEF RefreshStatus, Read, Local
<1> HIDE DEF status
<1>6. CASE \E l \in LB : /\ view' = [view EXCEPT ![t] = status(l)]
                        /\ Goto(t, "listeners") /\ UNCHANGED plan
  <2>1. PICK l \in LB : /\ view' = [view EXCEPT ![t] = status(l)]
                        /\ Goto(t, "listeners") /\ UNCHANGED plan
    BY <1>6
  <2>2. /\ plan' = [plan EXCEPT ![t] = plan[t]] /\ plan[t] \in Plan
        /\ pc' = [pc EXCEPT ![t] = "listeners"]
    BY <1>1, <2>1 DEF Goto
  <2> QED BY <1>1, <1>2, <1>3, <2>1, <2>2, OwnershipEnd
<1> QED BY <1>1, <1>2, <1>5, <1>6, OwnershipEnd

LEMMA CreateLBKeeps ==
    ASSUME TypeOK, OwnershipInv, NEW t \in Thread, CreateLB(t)
    PROVE  OwnershipInv'
<1> DEFINE o == req[t].obj
           attr == IF o.attr = NoAttr THEN DefaultAttr ELSE o.attr
           created(l) == [NoView EXCEPT !.lb = l, !.vip = TRUE, !.attr = attr]
<1>1. /\ pc[t] # "idle" /\ "error" \in Results /\ "addlsn" \in PC \ {"dellb"}
      /\ plan \in [Thread -> Plan] /\ NotUsers(view[t], plan[t])
  BY DEF CreateLB, Results, PC, Steps, TypeOK, ThreadTypeOK, OwnershipInv
<1>2. attr \in Attr
  BY <1>1, RequestType, CloudAssumption DEF ServiceObject
<1>3. ASSUME NEW l \in LB
      PROVE  created(l) \in View /\ NotUsers(created(l), plan[t])
  <2>1. created(l) \in View /\ created(l).own = {} /\ created(l).created = {}
    BY <1>2, NoViewType DEF View, NoView
  <2> QED BY <1>1, <2>1 DEF NotUsers
<1>4. UserResourcesKept'
  <2>1. \/ UNCHANGED cloudVars
        \/ \E l, n, a, x, es : l \in LB /\ lbs[l].name = Unborn
                                /\ CreateLBEffect(l, n, a, x, es)
    BY DEF CreateLB, Call, Reject, Local, CanCreateLB
  <2> QED BY <2>1, CallsKeep DEF OwnershipInv
<1>5. \/ Return(t, "error")
      \/ \E l \in LB : /\ view' = [view EXCEPT ![t] = created(l)]
                       /\ Goto(t, "addlsn") /\ UNCHANGED plan
  BY DEF CreateLB, Call, Reject, Local
<1> HIDE DEF created
<1>6. CASE \E l \in LB : /\ view' = [view EXCEPT ![t] = created(l)]
                        /\ Goto(t, "addlsn") /\ UNCHANGED plan
  <2>1. PICK l \in LB : /\ view' = [view EXCEPT ![t] = created(l)]
                        /\ Goto(t, "addlsn") /\ UNCHANGED plan
    BY <1>6
  <2>2. /\ plan' = [plan EXCEPT ![t] = plan[t]] /\ plan[t] \in Plan
        /\ pc' = [pc EXCEPT ![t] = "addlsn"]
    BY <1>1, <2>1 DEF Goto
  <2> QED BY <1>1, <1>3, <1>4, <2>1, <2>2, OwnershipEnd
<1> QED BY <1>1, <1>4, <1>5, <1>6, OwnershipEnd

(* The listeners an ensure replaces are the service's own. *)
LEMMA GetListenersKeeps ==
    ASSUME TypeOK, OwnershipInv, NEW t \in Thread, GetListeners(t)
    PROVE  OwnershipInv'
<1> DEFINE o == req[t].obj
           xs == view[t].own \cap listeners
           bs == { b \in backends : b.lsn \in xs }
           p(first) == LET d == DiffListeners(xs, first, o.ports)
                       IN  [plan[t] EXCEPT !.delLsn = d.del, !.addPort = d.add,
                                           !.todo = d.keep, !.snap = bs]
<1>1. /\ {"ok", "error"} \subseteq Results /\ plan[t] \in Plan /\ view[t] \in View
      /\ {"addlsn", "sync", "dellsn"} \subseteq PC \ {"dellb"}
      /\ NotUsers(view[t], plan[t])
  BY DEF Results, TypeOK, ThreadTypeOK, PC, Steps, OwnershipInv
<1>2. UserResourcesKept' /\ TypeOK'
  BY CallsKeep, GetListenersType DEF GetListeners, Read, Local, OwnershipInv
<1>3. \A first : \A x \in p(first).delLsn : x.svc # User
  BY <1>1 DEF DiffListeners, Plan, NotUsers
<1>4. CASE \E first : \E step \in {"addlsn", "dellsn"} : GotoWith(t, step, p(first))
  <2>1. PICK first : \E step \in {"addlsn", "dellsn"} : GotoWith(t, step, p(first))
    BY <1>4
  <2>2. PICK step \in {"addlsn", "dellsn"} : GotoWith(t, step, p(first))
    BY <2>1
  <2>3. /\ pc' = [pc EXCEPT ![t] = step] /\ plan' = [plan EXCEPT ![t] = p(first)]
        /\ view' = [view EXCEPT ![t] = view[t]]
    BY <2>2 DEF GotoWith, Goto, TypeOK, ThreadTypeOK
  <2>4. NotUsers(view[t], p(first))
    BY <1>1, <1>3 DEF NotUsers
  <2>5. p(first) \in Plan
    BY <1>2, <2>3 DEF TypeOK, ThreadTypeOK
  <2> HIDE DEF p
  <2> QED BY <1>1, <1>2, <2>3, <2>4, <2>5, OwnershipEnd
<1>5. CASE \/ \E r \in Results : Return(t, r)
           \/ \E step \in PC \ {"dellb"} : \E q :
                q.delLsn = plan[t].delLsn /\ GotoWith(t, step, q)
  BY <1>2, <1>5, OwnershipEnd
<1>6. \/ \E r \in Results : Return(t, r)
      \/ \E step \in PC \ {"dellb"} : \E q :
            q.delLsn = plan[t].delLsn /\ GotoWith(t, step, q)
      \/ \E first : \E step \in {"addlsn", "dellsn"} : GotoWith(t, step, p(first))
  BY <1>1 DEF GetListeners, Read, Local, Plan
<1> QED BY <1>4, <1>5, <1>6

LEMMA ListenerStepsKeep ==
    ASSUME TypeOK, OwnershipInv, NEW t \in Thread,
           \/ DeleteListener(t) \/ CreateListener(t) \/ GetNewListeners(t)
    PROVE  OwnershipInv'
<1> DEFINE Ends == \/ \E r \in Results : Return(t, r)
                   \/ \E step \in PC \ {"dellb"} : \E p :
                        p.delLsn = plan[t].delLsn /\ GotoWith(t, step, p)
<1>1. /\ "error" \in Results /\ plan[t] \in Plan /\ UserResourcesKept
      /\ \A x \in plan[t].delLsn : x.svc # User
  BY DEF Results, TypeOK, ThreadTypeOK, OwnershipInv, NotUsers
<1>2. {"apply", "addlsn", "sync", "getnew", "fill", "hang"} \subseteq PC \ {"dellb"}
  BY DEF PC, Steps
<1>3. CASE DeleteListener(t)
  <2>1. Ends
    BY <1>1, <1>2, <1>3 DEF DeleteListener, Call, Plan
  <2>2. UNCHANGED cloudVars \/ DeleteListenersEffect(plan[t].delLsn)
    BY <1>3 DEF DeleteListener, Call
  <2> QED BY <1>1, <2>1, <2>2, CallsKeep, OwnershipEnd
<1>4. CASE CreateListener(t)
  <2>1. Ends
    BY <1>1, <1>2, <1>4 DEF CreateListener, Call, Reject, Local, Plan
  <2>2. UNCHANGED cloudVars \/ \E l, xs : AddListenersEffect(l, xs)
    BY <1>4 DEF CreateListener, Call, Reject, Local
  <2> QED BY <1>1, <2>1, <2>2, CallsKeep, OwnershipEnd
<1>5. CASE GetNewListeners(t)
  <2>1. Ends /\ UNCHANGED cloudVars
    BY <1>1, <1>2, <1>5 DEF GetNewListeners, Read, Local, Plan
  <2> QED BY <1>1, <2>1, CallsKeep, OwnershipEnd
<1> QED BY <1>3, <1>4, <1>5

LEMMA BackendStepsKeep ==
    ASSUME TypeOK, OwnershipInv, NEW t \in Thread,
           \/ FillListener(t) \/ SyncListener(t) \/ DeleteBackends(t) \/ AddBackends(t)
    PROVE  OwnershipInv'
<1> DEFINE Ends == \/ \E r \in Results : Return(t, r)
                   \/ \E step \in PC \ {"dellb"} : \E p :
                        p.delLsn = plan[t].delLsn /\ GotoWith(t, step, p)
           Calls == \/ UNCHANGED cloudVars
                    \/ \E x, bs : AddBackendsEffect(x, bs) \/ DeleteBackendsEffect(bs)
<1>1. /\ {"ok", "error"} \subseteq Results /\ plan[t] \in Plan /\ UserResourcesKept
  BY DEF Results, TypeOK, ThreadTypeOK, OwnershipInv
<1>2. {"apply", "sync", "fill", "delbk", "addbk", "hang"} \subseteq PC \ {"dellb"}
  BY DEF PC, Steps
<1>3. ASSUME NEW x, NEW ns, NEW step \in PC \ {"dellb"}, NEW p,
             p.delLsn = plan[t].delLsn, CreateBackends(t, x, ns, GotoWith(t, step, p))
      PROVE  Ends /\ Calls
  BY <1>1, <1>3 DEF CreateBackends, Reject, Local, Call
<1>4. CASE FillListener(t)
  <2>1. CASE Local(GotoWith(t, "sync", [plan[t] EXCEPT !.addNode = {}]))
    <3>1. Ends /\ UNCHANGED cloudVars
      BY <1>1, <1>2, <2>1 DEF Local, Plan
    <3> QED BY <1>1, <3>1, CallsKeep, OwnershipEnd
  <2>2. ASSUME NEW x,
               CreateBackends(t, x, plan[t].addNode,
                   GotoWith(t, "fill", [plan[t] EXCEPT !.new = plan[t].new \ {x}]))
        PROVE  OwnershipInv'
    <3>1. [plan[t] EXCEPT !.new = plan[t].new \ {x}].delLsn = plan[t].delLsn
      BY <1>1 DEF Plan
    <3>2. Ends /\ Calls
      BY <1>2, <1>3, <2>2, <3>1
    <3> QED BY <1>1, <3>2, CallsKeep, OwnershipEnd
  <2> QED BY <1>4, <2>1, <2>2 DEF FillListener
<1>5. CASE SyncListener(t)
  <2>1. Ends /\ UNCHANGED cloudVars
    BY <1>1, <1>2, <1>5 DEF SyncListener, Reject, Local, Plan
  <2> QED BY <1>1, <2>1, CallsKeep, OwnershipEnd
<1>6. CASE DeleteBackends(t)
  <2>1. Ends /\ Calls
    BY <1>1, <1>2, <1>6 DEF DeleteBackends, Call, Plan
  <2> QED BY <1>1, <2>1, CallsKeep, OwnershipEnd
<1>7. CASE AddBackends(t)
  <2> DEFINE p == [plan[t] EXCEPT !.addNode = {}, !.modify = TRUE]
  <2>1. p.delLsn = plan[t].delLsn
    BY <1>1 DEF Plan
  <2>2. CreateBackends(t, plan[t].cur, plan[t].addNode, GotoWith(t, "sync", p))
    BY <1>7 DEF AddBackends
  <2> HIDE DEF p
  <2>3. Ends /\ Calls
    BY <1>2, <1>3, <2>1, <2>2
  <2> QED BY <1>1, <2>3, CallsKeep, OwnershipEnd
<1> QED BY <1>4, <1>5, <1>6, <1>7

(* DeleteLB runs on a load balancer the lookup found by the service's name,
   ReleaseEIP on the EIPs of that load balancer that were allocated. *)
LEMMA DeletionKeeps ==
    ASSUME TypeOK, OwnershipInv, NEW t \in Thread,
           UpdateLB(t) \/ DeleteLB(t) \/ ReleaseEIP(t)
    PROVE  OwnershipInv'
<1>1. /\ {"ok", "error"} \subseteq Results /\ "release" \in PC \ {"dellb"}
      /\ UserResourcesKept /\ view[t].created \cap UserEIP = {}
  BY DEF Results, PC, Steps, OwnershipInv, NotUsers
<1>2. \/ \E r \in Results : Return(t, r)
      \/ GotoWith(t, "release", plan[t])
  BY <1>1 DEF UpdateLB, DeleteLB, AfterDeleteLB, ReleaseEIP, Call
<1>3. \/ UNCHANGED cloudVars
      \/ \E l, attr : ModifyLBEffect(l, attr) \/ UpdateLBEffect(l)
      \/ \E l \in LB \ UserLB : DeleteLBEffect(l)
      \/ \E es : es \cap UserEIP = {} /\ ReleaseEffect(es)
  BY <1>1 DEF UpdateLB, DeleteLB, ReleaseEIP, Call, Exists, OwnershipInv
<1> QED BY <1>1, <1>2, <1>3, CallsKeep, OwnershipEnd

LEMMA OwnershipInit == Init => OwnershipInv
<1> SUFFICES ASSUME Init PROVE OwnershipInv
  OBVIOUS
<1>1. UserResourcesKept
  BY CloudAssumption DEF Init, CloudInit, UserResourcesKept, Free, Gone
<1>2. \A t \in Thread : NotUsers(view[t], plan[t]) /\ pc[t] # "dellb"
  BY DEF Init, NotUsers, NoView, NoPlan
<1> QED BY <1>1, <1>2 DEF OwnershipInv

LEMMA OwnershipNext ==
    ASSUME TypeOK, OwnershipInv, [Next]_vars
    PROVE  OwnershipInv'
<1>1. ASSUME NEW t \in Thread, Start(t) PROVE OwnershipInv'
  <2>1. UserResourcesKept'
    BY <1>1, CallsKeep DEF Start, OwnershipInv
  <2>2. /\ pc' = [pc EXCEPT ![t] = "get"] /\ plan' = [plan EXCEPT ![t] = NoPlan]
        /\ view' = [view EXCEPT ![t] = NoView]
    BY <1>1 DEF Start, Goto
  <2>3. NotUsers(NoView, NoPlan) /\ "get" \in PC
    BY DEF NotUsers, NoView, NoPlan, PC, Steps
  <2> QED BY <2>1, <2>2, <2>3, NoPlanType, NoViewType, OwnershipEnd
<1>2. ASSUME NEW t \in Thread, Step(t) PROVE OwnershipInv'
  BY <1>2, GetLoadBalancerKeeps, EipStepsKeep, RefreshStatusKeeps, CreateLBKeeps,
     GetListenersKeeps, ListenerStepsKeep, BackendStepsKeep, DeletionKeeps DEF Step
<1>3. CASE (\E s \in Service : EndpointsChange(s)) \/ UNCHANGED vars
  BY <1>3 DEF EndpointsChange, vars, cloudVars, threadVars, OwnershipInv,
              UserResourcesKept, NotUsers
<1> QED BY <1>1, <1>2, <1>3 DEF Next

(* No interleaving of calls and no failure destroys what the user made by
   hand: neither a load balancer that services reuse, nor a listener on it
   without the name of a service, nor an EIP the user owns. *)
THEOREM UserResourcesSafe == Spec => []UserResourcesKept
<1>1. Init => TypeOK /\ OwnershipInv
  BY InitType, OwnershipInit
<1>2. TypeOK /\ TypeOK' /\ OwnershipInv /\ [Next]_vars => OwnershipInv'
  BY OwnershipNext
<1>3. OwnershipInv => UserResourcesKept
  BY DEF OwnershipInv
<1> QED BY <1>1, <1>2, <1>3, TypeCorrect, PTL DEF Spec
=============================================================================
