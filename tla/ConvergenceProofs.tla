-------------------------- MODULE ConvergenceProofs --------------------------
(***************************************************************************)
(* What a successful ensureLoadBalancer leaves behind, and what it leaves  *)
(* alone, for any number of load balancers, ports, nodes and failures.     *)
(*                                                                         *)
(* The argument follows a call from step to step: Phase says what the call *)
(* has seen of the listeners and backends of its service, what it has put  *)
(* right so far and what it has still to do.  It holds whatever earlier    *)
(* calls that failed half-way left there.                                  *)
(***************************************************************************)
EXTENDS ContractProofs, ProviderRetry

-----------------------------------------------------------------------------
(* The backends of one listener.                                           *)

(* They are on different nodes, on one node port. *)
Uniform(bs) == \A b, c \in bs : b.np = c.np /\ (b.node = c.node => b = c)

Wants(sel, count) == IF count = 0 THEN Cardinality(sel) ELSE count

(* Such backends are as many as their nodes. *)
LEMMA UniformCount ==
    ASSUME NEW bs \in SUBSET Backend, Uniform(bs)
    PROVE  /\ IsFiniteSet(bs) /\ IsFiniteSet(NodesOf(bs))
           /\ Cardinality(NodesOf(bs)) = Cardinality(bs)
           /\ Cardinality(bs) \in Nat
<1> DEFINE f == [b \in bs |-> b.node]
<1>1. NodesOf(bs) \in SUBSET Node
  BY DEF NodesOf, Backend
<1>2. IsFiniteSet(NodesOf(bs))
  BY <1>1, NodeAssumption, FS_Subset
<1>3. f \in Injection(bs, NodesOf(bs))
  <2>1. f \in [bs -> NodesOf(bs)]
    BY DEF NodesOf
  <2>2. \A b, c \in bs : f[b] = f[c] => b = c
    BY DEF Uniform
  <2> QED BY <2>1, <2>2 DEF Injection, IsInjective
<1>4. f \in Surjection(bs, NodesOf(bs))
  <2>1. \A n \in NodesOf(bs) : \E b \in bs : f[b] = n
    BY DEF NodesOf
  <2>2. f \in [bs -> NodesOf(bs)]
    BY DEF NodesOf
  <2> QED BY <2>1, <2>2 DEF Surjection
<1>5. IsFiniteSet(bs) /\ Cardinality(bs) = Cardinality(NodesOf(bs))
  BY <1>2, <1>3, <1>4, FS_Injection
<1> QED BY <1>2, <1>5, FS_CardinalityType

(* The backends on nodes that are not candidates, and the others. *)
Stray(bs, sel) == { b \in bs : b.node \notin sel }
Left(bs, sel) == bs \ Stray(bs, sel)

(* What diffBackend decides: the backends on other nodes go, and beyond them
   only as many as are too many; as many nodes as are missing come. *)
Decided(d, bs, sel, count) ==
    /\ d = [del |-> d.del, add |-> d.add]
    /\ Stray(bs, sel) \subseteq d.del /\ d.del \subseteq bs
    /\ d.add \subseteq sel \ NodesOf(bs)
    /\ Cardinality(Left(bs, sel)) \in Nat
    /\ \/ count = 0 /\ d.del = Stray(bs, sel) /\ d.add = sel \ NodesOf(bs)
       \/ /\ count > 0 /\ Cardinality(Left(bs, sel)) > count
          /\ d.add = {} /\ Cardinality(bs \ d.del) = count
       \/ /\ count > 0 /\ Cardinality(Left(bs, sel)) <= count
          /\ d.del = Stray(bs, sel)
          /\ Cardinality(d.add) = count - Cardinality(Left(bs, sel))

(* The definition by cases, in the sizes of sets. *)
LEMMA DiffBackendShape ==
    ASSUME NEW bs \in SUBSET Backend, Uniform(bs), NEW sel \in SUBSET Node, NEW count \in Nat,
           NEW d \in DiffBackend(bs, sel, count)
    PROVE  Decided(d, bs, sel, count)
<1> DEFINE gone == Stray(bs, sel)
           left == Left(bs, sel)
           free == sel \ NodesOf(bs)
<1>0. PICK n : n = Cardinality(left)
  OBVIOUS
<1>1. IsFiniteSet(bs) /\ IsFiniteSet(left) /\ n \in Nat /\ left \subseteq bs
  <2>1. IsFiniteSet(bs)
    BY UniformCount
  <2>2. IsFiniteSet(left)
    BY <2>1, FS_Difference DEF Left
  <2> QED BY <1>0, <2>1, <2>2, FS_CardinalityType DEF Left
<1>2. \/ count = 0 /\ d = [del |-> gone, add |-> free]
      \/ /\ count # 0 /\ n - count > 0
         /\ \E r \in RandomItems(left, n - count) : d = [del |-> gone \cup r, add |-> {}]
      \/ /\ count # 0 /\ ~(n - count > 0)
         /\ \E r \in RandomItems(free, -(n - count)) : d = [del |-> gone, add |-> r]
  BY <1>0 DEF DiffBackend, Stray, Left
<1>3. CASE count = 0
  BY <1>0, <1>1, <1>2, <1>3 DEF Stray, Decided
<1>4. CASE count # 0 /\ n - count > 0
  <2>1. PICK r \in RandomItems(left, n - count) : d = [del |-> gone \cup r, add |-> {}]
    BY <1>2, <1>4
  <2>2. r \in SUBSET left /\ Cardinality(r) = n - count
    BY <2>1 DEF RandomItems
  <2>3. bs \ d.del = left \ r /\ left \cap r = r
    BY <2>1, <2>2 DEF Left
  <2>4. Cardinality(left \ r) = Cardinality(left) - Cardinality(left \cap r)
    BY <1>1, FS_Difference
  <2>5. Cardinality(bs \ d.del) = n - (n - count)
    BY <1>0, <2>2, <2>3, <2>4
  <2>7. Cardinality(bs \ d.del) = count
    BY <1>1, <2>5
  <2> QED BY <1>0, <1>1, <1>4, <2>1, <2>2, <2>7 DEF Stray, Decided
<1>5. CASE count # 0 /\ ~(n - count > 0)
  <2>1. PICK r \in RandomItems(free, -(n - count)) : d = [del |-> gone, add |-> r]
    BY <1>2, <1>5
  <2>2. r \in SUBSET free /\ Cardinality(r) = count - n /\ n <= count
    BY <1>1, <1>5, <2>1 DEF RandomItems
  <2> QED BY <1>0, <1>1, <1>5, <2>1, <2>2 DEF Stray, Decided
<1> QED BY <1>3, <1>4, <1>5

(* After diffBackend's changes the listener has the backends it should. *)
LEMMA DiffBackendSettles ==
    ASSUME NEW bs \in SUBSET Backend, Uniform(bs), NEW sel \in SUBSET Node, NEW count \in Nat,
           NEW d \in DiffBackend(bs, sel, count),
           NEW after \in SUBSET Backend, Uniform(after),
           NodesOf(after) = NodesOf(bs \ d.del) \cup d.add
    PROVE  NodesOf(after) \subseteq sel /\ Cardinality(after) = Wants(sel, count)
<1> DEFINE gone == Stray(bs, sel)
           left == Left(bs, sel)
<1>1. Cardinality(after) = Cardinality(NodesOf(after))
  BY UniformCount
<1>2. Decided(d, bs, sel, count)
  BY DiffBackendShape
<1>3. NodesOf(after) \subseteq sel
  BY <1>2 DEF NodesOf, Stray, Decided
<1>4. \A cs \in SUBSET bs : /\ Cardinality(NodesOf(cs)) = Cardinality(cs)
                            /\ IsFiniteSet(NodesOf(cs))
  BY UniformCount DEF Uniform
<1>5. CASE count = 0
  <2>1. NodesOf(after) = sel
    BY <1>2, <1>5 DEF NodesOf, Stray, Decided
  <2> QED BY <1>1, <1>3, <1>5, <2>1 DEF Wants
<1>6. CASE count > 0 /\ Cardinality(left) > count
  <2>1. Cardinality(NodesOf(bs \ d.del)) = count
    BY <1>2, <1>4, <1>6 DEF Decided
  <2>2. NodesOf(after) = NodesOf(bs \ d.del)
    BY <1>2, <1>6 DEF Decided
  <2> QED BY <1>1, <1>3, <1>6, <2>1, <2>2 DEF Wants
<1>7. CASE count > 0 /\ Cardinality(left) <= count
  <2>0. bs \ d.del = left /\ left \subseteq bs
    BY <1>2, <1>7 DEF Left, Decided
  <2>1. NodesOf(after) = NodesOf(left) \cup d.add /\ left \subseteq bs
    BY <2>0
  <2>2. NodesOf(left) \cap d.add = {}
    BY <1>2, <2>1 DEF NodesOf, Decided
  <2>3. IsFiniteSet(d.add) /\ IsFiniteSet(NodesOf(left))
    <3>1. IsFiniteSet(sel)
      BY NodeAssumption, FS_Subset
    <3> QED BY <1>2, <1>4, <2>1, <3>1, FS_Subset DEF Decided
  <2>4. Cardinality(NodesOf(left) \cup d.add)
           = Cardinality(NodesOf(left)) + Cardinality(d.add) - Cardinality({})
    BY <2>2, <2>3, FS_Union
  <2>5. Cardinality(NodesOf(left)) = Cardinality(left)
    BY <1>4, <2>1
  <2>6. Cardinality(d.add) = count - Cardinality(left) /\ Cardinality(left) \in Nat
    BY <1>2, <1>7 DEF Decided
  <2>7. Cardinality({}) = 0
    BY FS_EmptySet
  <2> HIDE DEF left, gone
  <2>8. Cardinality(NodesOf(left) \cup d.add) = count
    BY <2>4, <2>5, <2>6, <2>7
  <2> QED BY <1>1, <1>3, <1>7, <2>1, <2>8 DEF Wants
<1> HIDE DEF left
<1>8. count = 0 \/ Cardinality(left) > count \/ Cardinality(left) <= count
  BY <1>2 DEF Decided, left
<1> QED BY <1>5, <1>6, <1>7, <1>8

Remaining(bs, d) == bs \ d.del
Suffices(bs, sel, count) == NodesOf(bs) \subseteq sel /\ Cardinality(bs) = Wants(sel, count)

(* Where nothing is missing, it is enough to take off the ones too many. *)
LEMMA DiffBackendRemoves ==
    ASSUME NEW bs \in SUBSET Backend, Uniform(bs), NEW sel \in SUBSET Node, NEW count \in Nat,
           NEW d \in DiffBackend(bs, sel, count), d.add = {}
    PROVE  Suffices(Remaining(bs, d), sel, count)
<1>1. PICK after : after = Remaining(bs, d)
  OBVIOUS
<1>2. NodesOf(after) = NodesOf(bs \ d.del) \cup d.add
  BY <1>1 DEF Remaining
<1>3. after \in SUBSET Backend /\ Uniform(after)
  BY <1>1 DEF Remaining, Uniform
<1>4. NodesOf(after) \subseteq sel /\ Cardinality(after) = Wants(sel, count)
  <2> HIDE <1>1
  <2> QED BY <1>2, <1>3, DiffBackendSettles
<1> QED BY <1>1, <1>4 DEF Suffices

-----------------------------------------------------------------------------
(* What a call in progress has done and has still to do.                   *)

(* The listeners of the service on the load balancer in hand. *)
Own(l, s) == { x \in ListenersOf(l) : x.svc = s }
Mine(r, v) == Own(v.lb, r.obj.svc)

(* The backends of a listener when the call read them. *)
Read0(p, x) == { b \in p.snap : b.lsn = x }

(* The listener is as port q asks for, and so are the node ports behind it. *)
Match(x, q) == x.port = q.port /\ x.attr = q.attr
NodePortIs(bs, q) == bs # {} /\ \A b \in bs : b.np = q.np
Good(x, q) == Match(x, q) /\ NodePortIs(BackendsOf(x), q)

(* The listener is as it should be when the call succeeds; every port has a
   listener. *)
Right(x, r, p) ==
    \E q \in r.obj.ports : Match(x, q) /\ RightBackends(x, q, p.sel, p.count)
Settled(r, v, p, xs) == \A x \in Mine(r, v) \ xs : Right(x, r, p)
Covered(r, v) == \A q \in r.obj.ports : \E x \in Mine(r, v) : Match(x, q)

(* The listeners that stay and have not been looked at yet. *)
Pending(r, v, p) ==
    /\ p.todo \subseteq Mine(r, v)
    /\ \A x \in p.todo :
          /\ BackendsOf(x) = Read0(p, x)
          /\ r.op = "ensure" => \E q \in r.obj.ports : Good(x, q)

(* Up to GetListeners: the lookup's copy of the own listeners is true. *)
Fresh(r, v, p) ==
    /\ v.own = Mine(r, v)
    /\ p.todo = {} /\ p.snap = {}

(* From there until the missing listeners are created. *)
Listed(r, v, p) ==
    /\ Pending(r, v, p)
    /\ \A b \in p.snap : b.lsn \in v.own
    /\ \A q \in r.obj.ports : q \in p.addPort <=> ~\E x \in Mine(r, v) : Good(x, q)
    /\ \A x \in Mine(r, v) : x \in p.todo <=> \E q \in r.obj.ports : Good(x, q)

(* The new listeners are there, those in p.new without backends. *)
Opened(r, v, p) ==
    /\ Pending(r, v, p) /\ Covered(r, v)
    /\ p.new \subseteq Mine(r, v) /\ p.new \cap p.todo = {}
    /\ \A x \in p.new : /\ BackendsOf(x) = {} /\ Read0(p, x) = {}
                        /\ \E q \in r.obj.ports : Match(x, q)
    /\ Settled(r, v, p, p.todo \cup p.new)

(* The backends of p.cur are being changed as diffBackend decided. *)
Differing(r, v, p) ==
    /\ Pending(r, v, p)
    /\ p.cur \in Mine(r, v) \ p.todo
    /\ Uniform(Read0(p, p.cur))
    /\ r.op = "ensure" => /\ Covered(r, v) /\ Settled(r, v, p, p.todo \cup {p.cur})
                          /\ \E q \in r.obj.ports :
                                Match(p.cur, q) /\ NodePortIs(Read0(p, p.cur), q)

Diff(p) == DiffBackend(Read0(p, p.cur), p.sel, p.count)

(* The steps before the listeners are read, and those of them that may come
   before the load balancer is created. *)
Seeking == {"get", "modify", "eip", "available", "allocate", "create", "associate",
            "dissociate", "refresh", "listeners"}
Creating(step, v) == step = "create" \/ (step \in {"available", "allocate"} /\ v.lb = NoLB)

Phase(r, step, v, p) ==
    /\ step \in Seeking => Fresh(r, v, p)
    /\ Creating(step, v) => p.addPort = r.obj.ports
    /\ step = "dellsn" => Listed(r, v, p) /\ p.delLsn = Mine(r, v) \ p.todo /\ p.delLsn # {}
    /\ step = "addlsn" => Listed(r, v, p) /\ p.todo = Mine(r, v)
    /\ step = "getnew" => Opened(r, v, p)
    /\ step = "fill" => /\ Opened(r, v, p)
                        /\ p.addNode \subseteq p.sel
                        /\ Cardinality(p.addNode) = Wants(p.sel, p.count)
    /\ step = "sync" => /\ Pending(r, v, p)
                        /\ r.op = "ensure" => Covered(r, v) /\ Settled(r, v, p, p.todo)
    /\ step = "delbk" => /\ Differing(r, v, p) /\ BackendsOf(p.cur) = Read0(p, p.cur)
                         /\ [del |-> p.delBk, add |-> p.addNode] \in Diff(p) /\ p.delBk # {}
    /\ step = "addbk" => /\ Differing(r, v, p) /\ p.addNode # {}
                         /\ \E d \in Diff(p) : /\ BackendsOf(p.cur) = Read0(p, p.cur) \ d.del
                                               /\ p.addNode = d.add
    /\ step \in {"apply", "ok"} /\ r.op = "ensure" => Covered(r, v) /\ Settled(r, v, p, {})

PhaseInv(t) ==
    pc[t] # "idle" /\ req[t].op \in {"ensure", "update"} =>
        Phase(req[t], pc[t], view[t], plan[t])

(* Listeners are on load balancers that exist; the backends of one listener
   have one node port and are on different nodes. *)
ListenersPlaced == \A x \in listeners : Exists(x.lb)
BackendsUniform ==
    \A b, c \in backends :
        b.lsn = c.lsn => b.np = c.np /\ (b.node = c.node => b = c)

(* The inductive invariant. *)
ConvergenceInv == ListenersPlaced /\ BackendsUniform /\ \A t \in Thread : PhaseInv(t)

(* One goroutine makes all the calls that change something.  (The results of
   a call are what the cloud is like until the next one.) *)
OneCaller ==
    /\ CallersPart
    /\ \A t, u \in Thread : Ops[t] \ {"exists"} # {} /\ Ops[u] \ {"exists"} # {} => t = u

-----------------------------------------------------------------------------
(* Ports and listeners.                                                    *)

(* A service has finitely many ports, and as many own listeners at most. *)
LEMMA PortsFinite ==
    ASSUME CallersPart, NEW o \in Object
    PROVE  IsFiniteSet(o.ports)
<1> DEFINE f == [q \in o.ports |-> q.port]
<1>1. o.ports \in SUBSET PortSpec
  BY ProviderAssumption DEF ServiceObject
<1>2. f \in [o.ports -> PortNo]
  BY <1>1 DEF PortSpec
<1>3. \A p, q \in o.ports : f[p] = f[q] => p = q
  BY DEF CallersPart
<1>4. f \in Injection(o.ports, PortNo)
  BY <1>2, <1>3 DEF Injection, IsInjective
<1> QED BY <1>4, PortAssumption, FS_Injection

(* Own listeners are told apart by their ports. *)
LEMMA OwnFinite ==
    ASSUME TypeOK, OnePerPort, NEW l, NEW s \in Service
    PROVE  /\ IsFiniteSet(Own(l, s))
           /\ \A x, y \in Own(l, s) : x.port = y.port => x = y
<1> DEFINE f == [x \in Own(l, s) |-> x.port]
<1>1. \A x, y \in Own(l, s) : x.port = y.port => x = y
  BY CloudAssumption DEF Own, ListenersOf, OnePerPort, PortOf
<1>2. f \in [Own(l, s) -> PortNo]
  BY DEF Own, ListenersOf, TypeOK, CloudTypeOK, Listener
<1>3. f \in Injection(Own(l, s), PortNo)
  BY <1>1, <1>2 DEF Injection, IsInjective
<1> QED BY <1>1, <1>3, PortAssumption, FS_Injection

(* When every port has its listener and every own listener is right, the
   service has converged: ports and own listeners are as many. *)
LEMMA SettledConverges ==
    ASSUME TypeOK, OnePerPort, CallersPart, NEW r, r.obj \in Object, NEW v, NEW p,
           Covered(r, v), Settled(r, v, p, {})
    PROVE  Converged(r.obj, v.lb, p.sel, p.count)
<1> DEFINE o == r.obj
           own == Mine(r, v)
           f == [q \in o.ports |-> CHOOSE x \in own : Match(x, q)]
<1>1. o.svc \in Service
  BY ProviderAssumption DEF ServiceObject
<1>2. /\ \A x, y \in own : x.port = y.port => x = y
      /\ \A q1, q2 \in o.ports : q1.port = q2.port => q1 = q2
  BY <1>1, OwnFinite DEF Mine, CallersPart
<1>3. \A q \in o.ports : f[q] \in own /\ Match(f[q], q)
  BY DEF Covered
<1>4. \A x \in own : \E q \in o.ports : Match(x, q) /\ RightBackends(x, q, p.sel, p.count)
  BY DEF Settled, Right
<1>5. f \in Bijection(o.ports, own)
  <2>1. f \in [o.ports -> own]
    BY <1>3
  <2>2. \A q1, q2 \in o.ports : f[q1] = f[q2] => q1 = q2
    BY <1>2, <1>3 DEF Match
  <2>3. \A x \in own : \E q \in o.ports : f[q] = x
    BY <1>2, <1>3, <1>4 DEF Match
  <2> HIDE DEF f, own
  <2> QED BY <2>1, <2>2, <2>3 DEF Bijection, Injection, Surjection, IsInjective
<1>6. Cardinality(own) = Cardinality(o.ports)
  BY <1>5, PortsFinite, FS_Bijection DEF ExistsBijection
<1>7. \A q \in o.ports : \E x \in own :
         x.port = q.port /\ x.attr = q.attr /\ RightBackends(x, q, p.sel, p.count)
  <2> SUFFICES ASSUME NEW q \in o.ports
               PROVE  \E x \in own : x.port = q.port /\ x.attr = q.attr
                                     /\ RightBackends(x, q, p.sel, p.count)
    OBVIOUS
  <2>1. PICK x \in own : Match(x, q)
    BY <1>3
  <2>2. PICK q2 \in o.ports : Match(x, q2) /\ RightBackends(x, q2, p.sel, p.count)
    BY <1>4
  <2>3. q2 = q
    BY <1>2, <2>1, <2>2 DEF Match
  <2> HIDE DEF own
  <2> QED BY <2>1, <2>2, <2>3 DEF Match
<1> QED BY <1>6, <1>7 DEF Converged, Mine, Own

(* In a service that has converged, no own listener is superfluous or wrong. *)
LEMMA ConvergedRight ==
    ASSUME TypeOK, OnePerPort, CallersPart, NEW o \in Object, NEW l, NEW sel, NEW count,
           Converged(o, l, sel, count), NEW x \in Own(l, o.svc)
    PROVE  \E q \in o.ports : Match(x, q) /\ RightBackends(x, q, sel, count)
<1> DEFINE own == Own(l, o.svc)
           Fits(y, q) == Match(y, q) /\ RightBackends(y, q, sel, count)
           f == [q \in o.ports |-> CHOOSE y \in own : Fits(y, q)]
<1>1. o.svc \in Service
  BY ProviderAssumption DEF ServiceObject
<1>2. /\ IsFiniteSet(own) /\ IsFiniteSet(o.ports)
      /\ \A q1, q2 \in o.ports : q1.port = q2.port => q1 = q2
  BY <1>1, OwnFinite, PortsFinite DEF CallersPart
<1>3. /\ Cardinality(own) = Cardinality(o.ports)
      /\ \A q \in o.ports : \E y \in own : Fits(y, q)
  BY DEF Converged, Own, Match
<1>4. \A q \in o.ports : f[q] \in own /\ Fits(f[q], q)
  <2> HIDE DEF Fits
  <2> QED BY <1>3
<1>5. f \in Injection(o.ports, own)
  <2>1. f \in [o.ports -> own]
    BY <1>4
  <2>2. \A q1, q2 \in o.ports : f[q1] = f[q2] => q1 = q2
    BY <1>2, <1>4 DEF Match
  <2> HIDE DEF f, own
  <2> QED BY <2>1, <2>2 DEF Injection, IsInjective
<1>6. f \in Surjection(o.ports, own)
  <2> HIDE DEF f, own
  <2> QED BY <1>2, <1>3, <1>5, FS_Injection
<1>7. \E q \in o.ports : f[q] = x
  BY <1>6 DEF Surjection
<1> QED BY <1>4, <1>7

-----------------------------------------------------------------------------
(* How a step of the call ends.                                            *)

(* Where GotoWith leads. *)
LEMMA Arrives ==
    ASSUME TypeOK, NEW t \in Thread, NEW step, NEW p, GotoWith(t, step, p)
    PROVE  pc'[t] = step /\ req' = req /\ view'[t] = view[t] /\ plan'[t] = p
BY DEF GotoWith, Goto, TypeOK, ThreadTypeOK

(* A call that fails, or is no ensure, leaves nothing to say. *)
LEMMA ReturnPhase ==
    ASSUME TypeOK, NEW t \in Thread,
           \/ Return(t, "error") \/ Return(t, "absent")
           \/ Return(t, "ok") /\ req[t].op # "ensure"
    PROVE  PhaseInv(t)'
<1>1. pc'[t] \in Results /\ req' = req /\ (pc'[t] = "ok" => req[t].op # "ensure")
  BY DEF Return, Goto, Results, TypeOK, ThreadTypeOK
<1>2. ASSUME NEW r, NEW step \in Results, NEW v, NEW p, step = "ok" => r.op # "ensure"
      PROVE  Phase(r, step, v, p)'
  BY <1>2 DEF Results, Phase, Seeking, Creating
<1>3. PICK r, step, v, p : r = req'[t] /\ step = pc'[t] /\ v = view'[t] /\ p = plan'[t]
  OBVIOUS
<1> QED BY <1>1, <1>2, <1>3 DEF PhaseInv

(* Up to GetListeners the call changes neither listeners nor backends. *)
LEMMA SeekingSame ==
    ASSUME NEW t \in Thread,
           \/ GetLoadBalancer(t) \/ ModifyLB(t) \/ UpdateLBEip(t) \/ GetAvailableEIP(t)
           \/ AllocateEIP(t) \/ AssociateEIPs(t) \/ DissociateEIPs(t) \/ RefreshStatus(t)
           \/ CreateLB(t) \/ GetListeners(t)
    PROVE  pc[t] \in Seeking /\ UNCHANGED <<listeners, backends>>
<1>1. CASE GetLoadBalancer(t) \/ UpdateLBEip(t) \/ GetAvailableEIP(t) \/ RefreshStatus(t)
           \/ GetListeners(t)
  BY <1>1 DEF Seeking, GetLoadBalancer, UpdateLBEip, GetAvailableEIP, RefreshStatus,
              GetListeners, Reject, Local, Read, cloudVars
<1>2. CASE ModifyLB(t) \/ AllocateEIP(t) \/ AssociateEIPs(t) \/ DissociateEIPs(t)
  BY <1>2 DEF Seeking, ModifyLB, AllocateEIP, AssociateEIPs, DissociateEIPs, Local, Call,
              Reject, cloudVars, ModifyLBEffect, AllocateEffect, AssociateEffect,
              DissociateEffect
<1>3. CASE CreateLB(t)
  <2>1. UNCHANGED cloudVars \/ \E l, n, a, x, es : CreateLBEffect(l, n, a, x, es)
    BY <1>3 DEF CreateLB, Local, Call, Reject
  <2> QED BY <1>3, <2>1 DEF Seeking, CreateLB, cloudVars, CreateLBEffect
<1> QED BY <1>1, <1>2, <1>3

(* The lookup's copy stays true until the listeners are read. *)
LEMMA SeekingPhase ==
    ASSUME TypeOK, NEW t \in Thread, ThreadInv(t), ListenersPlaced, PhaseInv(t),
           \/ GetLoadBalancer(t) \/ ModifyLB(t) \/ UpdateLBEip(t) \/ GetAvailableEIP(t)
           \/ AllocateEIP(t) \/ AssociateEIPs(t) \/ DissociateEIPs(t) \/ RefreshStatus(t)
    PROVE  PhaseInv(t)'
<1>0. PICK r, v, p : r = req[t] /\ v = view[t] /\ p = plan[t]
  OBVIOUS
<1> DEFINE o == r.obj
<1>1. pc[t] \in Seeking /\ UNCHANGED <<listeners, backends>>
  BY SeekingSame
<1>2. /\ pc[t] # "idle" /\ req' = req
      /\ KnowsLB(r, pc[t], v) /\ InOp(r, pc[t])
  <2>1. pc[t] # "idle" /\ req' = req
    BY <1>1, StepMoves DEF Step, OnlyMoves, Seeking
  <2> QED BY <1>0, <2>1 DEF ThreadInv
<1>3. CASE r.op \notin {"ensure", "update"}
  BY <1>0, <1>2, <1>3 DEF PhaseInv
<1>4. CASE r.op \in {"ensure", "update"}
  <2>1. v.own = Mine(r, v) /\ p.todo = {} /\ p.snap = {} /\ (Creating(pc[t], v) => p.addPort = o.ports)
    BY <1>0, <1>1, <1>2, <1>4 DEF PhaseInv, Phase, Fresh
  <2>2. p \in Plan /\ v \in View
    BY <1>0 DEF TypeOK, ThreadTypeOK
  <2>3. ASSUME NEW step \in Seeking, NEW w, NEW q, pc'[t] = step, view'[t] = w, plan'[t] = q,
               w.own = Own(w.lb, o.svc), q.todo = {}, q.snap = {},
               Creating(step, w) => q.addPort = o.ports
        PROVE  PhaseInv(t)'
    <3>1. Fresh(r, w, q)'
      BY <1>1, <2>3 DEF Fresh, Mine, Own, ListenersOf
    <3>2. Phase(r, step, w, q)'
      BY <2>3, <3>1 DEF Phase, Seeking, Creating
    <3> QED BY <1>0, <1>2, <2>3, <3>2 DEF PhaseInv
  <2>4. ASSUME NEW step \in Seeking, NEW q, GotoWith(t, step, q), q.todo = p.todo, q.snap = p.snap,
               Creating(step, v) => q.addPort = o.ports
        PROVE  PhaseInv(t)'
    <3>1. pc'[t] = step /\ view'[t] = v /\ plan'[t] = q
      BY <1>0, <2>4, Arrives
    <3> QED BY <2>1, <2>3, <2>4, <3>1 DEF Mine
  <2>5. \A l \in LB : l # NoLB
    BY CloudAssumption
  <2>6. CASE GetLoadBalancer(t)
    <3>1. ASSUME NEW l, Found(t, l), l \in LB PROVE PhaseInv(t)'
      <4>1. CASE Return(t, "error")
        BY <4>1, ReturnPhase
      <4>2. CASE ~Return(t, "error")
        <5> DEFINE f == FilterNodes(o.cfg, r.nodes, eps[o.svc])
                   q == [p EXCEPT !.sel = f.nodes, !.count = f.count]
        <5>1. /\ view' = [view EXCEPT ![t] = ViewOf(l, o.svc)]
              /\ plan' = [plan EXCEPT ![t].sel = f.nodes, ![t].count = f.count]
              /\ Goto(t, IF r.op = "ensure" THEN "modify" ELSE "listeners")
          BY <1>0, <1>4, <3>1, <4>2 DEF Found
        <5>2. view'[t] = ViewOf(l, o.svc) /\ plan'[t].todo = p.todo /\ plan'[t].snap = p.snap
          BY <1>0, <2>2, <5>1 DEF TypeOK, ThreadTypeOK, Plan
        <5>3. pc'[t] \in {"modify", "listeners"}
          BY <1>4, <5>1 DEF Goto, TypeOK, ThreadTypeOK
        <5>4. ViewOf(l, o.svc).own = Own(ViewOf(l, o.svc).lb, o.svc)
          BY DEF ViewOf, Own, ListenersOf
        <5>5. PICK w, q2, step : w = ViewOf(l, o.svc) /\ q2 = plan'[t] /\ step = pc'[t]
          OBVIOUS
        <5>6. step \in Seeking /\ ~Creating(step, w)
          BY <5>3, <5>5 DEF Seeking, Creating
        <5> QED BY <2>1, <2>3, <5>2, <5>4, <5>5, <5>6
      <4> QED BY <4>1, <4>2
    <3>2. ASSUME NotFound(t) PROVE PhaseInv(t)'
      <4>1. CASE Return(t, "error")
        BY <4>1, ReturnPhase
      <4>2. CASE ~Return(t, "error")
        <5> DEFINE f == FilterNodes(o.cfg, r.nodes, eps[o.svc])
                   q == [p EXCEPT !.sel = f.nodes, !.count = f.count, !.addEip = o.eipIDs,
                                  !.addPort = o.ports, !.modify = TRUE]
        <5>1. GotoWith(t, CreateStep(o), q)
          BY <1>0, <1>4, <3>2, <4>2 DEF NotFound
        <5>2. q.todo = p.todo /\ q.snap = p.snap /\ q.addPort = o.ports
          BY <2>2 DEF Plan
        <5>3. CreateStep(o) \in Seeking
          BY DEF CreateStep, PrepareStep, Seeking
        <5> HIDE DEF q
        <5> QED BY <2>4, <5>1, <5>2, <5>3
      <4> QED BY <4>1, <4>2
    <3>3. Lookup(r.op, o) \subseteq LB
      BY LookupType
    <3> QED BY <1>0, <1>4, <2>6, <3>1, <3>2, <3>3, ReturnPhase DEF GetLoadBalancer, Reject, Local
  <2>7. CASE ModifyLB(t)
    <3>1. Return(t, "error") \/ \E q : GotoWith(t, "eip", q) /\ q.todo = p.todo /\ q.snap = p.snap
      BY <1>0, <2>2, <2>7 DEF ModifyLB, Call, Local, Plan
    <3>2. "eip" \in Seeking /\ ~Creating("eip", v)
      BY DEF Seeking, Creating
    <3> QED BY <2>4, <3>1, <3>2, ReturnPhase
  <2>8. CASE UpdateLBEip(t)
    <3>1. \E step \in {"listeners", "available", "allocate", "associate", "dissociate"} : \E q :
             /\ GotoWith(t, step, q) /\ q.todo = p.todo /\ q.snap = p.snap
             /\ step \in {"available", "allocate"} => o.lbid = NoLB
      BY <1>0, <2>2, <2>8 DEF UpdateLBEip, Local, PrepareStep, Plan
    <3>2. o.lbid = NoLB => v.lb # NoLB
      BY <1>0, <1>2, <2>5, <2>8 DEF UpdateLBEip, KnowsLB, Owns
    <3> QED BY <2>4, <3>1, <3>2 DEF Seeking, Creating
  <2>9. ASSUME NEW e, UseEip(t, e), pc[t] \in {"available", "allocate"} PROVE PhaseInv(t)'
    <3>1. \E step \in {"create", "associate"} : \E q :
             /\ GotoWith(t, step, q) /\ q.todo = p.todo /\ q.snap = p.snap
             /\ q.addPort = p.addPort /\ (step = "create" => v.lb = NoLB)
      BY <1>0, <2>2, <2>9 DEF UseEip, Plan
    <3> QED BY <2>1, <2>4, <2>9, <3>1 DEF Seeking, Creating
  <2>10. CASE GetAvailableEIP(t) \/ AllocateEIP(t)
    <3>1. \/ Return(t, "error") \/ \E e : UseEip(t, e)
          \/ GotoWith(t, "allocate", p)
      BY <1>0, <2>10 DEF GetAvailableEIP, AllocateEIP, Read, Call, Local, Reject
    <3>2. pc[t] = "available" \/ (pc[t] = "allocate" /\ ~GetAvailableEIP(t))
      BY <2>10 DEF GetAvailableEIP, AllocateEIP
    <3>3. ASSUME GotoWith(t, "allocate", p) PROVE PhaseInv(t)'
      <4>1. Creating("allocate", v) => Creating(pc[t], v)
        BY <3>2 DEF Creating
      <4> QED BY <2>1, <2>4, <3>3, <4>1 DEF Seeking
    <3> QED BY <2>9, <3>1, <3>2, <3>3, ReturnPhase
  <2>11. CASE AssociateEIPs(t) \/ DissociateEIPs(t)
    <3>1. Return(t, "error") \/ \E step \in {"dissociate", "refresh"} : GotoWith(t, step, p)
      BY <1>0, <2>11 DEF AssociateEIPs, DissociateEIPs, Call
    <3> QED BY <2>4, <3>1, ReturnPhase DEF Seeking, Creating
  <2>12. CASE RefreshStatus(t)
    <3>1. ASSUME NEW l, view' = [view EXCEPT ![t] = [ViewOf(l, o.svc) EXCEPT !.eips = v.eips, !.attr = v.attr]],
                 Goto(t, "listeners"), UNCHANGED plan
          PROVE  PhaseInv(t)'
      <4>1. PICK w : w = [ViewOf(l, o.svc) EXCEPT !.eips = v.eips, !.attr = v.attr]
        OBVIOUS
      <4>2. w.own = Own(w.lb, o.svc)
        BY <4>1 DEF ViewOf, Own, ListenersOf
      <4>3. pc'[t] = "listeners" /\ view'[t] = w /\ plan'[t] = p
        BY <1>0, <3>1, <4>1 DEF Goto, TypeOK, ThreadTypeOK
      <4>4. "listeners" \in Seeking /\ ~Creating("listeners", w)
        BY DEF Seeking, Creating
      <4> QED BY <2>1, <2>3, <4>2, <4>3, <4>4
    <3> QED BY <1>0, <2>12, <3>1, ReturnPhase DEF RefreshStatus, Read, Local
  <2> QED BY <2>6, <2>7, <2>8, <2>10, <2>11, <2>12
<1> QED BY <1>3, <1>4

-----------------------------------------------------------------------------
(* Listeners.                                                              *)

(* The snapshot of a listener's backends, and Uniform, from BackendsUniform. *)
LEMMA UniformOf ==
    ASSUME TypeOK, BackendsUniform, NEW x
    PROVE  Uniform(BackendsOf(x)) /\ BackendsOf(x) \in SUBSET Backend
BY DEF BackendsUniform, Uniform, BackendsOf, TypeOK, CloudTypeOK

(* On a new load balancer there is nothing yet. *)
LEMMA CreateLBPhase ==
    ASSUME TypeOK, NEW t \in Thread, ThreadInv(t), ListenersPlaced, PhaseInv(t), CreateLB(t)
    PROVE  PhaseInv(t)'
<1>0. PICK r, p : r = req[t] /\ p = plan[t]
  OBVIOUS
<1>1. /\ pc[t] = "create" /\ pc[t] # "idle" /\ req' = req
      /\ UNCHANGED <<listeners, backends>> /\ r.op = "ensure"
  <2>1. pc[t] = "create" /\ pc[t] # "idle"
    BY DEF CreateLB
  <2>2. req' = req
    BY StepMoves DEF Step, OnlyMoves
  <2> QED BY <1>0, <2>1, <2>2, SeekingSame DEF ThreadInv, InOp, Building
<1>2. p.addPort = r.obj.ports /\ p.todo = {} /\ p.snap = {}
  BY <1>0, <1>1 DEF PhaseInv, Phase, Creating, Seeking, Fresh
<1>3. ASSUME ~Return(t, "error") PROVE PhaseInv(t)'
  <2> DEFINE attr == IF r.obj.attr = NoAttr THEN DefaultAttr ELSE r.obj.attr
             created(l) == [NoView EXCEPT !.lb = l, !.vip = TRUE, !.attr = attr]
  <2>1. PICK l \in LB : /\ lbs[l].name = Unborn /\ view' = [view EXCEPT ![t] = created(l)]
                        /\ Goto(t, "addlsn") /\ UNCHANGED plan
    BY <1>0, <1>3 DEF CreateLB, Call, Reject, Local
  <2>2. PICK w : w = created(l)
    OBVIOUS
  <2>3. w.lb = l /\ pc'[t] = "addlsn" /\ view'[t] = w /\ plan'[t] = p
    BY <1>0, <2>1, <2>2 DEF NoView, Goto, TypeOK, ThreadTypeOK
  <2>4. Mine(r, w)' = {}
    BY <1>1, <2>1, <2>3 DEF Mine, Own, ListenersOf, ListenersPlaced, Exists
  <2>5. Listed(r, w, p)' /\ p.todo = Mine(r, w)'
    BY <1>2, <2>4 DEF Listed, Pending
  <2>6. Phase(r, "addlsn", w, p)'
    BY <2>5 DEF Phase, Seeking, Creating
  <2> QED BY <1>0, <1>1, <2>3, <2>6 DEF PhaseInv
<1> QED BY <1>3, ReturnPhase

(* diffListeners keeps the good ones and asks for the ports without one. *)
LEMMA DiffListenersGood ==
    ASSUME TypeOK, BackendsUniform, NEW xs \in SUBSET listeners, NEW ports \in SUBSET PortSpec,
           NEW bs, bs = { b \in backends : b.lsn \in xs },
           NEW first \in FirstNodePorts(xs, bs)
    PROVE  LET d == DiffListeners(xs, first, ports)
           IN  /\ d.keep = { x \in xs : \E q \in ports : Good(x, q) }
               /\ d.del = xs \ d.keep
               /\ d.add = { q \in ports : \A x \in xs : ~Good(x, q) }
<1>1. ASSUME NEW x \in xs, NEW q \in ports
      PROVE  SameListener(x, first[x], q) <=> Good(x, q)
  <2> DEFINE nps == { b.np : b \in { c \in bs : c.lsn = x } }
  <2>1. { c \in bs : c.lsn = x } = BackendsOf(x)
    BY DEF BackendsOf
  <2>2. first[x] \in (IF nps = {} THEN {NoNodePort} ELSE nps)
    BY DEF FirstNodePorts
  <2>3. \A b, c \in BackendsOf(x) : b.np = c.np
    BY DEF BackendsUniform, BackendsOf
  <2>4. q.np \in NodePort /\ NoNodePort \notin NodePort
    BY ProviderAssumption DEF PortSpec
  <2>5. CASE BackendsOf(x) = {}
    <3>1. first[x] = NoNodePort
      BY <2>1, <2>2, <2>5
    <3> QED BY <2>4, <2>5, <3>1 DEF SameListener, Good, NodePortIs
  <2>6. CASE BackendsOf(x) # {}
    <3>1. \E b \in BackendsOf(x) : first[x] = b.np
      BY <2>1, <2>2, <2>6
    <3>2. first[x] = q.np <=> \A b \in BackendsOf(x) : b.np = q.np
      BY <2>3, <3>1
    <3> QED BY <2>6, <3>2 DEF SameListener, Good, NodePortIs, Match
  <2> QED BY <2>5, <2>6
<1> QED BY <1>1 DEF DiffListeners

(* Where GetListeners leads, from the request, the plan, the listeners of the
   thread's copy, those of them that are there and their backends. *)
ListenersRead(t, r, p, mine, own, bs) ==
    \/ mine = {} /\ r.op = "update" /\ Return(t, "ok")
    \/ mine = {} /\ r.op = "ensure"
       /\ GotoWith(t, "addlsn", [p EXCEPT !.addPort = r.obj.ports, !.modify = TRUE])
    \/ r.op = "update" /\ GotoWith(t, "sync", [p EXCEPT !.todo = own, !.snap = bs])
    \/ Return(t, "error")
    \/ r.op = "ensure" /\ \E first \in FirstNodePorts(own, bs) :
           LET d == DiffListeners(own, first, r.obj.ports)
           IN  GotoWith(t, IF d.del # {} THEN "dellsn" ELSE "addlsn",
                        [p EXCEPT !.delLsn = d.del, !.addPort = d.add,
                                  !.todo = d.keep, !.snap = bs])

LEMMA GetListenersReads ==
    ASSUME NEW t \in Thread, GetListeners(t)
    PROVE  LET mine == view[t].own
               own == mine \cap listeners
           IN  ListenersRead(t, req[t], plan[t], mine, own, { b \in backends : b.lsn \in own })
BY Zenon DEF GetListeners, Read, Local, ListenersRead

(* GetListeners reads the listeners and backends there are. *)
LEMMA GetListenersPhase ==
    ASSUME TypeOK, NEW t \in Thread, ThreadInv(t), BackendsUniform, PhaseInv(t), GetListeners(t)
    PROVE  PhaseInv(t)'
<1>0. PICK r, v, p : r = req[t] /\ v = view[t] /\ p = plan[t]
  OBVIOUS
<1> DEFINE own == Mine(r, v)
           bs == { b \in backends : b.lsn \in own }
<1>1. /\ pc[t] = "listeners" /\ pc[t] # "idle" /\ req' = req
      /\ UNCHANGED <<listeners, backends>> /\ r.op \in {"ensure", "update"}
  <2>1. pc[t] = "listeners" /\ pc[t] # "idle"
    BY DEF GetListeners
  <2>2. req' = req
    BY StepMoves DEF Step, OnlyMoves
  <2> QED BY <1>0, <2>1, <2>2, SeekingSame DEF ThreadInv, InOp
<1>2. v.own = own /\ p.todo = {} /\ p.snap = {}
  BY <1>0, <1>1 DEF PhaseInv, Phase, Seeking, Fresh
<1>3. p \in Plan /\ r.obj.ports \in SUBSET PortSpec
  BY <1>0, <1>1, RequestType DEF ServiceObject
<1>4. own \cap listeners = own /\ own \in SUBSET listeners
  BY DEF Mine, Own, ListenersOf
<1>5. \A x \in own : BackendsOf(x) = { b \in bs : b.lsn = x }
  BY DEF BackendsOf
<1>6. ASSUME NEW q, NEW step \in {"addlsn", "dellsn", "sync"}, GotoWith(t, step, q),
             Phase(r, step, v, q)
      PROVE  PhaseInv(t)'
  <2>1. pc'[t] = step /\ view'[t] = v /\ plan'[t] = q
    BY <1>0, <1>6, Arrives
  <2>2. PICK q2 : q2 = q
    OBVIOUS
  <2>3. Mine(r, v)' = Mine(r, v) /\ \A x : BackendsOf(x)' = BackendsOf(x)
    BY <1>1 DEF Mine, Own, ListenersOf, BackendsOf
  <2>4. Pending(r, v, q2)' <=> Pending(r, v, q2)
    BY <2>3 DEF Pending, Good, NodePortIs, Read0
  <2>5. Listed(r, v, q2)' <=> Listed(r, v, q2)
    BY <2>3, <2>4 DEF Listed, Good, NodePortIs
  <2>6. Phase(r, step, v, q2)'
    <3>1. CASE step = "sync" /\ r.op = "update"
      BY <1>6, <2>2, <2>4, <3>1 DEF Phase, Seeking, Creating
    <3>2. CASE step \in {"addlsn", "dellsn"}
      BY <1>6, <2>2, <2>3, <2>5, <3>2 DEF Phase, Seeking, Creating
    <3>3. CASE step = "sync" /\ r.op = "ensure"
      <4>1. GetListeners(t) => pc'[t] # "sync"
        BY <1>0, <1>1, <3>3 DEF GetListeners, Read, Local, Return, GotoWith, Goto, TypeOK, ThreadTypeOK
      <4> QED BY <2>1, <3>3, <4>1
    <3> QED BY <1>1, <3>1, <3>2, <3>3
  <2> QED BY <1>0, <1>1, <2>1, <2>2, <2>6 DEF PhaseInv
<1>7. CASE own = {} /\ r.op = "update" /\ Return(t, "ok")
  BY <1>0, <1>7, ReturnPhase
<1>8. CASE own = {} /\ r.op = "ensure"
           /\ GotoWith(t, "addlsn", [p EXCEPT !.addPort = r.obj.ports, !.modify = TRUE])
  <2>1. PICK q : q = [p EXCEPT !.addPort = r.obj.ports, !.modify = TRUE]
    OBVIOUS
  <2>2. q.addPort = r.obj.ports /\ q.todo = {} /\ q.snap = {}
    BY <1>2, <1>3, <2>1 DEF Plan
  <2>3. Phase(r, "addlsn", v, q)
    BY <1>8, <2>2 DEF Phase, Seeking, Creating, Listed, Pending
  <2> QED BY <1>6, <1>8, <2>1, <2>3
<1>9. CASE r.op = "update" /\ GotoWith(t, "sync", [p EXCEPT !.todo = own, !.snap = bs])
  <2>1. PICK q : q = [p EXCEPT !.todo = own, !.snap = bs]
    OBVIOUS
  <2>2. q.todo = own /\ q.snap = bs
    BY <1>3, <2>1 DEF Plan
  <2>3. Phase(r, "sync", v, q)
    BY <1>5, <1>9, <2>2 DEF Phase, Seeking, Creating, Pending, Read0
  <2> QED BY <1>6, <1>9, <2>1, <2>3
<1>10. ASSUME r.op = "ensure", NEW first \in FirstNodePorts(own, bs),
              LET d == DiffListeners(own, first, r.obj.ports)
              IN  GotoWith(t, IF d.del # {} THEN "dellsn" ELSE "addlsn",
                           [p EXCEPT !.delLsn = d.del, !.addPort = d.add,
                                     !.todo = d.keep, !.snap = bs])
       PROVE  PhaseInv(t)'
  <2> DEFINE d == DiffListeners(own, first, r.obj.ports)
  <2>1. PICK q : q = [p EXCEPT !.delLsn = d.del, !.addPort = d.add, !.todo = d.keep, !.snap = bs]
    OBVIOUS
  <2>2. q.delLsn = d.del /\ q.addPort = d.add /\ q.todo = d.keep /\ q.snap = bs
    BY <1>3, <2>1 DEF Plan
  <2>3. /\ d.keep = { x \in own : \E s \in r.obj.ports : Good(x, s) }
        /\ d.del = own \ d.keep
        /\ d.add = { s \in r.obj.ports : \A x \in own : ~Good(x, s) }
    BY <1>3, <1>4, DiffListenersGood
  <2> HIDE DEF d
  <2>4. Pending(r, v, q)
    BY <1>5, <2>2, <2>3 DEF Pending, Read0
  <2>5. Listed(r, v, q)
    BY <1>2, <2>2, <2>3, <2>4 DEF Listed
  <2>6. CASE d.del # {}
    <3>1. Phase(r, "dellsn", v, q)
      BY <2>2, <2>3, <2>5, <2>6 DEF Phase, Seeking, Creating
    <3> QED BY <1>6, <1>10, <2>1, <2>6, <3>1 DEF d
  <2>7. CASE d.del = {}
    <3>1. Phase(r, "addlsn", v, q)
      BY <2>2, <2>3, <2>5, <2>7 DEF Phase, Seeking, Creating
    <3> QED BY <1>6, <1>10, <2>1, <2>7, <3>1 DEF d
  <2> QED BY <2>6, <2>7
<1>11. \/ own = {} /\ r.op = "update" /\ Return(t, "ok")
       \/ own = {} /\ r.op = "ensure"
          /\ GotoWith(t, "addlsn", [p EXCEPT !.addPort = r.obj.ports, !.modify = TRUE])
       \/ r.op = "update" /\ GotoWith(t, "sync", [p EXCEPT !.todo = own, !.snap = bs])
       \/ Return(t, "error")
       \/ r.op = "ensure" /\ \E first \in FirstNodePorts(own, bs) :
              LET d == DiffListeners(own, first, r.obj.ports)
              IN  GotoWith(t, IF d.del # {} THEN "dellsn" ELSE "addlsn",
                           [p EXCEPT !.delLsn = d.del, !.addPort = d.add,
                                     !.todo = d.keep, !.snap = bs])
  <2> DEFINE mine == view[t].own
             found(xs) == { b \in backends : b.lsn \in xs }
  <2>1. mine = own /\ mine \cap listeners = own
    BY <1>0, <1>2, <1>4
  <2>2. ListenersRead(t, r, p, mine, mine \cap listeners, found(mine \cap listeners))
    BY <1>0, GetListenersReads, Zenon
  <2>3. found(own) = bs
    OBVIOUS
  <2> HIDE DEF own, bs, mine, found
  <2>4. ListenersRead(t, r, p, own, own, bs)
    BY <2>1, <2>2, <2>3, Zenon
  <2> QED BY <2>4, Zenon DEF ListenersRead
<1> QED BY <1>7, <1>8, <1>9, <1>10, <1>11, ReturnPhase

(* Once the superfluous listeners are gone, the good ones are what there is. *)
LEMMA DeleteListenerPhase ==
    ASSUME TypeOK, NEW t \in Thread, ThreadInv(t), PhaseInv(t), DeleteListener(t)
    PROVE  PhaseInv(t)'
<1>0. PICK r, v, p : r = req[t] /\ v = view[t] /\ p = plan[t]
  OBVIOUS
<1>1. pc[t] = "dellsn" /\ pc[t] # "idle" /\ req' = req /\ r.op \in Builds
  <2>1. pc[t] = "dellsn" /\ pc[t] # "idle"
    BY DEF DeleteListener
  <2> QED BY <1>0, <2>1, StepMoves DEF Step, OnlyMoves, ThreadInv, InOp
<1>2. ASSUME r.op = "ensure", ~Return(t, "error") PROVE PhaseInv(t)'
  <2>1. PICK q : q = [p EXCEPT !.modify = TRUE]
    OBVIOUS
  <2>2. /\ DeleteListenersEffect(p.delLsn) /\ GotoWith(t, "addlsn", q)
    BY <1>0, <1>1, <1>2, <2>1 DEF DeleteListener, Call
  <2>3. q.todo = p.todo /\ q.addPort = p.addPort /\ q.snap = p.snap
    BY <1>0, <1>1, <2>1, RequestType DEF Plan
  <2>4. pc'[t] = "addlsn" /\ view'[t] = v /\ plan'[t] = q
    BY <1>0, <2>2, Arrives
  <2>5. Listed(r, v, p) /\ p.delLsn = Mine(r, v) \ p.todo
    BY <1>0, <1>1, <1>2 DEF PhaseInv, Phase
  <2>6. p.todo \subseteq Mine(r, v)
    BY <2>5 DEF Listed, Pending
  <2>7. listeners' = listeners \ p.delLsn
    BY <2>2 DEF DeleteListenersEffect
  <2>8. Mine(r, v)' = p.todo
    BY <2>5, <2>6, <2>7 DEF Mine, Own, ListenersOf
  <2>9. \A x \in p.todo : BackendsOf(x)' = BackendsOf(x)
    BY <2>2, <2>5 DEF DeleteListenersEffect, BackendsOf
  <2>10. \A x \in p.todo : \A s : Good(x, s)' <=> Good(x, s)
    BY <2>9 DEF Good, NodePortIs, Match
  <2>11. Pending(r, v, q)'
    BY <2>3, <2>5, <2>8, <2>9, <2>10 DEF Listed, Pending, Read0
  <2>12. \A s \in r.obj.ports : s \in q.addPort <=> ~\E x \in p.todo : Good(x, s)
    BY <2>3, <2>5, <2>6 DEF Listed
  <2>13. \A x \in p.todo : \E s \in r.obj.ports : Good(x, s)
    BY <2>5, <2>6 DEF Listed
  <2>14. Listed(r, v, q)'
    BY <2>3, <2>5, <2>8, <2>10, <2>11, <2>12, <2>13 DEF Listed
  <2>15. Phase(r, "addlsn", v, q)'
    BY <2>3, <2>8, <2>14 DEF Phase, Seeking, Creating
  <2> QED BY <1>0, <1>1, <2>4, <2>15 DEF PhaseInv
<1> QED BY <1>0, <1>1, <1>2, ReturnPhase DEF PhaseInv, Builds

(* The new listeners are new, whatever the call or the cloud remembers of
   earlier ones, and fill the gaps. *)
LEMMA CreateListenerPhase ==
    ASSUME TypeOK, NEW t \in Thread, ThreadInv(t), OnListeners, PhaseInv(t), CreateListener(t)
    PROVE  PhaseInv(t)'
<1>0. PICK r, v, p : r = req[t] /\ v = view[t] /\ p = plan[t]
  OBVIOUS
<1>1. pc[t] = "addlsn" /\ pc[t] # "idle" /\ req' = req /\ r.op = "ensure"
  <2>1. pc[t] = "addlsn" /\ pc[t] # "idle"
    BY DEF CreateListener
  <2> QED BY <1>0, <2>1, StepMoves DEF Step, OnlyMoves, ThreadInv, InOp, Building
<1>2. /\ Listed(r, v, p) /\ p.todo = Mine(r, v) /\ p.addPort \subseteq r.obj.ports
      /\ p \in Plan
  BY <1>0, <1>1, RequestType DEF PhaseInv, Phase, ThreadInv, OwnOnly
<1>3. CASE p.addPort = {} /\ UNCHANGED cloudVars /\ GotoWith(t, "sync", p)
  <2>1. pc'[t] = "sync" /\ view'[t] = v /\ plan'[t] = p
    BY <1>0, <1>3, Arrives
  <2>2. Pending(r, v, p) /\ Covered(r, v) /\ Settled(r, v, p, p.todo)
    BY <1>2, <1>3 DEF Listed, Covered, Good, Settled
  <2>3. /\ Mine(r, v)' = Mine(r, v) /\ \A x : BackendsOf(x)' = BackendsOf(x)
    BY <1>3 DEF cloudVars, Mine, Own, ListenersOf, BackendsOf
  <2>4. Pending(r, v, p)' /\ Covered(r, v)'
    BY <2>2, <2>3 DEF Pending, Covered, Good, NodePortIs, Read0
  <2>5. Settled(r, v, p, p.todo)'
    BY <1>2, <2>3 DEF Settled
  <2>6. Phase(r, "sync", v, p)'
    BY <2>4, <2>5 DEF Phase, Seeking, Creating
  <2> QED BY <1>0, <1>1, <2>1, <2>6 DEF PhaseInv
<1>4. ASSUME NEW g,
             g \in FreshGen({ x.gen : x \in { y \in KnownListeners : y.lb = v.lb } }),
             NEW new, new = NewListeners(v.lb, r.obj.svc, p.addPort, g),
             CanAddListeners(v.lb, new), AddListenersEffect(v.lb, new),
             GotoWith(t, "getnew", [p EXCEPT !.new = new, !.modify = TRUE])
      PROVE  PhaseInv(t)'
  <2>1. PICK q : q = [p EXCEPT !.new = new, !.modify = TRUE]
    OBVIOUS
  <2>2. q.todo = p.todo /\ q.snap = p.snap /\ q.new = new
    BY <1>2, <2>1 DEF Plan
  <2>3. pc'[t] = "getnew" /\ view'[t] = v /\ plan'[t] = q
    BY <1>0, <1>4, <2>1, Arrives
  <2>4. \A x \in new : /\ x.lb = v.lb /\ x.svc = r.obj.svc /\ x.gen = g
                       /\ \E s \in p.addPort : Match(x, s)
    BY <1>4 DEF NewListeners, Match
  <2>5. ASSUME NEW s \in p.addPort PROVE \E x \in new : Match(x, s)
    <3>1. PICK x : x = [lb |-> v.lb, svc |-> r.obj.svc, port |-> s.port,
                        attr |-> s.attr, gen |-> g]
      OBVIOUS
    <3>2. x \in new
      BY <1>4, <3>1 DEF NewListeners
    <3> QED BY <3>1, <3>2 DEF Match
  <2>6. Mine(r, v)' = Mine(r, v) \cup new
    BY <1>4, <2>4 DEF AddListenersEffect, Mine, Own, ListenersOf
  <2>7. \A x : BackendsOf(x)' = BackendsOf(x)
    BY <1>4 DEF AddListenersEffect, BackendsOf
  <2>8. \A x \in new : x \notin listeners
    BY <1>4 DEF CanAddListeners
  <2>9. \A x \in new : BackendsOf(x)' = {}
    BY <2>7, <2>8 DEF OnListeners, BackendsOf
  <2>10. ASSUME NEW x \in new PROVE Read0(q, x) = {}
    <3>1. x \notin v.own
      BY <1>0, <1>4, <2>4 DEF FreshGen, KnownListeners
    <3> QED BY <1>2, <2>2, <3>1 DEF Listed, Read0
  <2>11. Pending(r, v, q)'
    <3>1. Pending(r, v, p)
      BY <1>2 DEF Listed
    <3> QED BY <2>2, <2>6, <2>7, <3>1 DEF Pending, Read0, Good, NodePortIs
  <2>12. Covered(r, v)'
    <3>1. \A s \in r.obj.ports \ p.addPort : \E x \in Mine(r, v) : Match(x, s)
      BY <1>2 DEF Listed, Good
    <3> QED BY <2>5, <2>6, <3>1 DEF Covered
  <2>13. new \cap p.todo = {}
    BY <1>2, <2>8 DEF Mine, Own, ListenersOf
  <2>14. Settled(r, v, q, q.todo \cup q.new)'
    BY <1>2, <2>2, <2>6 DEF Settled
  <2>15. Opened(r, v, q)'
    BY <1>2, <2>2, <2>4, <2>6, <2>9, <2>10, <2>11, <2>12, <2>13, <2>14 DEF Opened, Read0
  <2>16. Phase(r, "getnew", v, q)'
    BY <2>15 DEF Phase, Seeking, Creating
  <2> QED BY <1>0, <1>1, <2>3, <2>16 DEF PhaseInv
<1>5. \/ p.addPort = {} /\ UNCHANGED cloudVars /\ GotoWith(t, "sync", p)
      \/ Return(t, "error")
      \/ \E g \in FreshGen({ x.gen : x \in { y \in KnownListeners : y.lb = v.lb } }) :
            LET new == NewListeners(v.lb, r.obj.svc, p.addPort, g)
            IN  /\ CanAddListeners(v.lb, new) /\ AddListenersEffect(v.lb, new)
                /\ GotoWith(t, "getnew", [p EXCEPT !.new = new, !.modify = TRUE])
  BY <1>0 DEF CreateListener, Call, Local, Reject
<1> QED BY <1>3, <1>4, <1>5, ReturnPhase

(* Reading the new listeners back shows nothing new; the nodes drawn for them
   are as many as they should have. *)
LEMMA GetNewListenersPhase ==
    ASSUME TypeOK, NEW t \in Thread, ThreadInv(t), PhaseInv(t), GetNewListeners(t)
    PROVE  PhaseInv(t)'
<1>0. PICK r, v, p : r = req[t] /\ v = view[t] /\ p = plan[t]
  OBVIOUS
<1> DEFINE xs == p.new \cap listeners
           bs == { b \in backends : b.lsn \in xs }
           chosen == IF p.count = 0 THEN {p.sel} ELSE RandomItems(p.sel, p.count)
<1>1. pc[t] = "getnew" /\ pc[t] # "idle" /\ req' = req /\ r.op = "ensure" /\ p \in Plan
  <2>1. pc[t] = "getnew" /\ pc[t] # "idle"
    BY DEF GetNewListeners
  <2> QED BY <1>0, <2>1, StepMoves, RequestType DEF Step, OnlyMoves, ThreadInv, InOp, Building
<1>2. Opened(r, v, p)
  BY <1>0, <1>1 DEF PhaseInv, Phase
<1>3. xs = p.new /\ bs = {}
  <2>1. xs = p.new
    BY <1>2 DEF Opened, Mine, Own, ListenersOf
  <2> QED BY <1>2, <2>1 DEF Opened, BackendsOf
<1>4. CASE GotoWith(t, "hang", p)
  <2>1. pc'[t] = "hang" /\ view'[t] = v /\ plan'[t] = p
    BY <1>0, <1>4, Arrives
  <2>2. Phase(r, "hang", v, p)'
    BY DEF Phase, Seeking, Creating
  <2> QED BY <1>0, <1>1, <2>1, <2>2 DEF PhaseInv
<1>5. ASSUME UNCHANGED cloudVars, NEW ns \in chosen,
             GotoWith(t, "fill", [p EXCEPT !.new = xs, !.addNode = ns, !.snap = p.snap \cup bs])
      PROVE  PhaseInv(t)'
  <2>1. PICK q : q = [p EXCEPT !.new = xs, !.addNode = ns, !.snap = p.snap \cup bs]
    OBVIOUS
  <2>2. /\ q.new = p.new /\ q.todo = p.todo /\ q.snap = p.snap /\ q.addNode = ns
        /\ q.sel = p.sel /\ q.count = p.count
    BY <1>1, <1>3, <2>1 DEF Plan
  <2>3. pc'[t] = "fill" /\ view'[t] = v /\ plan'[t] = q
    BY <1>0, <1>5, <2>1, Arrives
  <2>4. ns \subseteq p.sel /\ Cardinality(ns) = Wants(p.sel, p.count)
    BY <1>5 DEF RandomItems, Wants
  <2>5. /\ Mine(r, v)' = Mine(r, v) /\ \A x : BackendsOf(x)' = BackendsOf(x)
    BY <1>5 DEF cloudVars, Mine, Own, ListenersOf, BackendsOf
  <2>6. \A x, s : RightBackends(x, s, p.sel, p.count)' <=> RightBackends(x, s, p.sel, p.count)
    BY <2>5 DEF RightBackends
  <2>7. Settled(r, v, q, q.todo \cup q.new)'
    BY <1>2, <2>2, <2>5, <2>6 DEF Opened, Settled, Right
  <2>8. Pending(r, v, q)' /\ Covered(r, v)'
    BY <1>2, <2>2, <2>5 DEF Opened, Pending, Covered, Good, NodePortIs, Read0
  <2>9. Opened(r, v, q)'
    BY <1>2, <2>2, <2>5, <2>7, <2>8 DEF Opened, Read0
  <2>10. Phase(r, "fill", v, q)'
    BY <2>2, <2>4, <2>9 DEF Phase, Seeking, Creating
  <2> QED BY <1>0, <1>1, <2>3, <2>10 DEF PhaseInv
<1>6. \/ Return(t, "error")
      \/ GotoWith(t, "hang", p)
      \/ /\ UNCHANGED cloudVars
         /\ \E ns \in chosen :
               GotoWith(t, "fill", [p EXCEPT !.new = xs, !.addNode = ns, !.snap = p.snap \cup bs])
  BY <1>0 DEF GetNewListeners, Read, Local
<1> QED BY <1>4, <1>5, <1>6, ReturnPhase

-----------------------------------------------------------------------------
(* Backends.                                                               *)

(* Listener x, and no other, gets backends on the nodes ns and one of the node
   ports nps. *)
Added(x, ns, nps) ==
    /\ listeners' = listeners
    /\ \E np \in nps : \E new :
          /\ backends' = backends \cup new
          /\ NodesOf(new) = ns
          /\ \A b \in new : b.lsn = x /\ b.np = np
          /\ \A b, c \in new : b.node = c.node => b = c

LEMMA CreateBackendsAdds ==
    ASSUME NEW t \in Thread, NEW x, NEW ns, NEW step, NEW p,
           CreateBackends(t, x, ns, GotoWith(t, step, p))
    PROVE  \/ Return(t, "error") /\ UNCHANGED <<listeners, backends>>
           \/ GotoWith(t, step, p) /\ UNCHANGED <<listeners, backends>> /\ ns = {}
           \/ /\ GotoWith(t, step, p) \/ Return(t, "error")
              /\ Added(x, ns, ListenerNodePorts(x, plan[t].snap, req[t].obj.ports))
<1> DEFINE nps == ListenerNodePorts(x, plan[t].snap, req[t].obj.ports)
           Then == GotoWith(t, step, p)
<1>1. \/ ns = {} /\ Local(Then)
      \/ Reject(t)
      \/ \E np \in nps : \E g :
            Call(t, CanAddBackends(x),
                 AddBackendsEffect(x, { [lsn |-> x, node |-> n, np |-> np, gen |-> g] : n \in ns }),
                 Then)
  BY DEF CreateBackends
<1>2. ASSUME NEW np \in nps, NEW g,
             AddBackendsEffect(x, { [lsn |-> x, node |-> n, np |-> np, gen |-> g] : n \in ns })
      PROVE  Added(x, ns, nps)
  <2> DEFINE new == { [lsn |-> x, node |-> n, np |-> np, gen |-> g] : n \in ns }
  <2>1. backends' = backends \cup new /\ listeners' = listeners
    BY <1>2 DEF AddBackendsEffect
  <2>2. NodesOf(new) = ns
    <3>1. ASSUME NEW n \in ns PROVE \E b \in new : b.node = n
      <4>1. [lsn |-> x, node |-> n, np |-> np, gen |-> g] \in new
        OBVIOUS
      <4> QED BY <4>1
    <3>2. \A b \in new : b.node \in ns
      OBVIOUS
    <3> HIDE DEF new
    <3> QED BY <3>1, <3>2 DEF NodesOf
  <2>3. /\ \A b \in new : b.lsn = x /\ b.np = np
        /\ \A b, c \in new : b.node = c.node => b = c
    OBVIOUS
  <2> HIDE DEF new
  <2> QED BY <2>1, <2>2, <2>3 DEF Added
<1>3. CASE ns = {} /\ Local(Then)
  BY <1>3 DEF Local, cloudVars
<1>4. CASE Reject(t)
  BY <1>4 DEF Reject, Local, cloudVars
<1>5. ASSUME NEW np \in nps, NEW g,
             Call(t, CanAddBackends(x),
                  AddBackendsEffect(x, { [lsn |-> x, node |-> n, np |-> np, gen |-> g] : n \in ns }),
                  Then)
      PROVE  \/ Return(t, "error") /\ UNCHANGED <<listeners, backends>>
             \/ (Then \/ Return(t, "error")) /\ Added(x, ns, nps)
  BY <1>2, <1>5 DEF Call, cloudVars
<1> QED BY <1>1, <1>3, <1>4, <1>5

(* What Added means for each listener. *)
LEMMA AddedTo ==
    ASSUME NEW x, NEW ns, NEW nps, Added(x, ns, nps)
    PROVE  /\ \A y : y # x => BackendsOf(y)' = BackendsOf(y)
           /\ \E np \in nps : \E new :
                 /\ BackendsOf(x)' = BackendsOf(x) \cup new
                 /\ NodesOf(new) = ns
                 /\ \A b \in new : b.np = np
                 /\ \A b, c \in new : b.node = c.node => b = c
BY DEF Added, BackendsOf

(* Backends on other nodes and the same node port keep a listener uniform. *)
LEMMA UniformUnion ==
    ASSUME NEW bs, Uniform(bs), NEW new, NEW np, NodesOf(bs) \cap NodesOf(new) = {},
           \A b \in bs : b.np = np, \A b \in new : b.np = np,
           \A b, c \in new : b.node = c.node => b = c
    PROVE  Uniform(bs \cup new) /\ NodesOf(bs \cup new) = NodesOf(bs) \cup NodesOf(new)
<1>1. \A b \in bs, c \in new : b.node # c.node
  BY DEF NodesOf
<1> QED BY <1>1 DEF Uniform, NodesOf

(* The backends of a listener decide whether they are right. *)
LEMMA RightFrom ==
    ASSUME NEW x, NEW s, NEW sel, NEW count, NEW after \in SUBSET Backend,
           BackendsOf(x)' = after, Uniform(after), NodesOf(after) \subseteq sel,
           \A b \in after : b.np = s.np, Cardinality(after) = Wants(sel, count)
    PROVE  RightBackends(x, s, sel, count)'
BY UniformCount DEF RightBackends, Wants

(* New backends beside none, or beside others of the same node port on other
   nodes, are no mixture. *)
LEMMA AddedUniform ==
    ASSUME BackendsUniform, NEW x, NEW ns, NEW nps, Added(x, ns, nps),
           \A b \in BackendsOf(x) : \A np \in nps : b.np = np,
           NodesOf(BackendsOf(x)) \cap ns = {}
    PROVE  BackendsUniform'
<1>1. \A y : Uniform(BackendsOf(y))
  BY DEF BackendsUniform, Uniform, BackendsOf
<1>0. PICK np \in nps : \E new :
         /\ BackendsOf(x)' = BackendsOf(x) \cup new
         /\ NodesOf(new) = ns
         /\ \A b \in new : b.np = np
         /\ \A b, c \in new : b.node = c.node => b = c
  BY AddedTo
<1>2. PICK new :
         /\ BackendsOf(x)' = BackendsOf(x) \cup new
         /\ NodesOf(new) = ns
         /\ \A b \in new : b.np = np
         /\ \A b, c \in new : b.node = c.node => b = c
  BY <1>0
<1>3. Uniform(BackendsOf(x) \cup new)
  <2>1. PICK bs : bs = BackendsOf(x)
    OBVIOUS
  <2>2. /\ Uniform(bs) /\ NodesOf(bs) \cap NodesOf(new) = {}
        /\ \A b \in bs : b.np = np
    BY <1>1, <1>2, <2>1
  <2>3. Uniform(bs \cup new)
    BY <1>2, <2>2, UniformUnion
  <2> QED BY <2>1, <2>3
<1>4. ASSUME NEW y PROVE Uniform(BackendsOf(y)')
  <2>1. CASE y = x
    BY <1>2, <1>3, <2>1
  <2>2. CASE y # x
    BY <1>1, <2>2, AddedTo
  <2> QED BY <2>1, <2>2
<1>5. ASSUME NEW b \in backends', NEW c \in backends', b.lsn = c.lsn
      PROVE  b.np = c.np /\ (b.node = c.node => b = c)
  <2>1. b \in BackendsOf(b.lsn)' /\ c \in BackendsOf(b.lsn)'
    BY <1>5 DEF BackendsOf
  <2> QED BY <1>4, <2>1 DEF Uniform
<1> QED BY <1>5 DEF BackendsUniform

(* A new listener gets the backends it should have, the others keep theirs. *)
LEMMA FillListenerPhase ==
    ASSUME TypeOK, TypeOK', CallersPart, NEW t \in Thread, ThreadInv(t), BackendsUniform,
           PhaseInv(t), FillListener(t)
    PROVE  PhaseInv(t)' /\ BackendsUniform'
<1>0. PICK r, v, p : r = req[t] /\ v = view[t] /\ p = plan[t]
  OBVIOUS
<1>1. /\ pc[t] = "fill" /\ pc[t] # "idle" /\ req' = req /\ r.op = "ensure" /\ p \in Plan
      /\ r.obj \in Object
  <2>1. pc[t] = "fill" /\ pc[t] # "idle"
    BY DEF FillListener
  <2> QED BY <1>0, <2>1, StepMoves, RequestType DEF Step, OnlyMoves, ThreadInv, InOp, Building
<1>2. /\ Opened(r, v, p) /\ p.addNode \subseteq p.sel
      /\ Cardinality(p.addNode) = Wants(p.sel, p.count)
  BY <1>0, <1>1 DEF PhaseInv, Phase
<1>3. CASE p.new = {} /\ UNCHANGED cloudVars /\ GotoWith(t, "sync", [p EXCEPT !.addNode = {}])
  <2>1. PICK q : q = [p EXCEPT !.addNode = {}]
    OBVIOUS
  <2>2. q.todo = p.todo /\ q.snap = p.snap /\ q.sel = p.sel /\ q.count = p.count
    BY <1>1, <2>1 DEF Plan
  <2>3. pc'[t] = "sync" /\ view'[t] = v /\ plan'[t] = q
    BY <1>0, <1>3, <2>1, Arrives
  <2>4. /\ Mine(r, v)' = Mine(r, v) /\ \A x : BackendsOf(x)' = BackendsOf(x)
    BY <1>3 DEF cloudVars, Mine, Own, ListenersOf, BackendsOf
  <2>5. \A x, s : RightBackends(x, s, p.sel, p.count)' <=> RightBackends(x, s, p.sel, p.count)
    BY <2>4 DEF RightBackends
  <2>6. p.todo \cup p.new = p.todo
    BY <1>3
  <2>7. Settled(r, v, q, q.todo)'
    BY <1>2, <2>2, <2>4, <2>5, <2>6 DEF Opened, Settled, Right
  <2>8. Pending(r, v, q)' /\ Covered(r, v)'
    BY <1>2, <2>2, <2>4 DEF Opened, Pending, Covered, Good, NodePortIs, Read0
  <2>9. Phase(r, "sync", v, q)'
    BY <2>7, <2>8 DEF Phase, Seeking, Creating
  <2>10. BackendsUniform'
    BY <1>3 DEF cloudVars, BackendsUniform
  <2> QED BY <1>0, <1>1, <2>3, <2>9, <2>10 DEF PhaseInv
<1>4. ASSUME NEW x \in p.new,
             CreateBackends(t, x, p.addNode, GotoWith(t, "fill", [p EXCEPT !.new = p.new \ {x}]))
      PROVE  PhaseInv(t)' /\ BackendsUniform'
  <2> DEFINE nps == ListenerNodePorts(x, p.snap, r.obj.ports)
             Then == GotoWith(t, "fill", [p EXCEPT !.new = p.new \ {x}])
  <2>1. \/ Return(t, "error") /\ UNCHANGED <<listeners, backends>>
        \/ Then /\ UNCHANGED <<listeners, backends>> /\ p.addNode = {}
        \/ (Then \/ Return(t, "error")) /\ Added(x, p.addNode, nps)
    BY <1>0, <1>4, CreateBackendsAdds
  <2>2. /\ BackendsOf(x) = {} /\ Read0(p, x) = {} /\ x \in Mine(r, v) \ p.todo
        /\ \E s \in r.obj.ports : Match(x, s)
    BY <1>2 DEF Opened
  <2>3. BackendsUniform'
    <3>1. CASE UNCHANGED <<listeners, backends>>
      BY <3>1 DEF BackendsUniform
    <3>2. CASE Added(x, p.addNode, nps)
      BY <2>2, <3>2, AddedUniform DEF NodesOf
    <3> QED BY <2>1, <3>1, <3>2
  <2>4. PICK s \in r.obj.ports : Match(x, s)
    BY <2>2
  <2>5. nps \subseteq {s.np}
    <3>1. { c \in p.snap : c.lsn = x } = {}
      BY <2>2 DEF Read0
    <3>2. \A np \in nps : \E s2 \in r.obj.ports : s2.port = x.port /\ np = s2.np
      BY <3>1 DEF ListenerNodePorts
    <3>3. \A s2 \in r.obj.ports : s2.port = x.port => s2 = s
      BY <1>1, <2>4 DEF CallersPart, Match
    <3> QED BY <3>2, <3>3
  <2>6. ASSUME Then,
               \/ UNCHANGED <<listeners, backends>> /\ p.addNode = {}
               \/ Added(x, p.addNode, nps)
        PROVE  PhaseInv(t)'
    <3>1. PICK q : q = [p EXCEPT !.new = p.new \ {x}]
      OBVIOUS
    <3>2. /\ q.todo = p.todo /\ q.snap = p.snap /\ q.sel = p.sel /\ q.count = p.count
          /\ q.addNode = p.addNode /\ q.new = p.new \ {x}
      BY <1>1, <3>1 DEF Plan
    <3>3. pc'[t] = "fill" /\ view'[t] = v /\ plan'[t] = q
      BY <1>0, <2>6, <3>1, Arrives
    <3>4. /\ Mine(r, v)' = Mine(r, v)
          /\ \A y : y # x => BackendsOf(y)' = BackendsOf(y)
      <4>1. listeners' = listeners
        BY <2>6 DEF Added
      <4>2. CASE Added(x, p.addNode, nps)
        BY <4>1, <4>2, AddedTo DEF Mine, Own, ListenersOf
      <4>3. CASE UNCHANGED backends
        BY <4>1, <4>3 DEF BackendsOf, Mine, Own, ListenersOf
      <4> QED BY <2>6, <4>2, <4>3
    <3>5. PICK after : after = BackendsOf(x)'
      OBVIOUS
    <3>6. /\ after \in SUBSET Backend /\ Uniform(after)
          /\ NodesOf(after) = p.addNode /\ \A b \in after : b.np = s.np
      <4>1. after \in SUBSET Backend /\ Uniform(after)
        BY <2>3, <3>5 DEF BackendsUniform, Uniform, BackendsOf, TypeOK, CloudTypeOK
      <4>2. CASE UNCHANGED <<listeners, backends>> /\ p.addNode = {}
        BY <2>2, <3>5, <4>1, <4>2 DEF BackendsOf, NodesOf
      <4>3. CASE Added(x, p.addNode, nps)
        BY <2>2, <2>5, <3>5, <4>1, <4>3, AddedTo
      <4> QED BY <2>6, <4>2, <4>3
    <3>7. RightBackends(x, s, p.sel, p.count)'
      <4>1. Cardinality(after) = Wants(p.sel, p.count)
        BY <1>2, <3>6, UniformCount
      <4> QED BY <1>2, <3>5, <3>6, <4>1, RightFrom
    <3>8. Pending(r, v, q)' /\ Covered(r, v)'
      BY <1>2, <2>2, <3>2, <3>4 DEF Opened, Pending, Covered, Good, NodePortIs, Read0
    <3>9. Settled(r, v, q, q.todo \cup q.new)'
      <4>1. ASSUME NEW y \in Mine(r, v) \ (p.todo \cup (p.new \ {x})) PROVE Right(y, r, q)'
        <5>1. CASE y = x
          BY <2>4, <3>2, <3>7, <5>1 DEF Right
        <5>2. CASE y # x
          <6>1. BackendsOf(y)' = BackendsOf(y) /\ Right(y, r, p)
            BY <1>2, <3>4, <4>1, <5>2 DEF Opened, Settled
          <6> QED BY <3>2, <6>1 DEF Right, RightBackends
        <5> QED BY <5>1, <5>2
      <4> QED BY <3>2, <3>4, <4>1 DEF Settled
    <3>10. Opened(r, v, q)'
      BY <1>2, <3>2, <3>4, <3>8, <3>9 DEF Opened, Read0
    <3>11. Phase(r, "fill", v, q)'
      BY <1>2, <3>2, <3>10 DEF Phase, Seeking, Creating
    <3> QED BY <1>0, <1>1, <3>3, <3>11 DEF PhaseInv
  <2> QED BY <2>1, <2>3, <2>6, ReturnPhase
<1> QED BY <1>0, <1>3, <1>4 DEF FillListener, Local

(* What diffBackend asked for is there when the new backends are. *)
LEMMA AddBackendsPhase ==
    ASSUME TypeOK, TypeOK', NEW t \in Thread, ThreadInv(t), BackendsUniform,
           PhaseInv(t), AddBackends(t)
    PROVE  PhaseInv(t)' /\ BackendsUniform'
<1>0. PICK r, v, p : r = req[t] /\ v = view[t] /\ p = plan[t]
  OBVIOUS
<1>1. /\ pc[t] = "addbk" /\ pc[t] # "idle" /\ req' = req /\ r.op \in {"ensure", "update"}
      /\ p \in Plan
  <2>1. pc[t] = "addbk" /\ pc[t] # "idle"
    BY DEF AddBackends
  <2> QED BY <1>0, <2>1, StepMoves, RequestType DEF Step, OnlyMoves, ThreadInv, InOp
<1>2. Differing(r, v, p) /\ p.addNode # {}
  BY <1>0, <1>1 DEF PhaseInv, Phase
<1>3. PICK d \in Diff(p) : /\ BackendsOf(p.cur) = Read0(p, p.cur) \ d.del
                           /\ p.addNode = d.add
  BY <1>0, <1>1 DEF PhaseInv, Phase
<1>4. PICK x, bs, ns : x = p.cur /\ bs = Read0(p, p.cur) /\ ns = p.addNode
  OBVIOUS
<1> DEFINE nps == ListenerNodePorts(x, p.snap, r.obj.ports)
           Then == GotoWith(t, "sync", [p EXCEPT !.addNode = {}, !.modify = TRUE])
<1>5. /\ bs \in SUBSET Backend /\ Uniform(bs)
      /\ d \in DiffBackend(bs, p.sel, p.count)
      /\ p.sel \in SUBSET Node /\ p.count \in Nat
      /\ BackendsOf(x) = bs \ d.del /\ d.add = ns
  BY <1>1, <1>2, <1>3, <1>4 DEF Differing, Diff, Read0, Plan
<1>6. /\ \/ Return(t, "error") /\ UNCHANGED <<listeners, backends>>
         \/ (Then \/ Return(t, "error")) /\ Added(x, ns, nps)
  BY <1>0, <1>2, <1>4, CreateBackendsAdds DEF AddBackends
<1>7. bs # {} => nps = { b.np : b \in bs }
  BY <1>4 DEF ListenerNodePorts, Read0
<1>8. NodesOf(bs) \cap ns = {}
  <2>1. PICK sel, count : sel = p.sel /\ count = p.count
    OBVIOUS
  <2>2. Decided(d, bs, sel, count)
    BY <1>5, <2>1, DiffBackendShape
  <2>3. d.add \subseteq sel \ NodesOf(bs)
    BY <2>2 DEF Decided
  <2> QED BY <1>5, <2>3
<1>9. \A b \in bs \ d.del : \A np \in nps : b.np = np
  BY <1>5, <1>7 DEF Uniform
<1>10. BackendsUniform'
  <2>1. CASE UNCHANGED <<listeners, backends>>
    BY <2>1 DEF BackendsUniform
  <2>2. CASE Added(x, ns, nps)
    <3>1. NodesOf(BackendsOf(x)) \cap ns = {}
      BY <1>5, <1>8 DEF NodesOf
    <3> HIDE DEF nps
    <3> QED BY <1>5, <1>9, <2>2, <3>1, AddedUniform
  <2> QED BY <1>6, <2>1, <2>2
<1>11. ASSUME Then, Added(x, ns, nps) PROVE PhaseInv(t)'
  <2>1. PICK q : q = [p EXCEPT !.addNode = {}, !.modify = TRUE]
    OBVIOUS
  <2>2. q.todo = p.todo /\ q.snap = p.snap /\ q.sel = p.sel /\ q.count = p.count
    BY <1>1, <2>1 DEF Plan
  <2>3. pc'[t] = "sync" /\ view'[t] = v /\ plan'[t] = q
    BY <1>0, <1>11, <2>1, Arrives
  <2>4. /\ Mine(r, v)' = Mine(r, v)
        /\ \A y : y # x => BackendsOf(y)' = BackendsOf(y)
    BY <1>11, AddedTo DEF Added, Mine, Own, ListenersOf
  <2>5. Pending(r, v, q)'
    BY <1>2, <1>4, <2>2, <2>4 DEF Differing, Pending, Good, NodePortIs, Read0
  <2>6. ASSUME r.op = "ensure" PROVE Covered(r, v)' /\ Settled(r, v, q, q.todo)'
    <3>1. Covered(r, v)'
      BY <1>2, <2>4, <2>6 DEF Differing, Covered
    <3>2. PICK s \in r.obj.ports : Match(x, s) /\ NodePortIs(bs, s)
      BY <1>2, <1>4, <2>6 DEF Differing
    <3>3. nps = {s.np}
      BY <1>7, <3>2 DEF NodePortIs
    <3>4. PICK after : after = BackendsOf(x)'
      OBVIOUS
    <3>5. after \in SUBSET Backend /\ Uniform(after)
      BY <1>10, <3>4 DEF BackendsUniform, Uniform, BackendsOf, TypeOK, CloudTypeOK
    <3>6. PICK new : /\ after = (bs \ d.del) \cup new
                     /\ NodesOf(new) = ns
                     /\ \A b \in new : b.np = s.np
      BY <1>5, <1>11, <3>3, <3>4, AddedTo
    <3>7. NodesOf(after) = NodesOf(bs \ d.del) \cup d.add
      BY <1>5, <3>6 DEF NodesOf
    <3>8. NodesOf(after) \subseteq p.sel /\ Cardinality(after) = Wants(p.sel, p.count)
      <4>1. PICK sel, count : sel = p.sel /\ count = p.count
        OBVIOUS
      <4>2. /\ sel \in SUBSET Node /\ count \in Nat
            /\ d \in DiffBackend(bs, sel, count)
        BY <1>5, <4>1
      <4>3. bs \in SUBSET Backend /\ Uniform(bs)
        BY <1>5
      <4> HIDE <4>1
      <4>4. NodesOf(after) \subseteq sel /\ Cardinality(after) = Wants(sel, count)
        BY <3>5, <3>7, <4>2, <4>3, DiffBackendSettles
      <4> QED BY <4>1, <4>4
    <3>9. \A b \in after : b.np = s.np
      BY <3>2, <3>6 DEF NodePortIs
    <3>10. RightBackends(x, s, p.sel, p.count)'
      BY <3>4, <3>5, <3>8, <3>9, RightFrom
    <3>11. Settled(r, v, q, q.todo)'
      <4>1. ASSUME NEW y \in Mine(r, v) \ p.todo PROVE Right(y, r, q)'
        <5>1. CASE y = x
          BY <2>2, <3>2, <3>10, <5>1 DEF Right
        <5>2. CASE y # x
          <6>1. BackendsOf(y)' = BackendsOf(y) /\ Right(y, r, p)
            BY <1>2, <1>4, <2>4, <2>6, <4>1, <5>2 DEF Differing, Settled
          <6> QED BY <2>2, <6>1 DEF Right, RightBackends
        <5> QED BY <5>1, <5>2
      <4> QED BY <2>2, <2>4, <4>1 DEF Settled
    <3> QED BY <3>1, <3>11
  <2>7. Phase(r, "sync", v, q)'
    BY <2>5, <2>6 DEF Phase, Seeking, Creating
  <2> QED BY <1>0, <1>1, <2>3, <2>7 DEF PhaseInv
<1> QED BY <1>6, <1>10, <1>11, ReturnPhase

(* Phase speaks of listeners and backends only. *)
LEMMA PhaseSame ==
    ASSUME UNCHANGED <<listeners, backends>>, NEW r, NEW step, NEW v, NEW p
    PROVE  Phase(r, step, v, p)' <=> Phase(r, step, v, p)
<1>1. Mine(r, v)' = Mine(r, v) /\ \A x : BackendsOf(x)' = BackendsOf(x)
  BY DEF Mine, Own, ListenersOf, BackendsOf
<1>2. \A x, s : /\ Good(x, s)' <=> Good(x, s)
                /\ RightBackends(x, s, p.sel, p.count)' <=> RightBackends(x, s, p.sel, p.count)
  BY <1>1 DEF Good, NodePortIs, RightBackends
<1>3. /\ Pending(r, v, p)' <=> Pending(r, v, p)
      /\ Fresh(r, v, p)' <=> Fresh(r, v, p)
      /\ Covered(r, v)' <=> Covered(r, v)
  BY <1>1, <1>2 DEF Pending, Fresh, Covered, Read0
<1>4. \A xs : Settled(r, v, p, xs)' <=> Settled(r, v, p, xs)
  BY <1>1, <1>2 DEF Settled, Right
<1>5. /\ Listed(r, v, p)' <=> Listed(r, v, p)
      /\ Opened(r, v, p)' <=> Opened(r, v, p)
      /\ Differing(r, v, p)' <=> Differing(r, v, p)
  BY <1>1, <1>2, <1>3, <1>4 DEF Listed, Opened, Differing, Read0
<1> QED BY <1>1, <1>3, <1>4, <1>5 DEF Phase

(* A call that succeeds leaves its service as it is. *)
LEMMA SuccessPhase ==
    ASSUME TypeOK, NEW t \in Thread, NEW r, NEW v, NEW p,
           r = req[t], v = view[t], p = plan[t], p \in Plan,
           Return(t, "ok"), UNCHANGED <<listeners, backends>>,
           r.op = "ensure" => Covered(r, v) /\ Settled(r, v, p, {})
    PROVE  PhaseInv(t)'
<1>1. PICK w, q : w = [NoView EXCEPT !.lb = v.lb]
                  /\ q = [NoPlan EXCEPT !.sel = p.sel, !.count = p.count]
  OBVIOUS
<1>2. pc'[t] = "ok" /\ req'[t] = r /\ view'[t] = w /\ plan'[t] = q
  BY <1>1 DEF Return, Goto, TypeOK, ThreadTypeOK
<1>3. w.lb = v.lb /\ q.sel = p.sel /\ q.count = p.count
  BY <1>1 DEF NoView, NoPlan
<1>4. r.op = "ensure" => Covered(r, w) /\ Settled(r, w, q, {})
  BY <1>3 DEF Covered, Settled, Right, Mine
<1>5. Phase(r, "ok", w, q)
  BY <1>4 DEF Phase, Seeking, Creating
<1>6. Phase(r, "ok", w, q)'
  BY <1>5, PhaseSame
<1> QED BY <1>2, <1>6 DEF PhaseInv

(* The loop of the listeners that stay takes one after the other, and is done
   with those that diffBackend finds as they should be. *)
LEMMA SyncListenerPhase ==
    ASSUME TypeOK, NEW t \in Thread, ThreadInv(t), BackendsUniform, PhaseInv(t), SyncListener(t)
    PROVE  PhaseInv(t)'
<1>0. PICK r, v, p : r = req[t] /\ v = view[t] /\ p = plan[t]
  OBVIOUS
<1> DEFINE diffs(x) == DiffBackend(Read0(p, x), p.sel, p.count)
           next(d) == IF d.del # {} THEN "delbk" ELSE IF d.add # {} THEN "addbk" ELSE "sync"
           after(x, d) == [p EXCEPT !.todo = p.todo \ {x}, !.cur = x,
                                    !.delBk = d.del, !.addNode = d.add]
<1>1. /\ pc[t] = "sync" /\ pc[t] # "idle" /\ req' = req /\ r.op \in {"ensure", "update"}
      /\ p \in Plan
  <2>1. pc[t] = "sync" /\ pc[t] # "idle"
    BY DEF SyncListener
  <2> QED BY <1>0, <2>1, StepMoves, RequestType DEF Step, OnlyMoves, ThreadInv, InOp
<1>2. Pending(r, v, p) /\ (r.op = "ensure" => Covered(r, v) /\ Settled(r, v, p, p.todo))
  BY <1>0, <1>1 DEF PhaseInv, Phase
<1>3. UNCHANGED <<listeners, backends>>
  BY DEF SyncListener, Reject, Local, cloudVars
<1>4. ASSUME NEW step, NEW q, GotoWith(t, step, q), Phase(r, step, v, q)
      PROVE  PhaseInv(t)'
  <2>1. pc'[t] = step /\ view'[t] = v /\ plan'[t] = q
    BY <1>0, <1>4, Arrives
  <2>2. Phase(r, step, v, q)'
    BY <1>3, <1>4, PhaseSame
  <2> QED BY <1>0, <1>1, <2>1, <2>2 DEF PhaseInv
<1>5. CASE p.todo = {} /\ Return(t, "ok")
  BY <1>0, <1>1, <1>2, <1>3, <1>5, SuccessPhase
<1>6. CASE p.todo = {} /\ GotoWith(t, "apply", p)
  <2>1. Phase(r, "apply", v, p)
    BY <1>2, <1>6 DEF Phase, Seeking, Creating
  <2> QED BY <1>4, <1>6, <2>1
<1>7. CASE GotoWith(t, "hang", p)
  <2>1. Phase(r, "hang", v, p)
    BY DEF Phase, Seeking, Creating
  <2> QED BY <1>4, <1>7, <2>1
<1>8. ASSUME NEW x \in p.todo, NEW d \in diffs(x), GotoWith(t, next(d), after(x, d))
      PROVE  PhaseInv(t)'
  <2>1. PICK q : q = after(x, d)
    OBVIOUS
  <2>2. /\ q.todo = p.todo \ {x} /\ q.snap = p.snap /\ q.sel = p.sel /\ q.count = p.count
        /\ q.cur = x /\ q.delBk = d.del /\ q.addNode = d.add
    BY <1>1, <2>1 DEF Plan
  <2>3. PICK count \in Nat : count = p.count
    BY <1>1 DEF Plan
  <2>12. PICK bs, sel : bs = BackendsOf(x) /\ sel = p.sel
    OBVIOUS
  <2>4. /\ bs \in SUBSET Backend /\ Uniform(bs) /\ sel \in SUBSET Node /\ count \in Nat
        /\ d \in DiffBackend(bs, sel, count) /\ Read0(q, x) = bs /\ x \in Mine(r, v)
    BY <1>1, <1>2, <2>2, <2>3, <2>12, UniformOf DEF Pending, Plan, Read0
  <2>5. Decided(d, bs, sel, count)
    BY <2>4, DiffBackendShape
  <2>6. Pending(r, v, q)
    BY <1>2, <2>2 DEF Pending, Read0
  <2>7. ASSUME r.op = "ensure"
        PROVE  /\ Covered(r, v) /\ Settled(r, v, q, p.todo)
               /\ \E s \in r.obj.ports : Match(x, s) /\ NodePortIs(bs, s)
    BY <1>2, <2>2, <2>3, <2>12, <2>7 DEF Pending, Settled, Right, Good
  <2>8. Differing(r, v, q)
    <3>1. q.todo \cup {q.cur} = p.todo
      BY <2>2
    <3> QED BY <2>2, <2>4, <2>6, <2>7, <3>1 DEF Differing
  <2>9. CASE d.del # {}
    <3>1. [del |-> q.delBk, add |-> q.addNode] \in Diff(q)
      BY <2>2, <2>3, <2>12, <2>4, <2>5 DEF Decided, Diff
    <3>2. Phase(r, "delbk", v, q)
      BY <2>2, <2>3, <2>12, <2>4, <2>8, <2>9, <3>1 DEF Phase, Seeking, Creating
    <3> QED BY <1>4, <1>8, <2>1, <2>9, <3>2
  <2>10. CASE d.del = {} /\ d.add # {}
    <3>1. d \in Diff(q) /\ BackendsOf(q.cur) = Read0(q, q.cur) \ d.del
      BY <2>2, <2>3, <2>12, <2>4, <2>10 DEF Diff
    <3>2. Phase(r, "addbk", v, q)
      BY <2>2, <2>8, <2>10, <3>1 DEF Phase, Seeking, Creating
    <3> QED BY <1>4, <1>8, <2>1, <2>10, <3>2
  <2>11. CASE d.del = {} /\ d.add = {}
    <3>1. r.op = "ensure" => Covered(r, v) /\ Settled(r, v, q, q.todo)
      <4> SUFFICES ASSUME r.op = "ensure" PROVE Settled(r, v, q, q.todo)
        BY <1>2
      <4>1. PICK s \in r.obj.ports : Match(x, s) /\ NodePortIs(bs, s)
        BY <2>7
      <4>3. NodesOf(bs) \subseteq sel /\ Cardinality(bs) = Wants(sel, count)
        <5>1. d.add = {}
          BY <2>11
        <5>2. Remaining(bs, d) = bs
          BY <2>11 DEF Remaining
        <5>3. Suffices(Remaining(bs, d), sel, count)
          BY <2>4, <5>1, DiffBackendRemoves
        <5> QED BY <5>2, <5>3 DEF Suffices
      <4>4. RightBackends(x, s, q.sel, q.count)
        BY <2>2, <2>3, <2>12, <2>4, <4>1, <4>3, UniformCount DEF RightBackends, Wants, NodePortIs
      <4>5. Right(x, r, q)
        BY <4>1, <4>4 DEF Right
      <4> QED BY <2>2, <2>7, <4>5 DEF Settled
    <3>2. Phase(r, "sync", v, q)
      BY <2>6, <3>1 DEF Phase, Seeking, Creating
    <3> QED BY <1>4, <1>8, <2>1, <2>11, <3>2
  <2> QED BY <2>9, <2>10, <2>11
<1>9. \/ p.todo = {} /\ (Return(t, "ok") \/ GotoWith(t, "apply", p))
      \/ Return(t, "error") \/ GotoWith(t, "hang", p)
      \/ \E x \in p.todo : \E d \in diffs(x) : GotoWith(t, next(d), after(x, d))
  BY <1>0 DEF SyncListener, Local, Reject, Read0
<1> QED BY <1>5, <1>6, <1>7, <1>8, <1>9, ReturnPhase

(* A listener loses what diffBackend decided, the others nothing. *)
LEMMA DeleteBackendsPhase ==
    ASSUME TypeOK, NEW t \in Thread, ThreadInv(t), PhaseInv(t), DeleteBackends(t)
    PROVE  PhaseInv(t)'
<1>0. PICK r, v, p : r = req[t] /\ v = view[t] /\ p = plan[t]
  OBVIOUS
<1>1. /\ pc[t] = "delbk" /\ pc[t] # "idle" /\ req' = req /\ r.op \in {"ensure", "update"}
      /\ p \in Plan
  <2>1. pc[t] = "delbk" /\ pc[t] # "idle"
    BY DEF DeleteBackends
  <2> QED BY <1>0, <2>1, StepMoves, RequestType DEF Step, OnlyMoves, ThreadInv, InOp
<1>c. PICK count \in Nat : count = p.count
  BY <1>1 DEF Plan
<1>2. PICK x, bs, d, sel :
         /\ x = p.cur /\ bs = Read0(p, p.cur) /\ d = [del |-> p.delBk, add |-> p.addNode]
         /\ sel = p.sel /\ count = p.count
  BY <1>c
<1>3. /\ Differing(r, v, p) /\ BackendsOf(x) = bs /\ d \in DiffBackend(bs, sel, count)
      /\ bs \in SUBSET Backend /\ Uniform(bs) /\ sel \in SUBSET Node /\ count \in Nat
  BY <1>0, <1>1, <1>2 DEF PhaseInv, Phase, Differing, Diff, Read0, Plan
<1>4. Decided(d, bs, sel, count) /\ d.del = p.delBk /\ d.add = p.addNode
  BY <1>2, <1>3, DiffBackendShape
<1>5. ASSUME ~Return(t, "error") PROVE PhaseInv(t)'
  <2>1. PICK q : q = [p EXCEPT !.delBk = {}, !.modify = TRUE]
    OBVIOUS
  <2>2. /\ q.todo = p.todo /\ q.snap = p.snap /\ q.sel = sel /\ q.count = count
        /\ q.cur = x /\ q.addNode = d.add
    BY <1>1, <1>2, <1>4, <2>1 DEF Plan
  <2>3. PICK step : step = IF p.addNode # {} THEN "addbk" ELSE "sync"
    OBVIOUS
  <2>4. DeleteBackendsEffect(p.delBk) /\ GotoWith(t, step, q)
    BY <1>0, <1>5, <2>1, <2>3 DEF DeleteBackends, Call
  <2>5. pc'[t] = step /\ view'[t] = v /\ plan'[t] = q
    BY <1>0, <2>4, Arrives
  <2>6. /\ Mine(r, v)' = Mine(r, v)
        /\ BackendsOf(x)' = bs \ d.del
        /\ \A y : y # x => BackendsOf(y)' = BackendsOf(y)
    <3>1. \A b \in p.delBk : b.lsn = x
      BY <1>2, <1>4 DEF Decided, Read0
    <3> QED BY <1>3, <1>4, <2>4, <3>1 DEF DeleteBackendsEffect, Mine, Own, ListenersOf, BackendsOf
  <2>7. Pending(r, v, q)'
    BY <1>2, <1>3, <2>2, <2>6 DEF Differing, Pending, Good, NodePortIs, Read0
  <2>8. ASSUME r.op = "ensure"
        PROVE  /\ Covered(r, v)' /\ Settled(r, v, q, q.todo \cup {x})'
               /\ \E s \in r.obj.ports : Match(x, s) /\ NodePortIs(bs, s)
    <3>1. /\ Covered(r, v) /\ Settled(r, v, p, p.todo \cup {x})
          /\ \E s \in r.obj.ports : Match(x, s) /\ NodePortIs(bs, s)
      BY <1>2, <1>3, <2>8 DEF Differing
    <3>2. ASSUME NEW y \in Mine(r, v) \ (p.todo \cup {x}) PROVE Right(y, r, q)'
      <4>1. BackendsOf(y)' = BackendsOf(y) /\ Right(y, r, p)
        BY <2>6, <3>1, <3>2 DEF Settled
      <4> QED BY <1>2, <2>2, <4>1 DEF Right, RightBackends
    <3>3. Settled(r, v, q, q.todo \cup {x})'
      BY <2>2, <2>6, <3>2 DEF Settled
    <3> QED BY <2>6, <3>1, <3>3 DEF Covered
  <2>9. CASE p.addNode # {}
    <3>1. Differing(r, v, q)'
      <4>1. Read0(q, q.cur) = bs /\ q.cur \in Mine(r, v) \ q.todo
        BY <1>2, <1>3, <2>2 DEF Differing, Read0
      <4> QED BY <1>3, <2>2, <2>6, <2>7, <2>8, <4>1 DEF Differing
    <3>2. /\ d \in Diff(q) /\ BackendsOf(q.cur)' = Read0(q, q.cur) \ d.del
      BY <1>2, <1>3, <2>2, <2>6 DEF Diff, Read0
    <3>3. Phase(r, "addbk", v, q)'
      BY <1>4, <2>2, <2>9, <3>1, <3>2 DEF Phase, Seeking, Creating
    <3> QED BY <1>0, <1>1, <2>3, <2>5, <2>9, <3>3 DEF PhaseInv
  <2>10. CASE p.addNode = {}
    <3>1. r.op = "ensure" => Settled(r, v, q, q.todo)'
      <4>0. SUFFICES ASSUME r.op = "ensure" PROVE Settled(r, v, q, q.todo)'
        OBVIOUS
      <4>1. PICK s \in r.obj.ports : Match(x, s) /\ NodePortIs(bs, s)
        BY <2>8, <4>0
      <4>2. PICK after : after = BackendsOf(x)'
        OBVIOUS
      <4>3. after \in SUBSET Backend /\ Uniform(after) /\ \A b \in after : b.np = s.np
        BY <1>3, <1>4, <2>6, <4>1, <4>2 DEF Uniform, NodePortIs
      <4>4. NodesOf(after) \subseteq sel /\ Cardinality(after) = Wants(sel, count)
        <5>1. after = Remaining(bs, d) /\ d.add = {}
          BY <1>4, <2>6, <2>10, <4>2 DEF Remaining
        <5>2. Suffices(Remaining(bs, d), sel, count)
          BY <1>3, <5>1, DiffBackendRemoves
        <5> QED BY <5>1, <5>2 DEF Suffices
      <4>5. RightBackends(x, s, sel, count)'
        BY <4>2, <4>3, <4>4, RightFrom
      <4>6. Right(x, r, q)'
        BY <2>2, <4>1, <4>5 DEF Right
      <4> QED BY <2>8, <4>0, <4>6 DEF Settled
    <3>2. Phase(r, "sync", v, q)'
      BY <2>7, <2>8, <3>1 DEF Phase, Seeking, Creating
    <3> QED BY <1>0, <1>1, <2>3, <2>5, <2>10, <3>2 DEF PhaseInv
  <2> QED BY <2>9, <2>10
<1> QED BY <1>5, ReturnPhase

(* UpdateLB and what only a delete does change no listener of an ensure. *)
LEMMA LastStepsPhase ==
    ASSUME TypeOK, NEW t \in Thread, ThreadInv(t), PhaseInv(t),
           UpdateLB(t) \/ DeleteLB(t) \/ ReleaseEIP(t)
    PROVE  PhaseInv(t)'
<1>0. PICK r, v, p : r = req[t] /\ v = view[t] /\ p = plan[t]
  OBVIOUS
<1>1. pc[t] \in {"apply", "dellb", "release"} /\ pc[t] # "idle" /\ req' = req /\ p \in Plan
  <2>1. pc[t] \in {"apply", "dellb", "release"} /\ pc[t] # "idle"
    BY DEF UpdateLB, DeleteLB, ReleaseEIP
  <2> QED BY <1>0, <2>1, StepMoves, RequestType DEF Step, OnlyMoves
<1>2. CASE r.op \notin {"ensure", "update"}
  BY <1>0, <1>1, <1>2 DEF PhaseInv
<1>3. CASE r.op \in {"ensure", "update"}
  <2>1. UpdateLB(t)
    BY <1>0, <1>1, <1>3 DEF DeleteLB, ReleaseEIP, ThreadInv, InOp
  <2>2. UNCHANGED <<listeners, backends>> /\ (Return(t, "ok") \/ Return(t, "error"))
    BY <2>1 DEF UpdateLB, Call, UpdateLBEffect, cloudVars
  <2>3. r.op = "ensure" => Covered(r, v) /\ Settled(r, v, p, {})
    BY <1>0, <1>1, <1>3, <2>1 DEF UpdateLB, PhaseInv, Phase
  <2> QED BY <1>0, <1>1, <2>2, <2>3, ReturnPhase, SuccessPhase
<1> QED BY <1>2, <1>3

-----------------------------------------------------------------------------
(* The invariant is inductive.                                             *)

(* Listeners come to load balancers that exist, backends come from the two
   steps that create them. *)
LEMMA StepAdds ==
    ASSUME TypeOK, NEW t \in Thread, Step(t)
    PROVE  /\ \A x \in listeners' \ listeners : Exists(x.lb)
           /\ backends' \subseteq backends \/ FillListener(t) \/ AddBackends(t)
<1>1. CASE \/ GetLoadBalancer(t) \/ ModifyLB(t) \/ UpdateLBEip(t) \/ GetAvailableEIP(t)
           \/ AllocateEIP(t) \/ AssociateEIPs(t) \/ DissociateEIPs(t) \/ RefreshStatus(t)
           \/ CreateLB(t) \/ GetListeners(t)
  BY <1>1, SeekingSame
<1>2. CASE GetNewListeners(t) \/ SyncListener(t)
  BY <1>2 DEF GetNewListeners, SyncListener, Read, Local, Reject, cloudVars
<1>3. CASE DeleteListener(t) \/ DeleteBackends(t) \/ UpdateLB(t) \/ ReleaseEIP(t)
  BY <1>3 DEF DeleteListener, DeleteBackends, UpdateLB, ReleaseEIP, Call, cloudVars,
              DeleteListenersEffect, DeleteBackendsEffect, UpdateLBEffect, ReleaseEffect
<1>4. CASE DeleteLB(t)
  BY <1>4 DEF DeleteLB, DeleteLBEffect, cloudVars
<1>5. CASE CreateListener(t)
  <2> DEFINE l == view[t].lb
             new(g) == NewListeners(l, req[t].obj.svc, plan[t].addPort, g)
  <2>1. \/ UNCHANGED cloudVars
        \/ \E g : CanAddListeners(l, new(g)) /\ AddListenersEffect(l, new(g))
    BY <1>5 DEF CreateListener, Local, Reject, Call
  <2>2. \A g : \A x \in new(g) : x.lb = l
    BY DEF NewListeners
  <2> HIDE DEF new
  <2> QED BY <2>1, <2>2 DEF cloudVars, CanAddListeners, AddListenersEffect
<1>6. CASE FillListener(t) \/ AddBackends(t)
  <2>1. \/ UNCHANGED <<listeners, backends>>
        \/ \E x, ns, step, p : CreateBackends(t, x, ns, GotoWith(t, step, p))
    BY <1>6 DEF FillListener, AddBackends, Local, cloudVars
  <2>2. listeners' = listeners
    BY <2>1, CreateBackendsAdds DEF Added
  <2> QED BY <1>6, <2>2
<1> QED BY <1>1, <1>2, <1>3, <1>4, <1>5, <1>6 DEF Step

(* The load balancers that exist stay, unless their listeners go too. *)
LEMMA StepPlaced ==
    ASSUME TypeOK, ListenersPlaced, NEW t \in Thread, Step(t)
    PROVE  ListenersPlaced'
<1>1. \A x \in listeners' : Exists(x.lb)
  BY StepAdds DEF ListenersPlaced
<1>2. Names(t)
  BY StepNames
<1>3. LookupName("ensure", req[t].obj) \notin {Unborn, Gone}
  <2>1. Svc(t) \in Service
    BY StepMoves, RequestType DEF Request, ServiceObject, Svc, Steps
  <2> QED BY <2>1, CloudAssumption DEF LookupName, ForDelete, Svc
<1> QED BY <1>1, <1>2, <1>3 DEF Names, NamesKept, ListenersPlaced, Exists

(* A step keeps what its own call knows. *)
LEMMA StepPhase ==
    ASSUME TypeOK, TypeOK', CallersPart, ContractInv, ConvergenceInv, NEW t \in Thread, Step(t)
    PROVE  PhaseInv(t)' /\ BackendsUniform' /\ ListenersPlaced'
<1>1. /\ ThreadInv(t) /\ OnListeners /\ ListenersPlaced /\ BackendsUniform /\ PhaseInv(t)
  BY DEF ContractInv, CloudInv, ConvergenceInv
<1>2. PhaseInv(t)'
  BY <1>1, SeekingPhase, CreateLBPhase, GetListenersPhase, DeleteListenerPhase,
     CreateListenerPhase, GetNewListenersPhase, FillListenerPhase, SyncListenerPhase,
     DeleteBackendsPhase, AddBackendsPhase, LastStepsPhase DEF Step
<1>3. BackendsUniform'
  <2>1. CASE backends' \subseteq backends
    BY <1>1, <2>1 DEF BackendsUniform
  <2> QED BY <1>1, <2>1, StepAdds, FillListenerPhase, AddBackendsPhase
<1> QED BY <1>1, <1>2, <1>3, StepPlaced

(* A call that only asks changes nothing. *)
LEMMA ExistsChangesNothing ==
    ASSUME TypeOK, NEW t \in Thread, ThreadInv(t), req[t].op = "exists", Step(t)
    PROVE  UNCHANGED <<listeners, backends>>
<1>1. pc[t] \in Steps /\ pc[t] # "idle" /\ InOp(req[t], pc[t])
  BY StepMoves DEF ThreadInv, Steps
<1>2. pc[t] \in {"get", "apply"}
  BY <1>1 DEF InOp, Building, Steps, Builds
<1>3. GetLoadBalancer(t) \/ UpdateLB(t)
  BY <1>2 DEF Step, ModifyLB, UpdateLBEip, GetAvailableEIP, AllocateEIP, AssociateEIPs,
              DissociateEIPs, RefreshStatus, CreateLB, GetListeners, DeleteListener,
              CreateListener, GetNewListeners, FillListener, SyncListener, DeleteBackends,
              AddBackends, DeleteLB, ReleaseEIP
<1> QED BY <1>3, SeekingSame DEF UpdateLB, Call, UpdateLBEffect, cloudVars

(* What a call begins with, and what a call of another thread is left with. *)
LEMMA ConvergenceNext ==
    ASSUME TypeOK, TypeOK', OneCaller, ContractInv, ConvergenceInv, [Next]_vars
    PROVE  ConvergenceInv'
<1>1. \A t \in Thread : PhaseInv(t) /\ ThreadInv(t)
  BY DEF ConvergenceInv, ContractInv
<1>2. ASSUME UNCHANGED <<listeners, backends>>, NEW u \in Thread,
             pc'[u] = pc[u] /\ view'[u] = view[u] /\ plan'[u] = plan[u] /\ req'[u] = req[u]
      PROVE  PhaseInv(u)'
  <2>1. PICK r, step, v, p : r = req[u] /\ step = pc[u] /\ v = view[u] /\ p = plan[u]
    OBVIOUS
  <2>2. step # "idle" /\ r.op \in {"ensure", "update"} => Phase(r, step, v, p)'
    BY <1>1, <1>2, <2>1, PhaseSame DEF PhaseInv
  <2> QED BY <1>2, <2>1, <2>2 DEF PhaseInv
<1>3. ASSUME NEW t \in Thread, Step(t) PROVE ConvergenceInv'
  <2>1. PhaseInv(t)' /\ BackendsUniform' /\ ListenersPlaced'
    BY <1>3, StepPhase DEF OneCaller
  <2>2. pc[t] # "idle" /\ OnlyMoves(t)
    BY <1>3, StepMoves DEF Steps
  <2>3. ASSUME NEW u \in Thread \ {t} PROVE PhaseInv(u)'
    <3>1. CASE req[t].op = "exists"
      BY <1>1, <1>2, <1>3, <2>2, <3>1, ExistsChangesNothing DEF OnlyMoves
    <3>2. CASE req[t].op # "exists"
      <4>1. pc[u] # "idle" => req[u].op \in Ops[u] /\ Ops[u] \subseteq {"exists"}
        BY <1>1, <2>2, <3>2 DEF ThreadInv, OneCaller
      <4> QED BY <2>2, <4>1 DEF OnlyMoves, PhaseInv
    <3> QED BY <3>1, <3>2
  <2> QED BY <2>1, <2>3 DEF ConvergenceInv
<1>4. ASSUME UNCHANGED cloudVars PROVE BackendsUniform' /\ ListenersPlaced'
  BY <1>4 DEF ConvergenceInv, cloudVars, BackendsUniform, ListenersPlaced, Exists
<1>5. ASSUME NEW t \in Thread, Start(t) PROVE ConvergenceInv'
  <2>1. PICK op, o, ns :
           req' = [req EXCEPT ![t] = [op |-> op, obj |-> o, nodes |-> ns]]
    BY <1>5 DEF Start
  <2>2. /\ pc' = [pc EXCEPT ![t] = "get"] /\ view' = [view EXCEPT ![t] = NoView]
        /\ plan' = [plan EXCEPT ![t] = NoPlan] /\ UNCHANGED cloudVars
    BY <1>5 DEF Start, Goto
  <2>3. PICK r, v, p : r = req'[t] /\ v = NoView /\ p = NoPlan
    OBVIOUS
  <2>4. pc'[t] = "get" /\ view'[t] = v /\ plan'[t] = p
    BY <2>2, <2>3 DEF TypeOK, ThreadTypeOK
  <2>5. Mine(r, v)' = {}
    BY <2>3, CloudAssumption DEF NoView, Mine, Own, ListenersOf, TypeOK, CloudTypeOK, Listener
  <2>6. v.own = {} /\ p.todo = {} /\ p.snap = {}
    BY <2>3 DEF NoView, NoPlan
  <2>7. Phase(r, "get", v, p)'
    BY <2>5, <2>6 DEF Phase, Seeking, Creating, Fresh
  <2>8. PhaseInv(t)'
    BY <2>3, <2>4, <2>7 DEF PhaseInv
  <2>9. ASSUME NEW u \in Thread \ {t} PROVE PhaseInv(u)'
    BY <1>2, <2>1, <2>2 DEF TypeOK, ThreadTypeOK, cloudVars
  <2> QED BY <1>4, <2>2, <2>8, <2>9 DEF ConvergenceInv
<1>6. CASE (\E s \in Service : EndpointsChange(s)) \/ UNCHANGED vars
  <2>1. UNCHANGED cloudVars /\ UNCHANGED threadVars
    BY <1>6 DEF EndpointsChange, vars
  <2> QED BY <1>2, <1>4, <2>1 DEF ConvergenceInv, cloudVars, threadVars
<1> QED BY <1>3, <1>5, <1>6 DEF Next

LEMMA ConvergenceInit == Init => ConvergenceInv
<1> SUFFICES ASSUME Init PROVE ConvergenceInv
  OBVIOUS
<1>1. ListenersPlaced
  BY CloudAssumption DEF Init, CloudInit, ListenersPlaced, Exists
<1>2. BackendsUniform
  BY DEF Init, CloudInit, BackendsUniform
<1>3. \A t \in Thread : PhaseInv(t)
  BY DEF Init, PhaseInv
<1> QED BY <1>1, <1>2, <1>3 DEF ConvergenceInv

-----------------------------------------------------------------------------
(* The properties.                                                         *)

(* The invariants together. *)
AllInv == TypeOK /\ OwnershipInv /\ ContractInv /\ ConvergenceInv

LEMMA AllInvInductive ==
    ASSUME OneCaller
    PROVE  /\ Init => AllInv
           /\ AllInv /\ TypeOK' /\ [Next]_vars => AllInv'
<1>1. Init => AllInv
  BY InitType, OwnershipInit, ContractInit, ConvergenceInit DEF AllInv
<1>2. AllInv /\ TypeOK' /\ [Next]_vars => AllInv'
  BY OwnershipNext, ContractNext, ConvergenceNext DEF AllInv, OneCaller
<1> QED BY <1>1, <1>2

(* Whatever failed before and wherever it stopped, an ensure that returns
   success has left the service the listeners and backends it should have. *)
THEOREM EnsureConvergesKept == OneCaller => (Spec => []EnsureConverges)
<1> SUFFICES ASSUME OneCaller PROVE Spec => []EnsureConverges
  OBVIOUS
<1>1. AllInv => EnsureConverges
  <2> SUFFICES ASSUME AllInv, NEW t \in Thread, pc[t] = "ok", req[t].op = "ensure"
               PROVE  Converged(req[t].obj, view[t].lb, plan[t].sel, plan[t].count)
    BY DEF EnsureConverges
  <2>1. PICK r, v, p : r = req[t] /\ v = view[t] /\ p = plan[t]
    OBVIOUS
  <2>2. Covered(r, v) /\ Settled(r, v, p, {})
    BY <2>1 DEF AllInv, ConvergenceInv, PhaseInv, Phase
  <2>3. TypeOK /\ OnePerPort /\ CallersPart /\ r.obj \in Object
    BY <2>1, RequestType DEF AllInv, ContractInv, CloudInv, OneCaller
  <2> QED BY <2>1, <2>2, <2>3, SettledConverges
<1> QED BY <1>1, AllInvInductive, TypeCorrect, PTL DEF Spec

(* Right backends are some, when there are nodes. *)
LEMMA RightSome ==
    ASSUME NEW x, NEW s, NEW sel \in SUBSET Node, sel # {}, NEW count \in Nat,
           RightBackends(x, s, sel, count)
    PROVE  NodePortIs(BackendsOf(x), s)
<1>1. IsFiniteSet(sel)
  BY NodeAssumption, FS_Subset
<1>2. Cardinality(sel) # 0
  BY <1>1, FS_EmptySet
<1>3. Cardinality({}) = 0
  BY FS_EmptySet
<1>4. Cardinality(BackendsOf(x)) # 0
  BY <1>2 DEF RightBackends
<1>5. BackendsOf(x) # {}
  BY <1>3, <1>4
<1> QED BY <1>5 DEF RightBackends, NodePortIs

(* diffBackend asks for nothing that is there. *)
LEMMA DiffBackendStill ==
    ASSUME NEW bs \in SUBSET Backend, Uniform(bs), NEW sel \in SUBSET Node, NEW count \in Nat,
           NEW d \in DiffBackend(bs, sel, count)
    PROVE  /\ NodesOf(bs) \subseteq sel /\ Cardinality(bs) = Wants(sel, count) => d.del = {}
           /\ NodesOf(bs \ d.del) \subseteq sel /\ Cardinality(bs \ d.del) = Wants(sel, count)
                 => d.add = {}
<1>1. Decided(d, bs, sel, count)
  BY DiffBackendShape
<1>2. IsFiniteSet(sel)
  BY NodeAssumption, FS_Subset
<1>3. ASSUME NodesOf(bs) \subseteq sel, Cardinality(bs) = Wants(sel, count)
      PROVE  d.del = {}
  <2>1. Stray(bs, sel) = {}
    BY <1>3 DEF Stray, NodesOf
  <2>2. Left(bs, sel) = bs
    BY <2>1 DEF Left
  <2>3. CASE d.del = Stray(bs, sel)
    BY <2>1, <2>3
  <2>4. CASE count > 0 /\ Cardinality(Left(bs, sel)) > count
    <3>1. Cardinality(Left(bs, sel)) = count
      <4>1. Wants(sel, count) = count
        BY <2>4 DEF Wants
      <4> QED BY <1>3, <2>2, <4>1, Zenon
    <3> QED BY <2>4, <3>1
  <2> QED BY <1>1, <2>3, <2>4 DEF Decided
<1>4. ASSUME NodesOf(bs \ d.del) \subseteq sel, Cardinality(bs \ d.del) = Wants(sel, count)
      PROVE  d.add = {}
  <2>1. CASE count = 0
    <3>1. Uniform(bs \ d.del) /\ (bs \ d.del) \in SUBSET Backend
      BY DEF Uniform
    <3>2. Cardinality(NodesOf(bs \ d.del)) = Cardinality(bs \ d.del)
      BY <3>1, UniformCount
    <3>3. Cardinality(NodesOf(bs \ d.del)) = Cardinality(sel)
      BY <1>4, <2>1, <3>2 DEF Wants
    <3>4. NodesOf(bs \ d.del) = sel
      BY <1>2, <1>4, <3>3, FS_Subset
    <3>5. sel \subseteq NodesOf(bs)
      BY <3>4 DEF NodesOf
    <3> QED BY <1>1, <2>1, <3>5 DEF Decided
  <2>2. CASE count > 0 /\ Cardinality(Left(bs, sel)) <= count
    <3>1. d.del = Stray(bs, sel) /\ Cardinality(d.add) = count - Cardinality(Left(bs, sel))
      BY <1>1, <2>2 DEF Decided
    <3>2. Cardinality(Left(bs, sel)) = count
      <4>1. Left(bs, sel) = bs \ d.del
        BY <3>1, Zenon DEF Left
      <4>2. Wants(sel, count) = count
        BY <2>2 DEF Wants
      <4> QED BY <1>4, <4>1, <4>2, Zenon
    <3>3. IsFiniteSet(d.add)
      BY <1>1, <1>2, FS_Subset DEF Decided
    <3>4. Cardinality(d.add) = 0
      BY <3>1, <3>2
    <3> QED BY <3>3, <3>4, FS_EmptySet
  <2> QED BY <1>1, <2>1, <2>2 DEF Decided
<1> QED BY <1>3, <1>4

(* A service that has converged is left alone: what diffListeners and
   diffBackend ask for shows a listener or backends that are not right. *)
THEOREM NoNeedlessChangeKept == OneCaller => (Spec => []NoNeedlessChange)
<1> SUFFICES ASSUME OneCaller PROVE Spec => []NoNeedlessChange
  OBVIOUS
<1>1. AllInv => NoNeedlessChange
  <2> SUFFICES ASSUME AllInv, NEW t \in Thread, req[t].op = "ensure", plan[t].sel # {},
                      pc[t] \in {"dellsn", "addlsn", "delbk", "addbk"},
                      pc[t] = "addlsn" => plan[t].addPort # {},
                      Converged(req[t].obj, view[t].lb, plan[t].sel, plan[t].count)
               PROVE  FALSE
    BY DEF NoNeedlessChange
  <2>1. PICK r, v, p, step : r = req[t] /\ v = view[t] /\ p = plan[t] /\ step = pc[t]
    OBVIOUS
  <2>2. /\ Phase(r, step, v, p) /\ p \in Plan /\ r.obj \in Object /\ OwnOnly(r, v, p)
        /\ TypeOK /\ OnePerPort /\ CallersPart
    BY <2>1, RequestType
       DEF AllInv, ConvergenceInv, PhaseInv, ContractInv, ThreadInv, CloudInv, OneCaller
  <2>3. PICK count \in Nat : count = p.count
    BY <2>2 DEF Plan
  <2>4. PICK sel \in SUBSET Node : sel = p.sel
    BY <2>2 DEF Plan
  <2>5. Converged(r.obj, v.lb, sel, count) /\ sel # {}
    BY <2>1, <2>3, <2>4
  <2>6. \A x \in Mine(r, v) : \E q \in r.obj.ports :
           Match(x, q) /\ RightBackends(x, q, sel, count)
    BY <2>2, <2>5, ConvergedRight DEF Mine
  <2>7. \A x, q : Match(x, q) /\ RightBackends(x, q, sel, count) => Good(x, q)
    BY <2>5, RightSome DEF Good
  <2>8. CASE step = "dellsn"
    BY <2>2, <2>6, <2>7, <2>8 DEF Phase, Listed
  <2>9. CASE step = "addlsn"
    <3>1. PICK q \in p.addPort : q \in r.obj.ports
      BY <2>1, <2>2, <2>9 DEF OwnOnly
    <3>2. PICK x \in Mine(r, v) : Match(x, q) /\ RightBackends(x, q, sel, count)
      BY <2>5, <3>1 DEF Converged, Mine, Own, Match
    <3> QED BY <2>2, <2>7, <2>9, <3>1, <3>2 DEF Phase, Listed
  <2>10. ASSUME Differing(r, v, p), NEW d, d \in Diff(p),
                BackendsOf(p.cur) = Read0(p, p.cur) \/ BackendsOf(p.cur) = Read0(p, p.cur) \ d.del
         PROVE  /\ BackendsOf(p.cur) = Read0(p, p.cur) => d.del = {}
                /\ BackendsOf(p.cur) = Read0(p, p.cur) \ d.del => d.add = {}
    <3>1. PICK bs \in SUBSET Backend : bs = Read0(p, p.cur)
      BY <2>2 DEF Plan, Read0
    <3>2. PICK e \in DiffBackend(bs, sel, count) : e = d
      BY <2>3, <2>4, <2>10, <3>1 DEF Diff
    <3>3. Uniform(bs) /\ p.cur \in Mine(r, v)
      BY <2>10, <3>1 DEF Differing
    <3>4. PICK has : has = BackendsOf(p.cur)
      OBVIOUS
    <3>5. NodesOf(has) \subseteq sel /\ Cardinality(has) = Wants(sel, count)
      BY <2>6, <3>3, <3>4 DEF RightBackends, Wants
    <3>6. ASSUME has = bs PROVE e.del = {}
      BY <3>3, <3>5, <3>6, DiffBackendStill
    <3>7. ASSUME has = bs \ e.del PROVE e.add = {}
      <4>1. NodesOf(bs \ e.del) \subseteq sel /\ Cardinality(bs \ e.del) = Wants(sel, count)
        BY <3>5, <3>7, Zenon
      <4> QED BY <3>3, <4>1, DiffBackendStill
    <3> QED BY <3>1, <3>2, <3>4, <3>6, <3>7
  <2>11. CASE step = "delbk"
    <3>1. PICK d : d = [del |-> p.delBk, add |-> p.addNode]
      OBVIOUS
    <3>2. Differing(r, v, p) /\ d \in Diff(p) /\ BackendsOf(p.cur) = Read0(p, p.cur) /\ d.del # {}
      BY <2>2, <2>11, <3>1 DEF Phase
    <3> QED BY <2>10, <3>2
  <2>12. CASE step = "addbk"
    <3>1. PICK d : /\ d \in Diff(p) /\ d.add # {}
                   /\ BackendsOf(p.cur) = Read0(p, p.cur) \ d.del
      BY <2>2, <2>12 DEF Phase
    <3>2. Differing(r, v, p)
      BY <2>2, <2>12 DEF Phase
    <3> QED BY <2>10, <3>1, <3>2
  <2> QED BY <2>1, <2>8, <2>9, <2>11, <2>12
<1> QED BY <1>1, AllInvInductive, TypeCorrect, PTL DEF Spec

(* A listener that stays loses a backend because its node is not selected any
   more, or to come down to exactly the wanted number. *)
THEOREM StickyBackendsKept == OneCaller => (Spec => StickyBackends)
<1> SUFFICES ASSUME OneCaller PROVE Spec => StickyBackends
  OBVIOUS
<1> DEFINE Sticky == \A t \in Thread : Acting(t) =>
                        \A b \in backends \ backends' :
                           b.lsn \in listeners' =>
                              \/ b.node \notin plan[t].sel
                              \/ /\ plan[t].count > 0
                                 /\ Cardinality({ c \in backends' : c.lsn = b.lsn }) = plan[t].count
<1>1. ASSUME AllInv, NEW t \in Thread, Step(t), NEW b \in backends \ backends', b.lsn \in listeners'
      PROVE  \/ b.node \notin plan[t].sel
             \/ /\ plan[t].count > 0
                /\ Cardinality({ c \in backends' : c.lsn = b.lsn }) = plan[t].count
  <2>1. DeleteBackends(t)
    <3>1. CASE \/ GetLoadBalancer(t) \/ ModifyLB(t) \/ UpdateLBEip(t) \/ GetAvailableEIP(t)
               \/ AllocateEIP(t) \/ AssociateEIPs(t) \/ DissociateEIPs(t) \/ RefreshStatus(t)
               \/ CreateLB(t) \/ GetListeners(t)
      BY <1>1, <3>1, SeekingSame
    <3>2. CASE \/ GetNewListeners(t) \/ SyncListener(t) \/ CreateListener(t) \/ UpdateLB(t)
               \/ ReleaseEIP(t)
      BY <1>1, <3>2 DEF GetNewListeners, SyncListener, CreateListener, UpdateLB, ReleaseEIP, Read,
                        Local, Reject, Call, cloudVars, AddListenersEffect, UpdateLBEffect,
                        ReleaseEffect
    <3>3. CASE DeleteListener(t) \/ DeleteLB(t)
      BY <1>1, <3>3 DEF DeleteListener, DeleteLB, Call, cloudVars, DeleteListenersEffect,
                        DeleteLBEffect
    <3>4. CASE FillListener(t) \/ AddBackends(t)
      <4>1. \/ UNCHANGED <<listeners, backends>>
            \/ \E x, ns, step, p : CreateBackends(t, x, ns, GotoWith(t, step, p))
        BY <3>4 DEF FillListener, AddBackends, Local, cloudVars
      <4>2. backends \subseteq backends'
        BY <4>1, CreateBackendsAdds DEF Added
      <4> QED BY <1>1, <4>2
    <3> QED BY <1>1, <3>1, <3>2, <3>3, <3>4 DEF Step
  <2>2. PICK r, v, p, step : r = req[t] /\ v = view[t] /\ p = plan[t] /\ step = pc[t]
    OBVIOUS
  <2>3. /\ step = "delbk" /\ Phase(r, step, v, p) /\ p \in Plan
        /\ backends' = backends \ p.delBk
    BY <1>1, <2>1, <2>2, RequestType
       DEF DeleteBackends, Call, DeleteBackendsEffect, cloudVars, AllInv, ConvergenceInv,
           PhaseInv, ContractInv, ThreadInv, InOp
  <2>4. PICK count \in Nat : count = p.count
    BY <2>3 DEF Plan
  <2>5. PICK d, bs, sel : d = [del |-> p.delBk, add |-> p.addNode] /\ bs = Read0(p, p.cur)
                          /\ sel = p.sel
    OBVIOUS
  <2>6. /\ bs \in SUBSET Backend /\ Uniform(bs) /\ sel \in SUBSET Node
        /\ d \in DiffBackend(bs, sel, count) /\ BackendsOf(p.cur) = bs
    BY <2>3, <2>4, <2>5 DEF Phase, Differing, Diff, Read0, Plan
  <2>7. Decided(d, bs, sel, count) /\ d.del = p.delBk
    BY <2>5, <2>6, DiffBackendShape
  <2>8. b \in d.del
    BY <1>1, <2>3, <2>7
  <2>9. CASE d.del = Stray(bs, sel)
    BY <2>2, <2>5, <2>8, <2>9 DEF Stray
  <2>10. CASE count > 0 /\ Cardinality(bs \ d.del) = count
    <3>1. b.lsn = p.cur
      BY <2>5, <2>7, <2>8 DEF Decided, Read0
    <3>2. { c \in backends' : c.lsn = b.lsn } = bs \ d.del
      BY <2>3, <2>6, <2>7, <3>1 DEF BackendsOf
    <3>3. Cardinality({ c \in backends' : c.lsn = b.lsn }) = count
      BY <2>10, <3>2, Zenon
    <3> QED BY <2>2, <2>4, <2>10, <3>3
  <2> QED BY <2>7, <2>9, <2>10 DEF Decided
<1>2. AllInv /\ TypeOK' /\ [Next]_vars => [Sticky]_vars
  <2> SUFFICES ASSUME AllInv, Next PROVE Sticky
    OBVIOUS
  <2>1. ASSUME NEW t \in Thread, Start(t) PROVE Sticky
    BY <2>1 DEF Start, cloudVars
  <2>2. ASSUME NEW t \in Thread, Step(t) PROVE Sticky
    <3>1. \A u \in Thread : Acting(u) => u = t
      BY <2>2, StepMoves DEF AllInv, OnlyMoves, Acting
    <3> QED BY <1>1, <2>2, <3>1
  <2>3. ASSUME NEW s \in Service, EndpointsChange(s) PROVE Sticky
    BY <2>3 DEF EndpointsChange, cloudVars
  <2> QED BY <2>1, <2>2, <2>3 DEF Next
<1> QED BY <1>2, AllInvInductive, TypeCorrect, PTL DEF Spec, StickyBackends
=============================================================================
