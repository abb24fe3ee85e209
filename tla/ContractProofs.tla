---------------------------- MODULE ContractProofs ----------------------------
(***************************************************************************)
(* Provider implements ServiceLB under ProviderContract's mapping, for any *)
(* number of services, load balancers, EIPs, nodes, failures and updating  *)
(* threads, when the caller keeps its part.                                *)
(*                                                                         *)
(* The argument: every effect of a call to the cloud is a change the       *)
(* contract allows (the ...Refined lemmas), provided the thread that makes *)
(* it works on what is its own.  That it does is ThreadInv, the inductive  *)
(* part; it holds although the other threads run in between because what   *)
(* it says of the cloud concerns the building thread only, and there is    *)
(* one.                                                                    *)
(*                                                                         *)
(* The last two sections are about several workers at once: what keeps     *)
(* them from making two load balancers for one service, and from losing an *)
(* EIP that is allocated by one call and used by a later one.              *)
(***************************************************************************)
EXTENDS ProviderProofs, ProviderContract

-----------------------------------------------------------------------------
(* The effects of the calls, seen through the mapping.                     *)

(* Listeners have their backends to themselves, and a service at most one
   listener per port of a load balancer. *)
OnListeners == \A b \in backends : b.lsn \in listeners
OnePerPort == \A x, y \in listeners : PortOf(x) = PortOf(y) /\ x.svc # User => x = y

(* Taking the changes of a load balancer as not applied keeps its name. *)
LEMMA UnappliedNames ==
    ASSUME TypeOK, NEW ls, lbs' = Unapplied(ls)
    PROVE  owner' = owner
BY DEF Unapplied, owner, TypeOK, CloudTypeOK, LBRecord

(* ModifyLB and UpdateLB change nothing the contract speaks of. *)
LEMMA NothingChanges ==
    ASSUME TypeOK,
           \/ UNCHANGED cloudVars
           \/ \E l, attr : ModifyLBEffect(l, attr) \/ UpdateLBEffect(l)
    PROVE  Contract!Nothing
<1>1. CASE UNCHANGED cloudVars
  BY <1>1 DEF cloudVars, Contract!Nothing, TargetOf, PortOf, owner
<1>2. ASSUME NEW l, NEW attr, ModifyLBEffect(l, attr) \/ UpdateLBEffect(l)
      PROVE  Contract!Nothing
  <2>1. \A k \in LB : lbs'[k].name = lbs[k].name
    BY <1>2 DEF ModifyLBEffect, UpdateLBEffect, TypeOK, CloudTypeOK, LBRecord
  <2>2. owner' = owner
    BY <2>1 DEF owner
  <2> QED BY <1>2, <2>2 DEF ModifyLBEffect, UpdateLBEffect, Contract!Nothing, TargetOf, PortOf
<1> QED BY <1>1, <1>2

(* CreateLB makes a load balancer of the service's name, when there is none. *)
LEMMA CreateRefined ==
    ASSUME TypeOK, NEW s \in Service, NEW l \in LB, NEW es, NEW n \in {s, Anon},
           NEW attr, NEW vxnet,
           n = s => \A k \in LB : lbs[k].name # s,
           CanCreateLB(l, es), CreateLBEffect(l, n, attr, vxnet, es)
    PROVE  Contract!Create(s)
<1>1. owner[l] = "unborn" /\ owner' = [owner EXCEPT ![l] = n]
  BY DEF CanCreateLB, CreateLBEffect, owner, TypeOK, CloudTypeOK, Unborn
<1>2. es \in SUBSET Contract!At("free") /\ Contract!Move(es, l)
  BY DEF CanCreateLB, CreateLBEffect, AvailableEIPs, Contract!At, Contract!Move, Free
<1>3. n = s => \A k \in LB : owner[k] # s
  BY DEF owner
<1>4. UNCHANGED <<{ PortOf(x) : x \in listeners }, { TargetOf(b) : b \in backends }>>
  BY DEF CreateLBEffect, PortOf, TargetOf
<1> QED BY <1>1, <1>2, <1>3, <1>4 DEF Contract!Create

(* Allocating, associating and dissociating EIPs moves free EIPs and those of
   the service's own load balancer. *)
LEMMA EIPsRefined ==
    ASSUME TypeOK, NEW s \in Service,
           \/ \E e \in EIP : CanAllocate(e) /\ AllocateEffect(e)
           \/ \E l \in LB : /\ lbs[l].name = s
                            /\ \E es : \/ CanAssociate(l, es) /\ AssociateEffect(l, es)
                                       \/ CanDissociate(l, es) /\ DissociateEffect(es)
    PROVE  Contract!MoveEIPs(s)
<1>1. UNCHANGED <<owner, { PortOf(x) : x \in listeners }, { TargetOf(b) : b \in backends }>>
  BY DEF AllocateEffect, AssociateEffect, DissociateEffect, owner, PortOf, TargetOf
<1>2. CASE \E e \in EIP : CanAllocate(e) /\ AllocateEffect(e)
  <2>1. PICK e \in EIP : CanAllocate(e) /\ AllocateEffect(e)
    BY <1>2
  <2>2. e \in Contract!At("unborn") /\ Contract!Move({e}, "free")
    BY <2>1 DEF CanAllocate, AllocateEffect, Contract!At, Contract!Move, Free, Unborn,
                TypeOK, CloudTypeOK
  <2> QED BY <1>1, <2>2 DEF Contract!MoveEIPs
<1>3. CASE \E l \in LB : /\ lbs[l].name = s
                         /\ \E es : \/ CanAssociate(l, es) /\ AssociateEffect(l, es)
                                    \/ CanDissociate(l, es) /\ DissociateEffect(es)
  <2>0. PICK l \in LB : /\ lbs[l].name = s
                        /\ \E es : \/ CanAssociate(l, es) /\ AssociateEffect(l, es)
                                   \/ CanDissociate(l, es) /\ DissociateEffect(es)
    BY <1>3
  <2>1. PICK es : \/ CanAssociate(l, es) /\ AssociateEffect(l, es)
                  \/ CanDissociate(l, es) /\ DissociateEffect(es)
    BY <2>0
  <2>2. owner[l] = s
    BY <2>0 DEF owner
  <2>3. \/ es \in SUBSET Contract!At("free") /\ Contract!Move(es, l)
        \/ es \in SUBSET Contract!At(l) /\ Contract!Move(es, "free")
    BY <2>1 DEF CanAssociate, AssociateEffect, CanDissociate, DissociateEffect,
                AvailableEIPs, EIPsOf, Contract!At, Contract!Move, Free
  <2> QED BY <1>1, <2>2, <2>3 DEF Contract!MoveEIPs
<1> QED BY <1>2, <1>3

(* AddLoadBalancerListeners opens ports that were closed. *)
LEMMA OpenRefined ==
    ASSUME TypeOK, NEW s \in Service, NEW l \in LB, NEW ps \in SUBSET PortSpec, NEW g \in Gen,
           CanAddListeners(l, NewListeners(l, s, ps, g)),
           AddListenersEffect(l, NewListeners(l, s, ps, g))
    PROVE  Contract!Open(s)
<1> DEFINE new == NewListeners(l, s, ps, g)
           ns == { p.port : p \in ps }
           open == { PortOf(x) : x \in listeners }
<1>1. ns \in SUBSET PortNo
  BY DEF PortSpec
<1>2. owner[l] \notin {"unborn", "gone"}
  BY DEF CanAddListeners, Exists, owner, Unborn, Gone
<1> DEFINE made(p) == [lb |-> l, svc |-> s, port |-> p.port, attr |-> p.attr, gen |-> g]
<1>0. new = { made(p) : p \in ps }
  BY DEF NewListeners
<1>3. \A x \in open : x.lb = l => x.port \notin ns
  <2>1. ASSUME NEW x \in listeners, x.lb = l, NEW p \in ps PROVE x.port # p.port
    <3>1. made(p) \in new /\ made(p).lb = l /\ made(p).port = p.port
      BY <1>0
    <3>2. \A z \in new : \A y \in listeners : z.lb = y.lb => z.port # y.port
      BY DEF CanAddListeners
    <3> HIDE DEF new, made
    <3> QED BY <2>1, <3>1, <3>2
  <2> QED BY <2>1 DEF PortOf
<1>4. open' = open \cup [lb: {l}, svc: {s}, port: ns]
  <2>1. { PortOf(x) : x \in new } = [lb: {l}, svc: {s}, port: ns]
    <3> DEFINE opened(p) == [lb |-> l, svc |-> s, port |-> p.port]
               all == [lb: {l}, svc: {s}, port: ns]
    <3>1. \A p \in ps : PortOf(made(p)) = opened(p)
      BY DEF PortOf
    <3>2. { PortOf(x) : x \in new } = { PortOf(made(p)) : p \in ps }
      BY <1>0
    <3>3. \A q : q \in all <=> \E p \in ps : q = opened(p)
      OBVIOUS
    <3> HIDE DEF new, made, opened, all
    <3>4. { opened(p) : p \in ps } = all
      BY <3>3
    <3> QED BY <3>1, <3>2, <3>4 DEF all
  <2>2. listeners' = listeners \cup new
    BY DEF AddListenersEffect
  <2>3. open' = { PortOf(x) : x \in listeners' }
    BY DEF PortOf
  <2> QED BY <2>1, <2>2, <2>3
<1>5. UNCHANGED <<owner, { TargetOf(b) : b \in backends }, eips>>
  BY UnappliedNames DEF AddListenersEffect, TargetOf, PortOf
<1> QED BY <1>1, <1>2, <1>3, <1>4, <1>5 DEF Contract!Open

(* Deleting listeners closes their ports, because no other listener has one
   of them, and takes away what is behind them. *)
LEMMA CloseRefined ==
    ASSUME TypeOK, OnListeners, OnePerPort, NEW s \in Service, NEW xs,
           \A x \in xs : x.svc = s, CanDeleteListeners(xs), DeleteListenersEffect(xs)
    PROVE  Contract!Close(s)
<1> DEFINE open == { PortOf(x) : x \in listeners }
           behind == { TargetOf(b) : b \in backends }
           closed == { PortOf(x) : x \in xs }
<1>1. closed \in SUBSET { x \in open : x.svc = s }
  BY DEF CanDeleteListeners, PortOf
<1>2. \A x \in listeners : x \in xs <=> PortOf(x) \in closed
  <2>1. ASSUME NEW x \in listeners, NEW y \in xs, PortOf(x) = PortOf(y) PROVE x = y
    <3>1. x.svc = y.svc /\ y \in listeners /\ y.svc # User
      BY <2>1, CloudAssumption DEF CanDeleteListeners, PortOf
    <3> QED BY <2>1, <3>1 DEF OnePerPort
  <2> QED BY <2>1
<1>3. open' = open \ closed
  BY <1>2 DEF DeleteListenersEffect, PortOf
<1>4. behind' = { b \in behind : b.at \notin closed }
  <2>1. \A b \in backends : b \in backends' <=> TargetOf(b).at \notin closed
    BY <1>2 DEF OnListeners, DeleteListenersEffect, TargetOf
  <2>2. backends' \subseteq backends
    BY DEF DeleteListenersEffect
  <2>3. behind' = { TargetOf(b) : b \in backends' }
    BY DEF TargetOf, PortOf
  <2> QED BY <2>1, <2>2, <2>3
<1>5. UNCHANGED <<owner, eips>>
  BY UnappliedNames DEF DeleteListenersEffect
<1> QED BY <1>1, <1>3, <1>4, <1>5 DEF Contract!Close

(* Adding and deleting backends changes what is behind the service's ports. *)
LEMMA RetargetRefined ==
    ASSUME TypeOK, TypeOK', OnListeners, OnListeners', NEW s \in Service,
           \/ \E x, bs : /\ AddBackendsEffect(x, bs)
                         /\ \A b \in bs : b.lsn.svc = s
           \/ \E bs : DeleteBackendsEffect(bs) /\ \A b \in bs : b.lsn.svc = s
    PROVE  Contract!Retarget(s)
<1> DEFINE open == { PortOf(x) : x \in listeners }
           behind == { TargetOf(b) : b \in backends }
<1>1. listeners' = listeners /\ UNCHANGED eips
  BY DEF AddBackendsEffect, DeleteBackendsEffect
<1>2. open' = open /\ behind' = { TargetOf(b) : b \in backends' }
  BY <1>1 DEF PortOf, TargetOf
<1>3. behind' \subseteq [at: open', node: Node]
  BY <1>1, <1>2 DEF OnListeners, TargetOf, TypeOK, CloudTypeOK, Backend
<1>4. \A b \in backends \cup backends' :
         TargetOf(b).at.svc # s => b \in backends /\ b \in backends'
  BY DEF AddBackendsEffect, DeleteBackendsEffect, TargetOf, PortOf
<1>5. \A b \in (behind \cup behind') : b.at.svc # s => b \in behind /\ b \in behind'
  BY <1>2, <1>4
<1>6. owner' = owner
  BY UnappliedNames DEF AddBackendsEffect, DeleteBackendsEffect
<1> QED BY <1>1, <1>2, <1>3, <1>5, <1>6 DEF Contract!Retarget

(* DeleteLB drops a load balancer with nobody else's port on it. *)
LEMMA DropRefined ==
    ASSUME TypeOK, NEW s \in Service, NEW l \in LB, lbs[l].name = s,
           \A x \in listeners : x.lb = l => x.svc = s, DeleteLBEffect(l)
    PROVE  Contract!Drop(s)
<1> DEFINE open == { PortOf(x) : x \in listeners }
           behind == { TargetOf(b) : b \in backends }
<1>1. owner[l] = s /\ owner' = [owner EXCEPT ![l] = "gone"]
  BY DEF DeleteLBEffect, owner, TypeOK, CloudTypeOK, LBRecord, Gone
<1>2. \A x \in open : x.lb = l => x.svc = s
  BY DEF PortOf
<1>3. open' = { x \in open : x.lb # l } /\ behind' = { b \in behind : b.at.lb # l }
  BY DEF DeleteLBEffect, PortOf, TargetOf
<1>4. Contract!Move(Contract!At(l), "free")
  BY DEF DeleteLBEffect, Contract!Move, Contract!At, Free
<1> QED BY <1>1, <1>2, <1>3, <1>4 DEF Contract!Drop

(* ReleaseEIP gives back EIPs that nobody uses and the user does not own. *)
LEMMA ReleaseRefined ==
    ASSUME TypeOK, NEW es, es \cap UserEIP = {}, CanRelease(es), ReleaseEffect(es)
    PROVE  Contract!Release
<1>1. es \in SUBSET (Contract!At("free") \ UserEIP) /\ Contract!Move(es, "gone")
  BY DEF CanRelease, ReleaseEffect, AvailableEIPs, Contract!At, Contract!Move, Free, Gone
<1>2. UNCHANGED <<owner, { PortOf(x) : x \in listeners }, { TargetOf(b) : b \in backends }>>
  BY DEF ReleaseEffect, owner, PortOf, TargetOf
<1> QED BY <1>1, <1>2 DEF Contract!Release

-----------------------------------------------------------------------------
(* What a step does to the cloud.                                          *)

Builds == {"ensure", "delete"}
Svc(t) == req[t].obj.svc

(* The caller's part.  One goroutine calls EnsureLoadBalancer and
   EnsureLoadBalancerDeleted, the one worker the service controller has by
   default; any number of others call UpdateLoadBalancer and GetLoadBalancer.
   (The cleanups of the cloud-service controller, which delete too, are taken
   to run while that worker rests; ServiceCleanup has them beside it.)
   A load balancer id comes with the strategy that uses it, and a service has
   one port per port number. *)
CallersPart ==
    /\ \A t, u \in Thread : Ops[t] \cap Builds # {} /\ Ops[u] \cap Builds # {} => t = u
    /\ \A o \in Object : o.strategy = "exclusive" => o.lbid = NoLB
    /\ \A o \in Object : \A p, q \in o.ports : p.port = q.port => p = q

(* The inductive invariant, as far as the cloud goes. *)
CloudInv == OnListeners /\ OnePerPort /\ OneLBPerService

(* The step makes, renames and deletes no load balancer. *)
NamesKept == \A l \in LB : lbs'[l].name = lbs[l].name

(* A step of thread t keeps CloudInv, changes what the operation is entitled
   to and leaves the names and the listeners alone unless it builds. *)
CloudKept(t) ==
    /\ CloudInv'
    /\ Contract!Change([op |-> req[t].op, svc |-> Svc(t)])
    /\ req[t].op \in Builds \/ (NamesKept /\ listeners' = listeners)
    /\ \A x \in listeners \ listeners' : x.svc = Svc(t)

(* While names stay, so does the one load balancer per service. *)
LEMMA NamesStay ==
    ASSUME TypeOK, OneLBPerService, \/ NamesKept
                                    \/ lbs' = lbs
                                    \/ \E ls : lbs' = Unapplied(ls)
                                    \/ \E l, attr : ModifyLBEffect(l, attr) \/ UpdateLBEffect(l)
    PROVE  NamesKept /\ OneLBPerService'
<1>1. NamesKept
  <2>1. CASE \E ls : lbs' = Unapplied(ls)
    BY <2>1 DEF NamesKept, Unapplied, TypeOK, CloudTypeOK, LBRecord
  <2>2. CASE \E l, attr : ModifyLBEffect(l, attr) \/ UpdateLBEffect(l)
    BY <2>2 DEF NamesKept, ModifyLBEffect, UpdateLBEffect, TypeOK, CloudTypeOK, LBRecord
  <2> QED BY <2>1, <2>2 DEF NamesKept
<1> QED BY <1>1 DEF NamesKept, OneLBPerService, Exists

(* The effects a thread may have, by operation, keep the cloud as it should
   be. *)
LEMMA EffectsKept ==
    ASSUME TypeOK, TypeOK', CloudInv, CallersPart, NEW t \in Thread, pc[t] # "idle",
           \/ UNCHANGED cloudVars
           \/ \E l, attr : ModifyLBEffect(l, attr) \/ UpdateLBEffect(l)
           \/ /\ req[t].op = "ensure"
              /\ \/ \E e \in EIP : CanAllocate(e) /\ AllocateEffect(e)
                 \/ \E l \in LB : /\ lbs[l].name = Svc(t)
                                  /\ \E es : \/ CanAssociate(l, es) /\ AssociateEffect(l, es)
                                             \/ CanDissociate(l, es) /\ DissociateEffect(es)
           \/ /\ req[t].op = "ensure"
              /\ \E l \in LB, n \in {Svc(t), Anon} : \E es, a, x :
                    /\ CanCreateLB(l, es) /\ CreateLBEffect(l, n, a, x, es)
                    /\ n = Svc(t) => \A k \in LB : lbs[k].name # Svc(t)
           \/ /\ req[t].op = "ensure"
              /\ \E l \in LB, ps \in SUBSET req[t].obj.ports, g \in Gen :
                    /\ CanAddListeners(l, NewListeners(l, Svc(t), ps, g))
                    /\ AddListenersEffect(l, NewListeners(l, Svc(t), ps, g))
           \/ /\ req[t].op \in Builds
              /\ \E xs : /\ \A x \in xs : x.svc = Svc(t)
                         /\ CanDeleteListeners(xs) /\ DeleteListenersEffect(xs)
           \/ /\ req[t].op \in {"ensure", "update"}
              /\ \/ \E x, bs : /\ CanAddBackends(x) /\ AddBackendsEffect(x, bs)
                               /\ x.svc = Svc(t) /\ \A b \in bs : b.lsn = x
                 \/ \E bs : DeleteBackendsEffect(bs) /\ \A b \in bs : b.lsn.svc = Svc(t)
           \/ /\ req[t].op = "delete"
              /\ \E l \in LB : /\ lbs[l].name = Svc(t) /\ DeleteLBEffect(l)
                               /\ \A x \in listeners : x.lb = l => x.svc = Svc(t)
           \/ /\ req[t].op = "delete"
              /\ \E es : es \cap UserEIP = {} /\ CanRelease(es) /\ ReleaseEffect(es)
    PROVE  CloudKept(t)
<1> DEFINE j == [op |-> req[t].op, svc |-> Svc(t)]
<1>1. Svc(t) \in Service /\ req[t].obj \in Object /\ req[t].obj.ports \in SUBSET PortSpec
  BY RequestType, ProviderAssumption DEF TypeOK, ThreadTypeOK, Request, ServiceObject, Svc
<1>2. CASE UNCHANGED cloudVars
  <2>1. Contract!Change(j)
    BY <1>2, NothingChanges DEF Contract!Change
  <2> QED BY <1>2, <2>1 DEF CloudKept, CloudInv, cloudVars, OnListeners, OnePerPort,
                            OneLBPerService, Exists, NamesKept
<1>3. CASE \E l, attr : ModifyLBEffect(l, attr) \/ UpdateLBEffect(l)
  <2>1. Contract!Change(j)
    BY <1>3, NothingChanges DEF Contract!Change
  <2>2. NamesKept /\ OneLBPerService'
    BY <1>3, NamesStay DEF CloudInv
  <2> QED BY <1>3, <2>1, <2>2 DEF CloudKept, CloudInv, ModifyLBEffect, UpdateLBEffect,
                                  OnListeners, OnePerPort
<1>4. CASE /\ req[t].op = "ensure"
           /\ \/ \E e \in EIP : CanAllocate(e) /\ AllocateEffect(e)
              \/ \E l \in LB : /\ lbs[l].name = Svc(t)
                               /\ \E es : \/ CanAssociate(l, es) /\ AssociateEffect(l, es)
                                          \/ CanDissociate(l, es) /\ DissociateEffect(es)
  <2>1. Contract!Change(j)
    BY <1>1, <1>4, EIPsRefined DEF Contract!Change
  <2>2. UNCHANGED <<lbs, listeners, backends>>
    BY <1>4 DEF AllocateEffect, AssociateEffect, DissociateEffect
  <2>3. OneLBPerService'
    BY <2>2, NamesStay DEF CloudInv
  <2> QED BY <1>4, <2>1, <2>2, <2>3 DEF CloudKept, CloudInv, Builds, OnListeners, OnePerPort
<1>5. CASE /\ req[t].op = "ensure"
           /\ \E l \in LB, n \in {Svc(t), Anon} : \E es, a, x :
                 /\ CanCreateLB(l, es) /\ CreateLBEffect(l, n, a, x, es)
                 /\ n = Svc(t) => \A k \in LB : lbs[k].name # Svc(t)
  <2>0. PICK l \in LB, n \in {Svc(t), Anon} : \E es, a, x :
                 /\ CanCreateLB(l, es) /\ CreateLBEffect(l, n, a, x, es)
                 /\ n = Svc(t) => \A k \in LB : lbs[k].name # Svc(t)
    BY <1>5
  <2>1. PICK es, a, x :
                 /\ CanCreateLB(l, es) /\ CreateLBEffect(l, n, a, x, es)
                 /\ n = Svc(t) => \A k \in LB : lbs[k].name # Svc(t)
    BY <2>0
  <2>2. Contract!Create(Svc(t))
    BY <1>1, <2>1, CreateRefined
  <2>3. Contract!Change(j)
    BY <1>5, <2>2 DEF Contract!Change
  <2>4. UNCHANGED <<listeners, backends>>
    BY <2>1 DEF CreateLBEffect
  <2>5. \A k \in LB : lbs'[k].name = IF k = l THEN n ELSE lbs[k].name
    BY <2>1 DEF CreateLBEffect, TypeOK, CloudTypeOK
  <2>6. OneLBPerService'
    BY <1>1, <2>1, <2>5, CloudAssumption DEF CloudInv, OneLBPerService, Exists
  <2> QED BY <1>5, <2>3, <2>4, <2>6 DEF CloudKept, CloudInv, Builds, OnListeners, OnePerPort
<1>6. CASE /\ req[t].op = "ensure"
           /\ \E l \in LB, ps \in SUBSET req[t].obj.ports, g \in Gen :
                 /\ CanAddListeners(l, NewListeners(l, Svc(t), ps, g))
                 /\ AddListenersEffect(l, NewListeners(l, Svc(t), ps, g))
  <2>1. PICK l \in LB, ps \in SUBSET req[t].obj.ports, g \in Gen :
                 /\ CanAddListeners(l, NewListeners(l, Svc(t), ps, g))
                 /\ AddListenersEffect(l, NewListeners(l, Svc(t), ps, g))
    BY <1>6
  <2> DEFINE new == NewListeners(l, Svc(t), ps, g)
  <2>2. Contract!Open(Svc(t))
    BY <1>1, <2>1, OpenRefined
  <2>3. Contract!Change(j)
    BY <1>6, <2>2 DEF Contract!Change
  <2>4. listeners' = listeners \cup new /\ UNCHANGED backends /\ OneLBPerService'
    BY <2>1, NamesStay DEF AddListenersEffect, CloudInv
  <2>5. \A x \in new, y \in listeners : PortOf(x) # PortOf(y)
    BY <2>1 DEF CanAddListeners, PortOf
  <2>6. \A x, y \in new : PortOf(x) = PortOf(y) => x = y
    BY <1>1 DEF NewListeners, PortOf, CallersPart
  <2> HIDE DEF new
  <2>7. OnePerPort' /\ OnListeners'
    <3>1. \A x, y \in listeners' : PortOf(x) = PortOf(y) /\ x.svc # User => x = y
      BY <2>4, <2>5, <2>6 DEF CloudInv, OnePerPort
    <3> QED BY <2>4, <3>1 DEF CloudInv, OnePerPort, OnListeners, PortOf
  <2> QED BY <1>6, <2>3, <2>4, <2>7 DEF CloudKept, CloudInv, Builds
<1>7. CASE /\ req[t].op \in Builds
           /\ \E xs : /\ \A x \in xs : x.svc = Svc(t)
                      /\ CanDeleteListeners(xs) /\ DeleteListenersEffect(xs)
  <2>1. PICK xs : /\ \A x \in xs : x.svc = Svc(t)
                  /\ CanDeleteListeners(xs) /\ DeleteListenersEffect(xs)
    BY <1>7
  <2>2. Contract!Close(Svc(t))
    BY <1>1, <2>1, CloseRefined DEF CloudInv
  <2>3. Contract!Change(j)
    BY <1>7, <2>2 DEF Contract!Change, Builds
  <2>4. OneLBPerService'
    BY <2>1, NamesStay DEF DeleteListenersEffect, CloudInv
  <2>5. OnListeners' /\ OnePerPort' /\ listeners \ listeners' \subseteq xs
    BY <2>1 DEF DeleteListenersEffect, CloudInv, OnListeners, OnePerPort, PortOf
  <2> QED BY <1>7, <2>1, <2>3, <2>4, <2>5 DEF CloudKept, CloudInv
<1>8. CASE /\ req[t].op \in {"ensure", "update"}
           /\ \/ \E x, bs : /\ CanAddBackends(x) /\ AddBackendsEffect(x, bs)
                            /\ x.svc = Svc(t) /\ \A b \in bs : b.lsn = x
              \/ \E bs : DeleteBackendsEffect(bs) /\ \A b \in bs : b.lsn.svc = Svc(t)
  <2>1. listeners' = listeners /\ NamesKept /\ OneLBPerService'
    BY <1>8, NamesStay DEF AddBackendsEffect, DeleteBackendsEffect, CloudInv
  <2>2. OnListeners' /\ OnePerPort'
    BY <1>8, <2>1 DEF AddBackendsEffect, DeleteBackendsEffect, CanAddBackends, CloudInv,
                      OnListeners, OnePerPort, PortOf
  <2>3. Contract!Retarget(Svc(t))
    BY <1>1, <1>8, <2>2, RetargetRefined DEF CloudInv
  <2>4. Contract!Change(j)
    BY <1>8, <2>3 DEF Contract!Change
  <2> QED BY <2>1, <2>2, <2>4 DEF CloudKept, CloudInv
<1>9. CASE /\ req[t].op = "delete"
           /\ \E l \in LB : /\ lbs[l].name = Svc(t) /\ DeleteLBEffect(l)
                            /\ \A x \in listeners : x.lb = l => x.svc = Svc(t)
  <2>1. PICK l \in LB : /\ lbs[l].name = Svc(t) /\ DeleteLBEffect(l)
                        /\ \A x \in listeners : x.lb = l => x.svc = Svc(t)
    BY <1>9
  <2>2. Contract!Drop(Svc(t))
    BY <1>1, <2>1, DropRefined
  <2>3. Contract!Change(j)
    BY <1>9, <2>2 DEF Contract!Change
  <2>4. \A k \in LB : lbs'[k].name = IF k = l THEN Gone ELSE lbs[k].name
    BY <2>1 DEF DeleteLBEffect, TypeOK, CloudTypeOK, LBRecord
  <2>5. OneLBPerService'
    BY <2>4, CloudAssumption DEF CloudInv, OneLBPerService, Exists
  <2>6. OnListeners' /\ OnePerPort'
    BY <2>1 DEF DeleteLBEffect, CloudInv, OnListeners, OnePerPort, PortOf
  <2> QED BY <1>9, <2>1, <2>3, <2>5, <2>6 DEF CloudKept, CloudInv, Builds, DeleteLBEffect
<1>10. CASE /\ req[t].op = "delete"
            /\ \E es : es \cap UserEIP = {} /\ CanRelease(es) /\ ReleaseEffect(es)
  <2>1. Contract!Change(j)
    BY <1>10, ReleaseRefined DEF Contract!Change
  <2>2. UNCHANGED <<lbs, listeners, backends>>
    BY <1>10 DEF ReleaseEffect
  <2>3. OneLBPerService'
    BY <2>2, NamesStay DEF CloudInv
  <2> QED BY <1>10, <2>1, <2>2, <2>3 DEF CloudKept, CloudInv, Builds, OnListeners, OnePerPort
<1> QED BY <1>2, <1>3, <1>4, <1>5, <1>6, <1>7, <1>8, <1>9, <1>10

-----------------------------------------------------------------------------
(* What a thread knows.                                                    *)

(* The steps only an ensure takes. *)
Building == {"modify", "eip", "available", "allocate", "create", "associate",
             "dissociate", "refresh", "addlsn", "getnew", "fill"}

(* Each step belongs to the operations whose code it is. *)
InOp(r, step) ==
    /\ step \in Building => r.op = "ensure"
    /\ step \in {"dellb", "release"} => r.op = "delete"
    /\ step = "dellsn" => r.op \in Builds
    /\ step \in {"listeners", "sync", "delbk", "addbk"} => r.op \in {"ensure", "update"}

(* The listeners and backends in a thread's hands are its service's, the
   ports it adds are those of its object. *)
OwnOnly(r, v, p) ==
    /\ \A x \in v.own \cup p.delLsn \cup p.new \cup p.todo : x.svc = r.obj.svc
    /\ p.cur # NoListener => p.cur.svc = r.obj.svc
    /\ \A b \in p.delBk : b.lsn.svc = r.obj.svc
    /\ p.addPort \subseteq r.obj.ports

(* The load balancer in hand is the service's own. *)
Owns(r, v) == v.lb \in LB /\ lbs[v.lb].name = r.obj.svc

(* There is no load balancer of the name the call would give. *)
NoneYet(r) ==
    LookupName("ensure", r.obj) = r.obj.svc => \A l \in LB : lbs[l].name # r.obj.svc

(* What the lookup found out still holds at the steps that rely on it. *)
KnowsLB(r, step, v) ==
    /\ step = "get" => v.lb = NoLB
    /\ step \in {"modify", "eip"} /\ r.obj.lbid = NoLB => Owns(r, v)
    /\ step \in {"available", "allocate"} /\ v.lb # NoLB => Owns(r, v)
    /\ step \in {"available", "allocate"} /\ v.lb = NoLB => NoneYet(r)
    /\ step = "create" => NoneYet(r)
    /\ step \in {"associate", "dissociate", "dellb"} => Owns(r, v)
    /\ step = "dellb" => \A x \in listeners : x.lb = v.lb => x.svc = r.obj.svc

(* The steps of which KnowsLB says something. *)
Knowing == {"get", "modify", "eip", "available", "allocate", "create", "associate",
            "dissociate", "dellb"}

(* The inductive invariant of a thread. *)
ThreadInv(t) ==
    pc[t] # "idle" =>
        /\ req[t].op \in Ops[t]
        /\ InOp(req[t], pc[t])
        /\ OwnOnly(req[t], view[t], plan[t])
        /\ KnowsLB(req[t], pc[t], view[t])

(* The ways a step ends keep ThreadInv of the stepping thread. *)
LEMMA StepEnds ==
    ASSUME TypeOK, NEW t \in Thread, ThreadInv(t), pc[t] # "idle",
           \/ \E r \in Results : Return(t, r)
           \/ \E step, p : /\ GotoWith(t, step, p) /\ InOp(req[t], step)
                           /\ OwnOnly(req[t], view[t], p)
                           /\ KnowsLB(req[t], step, view[t])' \/ step \notin Knowing
           \/ \E step, v, p :
                /\ pc' = [pc EXCEPT ![t] = step] /\ UNCHANGED req
                /\ view' = [view EXCEPT ![t] = v] /\ plan' = [plan EXCEPT ![t] = p]
                /\ InOp(req[t], step) /\ OwnOnly(req[t], v, p)
                /\ KnowsLB(req[t], step, v)' \/ step \notin Knowing
    PROVE  ThreadInv(t)'
<1>1. /\ DOMAIN pc = Thread /\ pc = [u \in Thread |-> pc[u]]
      /\ view = [u \in Thread |-> view[u]] /\ plan = [u \in Thread |-> plan[u]]
  BY DEF TypeOK, ThreadTypeOK
<1>2. ASSUME NEW r, NEW step, NEW v, step \notin Knowing PROVE KnowsLB(r, step, v)'
  BY <1>2 DEF KnowsLB, Knowing
<1>3. CASE \E r \in Results : Return(t, r)
  <2> DEFINE p == [NoPlan EXCEPT !.sel = plan[t].sel, !.count = plan[t].count]
             v == [NoView EXCEPT !.lb = view[t].lb]
  <2>1. PICK r \in Results : Return(t, r)
    BY <1>3
  <2>2. /\ p.delLsn = {} /\ p.new = {} /\ p.todo = {} /\ p.cur = NoListener
        /\ p.delBk = {} /\ p.addPort = {} /\ v.own = {}
    BY DEF NoPlan, NoView
  <2>3. pc'[t] = r /\ view'[t] = v /\ plan'[t] = p /\ req' = req
    BY <1>1, <2>1 DEF Return, Goto
  <2> HIDE DEF p, v
  <2>4. OwnOnly(req[t], v, p)
    BY <2>2 DEF OwnOnly
  <2>5. r \notin Knowing /\ InOp(req[t], r)
    BY DEF Results, Knowing, InOp, Building
  <2>6. KnowsLB(req[t], pc[t], view[t])'
    BY <2>3, <2>5 DEF KnowsLB, Knowing
  <2> QED BY <2>3, <2>4, <2>5, <2>6 DEF ThreadInv
<1>4. CASE \E step, p : /\ GotoWith(t, step, p) /\ InOp(req[t], step)
                        /\ OwnOnly(req[t], view[t], p)
                        /\ KnowsLB(req[t], step, view[t])' \/ step \notin Knowing
  <2>1. PICK step, p : /\ GotoWith(t, step, p) /\ InOp(req[t], step)
                       /\ OwnOnly(req[t], view[t], p)
                       /\ KnowsLB(req[t], step, view[t])' \/ step \notin Knowing
    BY <1>4
  <2>2. pc'[t] = step /\ view'[t] = view[t] /\ plan'[t] = p /\ req' = req
    BY <1>1, <2>1 DEF GotoWith, Goto
  <2>3. KnowsLB(req[t], pc[t], view[t])'
    BY <2>1, <2>2 DEF KnowsLB, Knowing
  <2> QED BY <2>1, <2>2, <2>3 DEF ThreadInv
<1>5. CASE \E step, v, p :
                /\ pc' = [pc EXCEPT ![t] = step] /\ UNCHANGED req
                /\ view' = [view EXCEPT ![t] = v] /\ plan' = [plan EXCEPT ![t] = p]
                /\ InOp(req[t], step) /\ OwnOnly(req[t], v, p)
                /\ KnowsLB(req[t], step, v)' \/ step \notin Knowing
  <2>1. PICK step, v, p :
                /\ pc' = [pc EXCEPT ![t] = step] /\ UNCHANGED req
                /\ view' = [view EXCEPT ![t] = v] /\ plan' = [plan EXCEPT ![t] = p]
                /\ InOp(req[t], step) /\ OwnOnly(req[t], v, p)
                /\ KnowsLB(req[t], step, v)' \/ step \notin Knowing
    BY <1>5
  <2>2. pc'[t] = step /\ view'[t] = v /\ plan'[t] = p /\ req' = req
    BY <1>1, <2>1
  <2>3. KnowsLB(req[t], pc[t], view[t])'
    BY <2>1, <2>2 DEF KnowsLB, Knowing
  <2> QED BY <2>1, <2>2, <2>3 DEF ThreadInv
<1> QED BY <1>3, <1>4, <1>5

(* The other threads' local variables stay. *)
OnlyMoves(t) ==
    /\ UNCHANGED req
    /\ \A u \in Thread \ {t} : pc'[u] = pc[u] /\ view'[u] = view[u] /\ plan'[u] = plan[u]

(* A step is taken inside a call and moves its own thread only. *)
LEMMA StepMoves ==
    ASSUME TypeOK, NEW t \in Thread, Step(t)
    PROVE  pc[t] \in Steps /\ OnlyMoves(t)
<1>1. ASSUME NEW r, Return(t, r) PROVE OnlyMoves(t)
  BY <1>1 DEF Return, Goto, OnlyMoves, TypeOK, ThreadTypeOK
<1>2. ASSUME NEW step, NEW p, GotoWith(t, step, p) PROVE OnlyMoves(t)
  BY <1>2 DEF GotoWith, Goto, OnlyMoves, TypeOK, ThreadTypeOK
<1>3. ASSUME NEW step, NEW v, Goto(t, step), UNCHANGED req,
             view' = [view EXCEPT ![t] = v],
             \/ UNCHANGED plan
             \/ \E d : plan' = [plan EXCEPT ![t].delLsn = d]
             \/ \E n, c : plan' = [plan EXCEPT ![t].sel = n, ![t].count = c]
      PROVE  OnlyMoves(t)
  BY <1>3 DEF Goto, OnlyMoves, TypeOK, ThreadTypeOK
<1>4. pc[t] \in Steps
  BY DEF Step, Steps, GetLoadBalancer, ModifyLB, UpdateLBEip, GetAvailableEIP, AllocateEIP,
         AssociateEIPs, DissociateEIPs, RefreshStatus, CreateLB, GetListeners,
         DeleteListener, CreateListener, GetNewListeners, FillListener, SyncListener,
         DeleteBackends, AddBackends, UpdateLB, DeleteLB, ReleaseEIP
<1>5. CASE GetLoadBalancer(t)
  <2>1. ASSUME NEW v, FoundForDelete(t, v) PROVE OnlyMoves(t)
    BY <1>1, <1>3, <2>1 DEF FoundForDelete
  <2>2. ASSUME NEW l, Found(t, l) PROVE OnlyMoves(t)
    BY <1>1, <1>3, <2>1, <2>2 DEF Found
  <2>3. ASSUME NotFound(t) PROVE OnlyMoves(t)
    BY <1>1, <1>2, <2>3 DEF NotFound
  <2> QED BY <1>1, <1>4, <1>5, <2>2, <2>3 DEF GetLoadBalancer, Reject, Local
<1>6. CASE ModifyLB(t) \/ UpdateLBEip(t) \/ GetAvailableEIP(t) \/ AllocateEIP(t)
  BY <1>1, <1>4, <1>2, <1>6 DEF ModifyLB, UpdateLBEip, GetAvailableEIP, AllocateEIP, UseEip,
                          Call, Local, Read, Reject
<1>7. CASE AssociateEIPs(t) \/ DissociateEIPs(t)
  BY <1>1, <1>4, <1>2, <1>7 DEF AssociateEIPs, DissociateEIPs, Call
<1>8. CASE RefreshStatus(t) \/ CreateLB(t)
  BY <1>1, <1>4, <1>3, <1>8 DEF RefreshStatus, CreateLB, Call, Local, Read, Reject
<1>9. CASE GetListeners(t) \/ DeleteListener(t) \/ CreateListener(t) \/ GetNewListeners(t)
  BY <1>1, <1>4, <1>2, <1>9 DEF GetListeners, DeleteListener, CreateListener, GetNewListeners,
                          Call, Local, Read, Reject
<1>10. CASE FillListener(t) \/ SyncListener(t) \/ DeleteBackends(t) \/ AddBackends(t)
  BY <1>1, <1>4, <1>2, <1>10 DEF FillListener, SyncListener, DeleteBackends, AddBackends,
                           CreateBackends, Call, Local, Reject
<1>11. CASE UpdateLB(t) \/ DeleteLB(t) \/ ReleaseEIP(t)
  BY <1>1, <1>4, <1>2, <1>11 DEF UpdateLB, DeleteLB, AfterDeleteLB, ReleaseEIP, Call
<1> QED BY <1>4, <1>5, <1>6, <1>7, <1>8, <1>9, <1>10, <1>11 DEF Step

(* What one thread does keeps what the others know: only a building thread
   knows something of the cloud, and only it changes that. *)
LEMMA OthersKeep ==
    ASSUME TypeOK, CallersPart, NEW t \in Thread, NEW u \in Thread \ {t},
           ThreadInv(t), ThreadInv(u), pc[t] # "idle", OnlyMoves(t), CloudKept(t)
    PROVE  ThreadInv(u)'
<1>1. /\ pc'[u] = pc[u] /\ view'[u] = view[u] /\ plan'[u] = plan[u] /\ req' = req
  BY DEF OnlyMoves
<1>2. CASE pc[u] = "idle"
  BY <1>1, <1>2 DEF ThreadInv
<1>3. CASE pc[u] # "idle" /\ req[t].op \in Builds
  <2>1. req[u].op \notin Builds
    BY <1>3 DEF ThreadInv, CallersPart
  <2>2. pc[u] \notin Knowing \ {"get"}
    BY <1>3, <2>1 DEF ThreadInv, InOp, Knowing, Building, Builds
  <2>3. KnowsLB(req[u], pc[u], view[u])'
    BY <1>1, <1>3, <2>2 DEF ThreadInv, KnowsLB, Knowing
  <2> QED BY <1>1, <1>3, <2>3 DEF ThreadInv
<1>4. CASE pc[u] # "idle" /\ NamesKept /\ listeners' = listeners
  <2>1. KnowsLB(req[u], pc[u], view[u])'
    BY <1>1, <1>4 DEF ThreadInv, KnowsLB, NamesKept, Owns, NoneYet
  <2> QED BY <1>1, <1>4, <2>1 DEF ThreadInv
<1> QED BY <1>2, <1>3, <1>4 DEF CloudKept

-----------------------------------------------------------------------------
(* One lemma per action or group of actions.                               *)

(* The lookup by name is what makes a load balancer the service's own, and
   its failure what allows to create one. *)
LEMMA GetLoadBalancerKept ==
    ASSUME TypeOK, TypeOK', CloudInv, CallersPart, NEW t \in Thread, ThreadInv(t),
           GetLoadBalancer(t)
    PROVE  ThreadInv(t)' /\ CloudKept(t)
<1> DEFINE op == req[t].op
           o == req[t].obj
           f == FilterNodes(o.cfg, req[t].nodes, eps[o.svc])
<1>1. /\ pc[t] = "get" /\ pc[t] # "idle" /\ CloudKept(t) /\ view[t].lb = NoLB
      /\ UNCHANGED cloudVars
      /\ OwnOnly(req[t], view[t], plan[t])
  <2>1. pc[t] = "get" /\ UNCHANGED cloudVars
    BY DEF GetLoadBalancer, Reject, Local
  <2> QED BY <2>1, EffectsKept DEF ThreadInv, KnowsLB
<1>2. o \in ServiceObject /\ o \in Object /\ op \in Operation /\ plan[t] \in Plan
  BY <1>1, RequestType, ProviderAssumption DEF TypeOK, ThreadTypeOK, Request
<1>3. CASE \E r \in Results : Return(t, r)
  BY <1>1, <1>3, StepEnds
<1>4. {"absent", "error", "ok"} \subseteq Results
  BY DEF Results
<1>5. \A l \in LB : ViewOf(l, o.svc).lb = l /\ \A x \in ViewOf(l, o.svc).own : x.svc = o.svc
  BY DEF ViewOf
<1>6. ASSUME NEW l \in LB, l \in Lookup(op, o), op = "delete",
             FoundForDelete(t, ViewOf(l, o.svc)), ~Return(t, "ok")
      PROVE  ThreadInv(t)'
  <2>0. PICK v : v = ViewOf(l, o.svc)
    OBVIOUS
  <2> DEFINE only == OnlyListeners(o, v)
             d == IF only THEN v.own ELSE {}
             p == [plan[t] EXCEPT !.delLsn = d]
             step == IF only THEN "dellsn" ELSE "dellb"
  <2>1. v.lb = l /\ \A x \in v.own : x.svc = o.svc
    BY <1>5, <2>0
  <2>2. /\ view' = [view EXCEPT ![t] = v] /\ pc' = [pc EXCEPT ![t] = step]
        /\ plan' = [plan EXCEPT ![t].delLsn = d] /\ UNCHANGED req
    BY <1>6, <2>0 DEF FoundForDelete, Goto
  <2>3. plan' = [plan EXCEPT ![t] = p] /\ OwnOnly(req[t], v, p)
    BY <1>1, <1>2, <2>1, <2>2 DEF Plan, OwnOnly, TypeOK, ThreadTypeOK
  <2>4. InOp(req[t], step)
    BY <1>6 DEF InOp, Builds, Building
  <2> HIDE DEF d, p
  <2>5. CASE only
    <3>1. pc' = [pc EXCEPT ![t] = "dellsn"] /\ InOp(req[t], "dellsn") /\ "dellsn" \notin Knowing
      BY <2>2, <2>4, <2>5 DEF Knowing
    <3> QED BY <1>1, <2>2, <2>3, <3>1, StepEnds
  <2>6. CASE ~only
    <3>1. LookupID("delete", o) = NoLB /\ v.others = FALSE
      BY <2>0, <2>6 DEF OnlyListeners, ViewOf
    <3>2. l \in ByName(o.svc)
      BY <1>6, <3>1 DEF Lookup, LookupName, ForDelete
    <3>3. lbs[l].name = o.svc
      BY <3>2 DEF ByName
    <3>4. \A x \in listeners : x.lb = l => x.svc = o.svc
      BY <2>0, <3>1 DEF ViewOf, ListenersOf
    <3>5. KnowsLB(req[t], "dellb", v)'
      BY <1>1, <2>1, <2>2, <3>3, <3>4 DEF KnowsLB, Owns, cloudVars
    <3>6. pc' = [pc EXCEPT ![t] = "dellb"] /\ InOp(req[t], "dellb")
      BY <2>2, <2>4, <2>6
    <3> QED BY <1>1, <2>2, <2>3, <3>5, <3>6, StepEnds
  <2> QED BY <2>5, <2>6
<1>7. ASSUME NEW l \in LB, l \in Lookup(op, o), ConfigOK(op, o),
             op \in {"ensure", "update"}, UNCHANGED req,
             view' = [view EXCEPT ![t] = ViewOf(l, o.svc)],
             plan' = [plan EXCEPT ![t].sel = f.nodes, ![t].count = f.count],
             Goto(t, IF op = "ensure" THEN "modify" ELSE "listeners")
      PROVE  ThreadInv(t)'
  <2>0. PICK v, step : v = ViewOf(l, o.svc)
                       /\ step = IF op = "ensure" THEN "modify" ELSE "listeners"
    OBVIOUS
  <2> DEFINE p == [plan[t] EXCEPT !.sel = f.nodes, !.count = f.count]
  <2>1. v.lb = l /\ \A x \in v.own : x.svc = o.svc
    BY <1>5, <2>0
  <2>2. plan' = [plan EXCEPT ![t] = p] /\ OwnOnly(req[t], v, p)
    BY <1>1, <1>2, <1>7, <2>1 DEF Plan, OwnOnly, TypeOK, ThreadTypeOK
  <2>3. InOp(req[t], step) /\ pc' = [pc EXCEPT ![t] = step]
    BY <1>7, <2>0 DEF InOp, Builds, Building, Goto
  <2>4. op = "ensure" /\ o.lbid = NoLB => lbs[l].name = o.svc
    BY <1>2, <1>7 DEF Lookup, LookupID, LookupName, ConfigOK, ForDelete, ByName
  <2>5. KnowsLB(req[t], step, v)' \/ step \notin Knowing
    BY <1>1, <1>7, <2>0, <2>1, <2>4 DEF KnowsLB, Owns, cloudVars, Knowing
  <2>6. view' = [view EXCEPT ![t] = v]
    BY <1>7, <2>0
  <2> HIDE DEF p
  <2> QED BY <1>1, <1>7, <2>2, <2>3, <2>5, <2>6, StepEnds
<1>8. ASSUME NotFound(t), Lookup(op, o) = {}, ConfigOK(op, o), ~\E r \in Results : Return(t, r)
      PROVE  ThreadInv(t)'
  <2> DEFINE p == [plan[t] EXCEPT !.sel = f.nodes, !.count = f.count, !.addEip = o.eipIDs,
                                  !.addPort = o.ports, !.modify = TRUE]
  <2>0. PICK step : step = CreateStep(o)
    OBVIOUS
  <2>1. /\ GotoWith(t, step, p) /\ op = "ensure" /\ o.strategy # "reuse-lb"
    BY <1>4, <1>8, <2>0 DEF NotFound
  <2>2. step \in {"create", "available", "allocate"}
    BY <2>0 DEF CreateStep, PrepareStep
  <2>3. InOp(req[t], step) /\ OwnOnly(req[t], view[t], p)
    BY <1>1, <1>2, <2>1, <2>2 DEF InOp, Builds, Building, OwnOnly, Plan
  <2>4. NoneYet(req[t])
    <3>1. CASE LookupName("ensure", o) = o.svc
      <4>1. o.strategy = "exclusive" /\ o.lbid = NoLB
        BY <1>2, <3>1, CloudAssumption DEF LookupName, ForDelete, CallersPart, ServiceObject
      <4>2. ByName(o.svc) = {}
        BY <1>8, <2>1, <3>1, <4>1 DEF Lookup, LookupID
      <4>3. o.svc \notin {Unborn, Gone}
        BY <1>2, CloudAssumption DEF ServiceObject
      <4> QED BY <4>2, <4>3 DEF NoneYet, ByName, Exists
    <3> QED BY <3>1 DEF NoneYet
  <2>5. KnowsLB(req[t], step, view[t])'
    BY <1>1, <2>1, <2>2, <2>4 DEF KnowsLB, NoneYet, GotoWith, cloudVars
  <2> HIDE DEF p
  <2> QED BY <1>1, <2>1, <2>3, <2>5, StepEnds
<1>9. ASSUME ~\E r \in Results : Return(t, r), ConfigOK(op, o), NEW l \in Lookup(op, o),
             Found(t, l)
      PROVE  ThreadInv(t)'
  <2>1. l \in LB
    BY LookupType
  <2> QED BY <1>4, <1>6, <1>7, <1>9, <2>1 DEF Found
<1> QED BY <1>1, <1>3, <1>4, <1>8, <1>9 DEF GetLoadBalancer, Reject, Local

(* Changes of attributes and EIPs; a load balancer given by id is left out of
   the latter. *)
LEMMA EipStepsKept ==
    ASSUME TypeOK, TypeOK', CloudInv, CallersPart, NEW t \in Thread, ThreadInv(t),
           \/ ModifyLB(t) \/ UpdateLBEip(t) \/ GetAvailableEIP(t) \/ AllocateEIP(t)
           \/ AssociateEIPs(t) \/ DissociateEIPs(t)
    PROVE  ThreadInv(t)' /\ CloudKept(t)
<1> DEFINE Goes == \E step, p : /\ GotoWith(t, step, p) /\ InOp(req[t], step)
                                /\ OwnOnly(req[t], view[t], p)
                                /\ KnowsLB(req[t], step, view[t])' \/ step \notin Knowing
           Ends == (\E r \in Results : Return(t, r)) \/ Goes
           o == req[t].obj
<1>1. /\ pc[t] \in {"modify", "eip", "available", "allocate", "associate", "dissociate"}
      /\ pc[t] # "idle" /\ "error" \in Results /\ plan[t] \in Plan
  BY DEF ModifyLB, UpdateLBEip, GetAvailableEIP, AllocateEIP, AssociateEIPs, DissociateEIPs,
         Results, TypeOK, ThreadTypeOK
<1>2. /\ req[t].op = "ensure" /\ OwnOnly(req[t], view[t], plan[t])
      /\ KnowsLB(req[t], pc[t], view[t])
  BY <1>1 DEF ThreadInv, InOp, Building
<1>3. ASSUME NEW p, p.delLsn = plan[t].delLsn, p.new = plan[t].new, p.todo = plan[t].todo,
             p.cur = plan[t].cur, p.delBk = plan[t].delBk, p.addPort = plan[t].addPort
      PROVE  OwnOnly(req[t], view[t], p)
  BY <1>2, <1>3 DEF OwnOnly
<1>4. \A step \in Building \cup {"listeners"} : InOp(req[t], step)
  BY <1>2 DEF InOp, Building, Builds
<1>5. ASSUME Ends PROVE ThreadInv(t)'
  BY <1>1, <1>5, StepEnds
<1>6. CASE ModifyLB(t)
  <2> DEFINE p == [plan[t] EXCEPT !.modify = TRUE]
  <2>1. UNCHANGED cloudVars \/ \E l, attr : ModifyLBEffect(l, attr)
    BY <1>6 DEF ModifyLB, Call, Local
  <2>2. CloudKept(t)
    BY <1>1, <2>1, EffectsKept
  <2>3. NamesKept
    BY <2>1, NamesStay DEF CloudInv, cloudVars
  <2>4. OwnOnly(req[t], view[t], plan[t]) /\ OwnOnly(req[t], view[t], p)
    BY <1>1, <1>2 DEF OwnOnly, Plan
  <2>5. \/ Return(t, "error")
        \/ GotoWith(t, "eip", plan[t]) \/ GotoWith(t, "eip", p)
    BY <1>6 DEF ModifyLB, Call, Local
  <2>6. CASE GotoWith(t, "eip", plan[t]) \/ GotoWith(t, "eip", p)
    <3>1. UNCHANGED <<req, view>>
      BY <2>6 DEF GotoWith
    <3>2. KnowsLB(req[t], "eip", view[t])'
      BY <1>2, <1>6, <2>3, <3>1 DEF KnowsLB, Owns, NamesKept, ModifyLB
    <3>3. InOp(req[t], "eip")
      BY <1>4 DEF Building
    <3> HIDE DEF p
    <3>4. Goes
      BY <2>4, <2>6, <3>2, <3>3
    <3> QED BY <1>5, <2>2, <3>4
  <2> QED BY <1>1, <1>5, <2>2, <2>5, <2>6
<1>7. CASE UpdateLBEip(t)
  <2>1. UNCHANGED cloudVars
    BY <1>7 DEF UpdateLBEip, Local
  <2>2. CloudKept(t)
    BY <1>1, <2>1, EffectsKept
  <2>3. \E step, p : /\ GotoWith(t, step, p)
                     /\ step \in {"listeners", "available", "allocate", "associate", "dissociate"}
                     /\ step # "listeners" => o.lbid = NoLB
                     /\ OwnOnly(req[t], view[t], p)
    BY <1>1, <1>3, <1>7 DEF UpdateLBEip, Local, PrepareStep, Plan
  <2>4. PICK step, p : /\ GotoWith(t, step, p)
                       /\ step \in {"listeners", "available", "allocate", "associate", "dissociate"}
                       /\ step # "listeners" => o.lbid = NoLB
                       /\ OwnOnly(req[t], view[t], p)
    BY <2>3
  <2>5. o.lbid = NoLB => Owns(req[t], view[t])
    BY <1>2, <1>7 DEF UpdateLBEip, KnowsLB
  <2>6. view[t].lb = NoLB => ~Owns(req[t], view[t])
    BY CloudAssumption DEF Owns
  <2>7. UNCHANGED <<req, view>> /\ lbs' = lbs
    BY <2>1, <2>4 DEF GotoWith, cloudVars
  <2>8. KnowsLB(req[t], step, view[t])' \/ step \notin Knowing
    BY <2>4, <2>5, <2>6, <2>7 DEF KnowsLB, Owns, NoneYet, Knowing
  <2>9. InOp(req[t], step)
    BY <1>4, <2>4 DEF Building
  <2> QED BY <1>5, <2>2, <2>4, <2>8, <2>9
<1>8. ASSUME NEW e, UseEip(t, e), pc[t] \in {"available", "allocate"}, lbs' = lbs
      PROVE  Goes
  <2> DEFINE p == [plan[t] EXCEPT !.addEip = {e}]
  <2>1. PICK step : step = IF view[t].lb = NoLB THEN "create" ELSE "associate"
    OBVIOUS
  <2>2. GotoWith(t, step, p) /\ InOp(req[t], step)
    BY <1>4, <1>8, <2>1 DEF UseEip, Building
  <2>3. OwnOnly(req[t], view[t], p)
    BY <1>1, <1>3 DEF Plan
  <2>4. KnowsLB(req[t], step, view[t])'
    BY <1>2, <1>8, <2>1, <2>2 DEF KnowsLB, Owns, NoneYet, GotoWith
  <2> HIDE DEF p
  <2> QED BY <2>2, <2>3, <2>4
<1>9. CASE GetAvailableEIP(t)
  <2>1. UNCHANGED cloudVars /\ pc[t] = "available"
    BY <1>9 DEF GetAvailableEIP, Read, Local
  <2>2. CloudKept(t)
    BY <1>1, <2>1, EffectsKept
  <2>3. \/ Return(t, "error")
        \/ \E e : UseEip(t, e)
        \/ GotoWith(t, "allocate", plan[t])
    BY <1>9 DEF GetAvailableEIP, Read, Local
  <2>4. ASSUME GotoWith(t, "allocate", plan[t]) PROVE Goes
    <3>1. KnowsLB(req[t], "allocate", view[t])' /\ InOp(req[t], "allocate")
      BY <1>2, <1>4, <2>1, <2>4 DEF KnowsLB, Owns, NoneYet, GotoWith, cloudVars, Building
    <3> QED BY <1>2, <2>4, <3>1
  <2> QED BY <1>1, <1>5, <1>8, <2>1, <2>2, <2>3, <2>4 DEF cloudVars
<1>10. CASE AllocateEIP(t)
  <2>1. /\ UNCHANGED cloudVars \/ \E e \in EIP : CanAllocate(e) /\ AllocateEffect(e)
        /\ pc[t] = "allocate" /\ (Return(t, "error") \/ \E e : UseEip(t, e))
    BY <1>10 DEF AllocateEIP, Call, Reject, Local
  <2>2. CloudKept(t)
    BY <1>1, <1>2, <2>1, EffectsKept
  <2>3. lbs' = lbs
    BY <2>1 DEF cloudVars, AllocateEffect
  <2> QED BY <1>1, <1>5, <1>8, <2>1, <2>2, <2>3
<1>11. CASE AssociateEIPs(t) \/ DissociateEIPs(t)
  <2> DEFINE l == view[t].lb
  <2>1. l \in LB /\ lbs[l].name = Svc(t)
    BY <1>2, <1>11 DEF AssociateEIPs, DissociateEIPs, KnowsLB, Owns, Svc
  <2>2. \/ UNCHANGED cloudVars
        \/ \E es : \/ CanAssociate(l, es) /\ AssociateEffect(l, es)
                   \/ CanDissociate(l, es) /\ DissociateEffect(es)
    BY <1>11 DEF AssociateEIPs, DissociateEIPs, Call
  <2>3. CloudKept(t)
    BY <1>1, <1>2, <2>1, <2>2, EffectsKept
  <2>4. lbs' = lbs
    BY <2>2 DEF cloudVars, AssociateEffect, DissociateEffect
  <2>5. Return(t, "error") \/ GotoWith(t, "dissociate", plan[t]) \/ GotoWith(t, "refresh", plan[t])
    BY <1>11 DEF AssociateEIPs, DissociateEIPs, Call
  <2>6. ASSUME GotoWith(t, "dissociate", plan[t]) PROVE Goes
    <3>1. KnowsLB(req[t], "dissociate", view[t])' /\ InOp(req[t], "dissociate")
      BY <1>4, <2>1, <2>4, <2>6 DEF KnowsLB, Owns, GotoWith, Building, Svc
    <3> QED BY <1>2, <2>6, <3>1
  <2>7. ASSUME GotoWith(t, "refresh", plan[t]) PROVE Goes
    BY <1>2, <1>4, <2>7 DEF Building, Knowing
  <2> QED BY <1>1, <1>5, <2>3, <2>5, <2>6, <2>7
<1> QED BY <1>6, <1>7, <1>9, <1>10, <1>11

(* Reading the status again finds the service's own listeners again. *)
LEMMA RefreshStatusKept ==
    ASSUME TypeOK, TypeOK', CloudInv, CallersPart, NEW t \in Thread, ThreadInv(t),
           RefreshStatus(t)
    PROVE  ThreadInv(t)' /\ CloudKept(t)
<1> DEFINE o == req[t].obj
           status(l) == [ViewOf(l, o.svc) EXCEPT !.eips = view[t].eips, !.attr = view[t].attr]
<1>1. /\ pc[t] = "refresh" /\ pc[t] # "idle" /\ "error" \in Results /\ UNCHANGED cloudVars
  BY DEF RefreshStatus, Read, Local, Results
<1>2. CloudKept(t) /\ req[t].op = "ensure" /\ OwnOnly(req[t], view[t], plan[t])
  BY <1>1, EffectsKept DEF ThreadInv, InOp, Building
<1>3. CASE Return(t, "error")
  BY <1>1, <1>2, <1>3, StepEnds
<1>4. ASSUME NEW l \in LB, view' = [view EXCEPT ![t] = status(l)], Goto(t, "listeners"),
             UNCHANGED <<req, plan>>
      PROVE  ThreadInv(t)'
  <2>1. PICK v : v = status(l)
    OBVIOUS
  <2>2. v.own = ViewOf(l, o.svc).own
    BY <2>1 DEF ViewOf
  <2>3. OwnOnly(req[t], v, plan[t])
    BY <1>2, <2>2 DEF OwnOnly, ViewOf
  <2>4. plan' = [plan EXCEPT ![t] = plan[t]] /\ pc' = [pc EXCEPT ![t] = "listeners"]
    BY <1>4 DEF Goto, TypeOK, ThreadTypeOK
  <2>5. InOp(req[t], "listeners") /\ "listeners" \notin Knowing
    BY <1>2 DEF InOp, Building, Knowing
  <2> QED BY <1>1, <1>4, <2>1, <2>3, <2>4, <2>5, StepEnds
<1> QED BY <1>2, <1>3, <1>4 DEF RefreshStatus, Read, Local, ByName

(* The load balancer is created only when the lookup found none. *)
LEMMA CreateLBKept ==
    ASSUME TypeOK, TypeOK', CloudInv, CallersPart, NEW t \in Thread, ThreadInv(t),
           CreateLB(t)
    PROVE  ThreadInv(t)' /\ CloudKept(t)
<1> DEFINE o == req[t].obj
           attr == IF o.attr = NoAttr THEN DefaultAttr ELSE o.attr
           created(l) == [NoView EXCEPT !.lb = l, !.vip = TRUE, !.attr = attr]
           n == LookupName("ensure", o)
<1>1. pc[t] = "create" /\ pc[t] # "idle" /\ "error" \in Results
  BY DEF CreateLB, Results
<1>2. /\ req[t].op = "ensure" /\ OwnOnly(req[t], view[t], plan[t]) /\ NoneYet(req[t])
      /\ n \in {Svc(t), Anon}
  BY <1>1 DEF ThreadInv, InOp, Building, KnowsLB, LookupName, ForDelete, Svc
<1>3. CloudKept(t)
  <2>1. \/ UNCHANGED cloudVars
        \/ \E l \in LB : \E es, a, x : CanCreateLB(l, es) /\ CreateLBEffect(l, n, a, x, es)
    BY DEF CreateLB, Call, Reject, Local
  <2>2. n = Svc(t) => \A k \in LB : lbs[k].name # Svc(t)
    BY <1>2 DEF NoneYet, Svc
  <2> HIDE DEF n
  <2> QED BY <1>1, <1>2, <2>1, <2>2, EffectsKept
<1>4. CASE Return(t, "error")
  BY <1>1, <1>3, <1>4, StepEnds
<1>5. ASSUME NEW l \in LB, view' = [view EXCEPT ![t] = created(l)], Goto(t, "addlsn"),
             UNCHANGED <<req, plan>>
      PROVE  ThreadInv(t)'
  <2>1. PICK v : v = created(l)
    OBVIOUS
  <2>2. v.own = {}
    BY <2>1 DEF NoView
  <2>3. OwnOnly(req[t], v, plan[t])
    BY <1>2, <2>2 DEF OwnOnly
  <2>4. plan' = [plan EXCEPT ![t] = plan[t]] /\ pc' = [pc EXCEPT ![t] = "addlsn"]
    BY <1>5 DEF Goto, TypeOK, ThreadTypeOK
  <2>5. InOp(req[t], "addlsn") /\ "addlsn" \notin Knowing
    BY <1>2 DEF InOp, Building, Knowing
  <2> QED BY <1>1, <1>5, <2>1, <2>3, <2>4, <2>5, StepEnds
<1> QED BY <1>3, <1>4, <1>5 DEF CreateLB, Call, Reject, Local

(* diffListeners divides the service's own listeners and ports. *)
LEMMA GetListenersKept ==
    ASSUME TypeOK, TypeOK', CloudInv, CallersPart, NEW t \in Thread, ThreadInv(t),
           GetListeners(t)
    PROVE  ThreadInv(t)' /\ CloudKept(t)
<1> DEFINE o == req[t].obj
           xs == view[t].own \cap listeners
           bs == { b \in backends : b.lsn \in xs }
           replace(first) ==
               LET d == DiffListeners(xs, first, o.ports)
               IN  [plan[t] EXCEPT !.delLsn = d.del, !.addPort = d.add, !.todo = d.keep,
                                   !.snap = bs]
           build == [plan[t] EXCEPT !.addPort = o.ports, !.modify = TRUE]
           update == [plan[t] EXCEPT !.todo = xs, !.snap = bs]
<1>1. /\ pc[t] = "listeners" /\ pc[t] # "idle" /\ {"ok", "error"} \subseteq Results
      /\ UNCHANGED cloudVars /\ plan[t] \in Plan
  BY DEF GetListeners, Read, Local, Results, TypeOK, ThreadTypeOK
<1>2. CloudKept(t) /\ OwnOnly(req[t], view[t], plan[t])
  BY <1>1, EffectsKept DEF ThreadInv
<1>3. /\ OwnOnly(req[t], view[t], build) /\ OwnOnly(req[t], view[t], update)
      /\ \A first : OwnOnly(req[t], view[t], replace(first))
  BY <1>1, <1>2 DEF OwnOnly, Plan, DiffListeners
<1>4. \/ Return(t, "ok") \/ Return(t, "error")
      \/ req[t].op = "ensure" /\ GotoWith(t, "addlsn", build)
      \/ req[t].op = "update" /\ GotoWith(t, "sync", update)
      \/ /\ req[t].op = "ensure"
         /\ \E first : \E step \in {"dellsn", "addlsn"} : GotoWith(t, step, replace(first))
  BY DEF GetListeners, Read, Local
<1>5. /\ req[t].op = "ensure" => InOp(req[t], "addlsn") /\ InOp(req[t], "dellsn")
      /\ req[t].op = "update" => InOp(req[t], "sync")
      /\ {"addlsn", "dellsn", "sync"} \cap Knowing = {}
  BY DEF InOp, Building, Builds, Knowing
<1> HIDE DEF replace, build, update
<1> QED BY <1>1, <1>2, <1>3, <1>4, <1>5, StepEnds

(* Deleting and creating listeners, and reading the new ones back. *)
LEMMA ListenerStepsKept ==
    ASSUME TypeOK, TypeOK', CloudInv, CallersPart, NEW t \in Thread, ThreadInv(t),
           \/ DeleteListener(t) \/ CreateListener(t) \/ GetNewListeners(t)
    PROVE  ThreadInv(t)' /\ CloudKept(t)
<1>1. /\ pc[t] \in {"dellsn", "addlsn", "getnew"} /\ pc[t] # "idle" /\ "error" \in Results
      /\ plan[t] \in Plan
  BY DEF DeleteListener, CreateListener, GetNewListeners, Results, TypeOK, ThreadTypeOK
<1>2. OwnOnly(req[t], view[t], plan[t])
  BY <1>1 DEF ThreadInv
<1>3. {"apply", "addlsn", "sync", "getnew", "fill", "hang"} \cap Knowing = {}
  BY DEF Knowing
<1>4. CASE DeleteListener(t)
  <2> DEFINE xs == plan[t].delLsn
             p == [plan[t] EXCEPT !.modify = TRUE]
  <2>1. pc[t] = "dellsn" /\ req[t].op \in Builds /\ \A x \in xs : x.svc = Svc(t)
    BY <1>1, <1>2, <1>4 DEF DeleteListener, ThreadInv, InOp, OwnOnly, Svc
  <2>2. UNCHANGED cloudVars \/ (CanDeleteListeners(xs) /\ DeleteListenersEffect(xs))
    BY <1>4 DEF DeleteListener, Call
  <2>3. CloudKept(t)
    BY <1>1, <2>1, <2>2, EffectsKept
  <2>4. OwnOnly(req[t], view[t], p)
    BY <1>1, <1>2 DEF OwnOnly, Plan
  <2>5. \/ Return(t, "error")
        \/ \E step \in {"apply", "addlsn"} :
              (step = "addlsn" => req[t].op # "delete") /\ GotoWith(t, step, p)
    BY <1>4 DEF DeleteListener, Call
  <2>6. InOp(req[t], "apply") /\ (req[t].op # "delete" => InOp(req[t], "addlsn"))
    BY <2>1 DEF InOp, Building, Builds
  <2> HIDE DEF p
  <2> QED BY <1>1, <1>3, <2>3, <2>4, <2>5, <2>6, StepEnds
<1>5. CASE CreateListener(t)
  <2> DEFINE l == view[t].lb
             ports == plan[t].addPort
             new(g) == NewListeners(l, Svc(t), ports, g)
             p(g) == [plan[t] EXCEPT !.new = new(g), !.modify = TRUE]
  <2>1. /\ req[t].op = "ensure" /\ ports \in SUBSET req[t].obj.ports
    BY <1>1, <1>2, <1>5 DEF CreateListener, ThreadInv, InOp, Building, OwnOnly
  <2>2. \/ UNCHANGED cloudVars
        \/ \E g \in Gen : CanAddListeners(l, new(g)) /\ AddListenersEffect(l, new(g))
    BY <1>5 DEF CreateListener, Call, Reject, Local, FreshGen, Svc
  <2>3. CloudKept(t)
    <3>1. CASE \E g \in Gen : CanAddListeners(l, new(g)) /\ AddListenersEffect(l, new(g))
      <4>1. l \in LB
        BY <3>1 DEF CanAddListeners, Exists
      <4> QED BY <1>1, <2>1, <3>1, <4>1, EffectsKept
    <3> QED BY <1>1, <2>2, <3>1, EffectsKept
  <2>4. \A g : \A x \in new(g) : x.svc = req[t].obj.svc
    BY DEF NewListeners, Svc
  <2> HIDE DEF new
  <2>5. \A g : OwnOnly(req[t], view[t], p(g))
    BY <1>1, <1>2, <2>4 DEF OwnOnly, Plan
  <2>6. \/ Return(t, "error") \/ GotoWith(t, "sync", plan[t])
        \/ \E g : GotoWith(t, "getnew", p(g))
    BY <1>5 DEF CreateListener, Call, Reject, Local, Svc, new
  <2>7. InOp(req[t], "sync") /\ InOp(req[t], "getnew")
    BY <2>1 DEF InOp, Building, Builds
  <2> HIDE DEF p
  <2> QED BY <1>1, <1>2, <1>3, <2>3, <2>5, <2>6, <2>7, StepEnds
<1>6. CASE GetNewListeners(t)
  <2> DEFINE xs == plan[t].new \cap listeners
             bs == { b \in backends : b.lsn \in xs }
             p(r) == [plan[t] EXCEPT !.new = xs, !.addNode = r, !.snap = plan[t].snap \cup bs]
  <2>1. UNCHANGED cloudVars /\ req[t].op = "ensure"
    BY <1>1, <1>6 DEF GetNewListeners, Read, Local, ThreadInv, InOp, Building
  <2>2. CloudKept(t)
    BY <1>1, <2>1, EffectsKept
  <2>3. \A r : OwnOnly(req[t], view[t], p(r))
    BY <1>1, <1>2 DEF OwnOnly, Plan
  <2>4. \/ Return(t, "error") \/ GotoWith(t, "hang", plan[t])
        \/ \E r : GotoWith(t, "fill", p(r))
    BY <1>6 DEF GetNewListeners, Read, Local
  <2>5. InOp(req[t], "hang") /\ InOp(req[t], "fill")
    BY <2>1 DEF InOp, Building, Builds
  <2> HIDE DEF p
  <2> QED BY <1>1, <1>2, <1>3, <2>2, <2>3, <2>4, <2>5, StepEnds
<1> QED BY <1>4, <1>5, <1>6

(* Backends come and go on listeners of the service only. *)
LEMMA BackendStepsKept ==
    ASSUME TypeOK, TypeOK', CloudInv, CallersPart, NEW t \in Thread, ThreadInv(t),
           \/ FillListener(t) \/ SyncListener(t) \/ DeleteBackends(t) \/ AddBackends(t)
    PROVE  ThreadInv(t)' /\ CloudKept(t)
<1> DEFINE Goes == \E step \in {"fill", "sync", "hang", "delbk", "addbk", "apply"} : \E p :
                      /\ GotoWith(t, step, p) /\ OwnOnly(req[t], view[t], p)
                      /\ step = "fill" => req[t].op = "ensure"
           Calls(x) == \/ UNCHANGED cloudVars
                       \/ \E bs : /\ CanAddBackends(x) /\ AddBackendsEffect(x, bs)
                                  /\ \A b \in bs : b.lsn = x
<1>1. /\ pc[t] \in {"fill", "sync", "delbk", "addbk"} /\ pc[t] # "idle"
      /\ {"ok", "error"} \subseteq Results /\ plan[t] \in Plan
  BY DEF FillListener, SyncListener, DeleteBackends, AddBackends, Results, TypeOK, ThreadTypeOK
<1>2. /\ req[t].op \in {"ensure", "update"} /\ OwnOnly(req[t], view[t], plan[t])
      /\ pc[t] = "fill" => req[t].op = "ensure"
  BY <1>1 DEF ThreadInv, InOp, Building
<1>3. ASSUME Goes PROVE ThreadInv(t)'
  <2>1. \A step \in {"fill", "sync", "hang", "delbk", "addbk", "apply"} :
           step \notin Knowing /\ (step # "fill" => InOp(req[t], step))
    BY <1>2 DEF Knowing, InOp, Building, Builds
  <2>2. req[t].op = "ensure" => InOp(req[t], "fill")
    BY DEF InOp, Building, Builds
  <2> QED BY <1>1, <1>3, <2>1, <2>2, StepEnds
<1>4. ASSUME \E r \in Results : Return(t, r) PROVE ThreadInv(t)'
  BY <1>1, <1>4, StepEnds
<1>5. ASSUME NEW x, x = NoListener \/ x.svc = Svc(t), Calls(x)
      PROVE  CloudKept(t)
  <2>1. CanAddBackends(x) => x # NoListener
    BY ProviderAssumption DEF CanAddBackends, TypeOK, CloudTypeOK
  <2> QED BY <1>1, <1>2, <1>5, <2>1, EffectsKept
<1>6. ASSUME NEW x, NEW ns, NEW step, NEW p, CreateBackends(t, x, ns, GotoWith(t, step, p))
      PROVE  Calls(x) /\ (Return(t, "error") \/ GotoWith(t, step, p))
  <2> DEFINE new(np, g) == { [lsn |-> x, node |-> n, np |-> np, gen |-> g] : n \in ns }
  <2>1. \/ UNCHANGED cloudVars
        \/ \E np, g : CanAddBackends(x) /\ AddBackendsEffect(x, new(np, g))
    BY <1>6 DEF CreateBackends, Call, Reject, Local
  <2>2. Return(t, "error") \/ GotoWith(t, step, p)
    BY <1>6 DEF CreateBackends, Call, Reject, Local
  <2>3. \A np, g : \A b \in new(np, g) : b.lsn = x
    OBVIOUS
  <2> HIDE DEF new
  <2> QED BY <2>1, <2>2, <2>3
<1>7. CASE FillListener(t)
  <2> DEFINE left(x) == [plan[t] EXCEPT !.new = plan[t].new \ {x}]
             done == [plan[t] EXCEPT !.addNode = {}]
  <2>1. OwnOnly(req[t], view[t], done) /\ \A x : OwnOnly(req[t], view[t], left(x))
    BY <1>1, <1>2 DEF OwnOnly, Plan
  <2> HIDE DEF left, done
  <2>2. CASE Local(GotoWith(t, "sync", done))
    <3>1. UNCHANGED cloudVars /\ GotoWith(t, "sync", done)
      BY <2>2 DEF Local
    <3>2. CloudKept(t)
      BY <1>1, <3>1, EffectsKept
    <3> QED BY <1>3, <2>1, <3>1, <3>2
  <2>3. ASSUME NEW x \in plan[t].new,
               CreateBackends(t, x, plan[t].addNode, GotoWith(t, "fill", left(x)))
        PROVE  ThreadInv(t)' /\ CloudKept(t)
    <3>1. x.svc = Svc(t) /\ req[t].op = "ensure"
      BY <1>2, <1>7 DEF OwnOnly, Svc, FillListener
    <3>2. Calls(x) /\ (Return(t, "error") \/ GotoWith(t, "fill", left(x)))
      BY <1>6, <2>3
    <3> QED BY <1>1, <1>3, <1>4, <1>5, <2>1, <3>1, <3>2
  <2> QED BY <1>7, <2>2, <2>3 DEF FillListener, left, done
<1>8. CASE SyncListener(t)
  <2> DEFINE diffs(x) == DiffBackend({ b \in plan[t].snap : b.lsn = x }, plan[t].sel, plan[t].count)
             p(x, d) == [plan[t] EXCEPT !.todo = plan[t].todo \ {x}, !.cur = x,
                                        !.delBk = d.del, !.addNode = d.add]
  <2>1. UNCHANGED cloudVars
    BY <1>8 DEF SyncListener, Reject, Local
  <2>2. CloudKept(t)
    BY <1>1, <2>1, EffectsKept
  <2>3. ASSUME NEW x \in plan[t].todo, NEW d \in diffs(x) PROVE OwnOnly(req[t], view[t], p(x, d))
    <3>1. \A b \in d.del : b.lsn = x
      BY DiffBackendType
    <3>2. x.svc = req[t].obj.svc
      BY <1>2 DEF OwnOnly
    <3> QED BY <1>1, <1>2, <3>1, <3>2 DEF OwnOnly, Plan
  <2>4. \/ \E r \in Results : Return(t, r)
        \/ GotoWith(t, "apply", plan[t]) \/ GotoWith(t, "hang", plan[t])
        \/ \E step \in {"delbk", "addbk", "sync"} : \E x \in plan[t].todo : \E d \in diffs(x) :
              GotoWith(t, step, p(x, d))
    BY <1>1, <1>8 DEF SyncListener, Reject, Local
  <2> HIDE DEF p, diffs
  <2> QED BY <1>2, <1>3, <1>4, <2>2, <2>3, <2>4
<1>9. CASE DeleteBackends(t)
  <2> DEFINE p == [plan[t] EXCEPT !.delBk = {}, !.modify = TRUE]
  <2>1. UNCHANGED cloudVars \/ DeleteBackendsEffect(plan[t].delBk)
    BY <1>9 DEF DeleteBackends, Call
  <2>2. \A b \in plan[t].delBk : b.lsn.svc = Svc(t)
    BY <1>2 DEF OwnOnly, Svc
  <2>3. CloudKept(t)
    BY <1>1, <1>2, <2>1, <2>2, EffectsKept
  <2>4. OwnOnly(req[t], view[t], p)
    BY <1>1, <1>2 DEF OwnOnly, Plan
  <2>5. Return(t, "error") \/ GotoWith(t, "addbk", p) \/ GotoWith(t, "sync", p)
    BY <1>9 DEF DeleteBackends, Call
  <2> HIDE DEF p
  <2> QED BY <1>1, <1>3, <1>4, <2>3, <2>4, <2>5
<1>10. CASE AddBackends(t)
  <2> DEFINE p == [plan[t] EXCEPT !.addNode = {}, !.modify = TRUE]
  <2>1. OwnOnly(req[t], view[t], p)
    BY <1>1, <1>2 DEF OwnOnly, Plan
  <2>2. CreateBackends(t, plan[t].cur, plan[t].addNode, GotoWith(t, "sync", p))
    BY <1>10 DEF AddBackends
  <2> HIDE DEF p
  <2>3. Calls(plan[t].cur) /\ (Return(t, "error") \/ GotoWith(t, "sync", p))
    BY <1>6, <2>2
  <2>4. plan[t].cur = NoListener \/ plan[t].cur.svc = Svc(t)
    BY <1>2 DEF OwnOnly, Svc
  <2> QED BY <1>1, <1>3, <1>4, <1>5, <2>1, <2>3, <2>4
<1> QED BY <1>7, <1>8, <1>9, <1>10

(* DeleteLB has the load balancer the lookup found, whose listeners are still
   the service's because no other thread builds; ReleaseEIP its EIPs. *)
LEMMA DeletionKept ==
    ASSUME TypeOK, TypeOK', CloudInv, CallersPart, NEW t \in Thread, ThreadInv(t),
           OwnershipInv, UpdateLB(t) \/ DeleteLB(t) \/ ReleaseEIP(t)
    PROVE  ThreadInv(t)' /\ CloudKept(t)
<1>1. /\ pc[t] \in {"apply", "dellb", "release"} /\ pc[t] # "idle"
      /\ {"ok", "error"} \subseteq Results
  BY DEF UpdateLB, DeleteLB, ReleaseEIP, Results
<1>2. OwnOnly(req[t], view[t], plan[t])
  BY <1>1 DEF ThreadInv
<1>3. CASE UpdateLB(t)
  <2>1. UNCHANGED cloudVars \/ \E l, attr : ModifyLBEffect(l, attr) \/ UpdateLBEffect(l)
    BY <1>3 DEF UpdateLB, Call
  <2>2. \E r \in Results : Return(t, r)
    BY <1>1, <1>3 DEF UpdateLB, Call
  <2> QED BY <1>1, <2>1, <2>2, EffectsKept, StepEnds
<1>4. CASE DeleteLB(t)
  <2> DEFINE l == view[t].lb
  <2>1. /\ req[t].op = "delete" /\ l \in LB /\ lbs[l].name = Svc(t)
        /\ \A x \in listeners : x.lb = l => x.svc = Svc(t)
    BY <1>1, <1>4 DEF DeleteLB, ThreadInv, InOp, KnowsLB, Owns, Svc
  <2>2. UNCHANGED cloudVars \/ DeleteLBEffect(l)
    BY <1>4 DEF DeleteLB
  <2>3. CloudKept(t)
    BY <1>1, <2>1, <2>2, EffectsKept
  <2>4. (\E r \in Results : Return(t, r)) \/ GotoWith(t, "release", plan[t])
    BY <1>1, <1>4 DEF DeleteLB, AfterDeleteLB
  <2>5. InOp(req[t], "release") /\ "release" \notin Knowing
    BY <2>1 DEF InOp, Building, Knowing
  <2> QED BY <1>1, <1>2, <2>3, <2>4, <2>5, StepEnds
<1>5. CASE ReleaseEIP(t)
  <2> DEFINE es == view[t].created
  <2>1. req[t].op = "delete" /\ es \cap UserEIP = {}
    BY <1>1, <1>5 DEF ReleaseEIP, ThreadInv, InOp, OwnershipInv, NotUsers
  <2>2. UNCHANGED cloudVars \/ (CanRelease(es) /\ ReleaseEffect(es))
    BY <1>5 DEF ReleaseEIP, Call
  <2>3. CloudKept(t)
    BY <1>1, <2>1, <2>2, EffectsKept
  <2>4. \E r \in Results : Return(t, r)
    BY <1>1, <1>5 DEF ReleaseEIP, Call
  <2> QED BY <1>1, <2>3, <2>4, StepEnds
<1> QED BY <1>3, <1>4, <1>5

-----------------------------------------------------------------------------
(* The invariant is inductive, and every step is one of the contract.      *)

ContractInv ==
    /\ CloudInv
    /\ \A t \in Thread : ThreadInv(t)

(* The initial states map to initial states. *)
LEMMA ContractInit == Init => Contract!Init /\ ContractInv
<1> SUFFICES ASSUME Init PROVE Contract!Init /\ ContractInv
  OBVIOUS
<1>1. /\ listeners = UserListener /\ backends = {}
      /\ lbs = [l \in LB |-> lbs[l]]
      /\ \A l \in LB : lbs[l].name = IF l \in UserLB THEN User ELSE Unborn
  BY CloudAssumption DEF Init, CloudInit
<1>2. owner = [l \in LB |-> IF l \in UserLB THEN User ELSE "unborn"]
  BY <1>1 DEF owner, Unborn
<1>3. { PortOf(x) : x \in listeners } \subseteq [lb: UserLB, svc: {User}, port: PortNo]
  BY <1>1, CloudAssumption DEF PortOf, Listener
<1>4. eips = [e \in EIP |-> IF e \in UserEIP THEN "free" ELSE "unborn"]
  BY DEF Init, CloudInit, Free, Unborn
<1>5. \A t \in Thread : pc[t] = "idle"
  BY DEF Init
<1>6. job = [t \in Thread |-> NoRequest]
  BY <1>5 DEF job, JobOf, Busy, Steps
<1>7. { TargetOf(b) : b \in backends } = {}
  BY <1>1
<1>8. CloudInv
  BY <1>1, CloudAssumption DEF CloudInv, OnListeners, OnePerPort, OneLBPerService, Exists
<1> QED BY <1>2, <1>3, <1>4, <1>5, <1>6, <1>7, <1>8 DEF Contract!Init, ContractInv, ThreadInv

(* A call begins a job: with one building thread, no other structural one. *)
LEMMA StartKept ==
    ASSUME TypeOK, ContractInv, CallersPart, NEW t \in Thread, Start(t)
    PROVE  ContractInv' /\ Contract!Begin(t) /\ listeners' = listeners
<1>1. PICK op \in Ops[t], o \in Object, ns \in NodeSet :
         req' = [req EXCEPT ![t] = [op |-> op, obj |-> o, nodes |-> ns]]
  BY DEF Start
<1>2. /\ pc' = [pc EXCEPT ![t] = "get"] /\ view' = [view EXCEPT ![t] = NoView]
      /\ plan' = [plan EXCEPT ![t] = NoPlan] /\ ~Busy(t)
      /\ lbs' = lbs /\ listeners' = listeners /\ backends' = backends /\ eips' = eips
  BY DEF Start, Goto, cloudVars
<1>3. /\ pc'[t] = "get" /\ view'[t] = NoView /\ plan'[t] = NoPlan
      /\ req'[t].op = op /\ req'[t].obj = o
      /\ \A u \in Thread \ {t} : /\ pc'[u] = pc[u] /\ view'[u] = view[u]
                                  /\ plan'[u] = plan[u] /\ req'[u] = req[u]
  BY <1>1, <1>2 DEF TypeOK, ThreadTypeOK
<1>4. CloudInv'
  BY <1>2 DEF ContractInv, CloudInv, OnListeners, OnePerPort, OneLBPerService, Exists, PortOf
<1>5. ThreadInv(t)'
  <2>1. OwnOnly(req[t], view[t], plan[t])'
    BY <1>3 DEF OwnOnly, NoView, NoPlan
  <2>2. KnowsLB(req[t], pc[t], view[t])' /\ InOp(req[t], pc[t])'
    BY <1>3 DEF KnowsLB, NoView, InOp, Building, Builds
  <2> QED BY <1>3, <2>1, <2>2 DEF ThreadInv
<1>6. ASSUME NEW u \in Thread \ {t} PROVE ThreadInv(u)'
  BY <1>2, <1>3 DEF ContractInv, ThreadInv, KnowsLB, Owns, NoneYet
<1>7. Contract!Begin(t)
  <2> DEFINE j == [op |-> op, svc |-> o.svc]
  <2>1. op \in Operation /\ o.svc \in Service
    BY ProviderAssumption DEF ServiceObject
  <2>2. j \in Contract!Job
    BY <2>1 DEF Contract!Job, Operation
  <2>3. job[t] = NoRequest
    BY <1>2 DEF job, JobOf
  <2>4. ASSUME Contract!Structural(j), NEW u \in Thread, Contract!Structural(job[u])
        PROVE  FALSE
    <3>1. Busy(u) /\ req[u].op \in Builds
      BY <2>4 DEF Contract!Structural, job, JobOf, Builds
    <3>2. req[u].op \in Ops[u] /\ op \in Builds
      BY <2>4, <3>1 DEF ContractInv, ThreadInv, Busy, Steps, Contract!Structural, Builds
    <3>3. u = t
      BY <1>1, <3>1, <3>2 DEF CallersPart
    <3> QED BY <1>2, <3>1, <3>3
  <2>5. job' = [job EXCEPT ![t] = j]
    <3>1. \A u \in Thread \ {t} : JobOf(u)' = JobOf(u)
      BY <1>3 DEF JobOf, Busy
    <3>2. JobOf(t)' = j
      BY <1>3 DEF JobOf, Busy, Steps
    <3> QED BY <3>1, <3>2 DEF job
  <2>6. UNCHANGED <<owner, { PortOf(x) : x \in listeners }, { TargetOf(b) : b \in backends }, eips>>
    BY <1>2 DEF owner, PortOf, TargetOf
  <2> QED BY <2>2, <2>3, <2>4, <2>5, <2>6 DEF Contract!Begin
<1> QED BY <1>2, <1>4, <1>5, <1>6, <1>7 DEF ContractInv

(* A step is work on the running job, which ends when the call returns. *)
LEMMA StepKept ==
    ASSUME TypeOK, TypeOK', OwnershipInv, ContractInv, CallersPart, NEW t \in Thread, Step(t)
    PROVE  ContractInv' /\ Contract!Work(t) /\ OnlyMoves(t) /\ CloudKept(t)
<1>1. pc[t] \in Steps /\ OnlyMoves(t) /\ pc[t] # "idle"
  BY StepMoves DEF Steps
<1>2. ThreadInv(t)' /\ CloudKept(t)
  BY GetLoadBalancerKept, EipStepsKept, RefreshStatusKept, CreateLBKept, GetListenersKept,
     ListenerStepsKept, BackendStepsKept, DeletionKept DEF Step, ContractInv
<1>3. \A u \in Thread \ {t} : ThreadInv(u)'
  BY <1>1, <1>2, OthersKeep DEF ContractInv
<1>4. job[t] = [op |-> req[t].op, svc |-> Svc(t)]
  BY <1>1 DEF job, JobOf, Busy, Svc
<1>5. job[t] # NoRequest
  <2>1. req[t].op \in Operation /\ Svc(t) \in Service
    BY <1>1, RequestType DEF Request, ServiceObject, Svc
  <2> QED BY <1>4, <2>1, ContractAssumption
<1>6. job' = job \/ job' = [job EXCEPT ![t] = NoRequest]
  <2>1. \A u \in Thread \ {t} : JobOf(u)' = JobOf(u)
    BY <1>1 DEF OnlyMoves, JobOf, Busy
  <2>2. JobOf(t)' = JobOf(t) \/ JobOf(t)' = NoRequest
    BY <1>1 DEF OnlyMoves, JobOf, Busy
  <2> QED BY <2>1, <2>2 DEF job
<1>7. Contract!Work(t)
  BY <1>2, <1>4, <1>5, <1>6 DEF CloudKept, Contract!Work
<1> QED BY <1>1, <1>2, <1>3, <1>7 DEF ContractInv, CloudKept

(* New endpoints are nothing to the contract. *)
LEMMA RestKept ==
    ASSUME TypeOK, ContractInv, (\E s \in Service : EndpointsChange(s)) \/ UNCHANGED vars
    PROVE  ContractInv' /\ UNCHANGED Contract!contractVars /\ UNCHANGED <<listeners, pc>>
<1>1. UNCHANGED <<lbs, listeners, backends, eips, pc, req, view, plan>>
  BY DEF EndpointsChange, vars, cloudVars, threadVars
<1>2. CloudInv'
  BY <1>1 DEF ContractInv, CloudInv, OnListeners, OnePerPort, OneLBPerService, Exists, PortOf
<1>3. ASSUME NEW t \in Thread PROVE ThreadInv(t)'
  BY <1>1 DEF ContractInv, ThreadInv, KnowsLB, Owns, NoneYet
<1>4. UNCHANGED Contract!contractVars
  BY <1>1 DEF Contract!contractVars, owner, job, JobOf, Busy, PortOf, TargetOf
<1> QED BY <1>1, <1>2, <1>3, <1>4 DEF ContractInv

(* A step of the provider is a step of the contract or none, and takes away
   listeners of the stepping thread's service only. *)
LEMMA ContractNext ==
    ASSUME TypeOK, TypeOK', OwnershipInv, ContractInv, CallersPart, [Next]_vars
    PROVE  /\ ContractInv'
           /\ [Contract!Next]_(Contract!contractVars)
           /\ \A t \in Thread : Acting(t) =>
                 \A x \in listeners \ listeners' : x.svc = Svc(t)
<1>1. ASSUME NEW t \in Thread, Start(t)
      PROVE  ContractInv' /\ Contract!Next /\ listeners' = listeners
  BY <1>1, StartKept DEF Contract!Next
<1>2. ASSUME NEW t \in Thread, Step(t)
      PROVE  /\ ContractInv' /\ Contract!Next
             /\ \A u \in Thread : Acting(u) =>
                   \A x \in listeners \ listeners' : x.svc = Svc(u)
  BY <1>2, StepKept DEF Contract!Next, OnlyMoves, Acting, CloudKept
<1>3. CASE (\E s \in Service : EndpointsChange(s)) \/ UNCHANGED vars
  BY <1>3, RestKept
<1> QED BY <1>1, <1>2, <1>3 DEF Next

(* Whatever fails and however updates interleave, the provider implements
   the contract ServiceLB: a call changes nothing but what its operation on
   its service is entitled to change. *)
THEOREM ContractKept == CallersPart => (Spec => KeepsContract)
<1> SUFFICES ASSUME CallersPart PROVE Spec => KeepsContract
  OBVIOUS
<1>1. Init => TypeOK /\ OwnershipInv /\ ContractInv /\ Contract!Init
  BY InitType, OwnershipInit, ContractInit
<1>2. TypeOK /\ TypeOK' /\ OwnershipInv /\ [Next]_vars => OwnershipInv'
  BY OwnershipNext
<1>3. TypeOK /\ TypeOK' /\ OwnershipInv /\ ContractInv /\ [Next]_vars =>
         ContractInv' /\ [Contract!Next]_(Contract!contractVars)
  BY ContractNext
<1> QED BY <1>1, <1>2, <1>3, TypeCorrect, PTL DEF Spec, KeepsContract, Contract!Spec

(* No call, and in particular no deletion of a whole load balancer, takes away
   a listener of another service. *)
THEOREM ForeignListenersSafe == CallersPart => (Spec => ForeignListenersKept)
<1> SUFFICES ASSUME CallersPart PROVE Spec => ForeignListenersKept
  OBVIOUS
<1> DEFINE Kept == \A t \in Thread : Acting(t) =>
                      \A x \in listeners \ listeners' : x.svc = req[t].obj.svc
<1>1. Init => TypeOK /\ OwnershipInv /\ ContractInv
  BY InitType, OwnershipInit, ContractInit
<1>2. TypeOK /\ TypeOK' /\ OwnershipInv /\ [Next]_vars => OwnershipInv'
  BY OwnershipNext
<1>3. TypeOK /\ TypeOK' /\ OwnershipInv /\ ContractInv /\ [Next]_vars =>
         ContractInv' /\ [Kept]_vars
  BY ContractNext DEF Svc
<1> QED BY <1>1, <1>2, <1>3, TypeCorrect, PTL DEF Spec, ForeignListenersKept

-----------------------------------------------------------------------------
(* One load balancer per service, with several workers.                    *)

(* All that it takes: goroutines that ensure are workers of the service
   controller, which never have one service at the same time, and a load
   balancer id comes with the strategy that uses it.  Deletes may run in any
   goroutine beside them, those of the cloud-service controller's cleanups
   included. *)
EnsuresApart ==
    /\ \A t, u \in Thread : "ensure" \in Ops[t] \cap Ops[u] /\ t # u => {t, u} \subseteq Worker
    /\ \A o \in Object : o.strategy = "exclusive" => o.lbid = NoLB

(* The workqueue: no two workers have the same service. *)
WorkersApart ==
    \A t, u \in Worker : t # u /\ Busy(t) /\ Busy(u) => Svc(t) # Svc(u)

(* The steps of an ensure between the lookup and CreateLB. *)
Preparing == {"modify", "eip", "available", "allocate", "create"}

(* The part of KnowsLB that nobody but the service's own worker can make
   untrue: the lookup found no load balancer, and there is none yet. *)
Prepares(r, step, v) ==
    /\ step \in Preparing => r.op = "ensure"
    /\ step = "get" => v.lb = NoLB
    /\ step \in {"modify", "eip"} => v.lb # NoLB
    /\ step = "create" \/ (step \in {"available", "allocate"} /\ v.lb = NoLB) => NoneYet(r)

PreparesInv(t) ==
    pc[t] # "idle" => req[t].op \in Ops[t] /\ Prepares(req[t], pc[t], view[t])

OneLBInv ==
    /\ OneLBPerService
    /\ WorkersApart
    /\ \A t \in Thread : PreparesInv(t)

(* A load balancer gets a name at "create" and loses it when it is deleted. *)
Names(t) ==
    \/ NamesKept
    \/ /\ pc[t] = "create"
       /\ \E l \in LB : \A k \in LB :
             lbs'[k].name = IF k = l THEN LookupName("ensure", req[t].obj) ELSE lbs[k].name
    \/ \E l \in LB : /\ \A k \in LB : lbs'[k].name = IF k = l THEN Gone ELSE lbs[k].name
                    /\ listeners' = { x \in listeners : x.lb # l }

(* The calls that keep the names of load balancers. *)
LEMMA NamesKeptBy ==
    ASSUME TypeOK,
           \/ UNCHANGED cloudVars \/ lbs' = lbs \/ \E ls : lbs' = Unapplied(ls)
           \/ \E l, attr : ModifyLBEffect(l, attr) \/ UpdateLBEffect(l)
    PROVE  NamesKept
<1>1. CASE \E ls : lbs' = Unapplied(ls)
  BY <1>1 DEF NamesKept, Unapplied, TypeOK, CloudTypeOK, LBRecord
<1>2. CASE \E l, attr : ModifyLBEffect(l, attr) \/ UpdateLBEffect(l)
  BY <1>2 DEF NamesKept, ModifyLBEffect, UpdateLBEffect, TypeOK, CloudTypeOK, LBRecord
<1> QED BY <1>1, <1>2 DEF NamesKept, cloudVars

(* Only CreateLB and DeleteLB touch the names. *)
LEMMA StepNames ==
    ASSUME TypeOK, NEW t \in Thread, Step(t)
    PROVE  Names(t)
<1>1. ASSUME \/ UNCHANGED cloudVars \/ lbs' = lbs \/ \E ls : lbs' = Unapplied(ls)
             \/ \E l, attr : ModifyLBEffect(l, attr) \/ UpdateLBEffect(l)
      PROVE  NamesKept
  BY <1>1, NamesKeptBy
<1>2. CASE GetLoadBalancer(t) \/ UpdateLBEip(t) \/ GetAvailableEIP(t) \/ RefreshStatus(t)
           \/ GetListeners(t) \/ GetNewListeners(t) \/ SyncListener(t)
  BY <1>1, <1>2 DEF Names, GetLoadBalancer, UpdateLBEip, GetAvailableEIP, RefreshStatus,
                    GetListeners, GetNewListeners, SyncListener, Reject, Local, Read, cloudVars
<1>3. CASE ModifyLB(t) \/ UpdateLB(t)
  BY <1>1, <1>3 DEF Names, ModifyLB, UpdateLB, Local, Call
<1>4. CASE AllocateEIP(t) \/ AssociateEIPs(t) \/ DissociateEIPs(t) \/ ReleaseEIP(t)
  <2>1. lbs' = lbs
    BY <1>4 DEF AllocateEIP, AssociateEIPs, DissociateEIPs, ReleaseEIP, Call, Reject, Local,
                AllocateEffect, AssociateEffect, DissociateEffect, ReleaseEffect, cloudVars
  <2> QED BY <1>1, <2>1 DEF Names
<1>5. CASE DeleteListener(t) \/ CreateListener(t) \/ FillListener(t) \/ DeleteBackends(t)
           \/ AddBackends(t)
  <2>1. lbs' = lbs \/ \E ls : lbs' = Unapplied(ls)
    <3>1. CASE DeleteListener(t)
      BY <3>1 DEF DeleteListener, Call, DeleteListenersEffect, cloudVars
    <3>2. CASE CreateListener(t)
      BY <3>2 DEF CreateListener, Call, AddListenersEffect, Reject, Local, cloudVars
    <3>3. CASE FillListener(t) \/ AddBackends(t)
      BY <3>3 DEF FillListener, AddBackends, CreateBackends, Call, AddBackendsEffect, Reject,
                  Local, cloudVars
    <3>4. CASE DeleteBackends(t)
      BY <3>4 DEF DeleteBackends, Call, DeleteBackendsEffect, cloudVars
    <3> QED BY <1>5, <3>1, <3>2, <3>3, <3>4
  <2> QED BY <1>1, <2>1 DEF Names
<1>6. CASE CreateLB(t)
  <2> DEFINE n == LookupName("ensure", req[t].obj)
  <2>1. \/ UNCHANGED cloudVars
        \/ \E l \in LB : \E es, a, x : CreateLBEffect(l, n, a, x, es)
    BY <1>6 DEF CreateLB, Call, Reject, Local
  <2>2. ASSUME NEW l \in LB, NEW es, NEW a, NEW x, CreateLBEffect(l, n, a, x, es)
        PROVE  \A k \in LB : lbs'[k].name = IF k = l THEN n ELSE lbs[k].name
    BY <2>2 DEF CreateLBEffect, TypeOK, CloudTypeOK
  <2> HIDE DEF n
  <2>3. pc[t] = "create"
    BY <1>6 DEF CreateLB
  <2> QED BY <1>1, <2>1, <2>2, <2>3 DEF Names, n
<1>7. CASE DeleteLB(t)
  <2>1. UNCHANGED cloudVars \/ (Exists(view[t].lb) /\ DeleteLBEffect(view[t].lb))
    BY <1>7 DEF DeleteLB
  <2>2. ASSUME NEW l \in LB, DeleteLBEffect(l)
        PROVE  /\ \A k \in LB : lbs'[k].name = IF k = l THEN Gone ELSE lbs[k].name
               /\ listeners' = { x \in listeners : x.lb # l }
    BY <2>2 DEF DeleteLBEffect, TypeOK, CloudTypeOK, LBRecord
  <2> QED BY <1>1, <2>1, <2>2 DEF Names, Exists
<1> QED BY <1>2, <1>3, <1>4, <1>5, <1>6, <1>7 DEF Step

(* A step's own thread keeps what it prepares. *)
LEMMA StepPrepares ==
    ASSUME TypeOK, EnsuresApart, NEW t \in Thread, PreparesInv(t), Step(t)
    PROVE  PreparesInv(t)'
<1> DEFINE o == req[t].obj
           Past == pc'[t] \notin Preparing \cup {"get"}
<1>1. pc[t] \in Steps /\ pc[t] # "idle" /\ req' = req
  BY StepMoves DEF OnlyMoves, Steps
<1>2. req[t].op \in Ops[t] /\ Prepares(req[t], pc[t], view[t])
  BY <1>1 DEF PreparesInv
<1>3. ASSUME Past PROVE PreparesInv(t)'
  BY <1>1, <1>2, <1>3 DEF PreparesInv, Prepares, Preparing
<1>4. /\ \A r \in Results : Return(t, r) => Past
      /\ \A step, p : /\ GotoWith(t, step, p) => pc'[t] = step /\ view'[t] = view[t]
                      /\ GotoWith(t, step, p) /\ step \notin Preparing \cup {"get"} => Past
      /\ \A step \in PC : Goto(t, step) => pc'[t] = step
      /\ {"ok", "error", "absent"} = Results
  BY DEF Return, GotoWith, Goto, Results, Preparing, TypeOK, ThreadTypeOK
<1>5. CASE GetLoadBalancer(t)
  <2>1. pc[t] = "get" /\ view[t].lb = NoLB /\ lbs' = lbs
    BY <1>2, <1>5 DEF GetLoadBalancer, Reject, Local, cloudVars, Prepares
  <2>2. ASSUME NEW l \in Lookup(req[t].op, o), Found(t, l) PROVE PreparesInv(t)'
    <3>0. l \in LB /\ l # NoLB
      BY LookupType, CloudAssumption
    <3>1. CASE FoundForDelete(t, ViewOf(l, o.svc))
      <4>1. Past
        BY <1>4, <3>1 DEF FoundForDelete, Goto, Preparing, TypeOK, ThreadTypeOK
      <4> QED BY <1>3, <4>1
    <3>2. CASE /\ view' = [view EXCEPT ![t] = ViewOf(l, o.svc)]
               /\ Goto(t, IF req[t].op = "ensure" THEN "modify" ELSE "listeners")
      <4>1. view'[t].lb = l
        BY <3>2 DEF ViewOf, TypeOK, ThreadTypeOK
      <4>2. pc'[t] = IF req[t].op = "ensure" THEN "modify" ELSE "listeners"
        BY <3>2 DEF Goto, TypeOK, ThreadTypeOK
      <4> QED BY <1>1, <1>2, <3>0, <4>1, <4>2 DEF PreparesInv, Prepares, Preparing
    <3> QED BY <1>3, <1>4, <2>2, <3>1, <3>2 DEF Found
  <2>3. ASSUME NotFound(t), ConfigOK(req[t].op, o), Lookup(req[t].op, o) = {} PROVE PreparesInv(t)'
    <3>1. CASE \E p : GotoWith(t, CreateStep(o), p) /\ req[t].op = "ensure"
                      /\ o.strategy # "reuse-lb"
      <4>1. NoneYet(req[t])
        <5>1. CASE LookupName("ensure", o) = o.svc
          <6>1. o \in ServiceObject /\ o \in Object
            BY <1>1, RequestType, ProviderAssumption DEF TypeOK, ThreadTypeOK, Request
          <6>2. o.strategy = "exclusive" /\ o.lbid = NoLB
            BY <5>1, <6>1, CloudAssumption DEF LookupName, ForDelete, EnsuresApart, ServiceObject
          <6>3. ByName(o.svc) = {}
            BY <2>3, <3>1, <5>1, <6>2 DEF Lookup, LookupID
          <6>4. o.svc \notin {Unborn, Gone}
            BY <6>1, CloudAssumption DEF ServiceObject
          <6> QED BY <6>3, <6>4 DEF NoneYet, ByName, Exists
        <5> QED BY <5>1 DEF NoneYet
      <4>2. NoneYet(req[t])'
        BY <1>1, <2>1, <4>1 DEF NoneYet
      <4>3. pc'[t] = CreateStep(o) /\ view'[t] = view[t]
        BY <1>4, <3>1
      <4>4. CreateStep(o) \in {"create", "available", "allocate"}
        BY DEF CreateStep, PrepareStep
      <4> QED BY <1>1, <1>2, <3>1, <4>2, <4>3, <4>4 DEF PreparesInv, Prepares
    <3> QED BY <1>3, <1>4, <2>3, <3>1 DEF NotFound
  <2> QED BY <1>3, <1>4, <1>5, <2>2, <2>3 DEF GetLoadBalancer, Reject, Local
<1>6. CASE ModifyLB(t)
  <2>1. Return(t, "error") \/ \E p : GotoWith(t, "eip", p)
    BY <1>6 DEF ModifyLB, Call, Local
  <2>2. ASSUME NEW p, GotoWith(t, "eip", p) PROVE PreparesInv(t)'
    <3>1. pc'[t] = "eip" /\ view'[t] = view[t] /\ pc[t] = "modify"
      BY <1>4, <1>6, <2>2 DEF ModifyLB
    <3> QED BY <1>1, <1>2, <3>1 DEF PreparesInv, Prepares, Preparing
  <2> QED BY <1>3, <1>4, <2>1, <2>2
<1>7. CASE UpdateLBEip(t)
  <2>1. \E p : \E step \in {"listeners", "associate", "dissociate", "available", "allocate"} :
           GotoWith(t, step, p)
    BY <1>7 DEF UpdateLBEip, Local, PrepareStep
  <2>2. PICK step \in {"listeners", "associate", "dissociate", "available", "allocate"} :
           \E p : GotoWith(t, step, p)
    BY <2>1
  <2>3. pc'[t] = step /\ view'[t] = view[t] /\ pc[t] = "eip"
    BY <1>4, <1>7, <2>2 DEF UpdateLBEip
  <2> QED BY <1>1, <1>2, <2>2, <2>3 DEF PreparesInv, Prepares, Preparing
<1>8. CASE GetAvailableEIP(t) \/ AllocateEIP(t)
  <2>1. pc[t] \in {"available", "allocate"} /\ lbs' = lbs
    BY <1>8 DEF GetAvailableEIP, AllocateEIP, Read, Call, Local, Reject, AllocateEffect, cloudVars
  <2>2. \/ Return(t, "error")
        \/ \E p : GotoWith(t, IF view[t].lb = NoLB THEN "create" ELSE "associate", p)
        \/ GotoWith(t, "allocate", plan[t])
    BY <1>8 DEF GetAvailableEIP, AllocateEIP, UseEip, Read, Call, Local, Reject
  <2>3. ASSUME NEW step, NEW p, GotoWith(t, step, p),
               step = "allocate" \/ step = IF view[t].lb = NoLB THEN "create" ELSE "associate"
        PROVE  PreparesInv(t)'
    <3>1. pc'[t] = step /\ view'[t] = view[t]
      BY <1>4, <2>3
    <3>2. NoneYet(req[t]) => NoneYet(req[t])'
      BY <1>1, <2>1 DEF NoneYet
    <3> QED BY <1>1, <1>2, <2>1, <2>3, <3>1, <3>2 DEF PreparesInv, Prepares, Preparing
  <2> QED BY <1>3, <1>4, <2>2, <2>3
<1>9. CASE AssociateEIPs(t) \/ DissociateEIPs(t) \/ GetListeners(t) \/ DeleteListener(t)
           \/ CreateListener(t) \/ GetNewListeners(t) \/ UpdateLB(t) \/ DeleteLB(t) \/ ReleaseEIP(t)
  <2>1. \/ \E r \in Results : Return(t, r)
        \/ \E step \in {"dissociate", "refresh", "sync", "addlsn", "dellsn", "apply", "getnew",
                        "hang", "fill", "release"} : \E p : GotoWith(t, step, p)
    BY <1>4, <1>9 DEF AssociateEIPs, DissociateEIPs, GetListeners, DeleteListener, CreateListener,
                GetNewListeners, UpdateLB, DeleteLB, AfterDeleteLB, ReleaseEIP, Call, Local, Read,
                Reject
  <2>2. Past
    BY <1>4, <2>1 DEF Preparing
  <2> QED BY <1>3, <2>2
<1>10. CASE FillListener(t) \/ SyncListener(t) \/ DeleteBackends(t) \/ AddBackends(t)
  <2>1. \/ \E r \in Results : Return(t, r)
        \/ \E step \in {"fill", "sync", "delbk", "addbk", "apply", "hang"} :
              \E p : GotoWith(t, step, p)
    BY <1>4, <1>10 DEF FillListener, SyncListener, DeleteBackends, AddBackends, CreateBackends,
                 Call, Local, Reject
  <2>2. Past
    BY <1>4, <2>1 DEF Preparing
  <2> QED BY <1>3, <2>2
<1>11. CASE RefreshStatus(t) \/ CreateLB(t)
  <2>1. Return(t, "error") \/ Goto(t, "listeners") \/ Goto(t, "addlsn")
    BY <1>11 DEF RefreshStatus, CreateLB, Call, Local, Read, Reject
  <2>2. Past
    BY <1>4, <2>1 DEF Goto, Preparing, TypeOK, ThreadTypeOK
  <2> QED BY <1>3, <2>2
<1> QED BY <1>5, <1>6, <1>7, <1>8, <1>9, <1>10, <1>11 DEF Step

(* Another worker creates for another service. *)
LEMMA StepKeepsOneLB ==
    ASSUME TypeOK, EnsuresApart, OneLBInv, NEW t \in Thread, Step(t)
    PROVE  OneLBInv'
<1> DEFINE n == LookupName("ensure", req[t].obj)
<1>1. /\ pc[t] \in Steps /\ pc[t] # "idle" /\ req' = req
      /\ \A u \in Thread \ {t} : pc'[u] = pc[u] /\ view'[u] = view[u]
  BY StepMoves DEF OnlyMoves, Steps
<1>2. Svc(t) \in Service
  BY <1>1, RequestType DEF Request, ServiceObject, Svc
<1>3. WorkersApart'
  <2>1. \A u \in Worker : Busy(u)' => Busy(u)
    BY <1>1, ProviderAssumption DEF Busy
  <2> QED BY <1>1, <2>1 DEF OneLBInv, WorkersApart, Svc
<1>4. n \in {Svc(t), Anon}
  BY DEF LookupName, ForDelete, Svc
<1>5. Names(t)
  BY StepNames
<1>6. OneLBPerService'
  <2>1. CASE pc[t] = "create"
    <3>1. n = Svc(t) => \A k \in LB : lbs[k].name # Svc(t)
      BY <1>1, <2>1 DEF OneLBInv, PreparesInv, Prepares, NoneYet, Svc
    <3> QED BY <1>2, <1>4, <1>5, <3>1, CloudAssumption DEF OneLBInv, OneLBPerService, Exists,
                                                          Names, NamesKept
  <2>2. CASE pc[t] # "create"
    BY <1>5, <2>2, CloudAssumption DEF OneLBInv, OneLBPerService, Exists, Names, NamesKept
  <2> QED BY <2>1, <2>2
<1>7. ASSUME NEW u \in Thread \ {t} PROVE PreparesInv(u)'
  <2>1. PreparesInv(u) /\ pc'[u] = pc[u] /\ view'[u] = view[u] /\ req' = req
    BY <1>1 DEF OneLBInv
  <2>2. ASSUME NoneYet(req[u]), pc[u] \in Preparing, pc[u] # "idle" PROVE NoneYet(req[u])'
    <3>1. CASE LookupName("ensure", req[u].obj) = Svc(u)
      <4>1. \A k \in LB : lbs[k].name # Svc(u)
        BY <2>2, <3>1 DEF NoneYet, Svc
      <4>2. Svc(u) \in Service /\ Svc(u) # Gone /\ Svc(u) # Anon
        BY <2>2, RequestType, CloudAssumption DEF Request, ServiceObject, Svc
      <4>3. CASE pc[t] = "create"
        <5>1. "ensure" \in Ops[t] \cap Ops[u]
          BY <1>1, <2>1, <2>2, <4>3 DEF OneLBInv, PreparesInv, Prepares, Preparing
        <5>2. Busy(t) /\ Busy(u) /\ {t, u} \subseteq Worker
          BY <1>1, <2>2, <5>1 DEF EnsuresApart, Busy, Steps, Preparing
        <5>3. Svc(t) # Svc(u)
          BY <5>2 DEF OneLBInv, WorkersApart
        <5> QED BY <1>4, <1>5, <2>1, <4>1, <4>2, <5>3 DEF Names, NamesKept, NoneYet, Svc
      <4>4. CASE pc[t] # "create"
        BY <1>5, <2>1, <4>1, <4>2, <4>4 DEF Names, NamesKept, NoneYet, Svc
      <4> QED BY <4>3, <4>4
    <3> QED BY <2>1, <3>1 DEF NoneYet, Svc
  <2> QED BY <2>1, <2>2 DEF PreparesInv, Prepares, Preparing
<1>8. PreparesInv(t)'
  BY StepPrepares DEF OneLBInv
<1> QED BY <1>3, <1>6, <1>7, <1>8 DEF OneLBInv

(* A worker is given a service no other worker has. *)
LEMMA StartKeepsOneLB ==
    ASSUME TypeOK, OneLBInv, NEW t \in Thread, Start(t)
    PROVE  OneLBInv'
<1>1. PICK op \in Ops[t], o \in Object, ns \in NodeSet :
         KeyFree(t, o) /\ req' = [req EXCEPT ![t] = [op |-> op, obj |-> o, nodes |-> ns]]
  BY DEF Start
<1>2. /\ pc'[t] = "get" /\ view'[t] = NoView /\ lbs' = lbs
      /\ req'[t].op = op /\ req'[t].obj = o
      /\ \A u \in Thread \ {t} : pc'[u] = pc[u] /\ view'[u] = view[u] /\ req'[u] = req[u]
  BY <1>1 DEF Start, Goto, cloudVars, TypeOK, ThreadTypeOK
<1>3. WorkersApart'
  BY <1>1, <1>2, ProviderAssumption DEF OneLBInv, WorkersApart, KeyFree, Svc, Busy
<1>4. OneLBPerService'
  BY <1>2 DEF OneLBInv, OneLBPerService, Exists
<1>5. PreparesInv(t)'
  BY <1>1, <1>2 DEF PreparesInv, Prepares, Preparing, NoView
<1>6. ASSUME NEW u \in Thread \ {t} PROVE PreparesInv(u)'
  BY <1>2 DEF OneLBInv, PreparesInv, Prepares, NoneYet
<1> QED BY <1>3, <1>4, <1>5, <1>6 DEF OneLBInv

(* No sequence of failing and repeated ensures and deletes, in any number of
   workers, makes a second load balancer of a service's name: the lookup by
   name in ensureLoadBalancer is as good as a lock because the workqueue
   keeps two workers off one service. *)
THEOREM OneLBKept == EnsuresApart => (Spec => []OneLBPerService)
<1> SUFFICES ASSUME EnsuresApart PROVE Spec => []OneLBPerService
  OBVIOUS
<1>1. Init => OneLBInv
  <2> SUFFICES ASSUME Init PROVE OneLBInv
    OBVIOUS
  <2>1. \A t \in Thread : pc[t] = "idle"
    BY DEF Init
  <2>2. \A l \in LB : lbs[l].name \in {User, Unborn}
    BY DEF Init, CloudInit
  <2>3. OneLBPerService
    BY <2>2, CloudAssumption DEF OneLBPerService, Exists
  <2>4. WorkersApart
    BY <2>1, ProviderAssumption DEF WorkersApart, Busy, Steps
  <2> QED BY <2>1, <2>3, <2>4 DEF OneLBInv, PreparesInv
<1>2. TypeOK /\ OneLBInv /\ [Next]_vars => OneLBInv'
  <2> SUFFICES ASSUME TypeOK, OneLBInv, [Next]_vars PROVE OneLBInv'
    OBVIOUS
  <2>1. CASE (\E s \in Service : EndpointsChange(s)) \/ UNCHANGED vars
    <3>1. UNCHANGED <<lbs, pc, req, view>>
      BY <2>1 DEF EndpointsChange, vars, cloudVars, threadVars
    <3> QED BY <3>1 DEF OneLBInv, OneLBPerService, Exists, WorkersApart, Busy, Svc,
                        PreparesInv, Prepares, NoneYet
  <2> QED BY <2>1, StepKeepsOneLB, StartKeepsOneLB DEF Next
<1>3. OneLBInv => OneLBPerService
  BY DEF OneLBInv
<1> QED BY <1>1, <1>2, <1>3, TypeCorrect, PTL DEF Spec

-----------------------------------------------------------------------------
(* EIPs that are allocated for a service.                                  *)

(* prepareEip may find or allocate an EIP for the service. *)
Taking(o) == o.eipIDs = {} /\ o.source # "none"

(* diffLBEip may take the EIPs off the load balancer. *)
Leaving(o) ==
    /\ o.lbid = NoLB
    /\ \/ o.eipIDs # {} /\ o.replace
       \/ o.eipIDs = {} /\ o.source = "none" /\ o.internal

(* Goroutines that ensure or delete are workers of one queue, the annotations
   name EIPs of the user, and no version of a service that takes an EIP by
   itself is followed or preceded by one that gives its EIPs up: in that case
   the code forgets that the EIP was allocated. *)
EIPsStay ==
    /\ \A t \in Thread : Ops[t] \cap Builds # {} => t \in Worker
    /\ \A o \in Object : o.strategy = "exclusive" => o.lbid = NoLB
    /\ \A o \in Object : o.eipIDs \subseteq UserEIP
    /\ \A o, q \in Object : o.svc = q.svc /\ Taking(o) => ~Leaving(q)

(* The EIPs that are allocated by AllocateEIP. *)
NewEIP == EIP \ UserEIP

(* No EIP that was allocated is on the load balancer in hand. *)
Bare(v) == \A e \in NewEIP : eips[e] # v.lb

(* What a thread knows of the EIPs. *)
Possesses(r, step, v, p) ==
    /\ step \in {"modify", "eip", "available", "allocate", "create", "associate",
                 "dissociate"} => r.op = "ensure"
    /\ step \in {"dellb", "release"} => r.op = "delete"
    /\ step \in {"get", "modify", "eip", "available", "allocate"} => p.delEip = {}
    /\ step \in {"modify", "eip"} /\ r.obj.lbid = NoLB => Owns(r, v) /\ v.eips = EIPsOf(v.lb)
    /\ step \in {"available", "allocate"} =>
          Taking(r.obj) /\ (v.lb # NoLB => Owns(r, v) /\ Bare(v))
    /\ step \in {"create", "associate"} =>
          p.addEip \subseteq UserEIP \/ (Taking(r.obj) /\ \E e \in EIP : p.addEip = {e})
    /\ step = "associate" => p.addEip \subseteq UserEIP \/ Bare(v)
    /\ step \in {"associate", "dissociate"} => Owns(r, v) /\ p.delEip \subseteq UserEIP
    /\ step = "dellb" => Owns(r, v) /\ v.created = EIPsOf(v.lb) \ UserEIP

(* The steps of which Possesses says something. *)
Possessing == {"get", "modify", "eip", "available", "allocate", "create", "associate",
               "dissociate", "dellb", "release"}

PossessInv(t) == pc[t] # "idle" => Possesses(req[t], pc[t], view[t], plan[t])

(* The load balancer of that name may have an EIP that was allocated: if it is
   a service's, the service takes EIPs. *)
TakersName(n) ==
    /\ n \in Service \cup {Anon}
    /\ n \in Service => \E o \in Object : o.svc = n /\ Taking(o)

(* An EIP that was allocated and is on a load balancer is alone there. *)
Placed ==
    /\ \A e \in NewEIP : eips[e] \in LB => TakersName(lbs[eips[e]].name)
    /\ \A e, f \in NewEIP : eips[e] \in LB /\ eips[f] = eips[e] => f = e

(* Thread t is about to put the EIP on a load balancer or to release it. *)
Holds(t, e) ==
    \/ pc[t] \in {"create", "associate"} /\ plan[t].addEip = {e}
    \/ pc[t] = "release" /\ view[t].created = {e}

(* No call has failed, and the cloud has room for a load balancer. *)
Quiet == faults = 0 /\ \E l \in LB : lbs[l].name = Unborn

Held == Quiet => \A e \in NewEIP : eips[e] = Free => \E t \in Thread : Holds(t, e)

(* The inductive invariant. *)
EIPInv == OneLBInv /\ Placed /\ Held /\ \A t \in Thread : PossessInv(t)

(* The load balancer l gets name n, the others keep theirs. *)
Renamed(l, n) == \A k \in LB : lbs'[k].name = IF k = l THEN n ELSE lbs[k].name

(* What a step does to EIPs and the names of load balancers. *)
EIPMoves(t) ==
    LET v == view[t]
        p == plan[t]
    IN  \/ NamesKept /\ eips' = eips
        \/ /\ pc[t] = "create" /\ p.addEip \subseteq AvailableEIPs
           /\ \E l \in LB : /\ lbs[l].name = Unborn
                            /\ Renamed(l, LookupName("ensure", req[t].obj))
                            /\ eips' = [e \in EIP |-> IF e \in p.addEip THEN l ELSE eips[e]]
        \/ /\ pc[t] = "associate" /\ NamesKept /\ CanAssociate(v.lb, p.addEip)
           /\ eips' = [e \in EIP |-> IF e \in p.addEip THEN v.lb ELSE eips[e]]
        \/ /\ pc[t] = "dissociate" /\ NamesKept /\ CanDissociate(v.lb, p.delEip)
           /\ eips' = [e \in EIP |-> IF e \in p.delEip THEN Free ELSE eips[e]]
        \/ /\ pc[t] = "allocate" /\ NamesKept
           /\ \E e \in EIP : CanAllocate(e) /\ eips' = [eips EXCEPT ![e] = Free]
        \/ /\ pc[t] = "dellb" /\ Exists(v.lb) /\ Renamed(v.lb, Gone)
           /\ eips' = [e \in EIP |-> IF eips[e] = v.lb THEN Free ELSE eips[e]]
        \/ /\ pc[t] = "release" /\ NamesKept /\ CanRelease(v.created)
           /\ eips' = [e \in EIP |-> IF e \in v.created THEN Gone ELSE eips[e]]

(* Each call to the cloud is one of these moves. *)
LEMMA StepEIPs ==
    ASSUME TypeOK, NEW t \in Thread, Step(t)
    PROVE  EIPMoves(t)
<1>1. ASSUME UNCHANGED cloudVars PROVE EIPMoves(t)
  BY <1>1 DEF EIPMoves, NamesKept, cloudVars
<1>2. CASE GetLoadBalancer(t) \/ UpdateLBEip(t) \/ GetAvailableEIP(t) \/ RefreshStatus(t)
           \/ GetListeners(t) \/ GetNewListeners(t) \/ SyncListener(t)
  <2>1. UNCHANGED cloudVars
    BY <1>2 DEF GetLoadBalancer, UpdateLBEip, GetAvailableEIP, RefreshStatus,
                GetListeners, GetNewListeners, SyncListener, Reject, Local, Read
  <2> QED BY <1>1, <2>1
<1>3. CASE ModifyLB(t) \/ UpdateLB(t)
  <2>1. \/ UNCHANGED cloudVars
        \/ \E l, attr : (ModifyLBEffect(l, attr) \/ UpdateLBEffect(l)) /\ eips' = eips
    BY <1>3 DEF ModifyLB, UpdateLB, Local, Call, ModifyLBEffect, UpdateLBEffect
  <2> QED BY <1>1, <2>1, NamesKeptBy DEF EIPMoves
<1>4. CASE DeleteListener(t) \/ CreateListener(t) \/ FillListener(t) \/ DeleteBackends(t)
           \/ AddBackends(t)
  <2>1. UNCHANGED cloudVars \/ (eips' = eips /\ \E ls : lbs' = Unapplied(ls))
    <3>1. CASE DeleteListener(t)
      BY <3>1 DEF DeleteListener, Call, DeleteListenersEffect
    <3>2. CASE CreateListener(t)
      BY <3>2 DEF CreateListener, Call, AddListenersEffect, Reject, Local
    <3>3. CASE FillListener(t) \/ AddBackends(t)
      BY <3>3 DEF FillListener, AddBackends, CreateBackends, Call, AddBackendsEffect, Reject,
                  Local
    <3>4. CASE DeleteBackends(t)
      BY <3>4 DEF DeleteBackends, Call, DeleteBackendsEffect
    <3> QED BY <1>4, <3>1, <3>2, <3>3, <3>4
  <2> QED BY <1>1, <2>1, NamesKeptBy DEF EIPMoves
<1>5. CASE AllocateEIP(t)
  <2>1. \/ UNCHANGED cloudVars
        \/ /\ pc[t] = "allocate" /\ lbs' = lbs
           /\ \E e \in EIP : CanAllocate(e) /\ eips' = [eips EXCEPT ![e] = Free]
    BY <1>5 DEF AllocateEIP, Call, Reject, Local, AllocateEffect
  <2> QED BY <1>1, <2>1, NamesKeptBy DEF EIPMoves
<1>6. CASE AssociateEIPs(t)
  <2>1. \/ UNCHANGED cloudVars
        \/ /\ pc[t] = "associate" /\ lbs' = lbs /\ CanAssociate(view[t].lb, plan[t].addEip)
           /\ eips' = [e \in EIP |-> IF e \in plan[t].addEip THEN view[t].lb ELSE eips[e]]
    BY <1>6 DEF AssociateEIPs, Call, AssociateEffect
  <2> QED BY <1>1, <2>1, NamesKeptBy DEF EIPMoves
<1>7. CASE DissociateEIPs(t)
  <2>1. \/ UNCHANGED cloudVars
        \/ /\ pc[t] = "dissociate" /\ lbs' = lbs /\ CanDissociate(view[t].lb, plan[t].delEip)
           /\ eips' = [e \in EIP |-> IF e \in plan[t].delEip THEN Free ELSE eips[e]]
    BY <1>7 DEF DissociateEIPs, Call, DissociateEffect
  <2> QED BY <1>1, <2>1, NamesKeptBy DEF EIPMoves
<1>8. CASE ReleaseEIP(t)
  <2>1. \/ UNCHANGED cloudVars
        \/ /\ pc[t] = "release" /\ lbs' = lbs /\ CanRelease(view[t].created)
           /\ eips' = [e \in EIP |-> IF e \in view[t].created THEN Gone ELSE eips[e]]
    BY <1>8 DEF ReleaseEIP, Call, ReleaseEffect
  <2> QED BY <1>1, <2>1, NamesKeptBy DEF EIPMoves
<1>9. CASE CreateLB(t)
  <2> DEFINE n == LookupName("ensure", req[t].obj)
             es == plan[t].addEip
  <2>1. \/ UNCHANGED cloudVars
        \/ \E l \in LB : \E a, x : CanCreateLB(l, es) /\ CreateLBEffect(l, n, a, x, es)
    BY <1>9 DEF CreateLB, Call, Reject, Local
  <2>2. ASSUME NEW l \in LB, NEW a, NEW x, CanCreateLB(l, es), CreateLBEffect(l, n, a, x, es)
        PROVE  EIPMoves(t)
    <3>1. Renamed(l, n)
      BY <2>2 DEF CreateLBEffect, Renamed, TypeOK, CloudTypeOK
    <3>2. pc[t] = "create"
      BY <1>9 DEF CreateLB
    <3> QED BY <2>2, <3>1, <3>2 DEF EIPMoves, CanCreateLB, CreateLBEffect
  <2> QED BY <1>1, <2>1, <2>2
<1>10. CASE DeleteLB(t)
  <2>1. UNCHANGED cloudVars \/ (Exists(view[t].lb) /\ DeleteLBEffect(view[t].lb))
    BY <1>10 DEF DeleteLB
  <2>2. ASSUME NEW l \in LB, DeleteLBEffect(l) PROVE Renamed(l, Gone)
    BY <2>2 DEF DeleteLBEffect, Renamed, TypeOK, CloudTypeOK, LBRecord
  <2>3. pc[t] = "dellb"
    BY <1>10 DEF DeleteLB
  <2>4. ASSUME Exists(view[t].lb), DeleteLBEffect(view[t].lb) PROVE EIPMoves(t)
    BY <2>2, <2>3, <2>4 DEF EIPMoves, Exists, DeleteLBEffect
  <2> QED BY <1>1, <2>1, <2>4
<1> QED BY <1>2, <1>3, <1>4, <1>5, <1>6, <1>7, <1>8, <1>9, <1>10 DEF Step

(* A thread changes the EIPs of its own service's load balancer only. *)
LEMMA EIPsElsewhere ==
    ASSUME TypeOK, NEW t \in Thread, EIPMoves(t), pc[t] # "idle", PossessInv(t),
           NEW l \in LB, lbs[l].name \in Service, req[t].op \in Builds => lbs[l].name # Svc(t)
    PROVE  lbs'[l].name = lbs[l].name /\ \A e \in EIP : eips'[e] = l <=> eips[e] = l
<1>0. PICK r, v, p, step : r = req[t] /\ v = view[t] /\ p = plan[t] /\ step = pc[t]
  OBVIOUS
<1>1. /\ Possesses(r, step, v, p) /\ (r.op \in Builds => lbs[l].name # r.obj.svc)
      /\ eips = [e \in EIP |-> eips[e]]
  BY <1>0 DEF PossessInv, Svc, TypeOK, CloudTypeOK
<1>2. lbs[l].name \notin {Unborn, Gone} /\ Free # l /\ Gone # l /\ Unborn # l
  BY CloudAssumption
<1>3. CASE NamesKept /\ eips' = eips
  BY <1>3 DEF NamesKept
<1>4. CASE /\ step = "create" /\ p.addEip \subseteq AvailableEIPs
           /\ \E k \in LB : /\ lbs[k].name = Unborn
                            /\ Renamed(k, LookupName("ensure", r.obj))
                            /\ eips' = [e \in EIP |-> IF e \in p.addEip THEN k ELSE eips[e]]
  BY <1>2, <1>4 DEF Renamed, AvailableEIPs
<1>5. CASE /\ step = "associate" /\ NamesKept /\ CanAssociate(v.lb, p.addEip)
           /\ eips' = [e \in EIP |-> IF e \in p.addEip THEN v.lb ELSE eips[e]]
  <2>1. v.lb # l
    BY <1>1, <1>5 DEF Possesses, Owns, Builds
  <2> QED BY <1>2, <1>5, <2>1 DEF NamesKept, CanAssociate, AvailableEIPs
<1>6. CASE /\ step = "dissociate" /\ NamesKept /\ CanDissociate(v.lb, p.delEip)
           /\ eips' = [e \in EIP |-> IF e \in p.delEip THEN Free ELSE eips[e]]
  <2>1. v.lb # l
    BY <1>1, <1>6 DEF Possesses, Owns, Builds
  <2> QED BY <1>2, <1>6, <2>1 DEF NamesKept, CanDissociate, EIPsOf
<1>7. CASE /\ step = "allocate" /\ NamesKept
           /\ \E e \in EIP : CanAllocate(e) /\ eips' = [eips EXCEPT ![e] = Free]
  <2>1. PICK f \in EIP : eips[f] = Unborn /\ eips' = [eips EXCEPT ![f] = Free]
    BY <1>7 DEF CanAllocate
  <2>2. \A e \in EIP : eips'[e] = IF e = f THEN Free ELSE eips[e]
    BY <1>1, <2>1
  <2> QED BY <1>2, <1>7, <2>1, <2>2 DEF NamesKept
<1>8. CASE /\ step = "dellb" /\ Exists(v.lb) /\ Renamed(v.lb, Gone)
           /\ eips' = [e \in EIP |-> IF eips[e] = v.lb THEN Free ELSE eips[e]]
  <2>1. v.lb # l
    BY <1>1, <1>8 DEF Possesses, Owns, Builds
  <2> QED BY <1>2, <1>8, <2>1 DEF Renamed
<1>9. CASE /\ step = "release" /\ NamesKept /\ CanRelease(v.created)
           /\ eips' = [e \in EIP |-> IF e \in v.created THEN Gone ELSE eips[e]]
  BY <1>2, <1>9 DEF NamesKept, CanRelease, AvailableEIPs
<1> QED BY <1>0, <1>3, <1>4, <1>5, <1>6, <1>7, <1>8, <1>9, Zenon DEF EIPMoves

(* Another thread's EIPs and load balancer stay as they are, because the
   thread is a worker with another service, or no step of it touches them. *)
LEMMA OthersPossess ==
    ASSUME TypeOK, EIPsStay, EIPInv, NEW t \in Thread, NEW u \in Thread \ {t}, Step(t)
    PROVE  PossessInv(u)'
<1>1. /\ pc'[u] = pc[u] /\ view'[u] = view[u] /\ plan'[u] = plan[u] /\ req' = req
      /\ pc[t] \in Steps /\ pc[t] # "idle"
  BY StepMoves DEF OnlyMoves, Steps
<1>2. CASE pc[u] = "idle"
  BY <1>1, <1>2 DEF PossessInv
<1>3. CASE pc[u] # "idle"
  <2>0. PICK r, v, p, step : r = req[u] /\ v = view[u] /\ p = plan[u] /\ step = pc[u]
    OBVIOUS
  <2>1. Possesses(r, step, v, p) /\ r.op \in Ops[u] /\ r.obj.svc \in Service
    BY <1>3, <2>0, RequestType DEF EIPInv, PossessInv, OneLBInv, PreparesInv, ServiceObject
  <2>2. ASSUME step \in Possessing \ {"get"}, Owns(r, v)
        PROVE  Owns(r, v)' /\ \A e \in EIP : eips'[e] = v.lb <=> eips[e] = v.lb
    <3>1. v.lb \in LB /\ lbs[v.lb].name = r.obj.svc /\ r.op \in Builds
      BY <2>1, <2>2 DEF Owns, Possesses, Possessing, Builds
    <3>2. req[t].op \in Builds => Svc(t) # r.obj.svc
      <4>1. SUFFICES ASSUME req[t].op \in Builds PROVE Svc(t) # r.obj.svc
        OBVIOUS
      <4>2. req[t].op \in Ops[t]
        BY <1>1 DEF EIPInv, OneLBInv, PreparesInv
      <4>3. t \in Worker /\ u \in Worker
        BY <2>1, <3>1, <4>1, <4>2 DEF EIPsStay
      <4>4. Busy(t) /\ Busy(u)
        BY <1>1, <2>0, <2>2 DEF Busy, Possessing, Steps
      <4> QED BY <2>0, <4>3, <4>4 DEF EIPInv, OneLBInv, WorkersApart, Svc
    <3>3. EIPMoves(t) /\ PossessInv(t)
      BY StepEIPs DEF EIPInv
    <3>4. lbs'[v.lb].name = lbs[v.lb].name /\ \A e \in EIP : eips'[e] = v.lb <=> eips[e] = v.lb
      BY <1>1, <2>1, <3>1, <3>2, <3>3, EIPsElsewhere
    <3> QED BY <3>1, <3>4 DEF Owns
  <2>4. ASSUME step \in Possessing, Owns(r, v) => Owns(r, v)',
               Owns(r, v) => EIPsOf(v.lb)' = EIPsOf(v.lb),
               Owns(r, v) => (Bare(v) <=> Bare(v)')
        PROVE  Possesses(r, step, v, p)'
    <3>1. CASE step \in {"modify", "eip"}
      BY <2>1, <2>4, <3>1 DEF Possesses
    <3>2. CASE step \in {"available", "allocate"}
      BY <2>1, <2>4, <3>2 DEF Possesses
    <3>3. CASE step \in {"create", "associate", "dissociate"}
      BY <2>1, <2>4, <3>3 DEF Possesses
    <3>4. CASE step \in {"get", "dellb", "release"}
      BY <2>1, <2>4, <3>4 DEF Possesses
    <3> QED BY <2>4, <3>1, <3>2, <3>3, <3>4 DEF Possessing
  <2>5. Possesses(r, step, v, p)'
    <3>1. CASE step = "get"
      BY <2>1, <3>1 DEF Possesses
    <3>2. CASE step \in Possessing \ {"get"}
      <4>1. Owns(r, v) => Owns(r, v)'
        BY <2>2, <3>2
      <4>2. Owns(r, v) => EIPsOf(v.lb)' = EIPsOf(v.lb)
        BY <2>2, <3>2 DEF EIPsOf
      <4>3. Owns(r, v) => (Bare(v) <=> Bare(v)')
        BY <2>2, <3>2 DEF Bare, NewEIP
      <4> QED BY <2>4, <3>2, <4>1, <4>2, <4>3
    <3>3. CASE step \notin Possessing
      BY <3>3 DEF Possesses, Possessing
    <3> QED BY <3>1, <3>2, <3>3
  <2>6. PossessInv(u)' <=> (pc'[u] # "idle" => Possesses(r, step, v, p)')
    BY <1>1, <2>0 DEF PossessInv
  <2> QED BY <2>5, <2>6
<1> QED BY <1>2, <1>3

(* An EIP that was allocated gets only where there is none. *)
LEMMA PlacedKept ==
    ASSUME TypeOK, EIPsStay, EIPInv, NEW t \in Thread, Step(t)
    PROVE  Placed'
<1>0. PICK r, v, p, step : r = req[t] /\ v = view[t] /\ p = plan[t] /\ step = pc[t]
  OBVIOUS
<1>1. /\ pc[t] # "idle" /\ Possesses(r, step, v, p) /\ EIPMoves(t)
      /\ r.obj \in Object /\ r.obj.svc \in Service
      /\ eips = [e \in EIP |-> eips[e]] /\ \A e \in EIP : eips[e] \in LB \cup {Free, Unborn, Gone}
  <2>1. pc[t] # "idle"
    BY StepMoves DEF Steps
  <2> QED BY <1>0, <2>1, RequestType, StepEIPs DEF EIPInv, PossessInv, ServiceObject, TypeOK, CloudTypeOK
<1>2. /\ LB \cap {Unborn, Gone, Free} = {} /\ (Service \cup {Anon}) \cap {Unborn, Gone} = {}
      /\ Anon \notin Service /\ NewEIP \subseteq EIP /\ NewEIP \cap UserEIP = {}
  BY CloudAssumption DEF NewEIP
<1>3. ASSUME NamesKept, \A e \in NewEIP : eips'[e] = eips[e] \/ eips'[e] \notin LB PROVE Placed'
  <2>1. \A e \in NewEIP : eips'[e] \in LB => eips[e] = eips'[e]
    BY <1>2, <1>3
  <2> QED BY <1>2, <1>3, <2>1 DEF EIPInv, Placed, NamesKept
<1>4. CASE /\ step = "create" /\ p.addEip \subseteq AvailableEIPs
           /\ \E l \in LB : /\ lbs[l].name = Unborn
                            /\ Renamed(l, LookupName("ensure", r.obj))
                            /\ eips' = [e \in EIP |-> IF e \in p.addEip THEN l ELSE eips[e]]
  <2>1. PICK l \in LB : /\ lbs[l].name = Unborn
                        /\ Renamed(l, LookupName("ensure", r.obj))
                        /\ eips' = [e \in EIP |-> IF e \in p.addEip THEN l ELSE eips[e]]
    BY <1>4
  <2>2. \A e \in NewEIP : eips[e] # l
    BY <1>2, <2>1 DEF EIPInv, Placed, TakersName
  <2>3. \A e \in NewEIP : e \in p.addEip => Taking(r.obj) /\ p.addEip = {e}
    BY <1>1, <1>2, <1>4 DEF Possesses
  <2>4. PICK n : n = LookupName("ensure", r.obj)
    OBVIOUS
  <2>5. n \in {r.obj.svc, Anon}
    BY <2>4 DEF LookupName, ForDelete
  <2>6. ASSUME NEW e \in NewEIP, e \in p.addEip PROVE TakersName(n)
    BY <1>1, <1>2, <2>3, <2>5, <2>6 DEF TakersName
  <2>7. /\ \A e \in NewEIP : eips'[e] = IF e \in p.addEip THEN l ELSE eips[e]
        /\ \A k \in LB : lbs'[k].name = IF k = l THEN n ELSE lbs[k].name
    BY <1>2, <2>1, <2>4 DEF Renamed
  <2>8. ASSUME NEW e \in NewEIP, eips'[e] \in LB PROVE TakersName(lbs'[eips'[e]].name)
    BY <2>2, <2>6, <2>7, <2>8 DEF EIPInv, Placed
  <2>9. ASSUME NEW e \in NewEIP, NEW f \in NewEIP, eips'[e] \in LB, eips'[f] = eips'[e]
        PROVE  f = e
    BY <2>2, <2>3, <2>7, <2>9 DEF EIPInv, Placed
  <2> QED BY <2>8, <2>9 DEF Placed
<1>5. CASE /\ step = "associate" /\ NamesKept /\ CanAssociate(v.lb, p.addEip)
           /\ eips' = [e \in EIP |-> IF e \in p.addEip THEN v.lb ELSE eips[e]]
  <2>1. v.lb \in LB /\ lbs[v.lb].name = r.obj.svc
    BY <1>1, <1>5 DEF Possesses, Owns
  <2>2. CASE p.addEip \subseteq UserEIP
    <3>1. \A e \in NewEIP : eips'[e] = eips[e]
      BY <1>2, <1>5, <2>2
    <3> QED BY <1>3, <1>5, <3>1
  <2>3. CASE ~(p.addEip \subseteq UserEIP)
    <3>1. PICK g \in EIP : p.addEip = {g}
      BY <1>1, <1>5, <2>3 DEF Possesses
    <3>2. Taking(r.obj) /\ Bare(v) /\ g \in NewEIP
      BY <1>1, <1>5, <2>3, <3>1 DEF Possesses, NewEIP
    <3>3. \A e \in NewEIP : eips'[e] = IF e = g THEN v.lb ELSE eips[e]
      BY <1>2, <1>5, <3>1
    <3>4. \A e \in NewEIP : eips[e] # v.lb
      BY <3>2 DEF Bare
    <3>5. TakersName(r.obj.svc)
      BY <1>1, <3>2 DEF TakersName
    <3>6. ASSUME NEW e \in NewEIP, eips'[e] \in LB PROVE TakersName(lbs'[eips'[e]].name)
      BY <1>5, <2>1, <3>3, <3>5, <3>6 DEF EIPInv, Placed, NamesKept
    <3>7. ASSUME NEW e \in NewEIP, NEW f \in NewEIP, eips'[e] \in LB, eips'[f] = eips'[e]
          PROVE  f = e
      BY <3>3, <3>4, <3>7 DEF EIPInv, Placed
    <3> QED BY <3>6, <3>7 DEF Placed
  <2> QED BY <2>2, <2>3
<1>6. CASE /\ step = "dissociate" /\ NamesKept /\ CanDissociate(v.lb, p.delEip)
           /\ eips' = [e \in EIP |-> IF e \in p.delEip THEN Free ELSE eips[e]]
  BY <1>2, <1>3, <1>6
<1>7. CASE /\ step = "allocate" /\ NamesKept
           /\ \E e \in EIP : CanAllocate(e) /\ eips' = [eips EXCEPT ![e] = Free]
  <2>1. \A e \in EIP : eips'[e] = eips[e] \/ eips'[e] = Free
    BY <1>1, <1>7
  <2> QED BY <1>2, <1>3, <1>7, <2>1
<1>8. CASE /\ step = "dellb" /\ Exists(v.lb) /\ Renamed(v.lb, Gone)
           /\ eips' = [e \in EIP |-> IF eips[e] = v.lb THEN Free ELSE eips[e]]
  <2>1. \A e \in NewEIP : eips'[e] \in LB => eips'[e] = eips[e] /\ eips[e] # v.lb
    BY <1>2, <1>8
  <2>2. \A l \in LB : l # v.lb => lbs'[l].name = lbs[l].name
    BY <1>8 DEF Renamed
  <2> QED BY <2>1, <2>2 DEF EIPInv, Placed
<1>9. CASE /\ step = "release" /\ NamesKept /\ CanRelease(v.created)
           /\ eips' = [e \in EIP |-> IF e \in v.created THEN Gone ELSE eips[e]]
  BY <1>2, <1>3, <1>9
<1>10. CASE NamesKept /\ eips' = eips
  BY <1>3, <1>10
<1> QED BY <1>0, <1>1, <1>4, <1>5, <1>6, <1>7, <1>8, <1>9, <1>10, Zenon DEF EIPMoves

(* The steps that deal with EIPs are known by the pc. *)
LEMMA StepAt ==
    ASSUME NEW t \in Thread, Step(t)
    PROVE  /\ pc[t] = "create" => CreateLB(t)
           /\ pc[t] = "associate" => AssociateEIPs(t)
           /\ pc[t] = "allocate" => AllocateEIP(t)
           /\ pc[t] = "dellb" => DeleteLB(t)
           /\ pc[t] = "release" => ReleaseEIP(t)
BY DEF Step, GetLoadBalancer, ModifyLB, UpdateLBEip, GetAvailableEIP, AllocateEIP,
       AssociateEIPs, DissociateEIPs, RefreshStatus, CreateLB, GetListeners,
       DeleteListener, CreateListener, GetNewListeners, FillListener, SyncListener,
       DeleteBackends, AddBackends, UpdateLB, DeleteLB, ReleaseEIP

(* Where no call has failed after a step, none had before. *)
LEMMA StepFaults ==
    ASSUME TypeOK, NEW t \in Thread, Step(t), faults' = 0
    PROVE  faults = 0 /\ ~Fault
<1>1. ~Fault
  BY DEF Fault, TypeOK
<1>2. faults' = faults
  <2>1. CASE GetLoadBalancer(t) \/ ModifyLB(t) \/ UpdateLBEip(t) \/ GetAvailableEIP(t)
             \/ AllocateEIP(t)
    BY <1>1, <2>1 DEF GetLoadBalancer, ModifyLB, UpdateLBEip, GetAvailableEIP, AllocateEIP,
                      Call, Local, Read, Reject
  <2>2. CASE AssociateEIPs(t) \/ DissociateEIPs(t) \/ RefreshStatus(t) \/ CreateLB(t)
    BY <1>1, <2>2 DEF AssociateEIPs, DissociateEIPs, RefreshStatus, CreateLB, Call, Local,
                      Read, Reject
  <2>3. CASE GetListeners(t) \/ DeleteListener(t) \/ CreateListener(t) \/ GetNewListeners(t)
    BY <1>1, <2>3 DEF GetListeners, DeleteListener, CreateListener, GetNewListeners, Call,
                      Local, Read, Reject
  <2>4. CASE FillListener(t) \/ SyncListener(t) \/ DeleteBackends(t) \/ AddBackends(t)
    BY <1>1, <2>4 DEF FillListener, SyncListener, DeleteBackends, AddBackends, CreateBackends,
                      Call, Local, Reject
  <2>5. CASE UpdateLB(t) \/ DeleteLB(t) \/ ReleaseEIP(t)
    BY <1>1, <2>5 DEF UpdateLB, DeleteLB, ReleaseEIP, Call
  <2> QED BY <2>1, <2>2, <2>3, <2>4, <2>5 DEF Step
<1> QED BY <1>1, <1>2

(* The cloud has no more room than before. *)
LEMMA StepQuiet ==
    ASSUME TypeOK, NEW t \in Thread, Step(t), Quiet'
    PROVE  Quiet /\ ~Fault
<1>1. faults = 0 /\ ~Fault
  BY StepFaults DEF Quiet
<1>2. PICK l \in LB : lbs'[l].name = Unborn
  BY DEF Quiet
<1>3. Svc(t) \in Service
  BY StepMoves, RequestType DEF Steps, ServiceObject, Svc
<1>4. LookupName("ensure", req[t].obj) # Unborn /\ Gone # Unborn
  BY <1>3, CloudAssumption DEF LookupName, ForDelete, Svc, Gone, Unborn
<1>5. EIPMoves(t)
  BY StepEIPs
<1>6. lbs[l].name = Unborn
  BY <1>2, <1>4, <1>5 DEF EIPMoves, NamesKept, Renamed
<1> QED BY <1>1, <1>6 DEF Quiet

(* The thread that has the EIP gets rid of it without a failing call. *)
LEMMA HolderPlaces ==
    ASSUME TypeOK, NEW t \in Thread, Step(t), PossessInv(t), Quiet, ~Fault,
           NEW e \in EIP, Holds(t, e), eips[e] = Free
    PROVE  eips'[e] # Free
<1>1. pc[t] # "idle" /\ Possesses(req[t], pc[t], view[t], plan[t])
  BY StepMoves DEF PossessInv, Steps
<1>2. \A l \in LB : l # Free
  BY CloudAssumption
<1>3. CASE pc[t] = "create" /\ plan[t].addEip = {e}
  <2> DEFINE n == LookupName("ensure", req[t].obj)
  <2>1. PICK es : es = plan[t].addEip /\ es # {}
    BY <1>3
  <2>2. \E l \in LB : lbs[l].name = Unborn
    BY DEF Quiet
  <2>3. \E l \in LB : /\ lbs[l].name = Unborn
                      /\ ~CanCreateLB(l, es) \/ \E a, x : CreateLBEffect(l, n, a, x, es)
    BY <1>3, <2>1, <2>2, StepAt DEF CreateLB, Call, Reject, Local
  <2>4. PICK l \in LB : /\ lbs[l].name = Unborn
                        /\ ~CanCreateLB(l, es) \/ \E a, x : CreateLBEffect(l, n, a, x, es)
    BY <2>3
  <2>5. es = {e} /\ es \subseteq AvailableEIPs
    BY <1>3, <2>1 DEF AvailableEIPs
  <2>6. \E a, x : CreateLBEffect(l, n, a, x, es)
    BY <2>4, <2>5 DEF CanCreateLB
  <2>7. eips'[e] = l
    BY <2>5, <2>6 DEF CreateLBEffect
  <2> QED BY <1>2, <2>7
<1>4. CASE pc[t] = "associate" /\ plan[t].addEip = {e}
  <2>1. PICK es, l : es = plan[t].addEip /\ l = view[t].lb
    OBVIOUS
  <2>2. es = {e} /\ es \subseteq AvailableEIPs
    BY <1>4, <2>1 DEF AvailableEIPs
  <2>3. l \in LB /\ Exists(l)
    <3>1. l \in LB /\ lbs[l].name \in Service
      BY <1>1, <1>4, <2>1, RequestType DEF Possesses, Owns, ServiceObject
    <3> QED BY <3>1, CloudAssumption DEF Exists
  <2>4. CanAssociate(l, es)
    BY <2>2, <2>3 DEF CanAssociate
  <2>5. AssociateEffect(l, es)
    BY <1>4, <2>1, <2>4, StepAt DEF AssociateEIPs, Call
  <2>6. eips'[e] = l
    BY <2>2, <2>5 DEF AssociateEffect
  <2> QED BY <1>2, <2>3, <2>6
<1>5. CASE pc[t] = "release" /\ view[t].created = {e}
  <2>1. PICK es : es = view[t].created
    OBVIOUS
  <2>2. es = {e} /\ CanRelease(es)
    BY <1>5, <2>1 DEF AvailableEIPs, CanRelease
  <2>3. ReleaseEffect(es)
    BY <1>5, <2>1, <2>2, StepAt DEF ReleaseEIP, Call
  <2> QED BY <2>2, <2>3 DEF ReleaseEffect, Gone, Free
<1> QED BY <1>3, <1>4, <1>5 DEF Holds

(* An EIP that becomes free has a thread that goes on with it. *)
LEMMA FreedIsHeld ==
    ASSUME TypeOK, NEW t \in Thread, Step(t), PossessInv(t), Placed, ~Fault,
           NEW e \in NewEIP, eips[e] # Free, eips'[e] = Free
    PROVE  Holds(t, e)'
<1>0. PICK r, v, p, step : r = req[t] /\ v = view[t] /\ p = plan[t] /\ step = pc[t]
  OBVIOUS
<1>1. /\ Possesses(r, step, v, p) /\ EIPMoves(t) /\ e \in EIP /\ e \notin UserEIP
      /\ eips = [f \in EIP |-> eips[f]]
  BY <1>0, StepMoves, StepEIPs DEF PossessInv, Steps, NewEIP, TypeOK, CloudTypeOK
<1>2. (\A l \in LB : l # Free) /\ Gone # Free
  BY CloudAssumption DEF Gone, Free
<1>3. step \in {"allocate", "dellb"}
  <2>1. ~(step = "create" /\ \E l \in LB :
             eips' = [f \in EIP |-> IF f \in p.addEip THEN l ELSE eips[f]])
    BY <1>1, <1>2
  <2>2. ~(step = "associate" /\ eips' = [f \in EIP |-> IF f \in p.addEip THEN v.lb ELSE eips[f]])
    BY <1>1, <1>2 DEF Possesses, Owns
  <2>3. ~(step = "dissociate" /\ eips' = [f \in EIP |-> IF f \in p.delEip THEN Free ELSE eips[f]])
    BY <1>1 DEF Possesses
  <2>4. ~(step = "release" /\ eips' = [f \in EIP |-> IF f \in v.created THEN Gone ELSE eips[f]])
    BY <1>1, <1>2
  <2> QED BY <1>0, <1>1, <2>1, <2>2, <2>3, <2>4 DEF EIPMoves
<1>4. CASE step = "allocate"
  <2>1. PICK f \in EIP : AllocateEffect(f) /\ UseEip(t, f)
    BY <1>0, <1>4, StepAt, eips' # eips DEF AllocateEIP, Call, Reject, Local, cloudVars
  <2>2. f = e
    BY <1>1, <2>1 DEF AllocateEffect
  <2>3. pc'[t] \in {"create", "associate"} /\ plan'[t] = [p EXCEPT !.addEip = {e}]
    BY <1>0, <2>1, <2>2 DEF UseEip, GotoWith, Goto, TypeOK, ThreadTypeOK
  <2>4. p \in Plan
    BY <1>0 DEF TypeOK, ThreadTypeOK
  <2>5. plan'[t].addEip = {e}
    BY <2>3, <2>4 DEF Plan
  <2> QED BY <2>3, <2>5 DEF Holds
<1>5. CASE step = "dellb"
  <2>1. DeleteLBEffect(v.lb) /\ AfterDeleteLB(t)
    BY <1>0, <1>5, StepAt, eips' # eips DEF DeleteLB, cloudVars
  <2>2. v.lb \in LB /\ eips[e] = v.lb
    BY <1>1, <1>5, <2>1 DEF DeleteLBEffect, Possesses, Owns
  <2>3. v.created = {e}
    <3>1. v.created = { f \in EIP : eips[f] = v.lb } \ UserEIP
      BY <1>1, <1>5 DEF Possesses, EIPsOf
    <3>2. \A f \in NewEIP : eips[f] = v.lb => f = e
      BY <2>2 DEF Placed
    <3> QED BY <1>1, <2>2, <3>1, <3>2 DEF NewEIP
  <2>4. pc'[t] = "release" /\ view'[t] = v
    BY <1>0, <2>1, <2>3 DEF AfterDeleteLB, GotoWith, Goto, TypeOK, ThreadTypeOK
  <2> QED BY <2>3, <2>4 DEF Holds
<1> QED BY <1>3, <1>4, <1>5

(* No EIP that was allocated is free and forgotten. *)
LEMMA HeldKept ==
    ASSUME TypeOK, EIPInv, NEW t \in Thread, Step(t)
    PROVE  Held'
<1> SUFFICES ASSUME Quiet', NEW e \in NewEIP, eips'[e] = Free
             PROVE  \E u \in Thread : Holds(u, e)'
  BY DEF Held
<1>1. Quiet /\ ~Fault /\ PossessInv(t) /\ Placed /\ e \in EIP
  BY StepQuiet DEF EIPInv, NewEIP
<1>2. CASE eips[e] # Free
  BY <1>1, <1>2, FreedIsHeld
<1>3. CASE eips[e] = Free
  <2>1. PICK u \in Thread : Holds(u, e)
    BY <1>1, <1>3 DEF EIPInv, Held
  <2>2. u # t
    BY <1>1, <1>3, <2>1, HolderPlaces
  <2>3. pc'[u] = pc[u] /\ view'[u] = view[u] /\ plan'[u] = plan[u]
    BY <2>2, StepMoves DEF OnlyMoves
  <2> QED BY <2>1, <2>3 DEF Holds
<1> QED BY <1>2, <1>3

(* A thread knows what it has to know at its next step. *)
LEMMA Arrived ==
    ASSUME NEW t \in Thread, NEW r, NEW step, NEW v, NEW p,
           req'[t] = r, pc'[t] = step, view'[t] = v, plan'[t] = p, Possesses(r, step, v, p)'
    PROVE  PossessInv(t)'
BY DEF PossessInv

(* Of the other steps there is nothing to know. *)
LEMMA NothingToKnow ==
    ASSUME NEW t \in Thread, pc'[t] \notin Possessing
    PROVE  PossessInv(t)'
BY DEF PossessInv, Possesses, Possessing

(* What the lookup finds out. *)
LEMMA LookupPossesses ==
    ASSUME TypeOK, EIPsStay, EIPInv, NEW t \in Thread, GetLoadBalancer(t)
    PROVE  PossessInv(t)'
<1> DEFINE f == FilterNodes(req[t].obj.cfg, req[t].nodes, eps[req[t].obj.svc])
<1>0. PICK r, o, p, w : r = req[t] /\ o = r.obj /\ p = plan[t] /\ w = view[t]
  OBVIOUS
<1>1. /\ pc[t] = "get" /\ UNCHANGED <<lbs, eips>>
      /\ pc \in [Thread -> PC] /\ view \in [Thread -> View] /\ plan \in [Thread -> Plan]
  BY DEF GetLoadBalancer, Reject, Local, cloudVars, TypeOK, ThreadTypeOK
<1>2. /\ p.delEip = {} /\ p \in Plan /\ w.lb = NoLB /\ req'[t] = r
      /\ o \in Object /\ o \in ServiceObject
  <2>1. Step(t) /\ pc[t] # "idle"
    BY <1>1 DEF Step
  <2> QED BY <1>0, <1>1, <2>1, StepMoves, RequestType
             DEF EIPInv, PossessInv, Possesses, OneLBInv, PreparesInv, Prepares, OnlyMoves
<1>3. ASSUME NEW res \in Results, Return(t, res) PROVE PossessInv(t)'
  <2>1. pc'[t] \notin Possessing
    BY <1>1, <1>3 DEF Return, Goto, Results, Possessing
  <2> QED BY <2>1, NothingToKnow
<1>4. ASSUME NEW l \in LB, l \in Lookup(r.op, o), r.op = "delete", FoundForDelete(t, ViewOf(l, o.svc))
      PROVE  PossessInv(t)'
  <2> DEFINE only == OnlyListeners(o, ViewOf(l, o.svc))
  <2>1. CASE Return(t, "ok")
    BY <1>3, <2>1 DEF Results
  <2>2. CASE Goto(t, "dellsn")
    <3>1. pc'[t] \notin Possessing
      BY <1>1, <2>2 DEF Goto, Possessing
    <3> QED BY <3>1, NothingToKnow
  <2>3. CASE ~only /\ view' = [view EXCEPT ![t] = ViewOf(l, o.svc)] /\ Goto(t, "dellb")
    <3>1. LookupID("delete", o) = NoLB
      BY <2>3 DEF OnlyListeners
    <3>2. lbs[l].name = o.svc
      BY <1>4, <3>1 DEF Lookup, LookupName, ForDelete, ByName
    <3>3. PICK v, q : v = ViewOf(l, o.svc) /\ q = plan'[t]
      OBVIOUS
    <3>4. v.lb = l /\ v.created = EIPsOf(l) \ UserEIP
      BY <3>3 DEF ViewOf, CreatedEIPs
    <3>5. pc'[t] = "dellb" /\ view'[t] = v
      BY <1>1, <2>3, <3>3 DEF Goto
    <3>6. Owns(r, v)' /\ EIPsOf(v.lb)' = EIPsOf(l)
      BY <1>0, <1>1, <3>2, <3>4 DEF Owns, EIPsOf
    <3>7. Possesses(r, "dellb", v, q)'
      BY <1>4, <3>4, <3>6 DEF Possesses
    <3> QED BY <1>2, <3>3, <3>5, <3>7, Arrived
  <2>4. Return(t, "ok") \/ Goto(t, "dellsn")
        \/ (~only /\ view' = [view EXCEPT ![t] = ViewOf(l, o.svc)] /\ Goto(t, "dellb"))
    BY <1>0, <1>4, Zenon DEF FoundForDelete
  <2> QED BY <2>1, <2>2, <2>3, <2>4
<1>5. ASSUME NEW l \in LB, l \in Lookup(r.op, o), ConfigOK(r.op, o), r.op = "ensure",
             view' = [view EXCEPT ![t] = ViewOf(l, o.svc)],
             plan' = [plan EXCEPT ![t].sel = f.nodes, ![t].count = f.count],
             Goto(t, "modify")
      PROVE  PossessInv(t)'
  <2>1. PICK v : v = ViewOf(l, o.svc)
    OBVIOUS
  <2>2. v.lb = l /\ v.eips = EIPsOf(l)
    BY <2>1 DEF ViewOf
  <2>3. o.lbid = NoLB => lbs[l].name = o.svc
    <3>1. SUFFICES ASSUME o.lbid = NoLB PROVE lbs[l].name = o.svc
      OBVIOUS
    <3>2. LookupID("ensure", o) = NoLB
      BY <3>1 DEF LookupID, ForDelete
    <3>3. LookupName("ensure", o) = o.svc
      BY <1>5, <3>2 DEF ConfigOK, LookupName, ForDelete
    <3> QED BY <1>5, <3>2, <3>3 DEF Lookup, ByName
  <2>4. pc'[t] = "modify" /\ view'[t] = v
    BY <1>1, <1>5, <2>1 DEF Goto
  <2>5. PICK ns, n : ns = f.nodes /\ n = f.count
    OBVIOUS
  <2>6. PICK q : q = [p EXCEPT !.sel = ns, !.count = n]
    OBVIOUS
  <2> HIDE DEF f
  <2>7. plan'[t] = q
    BY <1>0, <1>1, <1>5, <2>5, <2>6
  <2>8. q.delEip = {}
    BY <1>2, <2>6 DEF Plan
  <2>9. o.lbid = NoLB => Owns(r, v)' /\ EIPsOf(v.lb)' = v.eips
    BY <1>0, <1>1, <2>2, <2>3 DEF Owns, EIPsOf
  <2>10. Possesses(r, "modify", v, q)'
    BY <1>0, <1>5, <2>8, <2>9 DEF Possesses
  <2> QED BY <1>2, <2>4, <2>7, <2>10, Arrived
<1>6. ASSUME NotFound(t) PROVE PossessInv(t)'
  <2>1. CASE \E res \in Results : Return(t, res)
    BY <1>3, <2>1
  <2>2. CASE /\ r.op = "ensure"
             /\ \E ns, n, ps : GotoWith(t, CreateStep(o),
                      [p EXCEPT !.sel = ns, !.count = n, !.addEip = o.eipIDs, !.addPort = ps,
                                !.modify = TRUE])
    <3>1. PICK ns, n, ps, es : /\ es = o.eipIDs
                               /\ GotoWith(t, CreateStep(o), [p EXCEPT !.sel = ns, !.count = n,
                                        !.addEip = es, !.addPort = ps, !.modify = TRUE])
      BY <2>2
    <3>2. PICK q, step : /\ q = [p EXCEPT !.sel = ns, !.count = n, !.addEip = es, !.addPort = ps,
                                          !.modify = TRUE]
                         /\ step = CreateStep(o)
      OBVIOUS
    <3>3. q.delEip = {} /\ q.addEip = o.eipIDs
      BY <1>2, <3>1, <3>2 DEF Plan
    <3>4. pc'[t] = step /\ view'[t] = w /\ plan'[t] = q
      BY <1>0, <1>1, <3>1, <3>2 DEF GotoWith, Goto
    <3>5. step = "create" \/ (step \in {"available", "allocate"} /\ Taking(o))
      BY <3>2 DEF CreateStep, PrepareStep, Taking
    <3>6. o.eipIDs \subseteq UserEIP
      BY <1>2 DEF EIPsStay
    <3>7. Possesses(r, step, w, q)'
      BY <1>0, <1>2, <2>2, <3>3, <3>5, <3>6 DEF Possesses
    <3> QED BY <1>2, <3>4, <3>7, Arrived
  <2>3. {"absent", "ok", "error"} \subseteq Results
    BY DEF Results
  <2>4. \/ Return(t, "absent") \/ Return(t, "ok") \/ Return(t, "error")
        \/ /\ r.op = "ensure"
           /\ GotoWith(t, CreateStep(o),
                       [p EXCEPT !.sel = f.nodes, !.count = f.count, !.addEip = o.eipIDs,
                                 !.addPort = o.ports, !.modify = TRUE])
    BY <1>0, <1>6, Zenon DEF NotFound
  <2> QED BY <2>1, <2>2, <2>3, <2>4, Zenon
<1>7. ASSUME NEW l \in LB, l \in Lookup(r.op, o), ConfigOK(r.op, o), Found(t, l)
      PROVE  PossessInv(t)'
  <2>1. CASE Return(t, "ok") \/ Return(t, "error")
    BY <1>3, <2>1 DEF Results
  <2>2. CASE r.op = "delete" /\ FoundForDelete(t, ViewOf(l, o.svc))
    BY <1>4, <1>7, <2>2
  <2>3. CASE /\ r.op \in {"ensure", "update"}
             /\ view' = [view EXCEPT ![t] = ViewOf(l, o.svc)]
             /\ plan' = [plan EXCEPT ![t].sel = f.nodes, ![t].count = f.count]
             /\ Goto(t, IF r.op = "ensure" THEN "modify" ELSE "listeners")
    <3>1. CASE r.op = "ensure"
      BY <1>5, <1>7, <2>3, <3>1
    <3>2. CASE r.op = "update"
      <4>1. pc'[t] \notin Possessing
        BY <1>1, <2>3, <3>2 DEF Goto, Possessing
      <4> QED BY <4>1, NothingToKnow
    <3> QED BY <2>3, <3>1, <3>2
  <2>4. \/ Return(t, "ok") \/ Return(t, "error")
        \/ r.op = "delete" /\ FoundForDelete(t, ViewOf(l, o.svc))
        \/ /\ r.op \in {"ensure", "update"}
           /\ view' = [view EXCEPT ![t] = ViewOf(l, o.svc)]
           /\ plan' = [plan EXCEPT ![t].sel = f.nodes, ![t].count = f.count]
           /\ Goto(t, IF r.op = "ensure" THEN "modify" ELSE "listeners")
    BY <1>0, <1>7, Zenon DEF Found
  <2> QED BY <2>1, <2>2, <2>3, <2>4
<1>8. \/ Return(t, "error") \/ Return(t, "absent")
      \/ ConfigOK(r.op, o) /\ \E l \in Lookup(r.op, o) : Found(t, l)
      \/ NotFound(t)
  BY <1>0 DEF GetLoadBalancer, Reject, Local
<1>9. Lookup(r.op, o) \subseteq LB /\ {"absent", "error"} \subseteq Results
  BY LookupType DEF Results
<1> QED BY <1>3, <1>6, <1>7, <1>8, <1>9

(* The thread goes on with other plans, or it ends. *)
LEMMA GoesOn ==
    ASSUME TypeOK, NEW t \in Thread, NEW r, NEW step, NEW v, NEW p,
           r = req[t], v = view[t], GotoWith(t, step, p), Possesses(r, step, v, p)'
    PROVE  PossessInv(t)'
<1>1. req'[t] = r /\ view'[t] = v /\ pc'[t] = step /\ plan'[t] = p
  BY DEF GotoWith, Goto, TypeOK, ThreadTypeOK
<1> QED BY <1>1, Arrived

(* The call returns, or comes to a step that does not deal with EIPs. *)
LEMMA Ends ==
    ASSUME TypeOK, NEW t \in Thread,
           \/ \E res \in Results : Return(t, res)
           \/ \E step : step \notin Possessing /\ (Goto(t, step) \/ \E p : GotoWith(t, step, p))
    PROVE  PossessInv(t)'
<1>1. pc'[t] \notin Possessing
  BY DEF Return, GotoWith, Goto, Results, Possessing, TypeOK, ThreadTypeOK
<1> QED BY <1>1, NothingToKnow

(* What a thread that ensures does with the EIPs it knows of: ModifyLB leaves
   them alone. *)
LEMMA ModifyPossesses ==
    ASSUME TypeOK, NEW t \in Thread, PossessInv(t), ModifyLB(t)
    PROVE  PossessInv(t)'
<1>0. PICK r, v, p : r = req[t] /\ v = view[t] /\ p = plan[t]
  OBVIOUS
<1>1. Possesses(r, "modify", v, p) /\ p \in Plan
  BY <1>0 DEF ModifyLB, PossessInv, TypeOK, ThreadTypeOK
<1>2. NamesKept /\ eips' = eips
  <2>1. \/ UNCHANGED cloudVars
        \/ \E l, attr : ModifyLBEffect(l, attr) /\ eips' = eips
    BY DEF ModifyLB, Local, Call, ModifyLBEffect
  <2> QED BY <2>1, NamesKeptBy DEF cloudVars
<1>3. Return(t, "error") \/ \E q \in {p, [p EXCEPT !.modify = TRUE]} : GotoWith(t, "eip", q)
  BY <1>0 DEF ModifyLB, Call, Local
<1>4. ASSUME NEW q \in {p, [p EXCEPT !.modify = TRUE]}, GotoWith(t, "eip", q)
      PROVE  PossessInv(t)'
  <2>1. q.delEip = {}
    BY <1>1, <1>4 DEF Possesses, Plan
  <2>2. Owns(r, v) => Owns(r, v)' /\ EIPsOf(v.lb)' = EIPsOf(v.lb)
    BY <1>2 DEF Owns, EIPsOf, NamesKept
  <2>3. Possesses(r, "eip", v, q)'
    BY <1>1, <2>1, <2>2 DEF Possesses
  <2> QED BY <1>0, <1>4, <2>3, GoesOn
<1> QED BY <1>3, <1>4, Ends DEF Results

(* diffLBEip plans with the EIPs on the load balancer in hand, and takes off
   it only EIPs of the user: a service that gives up its EIPs has never had
   one allocated. *)
LEMMA UpdateEipPossesses ==
    ASSUME TypeOK, EIPsStay, EIPInv, NEW t \in Thread, UpdateLBEip(t)
    PROVE  PossessInv(t)'
<1>0. PICK r, o, v, p, d : /\ r = req[t] /\ o = r.obj /\ v = view[t] /\ p = plan[t]
                           /\ d = DiffLBEip(o, v)
  OBVIOUS
<1>1. /\ Possesses(r, "eip", v, p) /\ p \in Plan /\ o \in Object /\ o.svc \in Service
      /\ UNCHANGED <<lbs, eips>> /\ r.op = "ensure"
  <2>1. Possesses(r, "eip", v, p) /\ pc[t] # "idle" /\ UNCHANGED <<lbs, eips>>
    BY <1>0 DEF UpdateLBEip, EIPInv, PossessInv, Local, cloudVars
  <2> QED BY <1>0, <2>1, RequestType DEF ServiceObject, TypeOK, ThreadTypeOK, Possesses
<1>2. \/ GotoWith(t, "listeners", p)
      \/ o.lbid = NoLB /\ NeedsEip(o, v) /\ GotoWith(t, PrepareStep(o), p)
      \/ /\ o.lbid = NoLB /\ ~NeedsEip(o, v)
         /\ GotoWith(t, IF d.add # {} THEN "associate"
                        ELSE IF d.del # {} THEN "dissociate" ELSE "listeners",
                     [p EXCEPT !.addEip = d.add, !.delEip = d.del])
  BY <1>0 DEF UpdateLBEip, Local
<1>3. CASE GotoWith(t, "listeners", p)
  BY <1>3, Ends DEF Possessing
<1>4. CASE o.lbid = NoLB /\ NeedsEip(o, v) /\ GotoWith(t, PrepareStep(o), p)
  <2>1. PICK step : step = PrepareStep(o)
    OBVIOUS
  <2>2. step \in {"available", "allocate"}
    BY <2>1 DEF PrepareStep
  <2>3. Taking(o) /\ Owns(r, v) /\ EIPsOf(v.lb) = {} /\ p.delEip = {}
    BY <1>0, <1>1, <1>4 DEF NeedsEip, Taking, Possesses
  <2>4. Bare(v)' /\ Owns(r, v)'
    BY <1>1, <2>3 DEF Bare, NewEIP, EIPsOf, Owns
  <2>5. Possesses(r, step, v, p)'
    BY <1>0, <1>1, <2>2, <2>3, <2>4 DEF Possesses
  <2> QED BY <1>0, <1>4, <2>1, <2>5, GoesOn
<1>5. CASE /\ o.lbid = NoLB /\ ~NeedsEip(o, v)
           /\ GotoWith(t, IF d.add # {} THEN "associate"
                          ELSE IF d.del # {} THEN "dissociate" ELSE "listeners",
                       [p EXCEPT !.addEip = d.add, !.delEip = d.del])
  <2>1. Owns(r, v) /\ v.eips = EIPsOf(v.lb)
    BY <1>0, <1>1, <1>5 DEF Possesses
  <2>2. d.add \subseteq UserEIP
    BY <1>0, <1>1 DEF DiffLBEip, EIPsStay
  <2>3. d.del \subseteq UserEIP
    <3>1. SUFFICES ASSUME NEW e \in d.del, e \notin UserEIP PROVE FALSE
      OBVIOUS
    <3>2. Leaving(o) /\ e \in v.eips
      BY <1>0, <1>5, <3>1 DEF DiffLBEip, Leaving
    <3>3. e \in NewEIP /\ eips[e] = v.lb
      BY <2>1, <3>1, <3>2 DEF EIPsOf, NewEIP
    <3>4. v.lb \in LB /\ lbs[v.lb].name = o.svc
      BY <1>0, <2>1 DEF Owns
    <3>5. PICK q \in Object : q.svc = o.svc /\ Taking(q)
      BY <1>1, <3>3, <3>4 DEF EIPInv, Placed, TakersName
    <3> QED BY <1>1, <3>2, <3>5 DEF EIPsStay
  <2>4. PICK q : q = [p EXCEPT !.addEip = d.add, !.delEip = d.del]
    OBVIOUS
  <2>5. q.addEip = d.add /\ q.delEip = d.del
    BY <1>1, <2>4 DEF Plan
  <2>6. ASSUME NEW step \in {"associate", "dissociate"}, GotoWith(t, step, q)
        PROVE  PossessInv(t)'
    <3>1. Owns(r, v)'
      BY <1>1, <2>1 DEF Owns
    <3>2. Possesses(r, step, v, q)'
      BY <1>1, <2>2, <2>3, <2>5, <2>6, <3>1 DEF Possesses
    <3> QED BY <1>0, <2>6, <3>2, GoesOn
  <2>7. CASE GotoWith(t, "listeners", q)
    BY <2>7, Ends DEF Possessing
  <2> QED BY <1>5, <2>4, <2>6, <2>7
<1> QED BY <1>2, <1>3, <1>4, <1>5

(* prepareEip finds one EIP, and it is the only one the thread will put on
   its load balancer. *)
LEMMA PreparePossesses ==
    ASSUME TypeOK, EIPsStay, EIPInv, NEW t \in Thread, GetAvailableEIP(t) \/ AllocateEIP(t)
    PROVE  PossessInv(t)'
<1>0. PICK r, v, p, step : r = req[t] /\ v = view[t] /\ p = plan[t] /\ step = pc[t]
  OBVIOUS
<1>1. /\ step \in {"available", "allocate"} /\ Possesses(r, step, v, p) /\ p \in Plan
      /\ r.op = "ensure" /\ Taking(r.obj) /\ p.delEip = {}
      /\ v.lb # NoLB => Owns(r, v) /\ Bare(v)
  <2>1. step \in {"available", "allocate"}
    BY <1>0 DEF GetAvailableEIP, AllocateEIP
  <2>2. Possesses(r, step, v, p)
    BY <1>0, <2>1 DEF EIPInv, PossessInv
  <2> QED BY <1>0, <2>1, <2>2 DEF Possesses, TypeOK, ThreadTypeOK
<1>2. lbs' = lbs /\ \A e \in EIP : eips'[e] = eips[e] \/ eips'[e] = Free
  BY DEF GetAvailableEIP, AllocateEIP, Read, Call, Local, Reject, AllocateEffect, cloudVars,
         TypeOK, CloudTypeOK
<1>3. v.lb # NoLB => Owns(r, v)' /\ Bare(v)'
  BY <1>1, <1>2, CloudAssumption DEF Owns, Bare, NewEIP
<1>4. ASSUME NEW e \in EIP, UseEip(t, e) PROVE PossessInv(t)'
  <2>1. PICK q : q = [p EXCEPT !.addEip = {e}]
    OBVIOUS
  <2>2. q.addEip = {e} /\ q.delEip = {}
    BY <1>1, <2>1 DEF Plan
  <2>3. CASE v.lb = NoLB
    <3>1. GotoWith(t, "create", q)
      BY <1>0, <1>4, <2>1, <2>3 DEF UseEip
    <3>2. Possesses(r, "create", v, q)'
      BY <1>1, <2>2 DEF Possesses
    <3> QED BY <1>0, <3>1, <3>2, GoesOn
  <2>4. CASE v.lb # NoLB
    <3>1. GotoWith(t, "associate", q)
      BY <1>0, <1>4, <2>1, <2>4 DEF UseEip
    <3>2. Possesses(r, "associate", v, q)'
      BY <1>1, <1>3, <2>2, <2>4 DEF Possesses
    <3> QED BY <1>0, <3>1, <3>2, GoesOn
  <2> QED BY <2>3, <2>4
<1>5. CASE GotoWith(t, "allocate", p)
  <2>1. Possesses(r, "allocate", v, p)'
    BY <1>1, <1>3 DEF Possesses
  <2> QED BY <1>0, <1>5, <2>1, GoesOn
<1>6. \/ Return(t, "error")
      \/ \E e \in EIP : UseEip(t, e)
      \/ GotoWith(t, "allocate", p)
  BY <1>0 DEF GetAvailableEIP, AllocateEIP, Read, Call, Local, Reject, AvailableEIPs
<1> QED BY <1>4, <1>5, <1>6, Ends DEF Results

(* After the EIPs are put on the load balancer others are taken off. *)
LEMMA AssociatePossesses ==
    ASSUME TypeOK, EIPInv, NEW t \in Thread, AssociateEIPs(t)
    PROVE  PossessInv(t)'
<1>0. PICK r, v, p : r = req[t] /\ v = view[t] /\ p = plan[t]
  OBVIOUS
<1>1. Possesses(r, "associate", v, p) /\ lbs' = lbs
  BY <1>0 DEF AssociateEIPs, EIPInv, PossessInv, Call, AssociateEffect, cloudVars
<1>2. Possesses(r, "dissociate", v, p)'
  BY <1>1 DEF Possesses, Owns
<1>3. Return(t, "error") \/ GotoWith(t, "refresh", p) \/ GotoWith(t, "dissociate", p)
  BY <1>0 DEF AssociateEIPs, Call
<1>4. CASE GotoWith(t, "dissociate", p)
  BY <1>0, <1>2, <1>4, GoesOn
<1> QED BY <1>3, <1>4, Ends DEF Results, Possessing

(* DeleteLB is followed by the release of the EIPs the lookup saw. *)
LEMMA DeletePossesses ==
    ASSUME TypeOK, EIPInv, NEW t \in Thread, DeleteLB(t)
    PROVE  PossessInv(t)'
<1>0. PICK r, v, p : r = req[t] /\ v = view[t] /\ p = plan[t]
  OBVIOUS
<1>1. Possesses(r, "release", v, p)'
  BY <1>0 DEF DeleteLB, EIPInv, PossessInv, Possesses
<1>2. Return(t, "error") \/ Return(t, "ok") \/ GotoWith(t, "release", p)
  BY <1>0 DEF DeleteLB, AfterDeleteLB
<1>3. CASE GotoWith(t, "release", p)
  BY <1>0, <1>1, <1>3, GoesOn
<1> QED BY <1>2, <1>3, Ends DEF Results

(* Every step of a thread tells it what the next one takes for granted. *)
LEMMA StepPossesses ==
    ASSUME TypeOK, EIPsStay, EIPInv, NEW t \in Thread, Step(t)
    PROVE  PossessInv(t)'
<1>0. {"ok", "error", "absent"} = Results
  BY DEF Results
<1>1. CASE DissociateEIPs(t) \/ GetListeners(t) \/ DeleteListener(t)
           \/ CreateListener(t) \/ GetNewListeners(t) \/ UpdateLB(t) \/ ReleaseEIP(t)
  <2>1. \/ \E r \in Results : Return(t, r)
        \/ \E step \in {"refresh", "sync", "addlsn", "dellsn", "apply", "getnew",
                        "hang", "fill"} : \E p : GotoWith(t, step, p)
    BY <1>0, <1>1 DEF DissociateEIPs, GetListeners, DeleteListener, CreateListener,
                GetNewListeners, UpdateLB, ReleaseEIP, Call, Local, Read, Reject
  <2> QED BY <2>1, Ends DEF Possessing
<1>2. CASE FillListener(t) \/ SyncListener(t) \/ DeleteBackends(t) \/ AddBackends(t)
  <2>1. \/ \E r \in Results : Return(t, r)
        \/ \E step \in {"fill", "sync", "delbk", "addbk", "apply", "hang"} :
              \E p : GotoWith(t, step, p)
    BY <1>0, <1>2 DEF FillListener, SyncListener, DeleteBackends, AddBackends, CreateBackends,
                 Call, Local, Reject
  <2> QED BY <2>1, Ends DEF Possessing
<1>3. CASE RefreshStatus(t) \/ CreateLB(t)
  <2>1. Return(t, "error") \/ Goto(t, "listeners") \/ Goto(t, "addlsn")
    BY <1>3 DEF RefreshStatus, CreateLB, Call, Local, Read, Reject
  <2> QED BY <1>0, <2>1, Ends DEF Possessing
<1>4. PossessInv(t)
  BY DEF EIPInv
<1> QED BY <1>1, <1>2, <1>3, <1>4, LookupPossesses, ModifyPossesses, UpdateEipPossesses,
           PreparePossesses, AssociatePossesses, DeletePossesses DEF Step

(* The invariant is inductive. *)
LEMMA EIPStep ==
    ASSUME TypeOK, EIPsStay, EIPInv, NEW t \in Thread, Step(t)
    PROVE  EIPInv'
<1>1. EnsuresApart
  BY DEF EIPsStay, EnsuresApart, Builds
<1>2. OneLBInv'
  BY <1>1, StepKeepsOneLB DEF EIPInv
<1>3. \A u \in Thread : PossessInv(u)'
  BY StepPossesses, OthersPossess
<1> QED BY <1>2, <1>3, PlacedKept, HeldKept DEF EIPInv

(* A thread that is called anew has nothing, and no thread that is called
   anew held an EIP. *)
LEMMA EIPStart ==
    ASSUME TypeOK, EIPInv, NEW t \in Thread, Start(t)
    PROVE  EIPInv'
<1>1. /\ ~Busy(t) /\ pc'[t] = "get" /\ plan'[t] = NoPlan
      /\ lbs' = lbs /\ eips' = eips /\ faults' = faults
      /\ \A u \in Thread \ {t} : /\ pc'[u] = pc[u] /\ view'[u] = view[u]
                                  /\ plan'[u] = plan[u] /\ req'[u] = req[u]
  BY DEF Start, Goto, cloudVars, TypeOK, ThreadTypeOK
<1>2. OneLBInv'
  BY StartKeepsOneLB DEF EIPInv
<1>3. Placed'
  BY <1>1 DEF EIPInv, Placed
<1>4. Held'
  <2>1. \A u \in Thread : \A e : Holds(u, e) => Holds(u, e)'
    BY <1>1 DEF Holds, Busy, Steps
  <2> QED BY <1>1, <2>1 DEF EIPInv, Held, Quiet
<1>5. PossessInv(t)'
  BY <1>1 DEF PossessInv, Possesses, NoPlan
<1>6. ASSUME NEW u \in Thread \ {t} PROVE PossessInv(u)'
  <2>1. PICK r, v, p, step : r = req[u] /\ v = view[u] /\ p = plan[u] /\ step = pc[u]
    OBVIOUS
  <2>2. Possesses(r, step, v, p) => Possesses(r, step, v, p)'
    BY <1>1 DEF Possesses, Owns, Bare, EIPsOf
  <2> QED BY <1>1, <2>1, <2>2 DEF EIPInv, PossessInv
<1> QED BY <1>2, <1>3, <1>4, <1>5, <1>6 DEF EIPInv

(* Endpoints have no part in it. *)
LEMMA EIPRest ==
    ASSUME TypeOK, EIPInv, (\E s \in Service : EndpointsChange(s)) \/ UNCHANGED vars
    PROVE  EIPInv'
<1>1. UNCHANGED <<lbs, eips, pc, req, view, plan, faults>>
  BY DEF EndpointsChange, vars, cloudVars, threadVars
<1>2. OneLBInv'
  BY <1>1 DEF EIPInv, OneLBInv, OneLBPerService, Exists, WorkersApart, Busy, Svc,
              PreparesInv, Prepares, NoneYet
<1>3. Placed' /\ Held'
  BY <1>1 DEF EIPInv, Placed, Held, Quiet, Holds
<1>4. \A t \in Thread : PossessInv(t)'
  BY <1>1 DEF EIPInv, PossessInv, Possesses, Owns, Bare, EIPsOf
<1> QED BY <1>2, <1>3, <1>4 DEF EIPInv

(* In the beginning no EIP is allocated. *)
LEMMA EIPInit == Init => EIPInv
<1> SUFFICES ASSUME Init PROVE EIPInv
  OBVIOUS
<1>1. /\ \A t \in Thread : pc[t] = "idle"
      /\ \A l \in LB : lbs[l].name \in {User, Unborn}
      /\ \A e \in NewEIP : eips[e] = Unborn
  BY DEF Init, CloudInit, NewEIP
<1>2. OneLBInv
  <2>1. OneLBPerService
    BY <1>1, CloudAssumption DEF OneLBPerService, Exists
  <2>2. WorkersApart
    BY <1>1, ProviderAssumption DEF WorkersApart, Busy, Steps
  <2> QED BY <1>1, <2>1, <2>2 DEF OneLBInv, PreparesInv
<1>3. Placed /\ Held
  BY <1>1, CloudAssumption DEF Placed, Held, Unborn, Free
<1> QED BY <1>1, <1>2, <1>3 DEF EIPInv, PossessInv

(* Unless a call fails, every EIP that prepareEip allocates for a service is
   on a load balancer, in the hands of a thread that is about to put it on one
   or to release it, or released: although it is allocated in one call and
   associated in a later one, other workers find it among the available EIPs
   in between, and ensureLoadBalancerDeleted releases what its lookup saw. *)
THEOREM AllocatedEIPsUsed == EIPsStay => (Spec => []AllocatedEIPUsed)
<1> SUFFICES ASSUME EIPsStay PROVE Spec => []AllocatedEIPUsed
  OBVIOUS
<1>1. TypeOK /\ EIPInv /\ [Next]_vars => EIPInv'
  BY EIPStep, EIPStart, EIPRest DEF Next
<1>2. TypeOK /\ EIPInv => AllocatedEIPUsed
  <2> SUFFICES ASSUME EIPInv, faults = 0, \E l \in LB : lbs[l].name = Unborn,
                      NEW e \in EIP, Leaked(e)
               PROVE  FALSE
    BY DEF AllocatedEIPUsed
  <2>1. e \in NewEIP /\ eips[e] = Free
    BY DEF Leaked, NewEIP
  <2>2. PICK t \in Thread : Holds(t, e)
    BY <2>1 DEF EIPInv, Held, Quiet
  <2>3. Busy(t) /\ e \in plan[t].addEip \cup view[t].created
    BY <2>2 DEF Holds, Busy, Steps
  <2> QED BY <2>3 DEF Leaked
<1> QED BY <1>1, <1>2, EIPInit, TypeCorrect, PTL DEF Spec
=============================================================================
