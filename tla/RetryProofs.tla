----------------------------- MODULE RetryProofs -----------------------------
(***************************************************************************)
(* What a call that returns success has done, whatever was left behind by  *)
(* calls before it that failed half-way: ensureLoadBalancerDeleted has     *)
(* taken away what the service had, and ensureLoadBalancer and             *)
(* updateLoadBalancer have had their own changes applied.                  *)
(***************************************************************************)
EXTENDS ConvergenceProofs

-----------------------------------------------------------------------------
(* Deletes.                                                                *)

(* While a call that builds is under way, the others change neither listeners,
   nor names, nor EIPs. *)
LEMMA OthersLeave ==
    ASSUME TypeOK, TypeOK', OwnershipInv, ContractInv, CallersPart,
           NEW t \in Thread, pc[t] # "idle", req[t].op \in Builds,
           NEW u \in Thread \ {t}, Step(u)
    PROVE  /\ pc'[t] = pc[t] /\ req'[t] = req[t] /\ view'[t] = view[t] /\ plan'[t] = plan[t]
           /\ listeners' = listeners /\ NamesKept /\ eips' = eips
<1>1. OnlyMoves(u) /\ CloudKept(u) /\ pc[u] # "idle"
  BY StepKept, StepMoves DEF Steps
<1>2. req[u].op \notin Builds
  BY <1>1 DEF ContractInv, ThreadInv, CallersPart
<1>3. listeners' = listeners /\ NamesKept
  BY <1>1, <1>2 DEF CloudKept
<1>4. eips' = eips
  <2>1. Contract!Change([op |-> req[u].op, svc |-> Svc(u)])
    BY <1>1 DEF CloudKept
  <2>2. PICK j : j = [op |-> req[u].op, svc |-> Svc(u)]
    OBVIOUS
  <2>3. j.op \notin {"ensure", "delete"} /\ Contract!Change(j)
    BY <1>2, <2>1, <2>2 DEF Builds
  <2> QED BY <2>3 DEF Contract!Change, Contract!Nothing, Contract!Retarget
<1> QED BY <1>1, <1>3, <1>4 DEF OnlyMoves

(* The steps of a delete. *)
LEMMA DeleteSteps ==
    ASSUME NEW t \in Thread, pc[t] # "idle", req[t].op = "delete", ThreadInv(t), Step(t)
    PROVE  GetLoadBalancer(t) \/ DeleteListener(t) \/ UpdateLB(t) \/ DeleteLB(t) \/ ReleaseEIP(t)
<1>1. InOp(req[t], pc[t])
  BY DEF ThreadInv
<1> QED BY <1>1 DEF InOp, Building, Step, ModifyLB, UpdateLBEip, GetAvailableEIP, AllocateEIP,
              AssociateEIPs, DissociateEIPs, RefreshStatus, CreateLB, GetListeners,
              CreateListener, GetNewListeners, FillListener, SyncListener, DeleteBackends,
              AddBackends

(* A delete from a load balancer that the service reuses: the listeners of
   the service are all in the list, and gone when they are deleted. *)
Reuses(r) == r.op = "delete" /\ r.obj.strategy = "reuse-lb" /\ r.obj.lbid # NoLB

Emptying(r, step, p) ==
    /\ step \notin {"dellb", "release"}
    /\ step = "dellsn" => Own(r.obj.lbid, r.obj.svc) \subseteq p.delLsn
    /\ step \in {"apply", "ok"} => Own(r.obj.lbid, r.obj.svc) = {}

ReuseInv(t) == pc[t] # "idle" /\ Reuses(req[t]) => Emptying(req[t], pc[t], plan[t])

LEMMA ReuseStep ==
    ASSUME TypeOK, ContractInv, ListenersPlaced, NEW t \in Thread, ReuseInv(t), Step(t)
    PROVE  ReuseInv(t)'
<1>0. PICK r, p, step, q : /\ r = req[t] /\ p = plan[t]
                           /\ step = pc'[t] /\ q = plan'[t]
  OBVIOUS
<1> DEFINE o == r.obj
<1>1. pc[t] \in Steps /\ pc[t] # "idle" /\ req' = req
  BY StepMoves DEF OnlyMoves, Steps
<1>2. ASSUME Reuses(r) PROVE Emptying(r, step, q)'
  <2>1. Emptying(r, pc[t], p) /\ r.op = "delete" /\ o.strategy = "reuse-lb" /\ o.lbid # NoLB
    BY <1>0, <1>1, <1>2 DEF ReuseInv, Reuses
  <2>2. \/ GetLoadBalancer(t) \/ DeleteListener(t) \/ UpdateLB(t) \/ DeleteLB(t)
        \/ ReleaseEIP(t)
    BY <1>0, <1>1, <2>1, DeleteSteps DEF ContractInv
  <2>3. ASSUME step \in {"error", "absent"} PROVE Emptying(r, step, q)'
    BY <2>3 DEF Emptying
  <2>4. \A res \in Results : Return(t, res) => step = res
    BY <1>0 DEF Return, Goto, TypeOK, ThreadTypeOK
  <2>5. CASE GetLoadBalancer(t)
    <3>1. LookupID("delete", o) = o.lbid /\ UNCHANGED listeners
      BY <2>1, <2>5 DEF LookupID, ForDelete, GetLoadBalancer, Reject, Local, cloudVars
    <3>2. ASSUME NEW l, l = o.lbid, FoundForDelete(t, ViewOf(l, o.svc))
          PROVE  Emptying(r, step, q)'
      <4>1. PICK v : v = ViewOf(l, o.svc)
        OBVIOUS
      <4>2. v.own = Own(o.lbid, o.svc) /\ OnlyListeners(o, v)
        BY <2>1, <3>1, <3>2, <4>1 DEF ViewOf, Own, OnlyListeners
      <4>3. CASE v.own = {} /\ Return(t, "ok")
        <5>1. step = "ok"
          BY <2>4, <4>3 DEF Results
        <5> QED BY <3>1, <4>2, <4>3, <5>1 DEF Emptying, Own, ListenersOf
      <4>4. CASE plan' = [plan EXCEPT ![t].delLsn = v.own] /\ Goto(t, "dellsn")
        <5>1. step = "dellsn" /\ q.delLsn = v.own
          BY <1>0, <4>4 DEF Goto, TypeOK, ThreadTypeOK, Plan
        <5> QED BY <3>1, <4>2, <5>1 DEF Emptying, Own, ListenersOf
      <4> QED BY <1>0, <3>2, <4>1, <4>2, <4>3, <4>4 DEF FoundForDelete
    <3>3. ASSUME ~Exists(o.lbid), Return(t, "ok") PROVE Emptying(r, step, q)'
      <4>1. Own(o.lbid, o.svc) = {} /\ step = "ok"
        BY <2>4, <3>3 DEF ListenersPlaced, Own, ListenersOf, Results
      <4> QED BY <3>1, <4>1 DEF Emptying, Own, ListenersOf
    <3>4. Lookup("delete", o) = { l \in {o.lbid} : Exists(l) }
      BY <2>1, <3>1 DEF Lookup
    <3>5. \/ Return(t, "error")
          \/ \E l \in Lookup("delete", o) : FoundForDelete(t, ViewOf(l, o.svc))
          \/ Lookup("delete", o) = {} /\ Return(t, "ok")
      BY <1>0, <2>1, <2>5 DEF GetLoadBalancer, Found, NotFound, Reject, Local
    <3> QED BY <2>3, <2>4, <3>2, <3>3, <3>4, <3>5 DEF Results
  <2>6. CASE DeleteListener(t)
    <3>1. \/ Return(t, "error")
          \/ /\ DeleteListenersEffect(p.delLsn)
             /\ GotoWith(t, "apply", [p EXCEPT !.modify = TRUE])
      BY <1>0, <2>1, <2>6 DEF DeleteListener, Call
    <3>2. CASE DeleteListenersEffect(p.delLsn)
               /\ GotoWith(t, "apply", [p EXCEPT !.modify = TRUE])
      <4>1. step = "apply" /\ Own(o.lbid, o.svc) \subseteq p.delLsn
        BY <1>0, <2>1, <2>6, <3>2, Arrives DEF Emptying, DeleteListener
      <4> QED BY <3>2, <4>1 DEF Emptying, Own, ListenersOf, DeleteListenersEffect
    <3> QED BY <2>3, <2>4, <3>1, <3>2 DEF Results
  <2>7. CASE UpdateLB(t)
    <3>1. /\ Return(t, "ok") \/ Return(t, "error")
          /\ UNCHANGED listeners
      BY <2>7 DEF UpdateLB, Call, UpdateLBEffect, cloudVars
    <3>2. Own(o.lbid, o.svc) = {}
      BY <2>1, <2>7 DEF UpdateLB, Emptying
    <3>3. step \in {"ok", "error"}
      BY <2>4, <3>1 DEF Results
    <3> QED BY <3>1, <3>2, <3>3 DEF Emptying, Own, ListenersOf
  <2>8. CASE DeleteLB(t) \/ ReleaseEIP(t)
    BY <2>1, <2>8 DEF DeleteLB, ReleaseEIP, Emptying
  <2> QED BY <2>2, <2>5, <2>6, <2>7, <2>8
<1> QED BY <1>0, <1>1, <1>2 DEF ReuseInv

(* A thread that has the same call at the same step, and the same listeners
   to deal with, is where it was. *)
LEMMA ReuseSame ==
    ASSUME NEW t \in Thread, ReuseInv(t), listeners' = listeners,
           pc'[t] = pc[t], req'[t] = req[t], plan'[t] = plan[t]
    PROVE  ReuseInv(t)'
<1>1. PICK r, p, step : r = req[t] /\ p = plan[t] /\ step = pc[t]
  OBVIOUS
<1>2. Emptying(r, step, p) => Emptying(r, step, p)'
  BY DEF Emptying, Own, ListenersOf
<1> QED BY <1>1, <1>2 DEF ReuseInv

ReusesInv == ListenersPlaced /\ \A t \in Thread : ReuseInv(t)

LEMMA ReuseInit == Init => ReusesInv
BY ConvergenceInit DEF Init, ReusesInv, ReuseInv, ConvergenceInv

LEMMA ReuseNext ==
    ASSUME TypeOK, TypeOK', OwnershipInv, ContractInv, CallersPart, ReusesInv, [Next]_vars
    PROVE  ReusesInv'
<1> USE DEF ReusesInv
<1>1. ASSUME UNCHANGED cloudVars PROVE ListenersPlaced'
  BY <1>1 DEF cloudVars, ListenersPlaced, Exists
<1>2. ASSUME NEW t \in Thread, Step(t) PROVE ReusesInv'
  <2>1. ListenersPlaced' /\ ReuseInv(t)'
    BY <1>2, StepPlaced, ReuseStep
  <2>2. pc[t] # "idle" /\ OnlyMoves(t)
    BY <1>2, StepMoves DEF Steps
  <2>3. ASSUME NEW u \in Thread \ {t} PROVE ReuseInv(u)'
    <3>1. CASE pc[u] # "idle" /\ req[u].op = "delete"
      <4>1. listeners' = listeners
        BY <1>2, <3>1, OthersLeave DEF Builds
      <4> QED BY <2>2, <4>1, ReuseSame DEF OnlyMoves
    <3>2. CASE pc[u] = "idle" \/ req[u].op # "delete"
      BY <2>2, <3>2 DEF OnlyMoves, ReuseInv, Reuses
    <3> QED BY <3>1, <3>2
  <2> QED BY <2>1, <2>3
<1>3. ASSUME NEW t \in Thread, Start(t) PROVE ReusesInv'
  <2>1. /\ pc' = [pc EXCEPT ![t] = "get"] /\ plan' = [plan EXCEPT ![t] = NoPlan]
        /\ \E r : req' = [req EXCEPT ![t] = r]
        /\ UNCHANGED cloudVars
    BY <1>3 DEF Start, Goto
  <2>2. ReuseInv(t)'
    <3>1. pc'[t] = "get"
      BY <2>1 DEF TypeOK, ThreadTypeOK
    <3> QED BY <3>1 DEF ReuseInv, Emptying
  <2>3. ASSUME NEW u \in Thread \ {t} PROVE ReuseInv(u)'
    BY <2>1, ReuseSame DEF TypeOK, ThreadTypeOK, cloudVars
  <2> QED BY <1>1, <2>1, <2>2, <2>3
<1>4. CASE (\E s \in Service : EndpointsChange(s)) \/ UNCHANGED vars
  <2>1. UNCHANGED cloudVars /\ UNCHANGED threadVars
    BY <1>4 DEF EndpointsChange, vars
  <2> QED BY <1>1, <2>1, ReuseSame DEF cloudVars, threadVars
<1> QED BY <1>2, <1>3, <1>4 DEF Next

(* A delete that returns success has left no listener of the service on the
   load balancer that the service reuses, whatever calls before it left
   there. *)
THEOREM ReusedListenersDeletedKept == CallersPart => (Spec => []ReusedListenersDeleted)
<1> SUFFICES ASSUME CallersPart PROVE Spec => []ReusedListenersDeleted
  OBVIOUS
<1>1. Init => OwnershipInv /\ ContractInv /\ ReusesInv
  BY InitType, OwnershipInit, ContractInit, ReuseInit
<1>2. /\ TypeOK /\ TypeOK' /\ OwnershipInv /\ ContractInv /\ ReusesInv /\ [Next]_vars
      => OwnershipInv' /\ ContractInv' /\ ReusesInv'
  BY OwnershipNext, ContractNext, ReuseNext
<1>3. TypeOK /\ ReusesInv => ReusedListenersDeleted
  <2> SUFFICES ASSUME TypeOK, ReusesInv, NEW t \in Thread, pc[t] = "ok",
                      req[t].op = "delete", req[t].obj.strategy = "reuse-lb"
               PROVE  \A x \in listeners : x.lb = req[t].obj.lbid => x.svc # req[t].obj.svc
    BY DEF ReusedListenersDeleted
  <2>1. CASE req[t].obj.lbid = NoLB
    BY <2>1, CloudAssumption DEF TypeOK, CloudTypeOK, Listener
  <2>2. CASE req[t].obj.lbid # NoLB
    <3>1. Own(req[t].obj.lbid, req[t].obj.svc) = {}
      BY <2>2 DEF ReusesInv, ReuseInv, Reuses, Emptying
    <3> QED BY <3>1 DEF Own, ListenersOf
  <2> QED BY <2>1, <2>2
<1> QED BY <1>1, <1>2, <1>3, TypeCorrect, PTL DEF Spec

(* The load balancer of its own that a service had is gone, or there are
   listeners of others on it. *)
GivenUp(r) ==
    r.obj.strategy = "exclusive" =>
        \A l \in LB : lbs[l].name = r.obj.svc =>
            \E x \in listeners : x.lb = l /\ x.svc # r.obj.svc

(* The allocated EIPs that the lookup saw are on a load balancer or released. *)
NoneLost(v) == \A e \in v.created : eips[e] \in LB \cup {Gone}

(* How far a delete has come, if no call to the cloud failed. *)
DeletePhase(r, step, v, c) ==
    /\ step = "get" => v.created = {}
    /\ step \in {"dellsn", "apply"} => GivenUp(r) /\ NoneLost(v)
    /\ step = "release" /\ c # "disturbed" => GivenUp(r)

DeleteInv(t) ==
    pc[t] # "idle" /\ req[t].op = "delete" =>
        DeletePhase(req[t], pc[t], view[t], course[t])

(* What the delete has achieved when it returns success. *)
Achieved(r, v, step, c) ==
    step = "ok" /\ c # "disturbed" => GivenUp(r) /\ NoneLost(v)

(* A course that is not disturbed has seen no failure. *)
LEMMA Undisturbed ==
    ASSUME NEW t \in Thread, Busy(t), pc'[t] # pc[t], course'[t] = Recorded(t),
           course'[t] # "disturbed"
    PROVE  faults' = faults /\ course[t] # "disturbed"
BY DEF Recorded

(* Without an annotation the lookup of a delete is by the service's name. *)
LEMMA ExclusiveLookup ==
    ASSUME CallersPart, NEW o \in Object, o.strategy = "exclusive"
    PROVE  LookupID("delete", o) = NoLB /\ Lookup("delete", o) = ByName(o.svc)
BY DEF CallersPart, LookupID, Lookup, LookupName, ForDelete

(* The lookup: without a load balancer there is nothing to do, with others'
   listeners on it nothing but to take away those of the service. *)
LEMMA GetLoadBalancerDeletes ==
    ASSUME TypeOK, ContractInv, CallersPart, NEW t \in Thread, NEW r, r = req[t],
           NEW v, v = view[t], NEW step, step = pc'[t], NEW w, w = view'[t], NEW c,
           r.op = "delete", v.created = {}, GetLoadBalancer(t)
    PROVE  DeletePhase(r, step, w, c)' /\ Achieved(r, v, step, c)'
<1> DEFINE o == r.obj
<1>1. /\ o \in Object /\ o \in ServiceObject /\ pc[t] = "get"
      /\ UNCHANGED cloudVars
  BY RequestType, ProviderAssumption DEF GetLoadBalancer, Reject, Local, Request
<1>2. \A res \in Results : Return(t, res) => step = res
  BY DEF Return, Goto, TypeOK, ThreadTypeOK
<1>3. ASSUME NEW res \in Results, Return(t, res), res = "ok" => GivenUp(r)
      PROVE  DeletePhase(r, step, w, c)' /\ Achieved(r, v, step, c)'
  <2>1. step = res
    BY <1>2, <1>3
  <2>2. GivenUp(r)' <=> GivenUp(r)
    BY <1>1 DEF GivenUp, cloudVars
  <2> QED BY <1>3, <2>1, <2>2 DEF DeletePhase, Achieved, NoneLost, Results
<1>4. ASSUME NEW l \in LB, l \in Lookup("delete", o), FoundForDelete(t, ViewOf(l, o.svc))
      PROVE  DeletePhase(r, step, w, c)' /\ Achieved(r, v, step, c)'
  <2>1. PICK u : u = ViewOf(l, o.svc)
    OBVIOUS
  <2>2. /\ u.own = Own(l, o.svc) /\ (u.others <=> ListenersOf(l) # u.own)
        /\ u.created \subseteq EIPsOf(l)
    BY <2>1 DEF ViewOf, Own, CreatedEIPs
  <2>3. OnlyListeners(o, u) => GivenUp(r)
    <3> SUFFICES ASSUME OnlyListeners(o, u), o.strategy = "exclusive",
                        NEW k \in LB, lbs[k].name = o.svc
                 PROVE  \E x \in listeners : x.lb = k /\ x.svc # o.svc
      BY DEF GivenUp
    <3>1. LookupID("delete", o) = NoLB /\ l \in ByName(o.svc)
      BY <1>1, <1>4, ExclusiveLookup
    <3>2. u.others
      BY <3>1 DEF OnlyListeners
    <3>3. k = l
      BY <1>1, <3>1, CloudAssumption DEF ContractInv, CloudInv, OneLBPerService, ByName, Exists,
                                         ServiceObject
    <3> QED BY <2>2, <3>2, <3>3 DEF Own, ListenersOf
  <2>4. CASE OnlyListeners(o, u) /\ u.own = {} /\ Return(t, "ok")
    BY <1>3, <2>3, <2>4 DEF Results
  <2>5. CASE /\ view' = [view EXCEPT ![t] = u]
             /\ Goto(t, IF OnlyListeners(o, u) THEN "dellsn" ELSE "dellb")
    <3>1. w = u /\ step = IF OnlyListeners(o, u) THEN "dellsn" ELSE "dellb"
      BY <2>5 DEF Goto, TypeOK, ThreadTypeOK
    <3>2. NoneLost(u)'
      BY <1>1, <2>2 DEF NoneLost, EIPsOf, cloudVars
    <3>3. OnlyListeners(o, u) => GivenUp(r)'
      BY <1>1, <2>3 DEF GivenUp, cloudVars
    <3> QED BY <3>1, <3>2, <3>3 DEF DeletePhase, Achieved
  <2> QED BY <1>4, <2>1, <2>4, <2>5 DEF FoundForDelete
<1>5. ASSUME Lookup("delete", o) = {} PROVE GivenUp(r)
  <2> SUFFICES ASSUME o.strategy = "exclusive", NEW l \in LB, lbs[l].name = o.svc
               PROVE  FALSE
    BY DEF GivenUp
  <2>1. l \notin ByName(o.svc)
    BY <1>1, <1>5, ExclusiveLookup
  <2> QED BY <1>1, <2>1, CloudAssumption DEF ByName, Exists, ServiceObject
<1>6. Lookup("delete", o) \subseteq LB
  BY DEF Lookup, ByName, Exists
<1>7. \/ Return(t, "error")
      \/ \E l \in Lookup("delete", o) : FoundForDelete(t, ViewOf(l, o.svc))
      \/ Lookup("delete", o) = {} /\ Return(t, "ok")
  BY DEF GetLoadBalancer, Found, NotFound, Reject, Local
<1> QED BY <1>3, <1>4, <1>5, <1>6, <1>7 DEF Results

(* The listeners of the service go first where there are others. *)
LEMMA DeleteListenerDeletes ==
    ASSUME TypeOK, NEW t \in Thread, NEW r, r = req[t],
           NEW v, v = view[t], NEW step, step = pc'[t], NEW w, w = view'[t], NEW c,
           r.op = "delete", OwnOnly(r, v, plan[t]), GivenUp(r), NoneLost(v), DeleteListener(t)
    PROVE  DeletePhase(r, step, w, c)' /\ Achieved(r, v, step, c)'
<1>1. CASE Return(t, "error")
  BY <1>1 DEF Return, Goto, TypeOK, ThreadTypeOK, DeletePhase, Achieved
<1>2. CASE /\ DeleteListenersEffect(plan[t].delLsn)
           /\ GotoWith(t, "apply", [plan[t] EXCEPT !.modify = TRUE])
  <2>1. step = "apply" /\ w = v
    BY <1>2, Arrives
  <2>2. /\ \A x \in listeners : x.svc # r.obj.svc => x \in listeners'
        /\ \A l \in LB : lbs'[l].name = lbs[l].name
        /\ eips' = eips
    BY <1>2, UnappliedNames DEF DeleteListenersEffect, OwnOnly, Unapplied, TypeOK,
                                CloudTypeOK, LBRecord
  <2>3. GivenUp(r)' /\ NoneLost(v)'
    BY <2>2 DEF GivenUp, NoneLost
  <2> QED BY <2>1, <2>3 DEF DeletePhase, Achieved
<1>3. \/ Return(t, "error")
      \/ /\ DeleteListenersEffect(plan[t].delLsn)
         /\ GotoWith(t, "apply", [plan[t] EXCEPT !.modify = TRUE])
  BY DEF DeleteListener, Call
<1> QED BY <1>1, <1>2, <1>3

(* UpdateLB makes their removal effective, and is the last step. *)
LEMMA UpdateLBDeletes ==
    ASSUME TypeOK, NEW t \in Thread, NEW r, NEW v, NEW step, step = pc'[t], NEW w, NEW c,
           GivenUp(r), NoneLost(v), UpdateLB(t)
    PROVE  DeletePhase(r, step, w, c)' /\ Achieved(r, v, step, c)'
<1>1. step \in {"ok", "error"}
  BY DEF UpdateLB, Call, Return, Goto, TypeOK, ThreadTypeOK
<1>2. /\ listeners' = listeners /\ eips' = eips
      /\ \A l \in LB : lbs'[l].name = lbs[l].name
  BY DEF UpdateLB, Call, UpdateLBEffect, cloudVars, TypeOK, CloudTypeOK, LBRecord
<1>3. GivenUp(r)' /\ NoneLost(v)'
  BY <1>2 DEF GivenUp, NoneLost
<1> QED BY <1>1, <1>3 DEF DeletePhase, Achieved

(* DeleteLB takes the load balancer away unless a call fails: the one of the
   service that the lookup saw still exists. *)
LEMMA DeleteLBDeletes ==
    ASSUME TypeOK, CloudInv, NEW t \in Thread, NEW r, r = req[t], r.obj.svc \in Service,
           NEW v, v = view[t], NEW step, step = pc'[t], NEW w, w = view'[t],
           NEW c, c # "disturbed" => faults' = faults,
           Owns(r, v), DeleteLB(t)
    PROVE  DeletePhase(r, step, w, c)' /\ Achieved(r, v, step, c)'
<1>1. Exists(v.lb)
  BY CloudAssumption DEF Owns, Exists
<1>2. ASSUME c # "disturbed" PROVE GivenUp(r)' /\ AfterDeleteLB(t)
  <2>1. faults' = faults /\ ~Fault
    BY <1>2 DEF Fault, TypeOK
  <2>2. DeleteLBEffect(v.lb) /\ AfterDeleteLB(t)
    BY <1>1, <2>1 DEF DeleteLB
  <2>3. \A l \in LB : lbs'[l].name # r.obj.svc
    <3>1. \A l \in LB : lbs'[l].name = IF l = v.lb THEN Gone ELSE lbs[l].name
      BY <2>2 DEF DeleteLBEffect, TypeOK, CloudTypeOK, LBRecord
    <3>2. \A l \in LB : lbs[l].name = r.obj.svc => l = v.lb
      BY CloudAssumption DEF CloudInv, OneLBPerService, Owns, Exists
    <3> QED BY <3>1, <3>2, CloudAssumption
  <2> QED BY <2>2, <2>3 DEF GivenUp
<1>3. step \in {"release", "ok", "error"}
  BY DEF DeleteLB, AfterDeleteLB, Return, GotoWith, Goto, TypeOK, ThreadTypeOK
<1>4. ASSUME step = "ok", c # "disturbed" PROVE v.created = {}
  BY <1>2, <1>4 DEF AfterDeleteLB, GotoWith, Goto, TypeOK, ThreadTypeOK
<1> QED BY <1>2, <1>3, <1>4 DEF DeletePhase, Achieved, NoneLost

(* ReleaseEIP gives the allocated EIPs back. *)
LEMMA ReleaseEIPDeletes ==
    ASSUME TypeOK, NEW t \in Thread, NEW r,
           NEW v, v = view[t], NEW step, step = pc'[t], NEW w,
           NEW c, c # "disturbed" => faults' = faults /\ GivenUp(r),
           ReleaseEIP(t)
    PROVE  DeletePhase(r, step, w, c)' /\ Achieved(r, v, step, c)'
<1>1. step \in {"ok", "error"}
  BY DEF ReleaseEIP, Call, Return, Goto, TypeOK, ThreadTypeOK
<1>2. ASSUME step = "ok", c # "disturbed" PROVE GivenUp(r)' /\ NoneLost(v)'
  <2>1. ~Return(t, "error")
    BY <1>2 DEF Return, Goto, TypeOK, ThreadTypeOK
  <2>2. ReleaseEffect(v.created)
    BY <2>1 DEF ReleaseEIP, Call
  <2>3. NoneLost(v)'
    <3>1. v.created \subseteq EIP
      BY <2>1 DEF ReleaseEIP, Call, CanRelease, AvailableEIPs
    <3> QED BY <2>2, <3>1 DEF ReleaseEffect, NoneLost
  <2>4. GivenUp(r)'
    BY <1>2, <2>2 DEF ReleaseEffect, GivenUp
  <2> QED BY <2>3, <2>4
<1> QED BY <1>1, <1>2 DEF DeletePhase, Achieved

(* A delete keeps what it knows and, when it returns, has achieved it. *)
LEMMA DeleteStep ==
    ASSUME TypeOK, ContractInv, CallersPart, NEW t \in Thread, DeleteInv(t), Step(t),
           course'[t] = Recorded(t)
    PROVE  /\ DeleteInv(t)'
           /\ req[t].op = "delete" =>
                \A r, v, step, c : r = req[t] /\ v = view[t] /\ step = pc'[t] /\ c = course'[t]
                                     => Achieved(r, v, step, c)'
<1>1. pc[t] \in Steps /\ pc[t] # "idle" /\ req' = req /\ Busy(t)
  BY StepMoves DEF OnlyMoves, Steps, Busy
<1>2. CASE req[t].op # "delete"
  BY <1>1, <1>2 DEF DeleteInv
<1>3. CASE req[t].op = "delete"
  <2>1. PICK r, v, step, w, c : /\ r = req[t] /\ v = view[t] /\ step = pc'[t]
                                /\ w = view'[t] /\ c = course'[t]
    OBVIOUS
  <2>2. /\ DeletePhase(r, pc[t], v, course[t])
        /\ OwnOnly(r, v, plan[t]) /\ KnowsLB(r, pc[t], v) /\ CloudInv
    BY <1>1, <1>3, <2>1 DEF DeleteInv, ContractInv, ThreadInv
  <2>3. r.obj.svc \in Service
    BY <1>1, <2>1, RequestType DEF Request, ServiceObject
  <2>4. /\ \/ GetLoadBalancer(t) \/ DeleteListener(t) \/ UpdateLB(t) \/ DeleteLB(t)
           \/ ReleaseEIP(t)
    BY <1>1, <1>3, DeleteSteps DEF ContractInv
  <2>5. ASSUME DeleteLB(t) \/ ReleaseEIP(t), c # "disturbed"
        PROVE  faults' = faults /\ course[t] # "disturbed"
    <3>1. pc'[t] # pc[t]
      BY <2>5 DEF DeleteLB, ReleaseEIP, Call, AfterDeleteLB, Return, GotoWith, Goto, TypeOK,
                  ThreadTypeOK
    <3> QED BY <1>1, <2>1, <2>5, <3>1, Undisturbed
  <2>6. DeletePhase(r, step, w, c)' /\ Achieved(r, v, step, c)'
    <3>1. CASE GetLoadBalancer(t)
      <4>1. v.created = {}
        BY <2>2, <3>1 DEF DeletePhase, GetLoadBalancer
      <4> QED BY <1>3, <2>1, <3>1, <4>1, GetLoadBalancerDeletes
    <3>2. CASE DeleteListener(t)
      <4>1. GivenUp(r) /\ NoneLost(v)
        BY <2>2, <3>2 DEF DeletePhase, DeleteListener
      <4> QED BY <1>3, <2>1, <2>2, <3>2, <4>1, DeleteListenerDeletes
    <3>3. CASE UpdateLB(t)
      <4>1. GivenUp(r) /\ NoneLost(v)
        BY <2>2, <3>3 DEF DeletePhase, UpdateLB
      <4> QED BY <2>1, <3>3, <4>1, UpdateLBDeletes
    <3>4. CASE DeleteLB(t)
      <4>1. Owns(r, v)
        BY <2>2, <3>4 DEF KnowsLB, DeleteLB
      <4> QED BY <2>1, <2>2, <2>3, <2>5, <3>4, <4>1, DeleteLBDeletes
    <3>5. CASE ReleaseEIP(t)
      <4>1. c # "disturbed" => faults' = faults /\ GivenUp(r)
        BY <2>2, <2>5, <3>5 DEF DeletePhase, ReleaseEIP
      <4> QED BY <2>1, <3>5, <4>1, ReleaseEIPDeletes
    <3> QED BY <2>4, <3>1, <3>2, <3>3, <3>4, <3>5
  <2>7. DeleteInv(t)'
    BY <1>1, <2>1, <2>6 DEF DeleteInv
  <2> QED BY <2>1, <2>6, <2>7
<1> QED BY <1>2, <1>3

(* A thread that has the same call at the same step, and the same load
   balancers, listeners and EIPs to deal with, is where it was. *)
LEMMA DeleteSame ==
    ASSUME NEW t \in Thread, DeleteInv(t), NamesKept, listeners' = listeners, eips' = eips,
           pc'[t] = pc[t], req'[t] = req[t], view'[t] = view[t], course'[t] = course[t]
    PROVE  DeleteInv(t)'
<1>1. PICK r, v, step, c : r = req[t] /\ v = view[t] /\ step = pc[t] /\ c = course[t]
  OBVIOUS
<1>2. DeletePhase(r, step, v, c) => DeletePhase(r, step, v, c)'
  BY DEF DeletePhase, GivenUp, NoneLost, NamesKept
<1> QED BY <1>1, <1>2 DEF DeleteInv

(* The step of the calls and of the record of them. *)
LEMMA DeleteNext ==
    ASSUME TypeOK, TypeOK', OwnershipInv, ContractInv, CallersPart,
           \A t \in Thread : DeleteInv(t), [RetryNext]_<<vars, course>>
    PROVE  /\ \A t \in Thread : DeleteInv(t)'
           /\ RetryNext =>
                \A t \in Thread : Busy(t) /\ req[t].op = "delete" /\ pc'[t] = "ok" =>
                    \A r, v, c : r = req[t] /\ v = view[t] /\ c = course'[t]
                                   => Achieved(r, v, "ok", c)'
<1>1. ASSUME UNCHANGED cloudVars PROVE NamesKept /\ listeners' = listeners /\ eips' = eips
  BY <1>1 DEF cloudVars, NamesKept
<1>2. ASSUME RetryNext, NEW t \in Thread PROVE course'[t] = Recorded(t)
  BY <1>2 DEF RetryNext
<1>3. ASSUME RetryNext, NEW t \in Thread, NEW u \in Thread \ {t}, Step(t)
      PROVE  pc'[u] = pc[u] /\ DeleteInv(u)'
  <2>1. pc'[u] = pc[u] /\ req' = req /\ view'[u] = view[u] /\ plan'[u] = plan[u]
    BY <1>3, StepMoves DEF OnlyMoves
  <2>2. course'[u] = course[u]
    BY <1>2, <1>3, <2>1 DEF Recorded
  <2>3. CASE pc[u] # "idle" /\ req[u].op = "delete"
    BY <1>3, <2>1, <2>2, <2>3, OthersLeave, DeleteSame DEF Builds
  <2> QED BY <2>1, <2>3 DEF DeleteInv
<1>4. ASSUME RetryNext, NEW t \in Thread, Step(t)
      PROVE  /\ \A u \in Thread : DeleteInv(u)'
             /\ \A u \in Thread : Busy(u) /\ req[u].op = "delete" /\ pc'[u] = "ok" =>
                    \A r, v, c : r = req[u] /\ v = view[u] /\ c = course'[u]
                                   => Achieved(r, v, "ok", c)'
  <2>1. /\ DeleteInv(t)'
        /\ req[t].op = "delete" =>
             \A r, v, step, c : r = req[t] /\ v = view[t] /\ step = pc'[t] /\ c = course'[t]
                                  => Achieved(r, v, step, c)'
    BY <1>2, <1>4, DeleteStep
  <2>2. \A u \in Thread \ {t} : pc'[u] = pc[u] /\ DeleteInv(u)'
    BY <1>3, <1>4
  <2>3. \A u \in Thread : Busy(u) => pc[u] # "ok"
    BY DEF Busy, Steps
  <2> QED BY <2>1, <2>2, <2>3
<1>5. ASSUME RetryNext, NEW t \in Thread, Start(t)
      PROVE  \A u \in Thread : pc'[u] \in {pc[u], "get"} /\ DeleteInv(u)'
  <2>1. /\ pc' = [pc EXCEPT ![t] = "get"] /\ plan' = [plan EXCEPT ![t] = NoPlan]
        /\ view' = [view EXCEPT ![t] = NoView] /\ \E r : req' = [req EXCEPT ![t] = r]
        /\ UNCHANGED cloudVars
    BY <1>5 DEF Start, Goto
  <2>2. pc'[t] = "get" /\ DeleteInv(t)'
    <3>1. pc'[t] = "get" /\ view'[t].created = {}
      BY <2>1 DEF TypeOK, ThreadTypeOK, NoView
    <3> QED BY <3>1 DEF DeleteInv, DeletePhase
  <2>3. ASSUME NEW u \in Thread \ {t} PROVE pc'[u] = pc[u] /\ DeleteInv(u)'
    <3>1. /\ pc'[u] = pc[u] /\ req'[u] = req[u] /\ view'[u] = view[u]
          /\ plan'[u] = plan[u]
      BY <2>1 DEF TypeOK, ThreadTypeOK
    <3>2. course'[u] = course[u]
      BY <1>2, <1>5, <3>1 DEF Recorded
    <3> QED BY <1>1, <2>1, <3>1, <3>2, DeleteSame
  <2> QED BY <2>2, <2>3
<1>6. ASSUME (RetryNext /\ \E s \in Service : EndpointsChange(s)) \/ UNCHANGED <<vars, course>>,
             NEW u \in Thread
      PROVE  pc' = pc /\ DeleteInv(u)'
  <2>1. UNCHANGED cloudVars /\ UNCHANGED threadVars
    BY <1>6 DEF EndpointsChange, vars
  <2>2. course'[u] = course[u]
    BY <1>2, <1>6, <2>1 DEF Recorded, threadVars
  <2> QED BY <1>1, <2>1, <2>2, DeleteSame DEF threadVars
<1>7. \A u \in Thread : Busy(u) => pc[u] # "ok"
  BY DEF Busy, Steps
<1> QED BY <1>4, <1>5, <1>6, <1>7 DEF RetryNext, Next

LEMMA RetryImplies ==
    /\ RetryInit => Init
    /\ [RetryNext]_<<vars, course>> => [Next]_vars
BY DEF RetryInit, RetryNext, vars

(* A delete in which no call fails and that returns success has removed the
   service's load balancer unless others use it, and has released the EIPs
   allocated for it, whatever calls before it left behind. *)
THEOREM DeleteConvergesKept == CallersPart => (RetrySpec => DeleteConverges)
<1> SUFFICES ASSUME CallersPart PROVE RetrySpec => DeleteConverges
  OBVIOUS
<1> DEFINE DeletesInv == \A t \in Thread : DeleteInv(t)
           Done == \A t \in Thread :
              LET o == req[t].obj
              IN  /\ Busy(t) /\ req[t].op = "delete" /\ pc'[t] = "ok"
                  /\ course'[t] # "disturbed"
                  => /\ o.strategy = "exclusive" =>
                           \A l \in LB : lbs'[l].name = o.svc =>
                               \E x \in listeners' : x.lb = l /\ x.svc # o.svc
                     /\ \A e \in view[t].created : eips'[e] \in LB \cup {Gone}
<1>1. Init => OwnershipInv /\ ContractInv /\ DeletesInv
  BY InitType, OwnershipInit, ContractInit DEF Init, DeleteInv
<1>2. /\ TypeOK /\ TypeOK' /\ OwnershipInv /\ ContractInv /\ DeletesInv
      /\ [RetryNext]_<<vars, course>>
      => OwnershipInv' /\ ContractInv' /\ DeletesInv' /\ [Done]_<<vars, course>>
  <2> SUFFICES ASSUME TypeOK, TypeOK', OwnershipInv, ContractInv, DeletesInv,
                      [RetryNext]_<<vars, course>>
               PROVE  OwnershipInv' /\ ContractInv' /\ DeletesInv' /\ [Done]_<<vars, course>>
    OBVIOUS
  <2>1. OwnershipInv' /\ ContractInv'
    BY RetryImplies, OwnershipNext, ContractNext
  <2>2. /\ DeletesInv'
        /\ RetryNext =>
             \A t \in Thread : Busy(t) /\ req[t].op = "delete" /\ pc'[t] = "ok" =>
                 \A r, v, c : r = req[t] /\ v = view[t] /\ c = course'[t]
                                => Achieved(r, v, "ok", c)'
    BY DeleteNext
  <2>3. RetryNext => Done
    <3> SUFFICES ASSUME RetryNext, NEW t \in Thread, Busy(t), req[t].op = "delete",
                        pc'[t] = "ok", course'[t] # "disturbed"
                 PROVE  /\ req[t].obj.strategy = "exclusive" =>
                             \A l \in LB : lbs'[l].name = req[t].obj.svc =>
                                 \E x \in listeners' : x.lb = l /\ x.svc # req[t].obj.svc
                        /\ \A e \in view[t].created : eips'[e] \in LB \cup {Gone}
      OBVIOUS
    <3>1. PICK r, v, c : r = req[t] /\ v = view[t] /\ c = course'[t]
      OBVIOUS
    <3>2. GivenUp(r)' /\ NoneLost(v)'
      BY <2>2, <3>1 DEF Achieved
    <3> QED BY <3>1, <3>2 DEF GivenUp, NoneLost
  <2> QED BY <2>1, <2>2, <2>3
<1>3. [RetryNext]_<<vars, course>> => [Next]_vars
  BY RetryImplies
<1>4. RetryInit => Init
  BY RetryImplies
<1> HIDE DEF DeletesInv
<1> QED BY <1>1, <1>2, <1>3, <1>4, TypeCorrect, PTL DEF Spec, RetrySpec, DeleteConverges

-----------------------------------------------------------------------------
(* Ensures and updates.                                                    *)

(* A call that has changed listeners, backends or load balancers has marked
   the load balancer as modified, from the first change to the last step; one
   that creates does it beforehand.  An update changes nothing up to
   GetListeners, where it may find that there is nothing to do. *)
Marked(r, step, v, p, c) ==
    /\ step \in Steps /\ c = "touched" => p.modify
    /\ Creating(step, v) \/ step \in {"getnew", "fill"} => p.modify
    /\ step = "get" \/ (step = "listeners" /\ r.op = "update") => c # "touched"
    /\ step = "ok" /\ c = "touched" => v.lb \in LB /\ lbs[v.lb].applied

MarkedInv(t) ==
    pc[t] # "idle" /\ req[t].op \in {"ensure", "update"} =>
        Marked(req[t], pc[t], view[t], plan[t], course[t])

(* A step of a thread that is and stays at work. *)
AtWork(t) ==
    /\ pc[t] \in Steps /\ UNCHANGED req /\ course'[t] = Recorded(t)
    /\ req[t].op \in {"ensure", "update"}

(* What it may be recorded for. *)
LEMMA TouchedBy ==
    ASSUME NEW t \in Thread, AtWork(t), course'[t] = "touched"
    PROVE  course[t] = "touched" \/ <<lbs, listeners, backends>>' # <<lbs, listeners, backends>>
BY DEF AtWork, Recorded, Busy

(* A call that fails has nothing to show. *)
LEMMA MarkedFails ==
    ASSUME TypeOK, NEW t \in Thread, Return(t, "error") \/ Return(t, "absent")
    PROVE  MarkedInv(t)'
<1>1. PICK r, step, v, p, c : /\ r = req'[t] /\ step = pc'[t] /\ v = view'[t] /\ p = plan'[t]
                              /\ c = course'[t]
  OBVIOUS
<1>2. step \in {"error", "absent"}
  BY <1>1 DEF Return, Goto, TypeOK, ThreadTypeOK
<1>3. Marked(r, step, v, p, c)'
  BY <1>2 DEF Marked, Steps, Creating
<1> QED BY <1>1, <1>3 DEF MarkedInv

(* A call that goes on has marked the load balancer if it changes anything,
   and keeps the mark. *)
LEMMA MarkedGoesOn ==
    ASSUME NEW t \in Thread, AtWork(t), MarkedInv(t),
           NEW step, NEW w, NEW q, pc'[t] = step, view'[t] = w, plan'[t] = q,
           step \notin {"get", "ok"},
           step = "listeners" /\ req[t].op = "update" => course'[t] # "touched",
           Creating(step, w) \/ step \in {"getnew", "fill"} => q.modify,
           plan[t].modify => q.modify,
           q.modify \/ UNCHANGED <<lbs, listeners, backends>>
    PROVE  MarkedInv(t)'
<1>1. PICK r, c : r = req[t] /\ c = course'[t]
  OBVIOUS
<1>2. course[t] = "touched" => plan[t].modify
  BY DEF MarkedInv, Marked, AtWork, Steps
<1>3. c = "touched" => q.modify
  BY <1>1, <1>2, TouchedBy
<1>4. Marked(r, step, w, q, c)'
  BY <1>1, <1>3 DEF Marked
<1> QED BY <1>1, <1>4 DEF MarkedInv, AtWork

LEMMA MarkedGoesWith ==
    ASSUME TypeOK, NEW t \in Thread, AtWork(t), MarkedInv(t), NEW step, NEW q,
           GotoWith(t, step, q), step \notin {"get", "ok"},
           step = "listeners" => req[t].op = "ensure",
           Creating(step, view[t]) \/ step \in {"getnew", "fill"} => q.modify,
           plan[t].modify => q.modify,
           q.modify \/ UNCHANGED <<lbs, listeners, backends>>
    PROVE  MarkedInv(t)'
<1>1. PICK w : w = view[t]
  OBVIOUS
<1>2. pc'[t] = step /\ view'[t] = w /\ plan'[t] = q
  BY <1>1, Arrives
<1> QED BY <1>1, <1>2, MarkedGoesOn

(* The lookup; a load balancer that is not there will be created. *)
LEMMA GetLoadBalancerMarks ==
    ASSUME TypeOK, NEW t \in Thread, AtWork(t), MarkedInv(t), GetLoadBalancer(t)
    PROVE  MarkedInv(t)'
<1>0. PICK r, p : r = req[t] /\ p = plan[t]
  OBVIOUS
<1> DEFINE o == r.obj
           f == FilterNodes(o.cfg, r.nodes, eps[o.svc])
<1>1. /\ pc[t] = "get" /\ UNCHANGED <<lbs, listeners, backends>>
      /\ r.op \in {"ensure", "update"} /\ p \in Plan
  BY <1>0 DEF GetLoadBalancer, Reject, Local, cloudVars, AtWork, TypeOK, ThreadTypeOK
<1>2. course'[t] # "touched"
  <2>1. course[t] # "touched"
    BY <1>0, <1>1 DEF MarkedInv, Marked
  <2> QED BY <1>1, <2>1, TouchedBy
<1>3. ASSUME NEW l, Found(t, l), l \in LB, ~Return(t, "error") PROVE MarkedInv(t)'
  <2>1. /\ view' = [view EXCEPT ![t] = ViewOf(l, o.svc)]
        /\ plan' = [plan EXCEPT ![t].sel = f.nodes, ![t].count = f.count]
        /\ Goto(t, IF r.op = "ensure" THEN "modify" ELSE "listeners")
    BY <1>0, <1>1, <1>3 DEF Found
  <2>2. PICK step, w, q : step = pc'[t] /\ w = view'[t] /\ q = plan'[t]
    OBVIOUS
  <2>3. q.modify = p.modify
    BY <1>0, <1>1, <2>1, <2>2 DEF TypeOK, ThreadTypeOK, Plan
  <2>4. step \in {"modify", "listeners"}
    BY <2>1, <2>2 DEF Goto, TypeOK, ThreadTypeOK
  <2> QED BY <1>0, <1>1, <1>2, <2>2, <2>3, <2>4, MarkedGoesOn DEF Creating
<1>4. ASSUME NotFound(t), ~Return(t, "error") PROVE MarkedInv(t)'
  <2> DEFINE q == [p EXCEPT !.sel = f.nodes, !.count = f.count, !.addEip = o.eipIDs,
                            !.addPort = o.ports, !.modify = TRUE]
  <2>1. GotoWith(t, CreateStep(o), q)
    BY <1>0, <1>1, <1>4 DEF NotFound
  <2>2. q.modify /\ CreateStep(o) \in {"create", "available", "allocate"}
    BY <1>1 DEF Plan, CreateStep, PrepareStep
  <2> HIDE DEF q
  <2> QED BY <2>1, <2>2, MarkedGoesWith
<1>5. Lookup(r.op, o) \subseteq LB
  BY LookupType
<1> QED BY <1>0, <1>1, <1>3, <1>4, <1>5, MarkedFails DEF GetLoadBalancer, Reject, Local

(* The load balancer's attributes and EIPs; only its attributes count. *)
LEMMA EipStepsMark ==
    ASSUME TypeOK, NEW t \in Thread, AtWork(t), MarkedInv(t), ThreadInv(t),
           \/ ModifyLB(t) \/ UpdateLBEip(t) \/ GetAvailableEIP(t) \/ AllocateEIP(t)
           \/ AssociateEIPs(t) \/ DissociateEIPs(t)
    PROVE  MarkedInv(t)'
<1>0. PICK r, v, p : r = req[t] /\ v = view[t] /\ p = plan[t]
  OBVIOUS
<1> DEFINE o == r.obj
           Still == UNCHANGED <<lbs, listeners, backends>>
<1>1. /\ p \in Plan /\ r.op \in {"ensure", "update"}
      /\ Creating(pc[t], v) => p.modify
  BY <1>0 DEF AtWork, TypeOK, ThreadTypeOK, MarkedInv, Marked, Steps
<1>2. KnowsLB(r, pc[t], v) /\ InOp(r, pc[t])
  BY <1>0 DEF AtWork, ThreadInv, Steps
<1>3. r.op = "ensure"
  BY <1>2 DEF InOp, Building, ModifyLB, UpdateLBEip, GetAvailableEIP, AllocateEIP,
              AssociateEIPs, DissociateEIPs
<1>4. CASE ModifyLB(t)
  <2>1. \/ Return(t, "error")
        \/ GotoWith(t, "eip", p) /\ Still
        \/ GotoWith(t, "eip", [p EXCEPT !.modify = TRUE])
    BY <1>0, <1>4 DEF ModifyLB, Call, Local, cloudVars
  <2>2. [p EXCEPT !.modify = TRUE].modify
    BY <1>1 DEF Plan
  <2>3. ~Creating("eip", v)
    BY DEF Creating
  <2>4. ASSUME NEW q, GotoWith(t, "eip", q), p.modify => q.modify, q.modify \/ Still
        PROVE  MarkedInv(t)'
    BY <1>0, <2>3, <2>4, MarkedGoesWith
  <2> QED BY <2>1, <2>2, <2>4, MarkedFails
<1>5. CASE UpdateLBEip(t)
  <2>1. \E step \in {"listeners", "available", "allocate", "associate", "dissociate"} : \E q :
           /\ GotoWith(t, step, q) /\ q.modify = p.modify
           /\ step \in {"available", "allocate"} => o.lbid = NoLB
    BY <1>0, <1>1, <1>5 DEF UpdateLBEip, Local, PrepareStep, Plan
  <2>2. Still
    BY <1>5 DEF UpdateLBEip, Local, cloudVars
  <2>3. o.lbid = NoLB => v.lb # NoLB
    BY <1>2, <1>5, CloudAssumption DEF UpdateLBEip, KnowsLB, Owns
  <2> QED BY <1>0, <1>3, <2>1, <2>2, <2>3, MarkedGoesWith DEF Creating
<1>6. ASSUME NEW e, UseEip(t, e), pc[t] \in {"available", "allocate"}, Still PROVE MarkedInv(t)'
  <2>1. \E step \in {"create", "associate"} : \E q :
           GotoWith(t, step, q) /\ q.modify = p.modify /\ (step = "create" => v.lb = NoLB)
    BY <1>0, <1>1, <1>6 DEF UseEip, Plan
  <2> QED BY <1>0, <1>1, <1>6, <2>1, MarkedGoesWith DEF Creating
<1>7. CASE GetAvailableEIP(t) \/ AllocateEIP(t)
  <2>1. \/ Return(t, "error") \/ \E e : UseEip(t, e)
        \/ GotoWith(t, "allocate", p) /\ pc[t] = "available"
    BY <1>0, <1>7 DEF GetAvailableEIP, AllocateEIP, Read, Call, Local, Reject
  <2>2. Still /\ pc[t] \in {"available", "allocate"}
    BY <1>7 DEF GetAvailableEIP, AllocateEIP, Read, Call, Local, Reject, AllocateEffect, cloudVars
  <2>3. ASSUME GotoWith(t, "allocate", p), pc[t] = "available" PROVE MarkedInv(t)'
    <3>1. Creating("allocate", v) => p.modify
      BY <1>1, <2>3 DEF Creating
    <3> QED BY <1>0, <2>2, <2>3, <3>1, MarkedGoesWith
  <2> QED BY <1>6, <2>1, <2>2, <2>3, MarkedFails
<1>8. CASE AssociateEIPs(t) \/ DissociateEIPs(t)
  <2>1. Return(t, "error") \/ \E step \in {"dissociate", "refresh"} : GotoWith(t, step, p)
    BY <1>0, <1>8 DEF AssociateEIPs, DissociateEIPs, Call
  <2>2. Still
    BY <1>8 DEF AssociateEIPs, DissociateEIPs, Call, AssociateEffect, DissociateEffect, cloudVars
  <2> QED BY <1>0, <2>1, <2>2, MarkedFails, MarkedGoesWith DEF Creating
<1> QED BY <1>4, <1>5, <1>7, <1>8

(* The load balancer is read again, or created. *)
LEMMA CreateLBMarks ==
    ASSUME TypeOK, NEW t \in Thread, AtWork(t), MarkedInv(t), ThreadInv(t),
           RefreshStatus(t) \/ CreateLB(t)
    PROVE  MarkedInv(t)'
<1>0. PICK p : p = plan[t]
  OBVIOUS
<1>1. CASE RefreshStatus(t) /\ ~Return(t, "error")
  <2>1. /\ Goto(t, "listeners") /\ UNCHANGED plan /\ UNCHANGED <<lbs, listeners, backends>>
        /\ pc[t] = "refresh"
    BY <1>1 DEF RefreshStatus, Read, Local, cloudVars
  <2>2. req[t].op = "ensure"
    BY <2>1 DEF ThreadInv, InOp, Building
  <2>3. PICK w : w = view'[t]
    OBVIOUS
  <2>4. pc'[t] = "listeners" /\ plan'[t] = p
    BY <1>0, <2>1 DEF Goto, TypeOK, ThreadTypeOK
  <2>5. ~Creating("listeners", w)
    BY DEF Creating
  <2> QED BY <1>0, <2>1, <2>2, <2>3, <2>4, <2>5, MarkedGoesOn
<1>2. CASE CreateLB(t) /\ ~Return(t, "error")
  <2>1. Goto(t, "addlsn") /\ UNCHANGED plan /\ pc[t] = "create"
    BY <1>2 DEF CreateLB, Call, Local, Reject
  <2>2. p.modify
    BY <1>0, <2>1 DEF MarkedInv, Marked, AtWork, Creating
  <2>3. PICK w : w = view'[t]
    OBVIOUS
  <2>4. pc'[t] = "addlsn" /\ plan'[t] = p
    BY <1>0, <2>1 DEF Goto, TypeOK, ThreadTypeOK
  <2>5. ~Creating("addlsn", w)
    BY DEF Creating
  <2> QED BY <1>0, <2>2, <2>3, <2>4, <2>5, MarkedGoesOn
<1> QED BY <1>1, <1>2, MarkedFails

(* A call that returns success without UpdateLB has changed nothing. *)
LEMMA MarkedSucceeds ==
    ASSUME TypeOK, NEW t \in Thread, Return(t, "ok"),
           course'[t] # "touched" \/ (view[t].lb \in LB /\ lbs'[view[t].lb].applied)
    PROVE  MarkedInv(t)'
<1>1. PICK r, step, v, p, c : /\ r = req'[t] /\ step = pc'[t] /\ v = view'[t] /\ p = plan'[t]
                              /\ c = course'[t]
  OBVIOUS
<1>2. step = "ok" /\ v.lb = view[t].lb
  BY <1>1 DEF Return, Goto, NoView, TypeOK, ThreadTypeOK
<1>3. Marked(r, step, v, p, c)'
  BY <1>1, <1>2 DEF Marked, Steps, Creating
<1> QED BY <1>1, <1>3 DEF MarkedInv

(* The listeners. *)
LEMMA ListenerStepsMark ==
    ASSUME TypeOK, NEW t \in Thread, AtWork(t), MarkedInv(t), ThreadInv(t),
           \/ GetListeners(t) \/ DeleteListener(t) \/ CreateListener(t) \/ GetNewListeners(t)
    PROVE  MarkedInv(t)'
<1>0. PICK r, v, p : r = req[t] /\ v = view[t] /\ p = plan[t]
  OBVIOUS
<1> DEFINE Still == UNCHANGED <<lbs, listeners, backends>>
<1>1. p \in Plan /\ r.op \in {"ensure", "update"}
  BY <1>0 DEF AtWork, TypeOK, ThreadTypeOK
<1>2. ASSUME NEW step \in {"dellsn", "addlsn", "sync", "getnew", "fill", "hang"}, NEW q,
             GotoWith(t, step, q), q.modify \/ (q.modify = p.modify /\ Still),
             step \in {"getnew", "fill"} => q.modify
      PROVE  MarkedInv(t)'
  BY <1>0, <1>2, MarkedGoesWith DEF Creating
<1>3. CASE GetListeners(t)
  <2>1. Still /\ pc[t] = "listeners"
    BY <1>3 DEF GetListeners, Read, Local, cloudVars
  <2>2. \/ Return(t, "error")
        \/ Return(t, "ok") /\ r.op = "update"
        \/ \E step \in {"dellsn", "addlsn", "sync"} : \E q :
              GotoWith(t, step, q) /\ (q.modify \/ q.modify = p.modify)
    <3> DEFINE all(ps) == [p EXCEPT !.addPort = ps, !.modify = TRUE]
               kept(xs, bs) == [p EXCEPT !.todo = xs, !.snap = bs]
               diff(ds, ps, xs, bs) == [p EXCEPT !.delLsn = ds, !.addPort = ps, !.todo = xs,
                                                 !.snap = bs]
    <3>1. /\ \A ps : all(ps).modify
          /\ \A xs, bs : kept(xs, bs).modify = p.modify
          /\ \A ds, ps, xs, bs : diff(ds, ps, xs, bs).modify = p.modify
      BY <1>1 DEF Plan
    <3>2. \/ Return(t, "error")
          \/ Return(t, "ok") /\ r.op = "update"
          \/ \E ps : GotoWith(t, "addlsn", all(ps))
          \/ \E xs, bs : GotoWith(t, "sync", kept(xs, bs))
          \/ \E step \in {"dellsn", "addlsn"} : \E ds, ps, xs, bs :
                GotoWith(t, step, diff(ds, ps, xs, bs))
      <4>1. PICK mine, own, bs : ListenersRead(t, r, p, mine, own, bs)
        BY <1>0, <1>3, GetListenersReads, Zenon
      <4>3. ASSUME NEW first,
                   LET d == DiffListeners(own, first, r.obj.ports)
                   IN  GotoWith(t, IF d.del # {} THEN "dellsn" ELSE "addlsn",
                                [p EXCEPT !.delLsn = d.del, !.addPort = d.add,
                                          !.todo = d.keep, !.snap = bs])
            PROVE  \E step \in {"dellsn", "addlsn"} : \E ds, ps, xs :
                      GotoWith(t, step, diff(ds, ps, xs, bs))
        BY <4>3
      <4> HIDE DEF all, kept, diff
      <4>4. \/ Return(t, "ok") /\ r.op = "update"
            \/ GotoWith(t, "addlsn", [p EXCEPT !.addPort = r.obj.ports, !.modify = TRUE])
            \/ GotoWith(t, "sync", [p EXCEPT !.todo = own, !.snap = bs])
            \/ Return(t, "error")
            \/ \E first :
                  LET d == DiffListeners(own, first, r.obj.ports)
                  IN  GotoWith(t, IF d.del # {} THEN "dellsn" ELSE "addlsn",
                               [p EXCEPT !.delLsn = d.del, !.addPort = d.add,
                                         !.todo = d.keep, !.snap = bs])
        BY <4>1, Zenon DEF ListenersRead
      <4>5. \/ \E ps : GotoWith(t, "addlsn", all(ps))
            \/ ~GotoWith(t, "addlsn", [p EXCEPT !.addPort = r.obj.ports, !.modify = TRUE])
        BY DEF all
      <4>6. \/ \E xs, cs : GotoWith(t, "sync", kept(xs, cs))
            \/ ~GotoWith(t, "sync", [p EXCEPT !.todo = own, !.snap = bs])
        BY DEF kept
      <4> QED BY <4>3, <4>4, <4>5, <4>6, Zenon
    <3> HIDE DEF all, kept, diff
    <3> QED BY <3>1, <3>2
  <2>3. r.op = "update" => course'[t] # "touched"
    <3>1. r.op = "update" => course[t] # "touched"
      BY <1>0, <2>1 DEF MarkedInv, Marked
    <3> QED BY <2>1, <3>1, TouchedBy
  <2> QED BY <1>2, <2>1, <2>2, <2>3, MarkedFails, MarkedSucceeds
<1>4. CASE DeleteListener(t)
  <2>1. Return(t, "error") \/ GotoWith(t, "addlsn", [p EXCEPT !.modify = TRUE])
    BY <1>0, <1>1, <1>4 DEF DeleteListener, Call
  <2>2. [p EXCEPT !.modify = TRUE].modify
    BY <1>1 DEF Plan
  <2> QED BY <1>2, <2>1, <2>2, MarkedFails
<1>5. CASE CreateListener(t)
  <2>1. \/ Return(t, "error")
        \/ GotoWith(t, "sync", p) /\ Still
        \/ \E q : GotoWith(t, "getnew", q) /\ q.modify
    <3>1. \A xs : [p EXCEPT !.new = xs, !.modify = TRUE].modify
      BY <1>1 DEF Plan
    <3> QED BY <1>0, <1>5, <3>1 DEF CreateListener, Call, Local, Reject, cloudVars
  <2> QED BY <1>2, <2>1, MarkedFails
<1>6. CASE GetNewListeners(t)
  <2>1. pc[t] = "getnew" /\ Still
    BY <1>6 DEF GetNewListeners, Read, Local, cloudVars
  <2>2. p.modify
    BY <1>0, <2>1 DEF MarkedInv, Marked, AtWork
  <2>3. \/ Return(t, "error")
        \/ GotoWith(t, "hang", p)
        \/ \E q : GotoWith(t, "fill", q) /\ q.modify = p.modify
    <3> DEFINE read(xs, ns, bs) == [p EXCEPT !.new = xs, !.addNode = ns, !.snap = bs]
    <3>1. \A xs, ns, bs : read(xs, ns, bs).modify = p.modify
      BY <1>1 DEF Plan
    <3>2. \/ Return(t, "error")
          \/ GotoWith(t, "hang", p)
          \/ \E xs, ns, bs : GotoWith(t, "fill", read(xs, ns, bs))
      BY <1>0, <1>6 DEF GetNewListeners, Read, Local
    <3> HIDE DEF read
    <3> QED BY <3>1, <3>2
  <2> QED BY <1>2, <2>2, <2>3, MarkedFails
<1> QED BY <1>3, <1>4, <1>5, <1>6

(* The backends, and the decision whether there is anything to apply. *)
LEMMA BackendStepsMark ==
    ASSUME TypeOK, NEW t \in Thread, AtWork(t), MarkedInv(t),
           \/ FillListener(t) \/ SyncListener(t) \/ DeleteBackends(t) \/ AddBackends(t)
           \/ UpdateLB(t)
    PROVE  MarkedInv(t)'
<1>0. PICK p : p = plan[t]
  OBVIOUS
<1>1. p \in Plan
  BY <1>0 DEF TypeOK, ThreadTypeOK
<1>2. ASSUME NEW step \in {"fill", "sync", "delbk", "addbk", "apply", "hang"}, NEW q,
             GotoWith(t, step, q),
             q.modify \/ (q.modify = p.modify /\ UNCHANGED <<lbs, listeners, backends>>),
             step = "fill" => q.modify
      PROVE  MarkedInv(t)'
  BY <1>0, <1>2, MarkedGoesWith DEF Creating
<1>3. ASSUME NEW x, NEW ns, NEW step \in {"fill", "sync"}, NEW q,
             CreateBackends(t, x, ns, GotoWith(t, step, q)), q.modify
      PROVE  MarkedInv(t)'
  BY <1>2, <1>3, CreateBackendsAdds, MarkedFails
<1>4. CASE FillListener(t)
  <2>1. p.modify
    BY <1>0, <1>4 DEF FillListener, MarkedInv, Marked, AtWork
  <2>2. \/ \E q : GotoWith(t, "sync", q) /\ q.modify
        \/ \E x, q : CreateBackends(t, x, p.addNode, GotoWith(t, "fill", q)) /\ q.modify
    <3>1. /\ \A ns : [p EXCEPT !.addNode = ns].modify
          /\ \A xs : [p EXCEPT !.new = xs].modify
      BY <1>1, <2>1 DEF Plan
    <3> QED BY <1>0, <1>4, <3>1 DEF FillListener, Local
  <2> QED BY <1>2, <1>3, <2>2
<1>5. CASE SyncListener(t)
  <2>1. UNCHANGED <<lbs, listeners, backends>> /\ pc[t] = "sync"
    BY <1>5 DEF SyncListener, Local, Reject, cloudVars
  <2>2. \/ Return(t, "error")
        \/ Return(t, "ok") /\ ~p.modify
        \/ \E step \in {"sync", "delbk", "addbk", "apply", "hang"} : \E q :
              GotoWith(t, step, q) /\ q.modify = p.modify
    <3>1. \A x, d : [p EXCEPT !.todo = p.todo \ {x}, !.cur = x, !.delBk = d.del,
                              !.addNode = d.add].modify = p.modify
      BY <1>1 DEF Plan
    <3> QED BY <1>0, <1>5, <3>1 DEF SyncListener, Local, Reject
  <2>3. ~p.modify => course'[t] # "touched"
    <3>1. course[t] = "touched" => p.modify
      BY <1>0 DEF MarkedInv, Marked, AtWork, Steps
    <3> QED BY <2>1, <3>1, TouchedBy
  <2> QED BY <1>2, <2>1, <2>2, <2>3, MarkedFails, MarkedSucceeds
<1>6. CASE DeleteBackends(t)
  <2>1. \/ Return(t, "error")
        \/ \E step \in {"addbk", "sync"} : \E q : GotoWith(t, step, q) /\ q.modify
    <3>1. \A bs : [p EXCEPT !.delBk = bs, !.modify = TRUE].modify
      BY <1>1 DEF Plan
    <3> QED BY <1>0, <1>6, <3>1 DEF DeleteBackends, Call
  <2> QED BY <1>2, <2>1, MarkedFails
<1>7. CASE AddBackends(t)
  <2>1. \E x, q : CreateBackends(t, x, p.addNode, GotoWith(t, "sync", q)) /\ q.modify
    <3>1. \A ns : [p EXCEPT !.addNode = ns, !.modify = TRUE].modify
      BY <1>1 DEF Plan
    <3> QED BY <1>0, <1>7, <3>1 DEF AddBackends
  <2> QED BY <1>3, <2>1
<1>8. CASE UpdateLB(t)
  <2>1. \/ Return(t, "error")
        \/ Exists(view[t].lb) /\ UpdateLBEffect(view[t].lb) /\ Return(t, "ok")
    BY <1>8 DEF UpdateLB, Call
  <2>2. Exists(view[t].lb) /\ UpdateLBEffect(view[t].lb)
        => view[t].lb \in LB /\ lbs'[view[t].lb].applied
    BY DEF Exists, UpdateLBEffect, TypeOK, CloudTypeOK, LBRecord
  <2> QED BY <2>1, <2>2, MarkedFails, MarkedSucceeds
<1> QED BY <1>4, <1>5, <1>6, <1>7, <1>8

(* A step of the call. *)
LEMMA MarkedStep ==
    ASSUME TypeOK, NEW t \in Thread, MarkedInv(t), ThreadInv(t), Step(t),
           course'[t] = Recorded(t)
    PROVE  MarkedInv(t)'
<1>1. pc[t] \in Steps /\ pc[t] # "idle" /\ req' = req
  BY StepMoves DEF OnlyMoves, Steps
<1>2. CASE req[t].op \notin {"ensure", "update"}
  BY <1>1, <1>2 DEF MarkedInv
<1>3. CASE req[t].op \in {"ensure", "update"}
  <2>1. AtWork(t)
    BY <1>1, <1>3 DEF AtWork
  <2>2. ~DeleteLB(t) /\ ~ReleaseEIP(t)
    BY <1>1, <1>3 DEF ThreadInv, InOp, DeleteLB, ReleaseEIP
  <2> QED BY <2>1, <2>2, GetLoadBalancerMarks, EipStepsMark, CreateLBMarks, ListenerStepsMark,
             BackendStepsMark DEF Step
<1> QED BY <1>2, <1>3

(* A thread that has the same call at the same step stays where it was, unless
   its load balancer is changed. *)
LEMMA MarkedSame ==
    ASSUME NEW t \in Thread, MarkedInv(t), \A l \in LB : lbs[l].applied => lbs'[l].applied,
           pc'[t] = pc[t], req'[t] = req[t], view'[t] = view[t], plan'[t] = plan[t],
           course'[t] = course[t]
    PROVE  MarkedInv(t)'
<1>1. PICK r, v, p, step, c : /\ r = req[t] /\ v = view[t] /\ p = plan[t] /\ step = pc[t]
                              /\ c = course[t]
  OBVIOUS
<1>2. Marked(r, step, v, p, c) => Marked(r, step, v, p, c)'
  BY DEF Marked
<1> QED BY <1>1, <1>2 DEF MarkedInv

(* A call that only asks leaves applied what is applied. *)
LEMMA ExistsApplied ==
    ASSUME TypeOK, NEW t \in Thread, ThreadInv(t), req[t].op = "exists", Step(t)
    PROVE  \A l \in LB : lbs[l].applied => lbs'[l].applied
<1>1. pc[t] \in Steps /\ pc[t] # "idle" /\ InOp(req[t], pc[t])
  BY StepMoves DEF ThreadInv, Steps
<1>2. pc[t] \in {"get", "apply"}
  BY <1>1 DEF InOp, Building, Steps, Builds
<1>3. GetLoadBalancer(t) \/ UpdateLB(t)
  BY <1>2 DEF Step, ModifyLB, UpdateLBEip, GetAvailableEIP, AllocateEIP, AssociateEIPs,
              DissociateEIPs, RefreshStatus, CreateLB, GetListeners, DeleteListener,
              CreateListener, GetNewListeners, FillListener, SyncListener, DeleteBackends,
              AddBackends, DeleteLB, ReleaseEIP
<1>4. lbs' = lbs \/ \E l : UpdateLBEffect(l)
  BY <1>3 DEF GetLoadBalancer, Reject, Local, UpdateLB, Call, cloudVars
<1> QED BY <1>4 DEF UpdateLBEffect, TypeOK, CloudTypeOK, LBRecord

LEMMA MarkedNext ==
    ASSUME TypeOK, TypeOK', ContractInv, OneCaller, \A t \in Thread : MarkedInv(t),
           [RetryNext]_<<vars, course>>
    PROVE  \A t \in Thread : MarkedInv(t)'
<1>1. ASSUME RetryNext, NEW t \in Thread PROVE course'[t] = Recorded(t)
  BY <1>1 DEF RetryNext
<1>2. ASSUME RetryNext, NEW t \in Thread, Step(t), NEW u \in Thread PROVE MarkedInv(u)'
  <2>1. pc[t] # "idle" /\ OnlyMoves(t) /\ ThreadInv(t)
    BY <1>2, StepMoves DEF Steps, ContractInv
  <2>2. CASE u = t
    BY <1>1, <1>2, <2>1, <2>2, MarkedStep
  <2>3. CASE u # t
    <3>1. pc'[u] = pc[u] /\ req' = req /\ view'[u] = view[u] /\ plan'[u] = plan[u]
      BY <2>1, <2>3 DEF OnlyMoves
    <3>2. course'[u] = course[u]
      BY <1>1, <1>2, <3>1 DEF Recorded
    <3>3. CASE req[t].op = "exists"
      BY <1>2, <2>1, <3>1, <3>2, <3>3, ExistsApplied, MarkedSame
    <3>4. CASE req[t].op # "exists"
      <4>1. pc[u] # "idle" => req[u].op \in Ops[u] /\ Ops[u] \subseteq {"exists"}
        BY <2>1, <2>3, <3>4 DEF ContractInv, ThreadInv, OneCaller
      <4> QED BY <3>1, <4>1 DEF MarkedInv
    <3> QED BY <3>3, <3>4
  <2> QED BY <2>2, <2>3
<1>3. ASSUME RetryNext, NEW t \in Thread, Start(t), NEW u \in Thread PROVE MarkedInv(u)'
  <2>1. /\ pc' = [pc EXCEPT ![t] = "get"] /\ plan' = [plan EXCEPT ![t] = NoPlan]
        /\ view' = [view EXCEPT ![t] = NoView] /\ \E r : req' = [req EXCEPT ![t] = r]
        /\ UNCHANGED lbs
    BY <1>3 DEF Start, Goto, cloudVars
  <2>2. CASE u = t
    <3>1. pc[t] # "get" /\ pc'[t] = "get" /\ ~Busy(t)
      BY <1>3, <2>1 DEF Start, Busy, Steps, TypeOK, ThreadTypeOK
    <3>2. course'[t] = "untouched"
      BY <1>1, <1>3, <3>1 DEF Recorded
    <3>3. PICK r, v, p : r = req'[t] /\ v = view'[t] /\ p = plan'[t]
      OBVIOUS
    <3>4. Marked(r, "get", v, p, "untouched")'
      BY DEF Marked, Creating
    <3> QED BY <2>2, <3>1, <3>2, <3>3, <3>4 DEF MarkedInv
  <2>3. CASE u # t
    <3>1. /\ pc'[u] = pc[u] /\ req'[u] = req[u] /\ view'[u] = view[u]
          /\ plan'[u] = plan[u]
      BY <2>1, <2>3 DEF TypeOK, ThreadTypeOK
    <3>2. course'[u] = course[u]
      BY <1>1, <1>3, <3>1 DEF Recorded
    <3> QED BY <2>1, <3>1, <3>2, MarkedSame
  <2> QED BY <2>2, <2>3
<1>4. ASSUME (RetryNext /\ \E s \in Service : EndpointsChange(s)) \/ UNCHANGED <<vars, course>>,
             NEW u \in Thread
      PROVE  MarkedInv(u)'
  <2>1. UNCHANGED lbs /\ UNCHANGED threadVars
    BY <1>4 DEF EndpointsChange, vars, cloudVars
  <2>2. course'[u] = course[u]
    BY <1>1, <1>4, <2>1 DEF Recorded, threadVars
  <2> QED BY <2>1, <2>2, MarkedSame DEF threadVars
<1> QED BY <1>2, <1>3, <1>4 DEF RetryNext, Next

(* Whatever was left behind by calls before, an ensure or update that changes
   listeners, backends or the load balancer and returns success has its
   changes applied. *)
THEOREM OwnChangesAppliedKept == OneCaller => (RetrySpec => []OwnChangesApplied)
<1> SUFFICES ASSUME OneCaller PROVE RetrySpec => []OwnChangesApplied
  OBVIOUS
<1> DEFINE MarksInv == \A t \in Thread : MarkedInv(t)
<1>1. Init => OwnershipInv /\ ContractInv /\ MarksInv
  BY InitType, OwnershipInit, ContractInit DEF Init, MarkedInv
<1>2. /\ TypeOK /\ TypeOK' /\ OwnershipInv /\ ContractInv /\ MarksInv
      /\ [RetryNext]_<<vars, course>>
      => OwnershipInv' /\ ContractInv' /\ MarksInv'
  BY RetryImplies, OwnershipNext, ContractNext, MarkedNext DEF OneCaller
<1>3. MarksInv => OwnChangesApplied
  BY DEF OwnChangesApplied, MarkedInv, Marked
<1>4. [RetryNext]_<<vars, course>> => [Next]_vars
  BY RetryImplies
<1>5. RetryInit => Init
  BY RetryImplies
<1> HIDE DEF MarksInv
<1> QED BY <1>1, <1>2, <1>3, <1>4, <1>5, TypeCorrect, PTL DEF Spec, RetrySpec
=============================================================================
