----------------------------- MODULE ServiceLB ------------------------------
(***************************************************************************)
(* What a caller of the provider may rely on, without the calls it is made *)
(* of: which load balancers, listeners, backends and EIPs a running call   *)
(* of EnsureLoadBalancer, UpdateLoadBalancer, EnsureLoadBalancerDeleted or *)
(* GetLoadBalancer is entitled to change.                                  *)
(*                                                                         *)
(* The caller's part is to have one call at a time that builds or removes  *)
(* something; calls of UpdateLoadBalancer run beside it.  A call may end   *)
(* after any of its changes: it fails, and is retried.                     *)
(***************************************************************************)
EXTENDS FiniteSets

CONSTANTS
    Thread, Service, LB, UserLB, EIP, UserEIP, PortNo, Node,
    User,             \* owner of what was made by hand
    Anon,             \* owner of a load balancer without a name
    NoJob             \* the thread is not in a call

VARIABLES
    owner,            \* owner[l]: whose name the load balancer carries
    ports,            \* the open ports: load balancer, service and number
    targets,          \* the nodes behind each open port
    place,            \* where each EIP is
    job               \* job[t]: operation and service of the running call

contractVars == <<owner, ports, targets, place, job>>

Job == [op: {"ensure", "update", "delete", "exists"}, svc: Service]
OpenPort == [lb: LB, svc: Service \cup {User}, port: PortNo]

Init ==
    /\ owner = [l \in LB |-> IF l \in UserLB THEN User ELSE "unborn"]
    /\ ports \subseteq [lb: UserLB, svc: {User}, port: PortNo]
    /\ targets = {}
    /\ place = [e \in EIP |-> IF e \in UserEIP THEN "free" ELSE "unborn"]
    /\ job = [t \in Thread |-> NoJob]

Structural(j) == j # NoJob /\ j.op \in {"ensure", "delete"}

Begin(t) ==
    /\ job[t] = NoJob
    /\ \E j \in Job :
          /\ Structural(j) => \A u \in Thread : ~Structural(job[u])
          /\ job' = [job EXCEPT ![t] = j]
    /\ UNCHANGED <<owner, ports, targets, place>>

-----------------------------------------------------------------------------
Move(es, to) == place' = [e \in EIP |-> IF e \in es THEN to ELSE place[e]]
At(where) == { e \in EIP : place[e] = where }

(* A service gets one load balancer of its name, with EIPs nobody uses. *)
Create(s) ==
    /\ \E l \in LB, n \in {s, Anon}, es \in SUBSET At("free") :
          /\ owner[l] = "unborn"
          /\ n = s => \A k \in LB : owner[k] # s
          /\ owner' = [owner EXCEPT ![l] = n]
          /\ Move(es, l)
    /\ UNCHANGED <<ports, targets>>

(* New EIPs, and EIPs to and from the service's own load balancer. *)
MoveEIPs(s) ==
    /\ \/ \E e \in At("unborn") : Move({e}, "free")
       \/ \E l \in LB :
            /\ owner[l] = s
            /\ \/ \E es \in SUBSET At("free") : Move(es, l)
               \/ \E es \in SUBSET At(l) : Move(es, "free")
    /\ UNCHANGED <<owner, ports, targets>>

Open(s) ==
    /\ \E l \in LB, ns \in SUBSET PortNo :
          /\ owner[l] \notin {"unborn", "gone"}
          /\ \A x \in ports : x.lb = l => x.port \notin ns
          /\ ports' = ports \cup [lb: {l}, svc: {s}, port: ns]
    /\ UNCHANGED <<owner, targets, place>>

(* Only the service's own ports are closed. *)
Close(s) ==
    /\ \E xs \in SUBSET { x \in ports : x.svc = s } :
          /\ ports' = ports \ xs
          /\ targets' = { b \in targets : b.at \notin xs }
    /\ UNCHANGED <<owner, place>>

(* Only what is behind the service's own ports changes. *)
Retarget(s) ==
    /\ targets' \subseteq [at: ports, node: Node]
    /\ \A b \in (targets \cup targets') : b.at.svc # s => b \in targets /\ b \in targets'
    /\ UNCHANGED <<owner, ports, place>>

(* A load balancer goes only with nobody else's port on it. *)
Drop(s) ==
    \E l \in LB :
        /\ owner[l] = s
        /\ \A x \in ports : x.lb = l => x.svc = s
        /\ owner' = [owner EXCEPT ![l] = "gone"]
        /\ ports' = { x \in ports : x.lb # l }
        /\ targets' = { b \in targets : b.at.lb # l }
        /\ Move(At(l), "free")

(* An EIP the user owns is never given back. *)
Release ==
    /\ \E es \in SUBSET (At("free") \ UserEIP) : Move(es, "gone")
    /\ UNCHANGED <<owner, ports, targets>>

Nothing == UNCHANGED <<owner, ports, targets, place>>

Change(j) ==
    \/ Nothing
    \/ j.op \in {"ensure", "update"} /\ Retarget(j.svc)
    \/ j.op \in {"ensure", "delete"} /\ Close(j.svc)
    \/ j.op = "ensure" /\ (Create(j.svc) \/ MoveEIPs(j.svc) \/ Open(j.svc))
    \/ j.op = "delete" /\ (Drop(j.svc) \/ Release)

(* The next change of a call, which may be its last. *)
Work(t) ==
    /\ job[t] # NoJob
    /\ Change(job[t])
    /\ UNCHANGED job \/ job' = [job EXCEPT ![t] = NoJob]

Next == \E t \in Thread : Begin(t) \/ Work(t)

Spec == Init /\ [][Next]_contractVars
=============================================================================
