-------------------------- MODULE ProviderContract --------------------------
(***************************************************************************)
(* The provider keeps the contract of ServiceLB, as long as only one of    *)
(* its threads calls EnsureLoadBalancer and EnsureLoadBalancerDeleted.     *)
(***************************************************************************)
EXTENDS Provider

(* The value of a thread that has not been called is not a job. *)
ASSUME ContractAssumption == NoRequest \notin [op: Operation, svc: Service]

PortOf(x) == [lb |-> x.lb, svc |-> x.svc, port |-> x.port]
TargetOf(b) == [at |-> PortOf(b.lsn), node |-> b.node]
JobOf(t) == IF Busy(t) THEN [op |-> req[t].op, svc |-> req[t].obj.svc] ELSE NoRequest

owner == [l \in LB |-> lbs[l].name]
job == [t \in Thread |-> JobOf(t)]

Contract == INSTANCE ServiceLB WITH
    ports <- { PortOf(x) : x \in listeners },
    targets <- { TargetOf(b) : b \in backends },
    place <- eips, NoJob <- NoRequest

(* Whatever fails and however updates interleave with it, a call changes only
   what its operation entitles it to: its own service's listeners and
   backends, a load balancer of its own that nobody else uses, the EIPs of
   that load balancer and those the controller manager allocated itself. *)
KeepsContract == Contract!Spec
=============================================================================
