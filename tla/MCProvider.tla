----------------------------- MODULE MCProvider -----------------------------
(***************************************************************************)
(* Finite instances of Provider: the versions of the Service objects each  *)
(* run lets the controllers pass to the provider.                          *)
(***************************************************************************)
EXTENDS ProviderContract

CONSTANTS s1, s2, l1, l2, l3, n1, n2, n3, n4, n5, a1, a2, e1, e2, e3,
          la, lbad, x1, x2, t1, t2

Port(p, np) == [port |-> p, np |-> np, attr |-> la]

AllNodes == [local |-> FALSE, label |-> NoLabel, counted |-> FALSE, count |-> 0]
Counted(k) == [AllNodes EXCEPT !.counted = TRUE, !.count = k]
LocalOnly == [AllNodes EXCEPT !.local = TRUE]
Labelled(x) == [AllNodes EXCEPT !.label = x]

(* A service with a load balancer of its own in the default vxnet. *)
Base(s) ==
    [svc |-> s, parses |-> TRUE, strategy |-> "exclusive", lbid |-> NoLB,
     ports |-> {Port(80, 30080)}, cfg |-> AllNodes, eipIDs |-> {},
     source |-> "none", replace |-> FALSE, internal |-> TRUE, vxnet |-> TRUE,
     attr |-> NoAttr]

Reusing(o, l) == [o EXCEPT !.strategy = "reuse-lb", !.lbid = l]
OnPort(o, p) == [o EXCEPT !.ports = {p}]
Public(o) == [o EXCEPT !.internal = FALSE, !.vxnet = FALSE]
Given(o, e) == [Public(o) EXCEPT !.eipIDs = {e}, !.replace = TRUE]
FromSource(o, src) == [Public(o) EXCEPT !.source = src]

NoLabels == [x \in Label |-> {}]
UserPort == {[lb |-> l1, svc |-> User, port |-> 443, attr |-> la, gen |-> 0]}

FewNodes == {{n1}, {n1, n2}}
FewEndpoints == {{n1}, {n2}, NoEndpoints}
NoEps == {NoEndpoints}

EnsureDelete == [t \in Thread |-> {"ensure", "delete"}]
EnsureUpdate == [t \in Thread |-> {"ensure", "update"}]
ExistsEnsure == [t \in Thread |-> {"exists", "ensure"}]
WorkerUpdater == [t \in Thread |-> IF t \in Worker THEN {"ensure", "delete"}
                                                  ELSE {"update"}]
AnyOp == [t \in Thread |-> Operation]

(* recovery: ports come and go, change their node port or cannot be made
   into a listener, traffic policy and attributes change. *)
RecoveryObjects ==
    { [Base(s1) EXCEPT !.ports = {Port(80, 30080), Port(443, 30443)}],
      [OnPort(Base(s1), Port(80, 30081)) EXCEPT !.cfg = LocalOnly, !.attr = a2],
      OnPort(Base(s1), [Port(443, 30443) EXCEPT !.attr = lbad]),
      [Base(s1) EXCEPT !.parses = FALSE],
      [Base(s1) EXCEPT !.strategy = "reuse"] }

(* selection: every way of narrowing down five nodes. *)
Labels == [x \in Label |-> IF x = x1 THEN {n1, n2} ELSE {}]
SelectionObjects ==
    { [Base(s1) EXCEPT !.cfg = c] :
        c \in {AllNodes, Counted(2), Counted(9), Labelled(x1), Labelled(x2),
              Labelled(BadLabel), LocalOnly} }
ManyNodes == {{}, {n2, n3, n4}, {n2, n3, n4, n5}, Node}
SomeEndpoints == {{n2, n3}, NoEndpoints}

(* eips: a service changes the way it gets its EIP. *)
EipObjects ==
    { FromSource(Base(s1), "allocate"), FromSource(Base(s1), "use-available"),
      FromSource(Base(s1), "auto"), Base(s1),
      Given(Base(s1), e1) }

(* eip_use: s1 takes a free EIP or allocates one, s2 moves between two of the user's. *)
AllocatingObjects ==
    { FromSource(Base(s1), "auto"), Given(Base(s2), e1), Given(Base(s2), e2) }
AllocateObject == { FromSource(Base(s1), "allocate") }

(* shared: s1 owns a load balancer, with the user's EIP or a new one, that s2
   may reuse; or s2 reuses the user's. *)
SharedObjects ==
    { FromSource(Base(s1), "auto"), Reusing(Base(s2), l1),
      OnPort(Reusing(Base(s2), l2), Port(443, 30443)) }

(* Instances of the runs that show a disagreement. *)
OneObject == { Base(s1) }
IgnoredId == { [Base(s1) EXCEPT !.lbid = l1] }
MissingId == { [Base(s1) EXCEPT !.lbid = l3] }
ReusedAttr == { [Reusing(Base(s1), l1) EXCEPT !.attr = a2] }
ReuseOfOwned == { Base(s1), OnPort(Reusing(Base(s2), l1), Port(443, 30443)) }
=============================================================================
