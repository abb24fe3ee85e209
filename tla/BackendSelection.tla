-------------------------- MODULE BackendSelection --------------------------
(***************************************************************************)
(* Which nodes of the cluster become backends of a listener.               *)
(*                                                                         *)
(* filterNodes narrows the nodes a controller passes in down to the        *)
(* candidates and decides how many of them are wanted (0: all of them);    *)
(* diffBackend compares the candidates with the backends a listener        *)
(* already has.  Both are pure except for the random choices, which are    *)
(* modelled by the set of their possible results.                          *)
(*                                                                         *)
(* A backend is identified with the node whose instance id its name holds. *)
(* QingCloud instance ids all have one length, so the code's               *)
(* strings.Contains(name, id) relates a name to one node.                  *)
(***************************************************************************)
EXTENDS Integers, FiniteSets

CONSTANTS
    Node,             \* nodes of the cluster
    Label,            \* well-formed values of the backend-label annotation
    NodesWith,        \* NodesWith[l]: the nodes that carry label l
    NoLabel,          \* the service has no backend-label annotation
    BadLabel,         \* an annotation parseBackendLabel rejects
    NoEndpoints       \* the endpoint cache has no object for the service

ASSUME NodeAssumption == IsFiniteSet(Node)

ASSUME LabelAssumption ==
    /\ NodesWith \in [Label -> SUBSET Node]
    /\ NoLabel \notin Label /\ BadLabel \notin Label /\ NoLabel # BadLabel

DefaultBackendCount == 3

(* One third of the nodes but at least 3; all of up to 3 nodes (0). *)
GetDefaultBackendCount(nodes) ==
    LET len == Cardinality(nodes)
    IN  IF len > 3
        THEN IF len \div 3 < 3 THEN DefaultBackendCount ELSE len \div 3
        ELSE 0

(* The subsets getRandomNodes and GetRandomItems may return.  There are
   none when more items are asked for than there are: the loop of the code
   then never ends (or rand.Int panics on an empty slice). *)
RandomItems(items, count) == { r \in SUBSET items : Cardinality(r) = count }

(* Mutant of WantedCount: the count annotation is not compared with the
   number of nodes. *)
WantedCountUnbounded(cfg, nodes) ==
    IF cfg.label = NoLabel /\ ~cfg.counted THEN 0
    ELSE IF cfg.label = NoLabel /\ cfg.count > 0 THEN cfg.count
    ELSE GetDefaultBackendCount(nodes)

(* How many backends a service with externalTrafficPolicy Cluster wants
   when no node carries its label; 0 means every node. *)
WantedCount(cfg, nodes) ==
    IF cfg.label = NoLabel /\ ~cfg.counted THEN 0
    ELSE IF cfg.label = NoLabel /\ cfg.count \in 1 .. Cardinality(nodes) THEN cfg.count
    ELSE GetDefaultBackendCount(nodes)

(* The nodes of a Cluster service: those with its label, if there are any. *)
FilterByConfig(cfg, nodes) ==
    LET labelled == IF cfg.label \in Label THEN nodes \cap NodesWith[cfg.label]
                                           ELSE {}
    IN  IF labelled # {}
        THEN [ok |-> TRUE, nodes |-> labelled, count |-> 0]
        ELSE [ok |-> cfg.label # BadLabel, nodes |-> nodes,
              count |-> WantedCount(cfg, nodes)]

(* filterNodes; ep is what the endpoint cache holds for the service. *)
FilterNodes(cfg, nodes, ep) ==
    IF cfg.local
    THEN [ok    |-> ep # NoEndpoints,
          nodes |-> IF ep = NoEndpoints THEN {} ELSE nodes \cap ep,
          count |-> 0]
    ELSE FilterByConfig(cfg, nodes)

Selection == [ok: BOOLEAN, nodes: SUBSET Node, count: Nat]

BackendConfig == [local: BOOLEAN, label: Label \cup {NoLabel, BadLabel},
                  counted: BOOLEAN, count: Int]

NodesOf(bs) == { b.node : b \in bs }

(* Mutant of DiffBackend: nodes that have a backend are added again. *)
DiffBackendReadds(bs, sel, count) ==
    LET gone == { b \in bs : b.node \notin sel }
        add == IF count = 0 THEN {sel} ELSE RandomItems(sel, count)
    IN  { [del |-> gone, add |-> r] : r \in add }

(* Mutant of DiffBackend: the wanted nodes are drawn anew each time. *)
DiffBackendReshuffles(bs, sel, count) ==
    LET wanted == IF count = 0 THEN {sel} ELSE RandomItems(sel, count)
    IN  { [del |-> { b \in bs : b.node \notin r }, add |-> r \ NodesOf(bs)] : r \in wanted }

(* diffBackend: the possible [del, add] for a listener whose backends are
   bs, when the candidates are sel and count of them are wanted. *)
DiffBackend(bs, sel, count) ==
    LET gone == { b \in bs : b.node \notin sel }
        left == bs \ gone
        free == sel \ NodesOf(bs)
        surplus == Cardinality(left) - count
    IN  IF count = 0
        THEN { [del |-> gone, add |-> free] }
        ELSE IF surplus > 0
        THEN { [del |-> gone \cup r, add |-> {}] : r \in RandomItems(left, surplus) }
        ELSE { [del |-> gone, add |-> r] : r \in RandomItems(free, -surplus) }
=============================================================================
