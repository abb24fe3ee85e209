--------------------------- MODULE ListenerConfig ---------------------------
(***************************************************************************)
(* From the listener annotations of a service to the listener of one of    *)
(* its ports: validation and parsing, the defaults, the listener that is   *)
(* generated, and the comparison that decides whether a listener stays.    *)
(* Comparison and generation compute the wanted listener independently,    *)
(* and a listener that differs is deleted before the new one is generated. *)
(* Generation also sets a backend protocol, which comparison never reads.  *)
(* Interleavings and the details of the calls are in Provider.             *)
(***************************************************************************)
EXTENDS Integers, FiniteSets, FiniteSetsExt

CONSTANTS
    Port,             \* the service port
    NodePorts,        \* node ports it may have
    Annotation,       \* Annotation[f]: the values annotation f may be given
    Refused,          \* Refused[f]: the settings of f the cloud does not accept
    MaxSet,           \* bound on the annotations that are set at a time
    Empty,            \* an item of an annotation: nothing between two commas
    Malformed,        \*   neither that nor port:value with the right types
    NoNodePort,       \* the node port of a listener without backends
    NoListener

StringField == {"method", "option", "balance", "cert", "protocol"}
IntField == {"timeout", "scene", "forwardfor", "lsnoption"}
Field == StringField \cup IntField

(* An annotation is a sequence of items; it is not set when it has none. *)
Unset == << >>

ASSUME ConfigAssumption ==
    /\ \A f \in Field : Unset \notin Annotation[f]
    /\ NoNodePort \notin NodePorts

VARIABLES
    conf,             \* conf[f]: annotation f of the service
    svc,              \* the service port's protocol and node port
    nodes,            \* some node is selected as a backend
    lsn,              \* the service's listener on the load balancer
    status            \* how the last call ended

vars == <<conf, svc, nodes, lsn, status>>

ServicePort == [protocol: {"TCP", "UDP", "SCTP"}, nodePort: NodePorts]

-----------------------------------------------------------------------------
(* Validation and parsing.                                                 *)

WrongFormat(f, a) ==
    \E i \in DOMAIN a : a[i] = Malformed \/ (f \in IntField /\ a[i] = Empty)

Items(a) == { i \in DOMAIN a : a[i] # Empty }

(* Later items for a port replace earlier ones in the map. *)
Lookup(a, port, default) ==
    LET at == { i \in Items(a) : a[i].port = port }
    IN  IF at = {} THEN default ELSE a[Max(at)].value

InRange(f, value) ==
    CASE f = "timeout" -> value \in 10 .. 86400
      [] f = "scene"   -> value \in {0, 1, 11}
      [] OTHER         -> TRUE

(* Mutant of ValidAnnotation: the values are not checked for their format. *)
ValidAnnotationByRange(f, a) ==
    \A i \in Items(a) : a[i] = Malformed \/ InRange(f, Lookup(a, a[i].port, 0))

ValidAnnotation(f, a) ==
    /\ ~WrongFormat(f, a)
    /\ \A i \in Items(a) : InRange(f, Lookup(a, a[i].port, 0))

(* ParseServiceLBConfig, before anything is read from the cloud. *)
Valid(c) == \A f \in Field : ValidAnnotation(f, c[f])

(* parseHeathyCheck: the error of the second parse replaces the first. *)
HealthyCheckError(c) ==
    LET last == IF c["option"] # Unset THEN "option" ELSE "method"
    IN  WrongFormat(last, c[last])

ParseError(c, f) ==
    IF f \in {"method", "option"} THEN HealthyCheckError(c) ELSE WrongFormat(f, c[f])

(* What callers that ignore the error are left with. *)
Parsed(c, f) == IF ParseError(c, f) \/ WrongFormat(f, c[f]) THEN Unset ELSE c[f]

-----------------------------------------------------------------------------
(* The settings of the port, with their defaults.                          *)

Setting(c, f, default) == Lookup(Parsed(c, f), Port, default)

Upper == [tcp |-> "TCP", udp |-> "UDP", sctp |-> "SCTP", http |-> "HTTP", https |-> "HTTPS"]
ToLower(protocol) == CHOOSE p \in DOMAIN Upper : Upper[p] = protocol

Method(c, s) == Setting(c, "method", ToLower(s.protocol))

BalanceMode(c) ==
    LET mode == Setting(c, "balance", "")
    IN  IF mode = "" THEN "roundrobin" ELSE mode

Certificates(c) ==
    LET id == Setting(c, "cert", "") IN IF id = "" THEN {} ELSE {id}

(* getProtocol; a protocol it does not know is ignored. *)
Protocol(c, s) ==
    LET known == { p \in {"tcp", "udp", "http", "https"} :
                     Setting(c, "protocol", "") \in {p, Upper[p]} }
    IN  IF known = {} THEN ToLower(s.protocol) ELSE CHOOSE p \in known : TRUE

(* Mutant of BackendProtocol: that of the port for any listener. *)
BackendProtocolOfPort(c, s) == ToLower(s.protocol)

(* Only generateLoadBalancerListeners computes it. *)
BackendProtocol(c, s) ==
    IF Protocol(c, s) \in {"http", "https"} THEN "http" ELSE ToLower(s.protocol)

(* The settings that comparison and generation treat alike. *)
Settings(c, s) ==
    [method     |-> Method(c, s),
     option     |-> Setting(c, "option", "10|5|2|5"),
     balance    |-> BalanceMode(c),
     timeout    |-> Setting(c, "timeout", 50),
     scene      |-> Setting(c, "scene", 0),
     forwardfor |-> Setting(c, "forwardfor", 0),
     lsnoption  |-> Setting(c, "lsnoption", 0)]

-----------------------------------------------------------------------------
(* The listener of the port.                                               *)

(* Mutant of EqualProtocol: certificates are compared for any protocol. *)
EqualProtocolAndCertificate(l, c, s) ==
    l.protocol = Protocol(c, s) /\ l.certs = Certificates(c)

(* Mutant of EqualProtocol: certificates are not compared. *)
EqualProtocolOnly(l, c, s) == l.protocol = Protocol(c, s)

(* equalProtocol and equalCertificate: only https has a certificate. *)
EqualProtocol(l, c, s) ==
    /\ l.protocol = Protocol(c, s)
    /\ \/ l.protocol # "https"
       \/ Certificates(c) = {} /\ l.certs = {}
       \/ Certificates(c) \cap l.certs # {}

(* diffListeners; the listener's node port is that of its backends. *)
Same(l, c, s) ==
    /\ l.backend = s.nodePort
    /\ l.settings = Settings(c, s)
    /\ EqualProtocol(l, c, s)

(* The two ways generateLoadBalancerListeners fails once the format is right. *)
Unsupported(c, s) ==
    \/ s.protocol \notin {"TCP", "UDP"}
    \/ Protocol(c, s) = "https" /\ Certificates(c) = {}

GenerateError(c, s) == (\E f \in Field : ParseError(c, f)) \/ Unsupported(c, s)

Generated(c, s) ==
    [protocol        |-> Protocol(c, s),
     backendProtocol |-> BackendProtocol(c, s),
     certs           |-> IF Protocol(c, s) = "https" THEN Certificates(c) ELSE {},
     settings        |-> Settings(c, s),
     backend         |-> NoNodePort]

(* No value of a setting is checked but the ranges above: the cloud may
   refuse to create a listener, the same one each time. *)
Refuses(l) ==
    \/ \E f \in DOMAIN l.settings : l.settings[f] \in Refused[f]
    \/ l.certs \cap Refused["cert"] # {}

Creatable(c, s) == ~GenerateError(c, s) /\ ~Refuses(Generated(c, s))

(* A listener of protocol p carries a service port; http and https are tcp. *)
Carries(p, s) ==
    \/ p = ToLower(s.protocol)
    \/ p \in {"http", "https"} /\ s.protocol = "TCP"

(* Mutant of NodePortOf: http and https are taken for protocols of their own. *)
NodePortOfSameProtocol(l, s) ==
    IF l.backend # NoNodePort THEN l.backend
    ELSE IF l.protocol = ToLower(s.protocol) THEN s.nodePort ELSE NoNodePort

(* getLoadBalancerListenerNodePort: with no backend to take it from, that of
   the service port if the listener carries it. *)
NodePortOf(l, s) ==
    IF l.backend # NoNodePort THEN l.backend
    ELSE IF Carries(l.protocol, s) THEN s.nodePort ELSE NoNodePort

-----------------------------------------------------------------------------
Init ==
    /\ conf = [f \in Field |-> Unset]
    /\ svc \in ServicePort
    /\ nodes = TRUE
    /\ lsn = NoListener
    /\ status = "changed"

SetFields(c) == { f \in Field : c[f] # Unset }

(* The user edits the service, or nodes become ready, unready or lose pods. *)
Edit ==
    /\ \/ \E f \in Field :
             /\ \E a \in Annotation[f] \cup {Unset} : conf' = [conf EXCEPT ![f] = a]
             /\ Cardinality(SetFields(conf')) <= MaxSet
             /\ UNCHANGED <<svc, nodes>>
       \/ svc' \in ServicePort /\ UNCHANGED <<conf, nodes>>
       \/ nodes' = ~nodes /\ UNCHANGED <<conf, svc>>
    /\ status' = "changed"
    /\ UNCHANGED lsn

(* The backends the nodes make for listener l. *)
Backend(l) == IF nodes THEN NodePortOf(l, svc) ELSE NoNodePort

(* The backends of listener l are made those of the nodes; without a port
   for them the call fails, each time it is repeated. *)
SetBackends(l, done, refused) ==
    /\ lsn' = [l EXCEPT !.backend = Backend(l)]
    /\ status' = IF nodes /\ Backend(l) = NoNodePort THEN refused ELSE done

(* A call fails, with or without effect, and leaves one of these. *)
Fails(listeners) == status' = "failed" /\ lsn' \in listeners

(* One of the calls that delete and then add backends fails. *)
BackendsFail(l) ==
    Fails({ [l EXCEPT !.backend = b] : b \in {l.backend, NoNodePort, Backend(l)} })

(* The old listener is gone when the new one is generated. *)
Replace ==
    \/ Fails({lsn, NoListener})
    \/ /\ ~Creatable(conf, svc)
       /\ lsn' = NoListener /\ status' = "rejected"
    \/ /\ Creatable(conf, svc)
       /\ \/ SetBackends(Generated(conf, svc), "replaced", "rejected")
          \/ BackendsFail(Generated(conf, svc))

(* ParseServiceLBConfig returns an error. *)
Reject == ~Valid(conf) /\ status' = "rejected" /\ UNCHANGED lsn

Kept == lsn # NoListener /\ Same(lsn, conf, svc)

(* EnsureLoadBalancer. *)
Ensure ==
    /\ UNCHANGED <<conf, svc, nodes>>
    /\ \/ Reject
       \/ Valid(conf) /\ Kept /\ (SetBackends(lsn, "kept", "rejected") \/ BackendsFail(lsn))
       \/ Valid(conf) /\ ~Kept /\ Replace

(* UpdateLoadBalancer only changes backends. *)
Update ==
    /\ lsn # NoListener
    /\ UNCHANGED <<conf, svc, nodes>>
    /\ \/ Reject
       \/ Valid(conf) /\ (SetBackends(lsn, "updated", "not updated") \/ BackendsFail(lsn))

Next == Edit \/ Ensure \/ Update

Spec == Init /\ [][Next]_vars

-----------------------------------------------------------------------------
(* Properties.                                                             *)

TypeOK ==
    /\ conf \in [Field -> UNION { Annotation[f] : f \in Field } \cup {Unset}]
    /\ svc \in ServicePort
    /\ nodes \in BOOLEAN
    /\ lsn # NoListener => lsn.backend \in NodePorts \cup {NoNodePort}
    /\ status \in {"changed", "kept", "replaced", "updated", "not updated",
                   "rejected", "failed"}

(* Listener l is what generation makes of the annotations: apart from its
   backends, and apart from the backend protocol too. *)
LikeGenerated(l) == l = [Generated(conf, svc) EXCEPT !.backend = l.backend]
LikeCompared(l, c, s) ==
    [l EXCEPT !.backendProtocol = BackendProtocol(c, s)] =
        [Generated(c, s) EXCEPT !.backend = l.backend]

(* A service port is served: its listener carries it to its node port. *)
Serves(l, s) ==
    l # NoListener /\ l.backend = s.nodePort /\ Carries(l.protocol, s)

(* The annotations can be followed: they are well-formed, the listener can be
   created and the port has its protocol. *)
CanFollow(c, s) == Valid(c) /\ Creatable(c, s) /\ Carries(Protocol(c, s), s)

(* A tcp or udp listener that was made for a port of the other protocol, or
   has one now: an annotation asks for that, or did. *)
Crossed(l, s) ==
    l.protocol \in {"tcp", "udp"} /\ {l.backendProtocol, ToLower(s.protocol)} # {l.protocol}

(* diffListeners and generateLoadBalancerListeners agree on all they both look
   at: after an ensure that reports success every setting of the listener, its
   certificate included, is the one the annotations ask for now, whatever was
   changed, failed or parsed before.  Its backend protocol is so if the
   listener is new. *)
SettingsFollow ==
    /\ status \in {"kept", "replaced"} =>
          /\ LikeCompared(lsn, conf, svc)
          /\ lsn.backend \in {svc.nodePort, NoNodePort}
    /\ status = "replaced" => LikeGenerated(lsn)

(* The backend protocol follows also in a listener that is kept, although it
   is never compared and the port may have changed its protocol since: the
   listener's protocol, which is compared, determines it.  It does not where an
   annotation gives a port the other of the protocols tcp and udp. *)
ListenerFollows == status = "kept" => LikeGenerated(lsn) \/ Crossed(lsn, svc)

(* A listener that serves its node port and already is what the annotations
   ask for is not deleted and created again, which would cut connections. *)
NoNeedlessReplacement ==
    [][lsn # NoListener /\ status' = "replaced" =>
          ~(LikeGenerated(lsn) /\ lsn.backend = svc.nodePort)]_vars

(* The old listener is deleted before anything is known of the new one. A port
   that was served loses its service, though no call fails by accident, for
   no other reason than these: it is neither TCP nor UDP, it is https
   without a certificate, it is given another protocol than its own, or the
   cloud does not accept the listener.  Malformed annotations and values out of
   range, which diffListeners takes for the defaults, never cost it. *)
CutOffForAReason ==
    [][Serves(lsn, svc) /\ ~Serves(lsn', svc') /\ status' = "rejected" =>
          \/ Unsupported(conf, svc)
          \/ ~Carries(Protocol(conf, svc), svc)
          \/ Refuses(Generated(conf, svc))]_vars

(* A port that was cut off, by its annotations or half-way by a failing call,
   is served again by the first ensure in which no call fails once the
   annotations can be followed: none is refused then, and one that reports
   success while there are nodes has the port served. *)
CorrectedIsServed ==
    CanFollow(conf, svc) =>
        /\ status # "rejected"
        /\ status \in {"kept", "replaced"} /\ nodes => Serves(lsn, svc)

-----------------------------------------------------------------------------
(* What holds only as long as protocols are given as documented.           *)

(* "Supports the configuration of http/https" (docs/configure.md): no
   annotation of a service makes getProtocol give tcp or udp. *)
DocumentedProtocols ==
    \A a \in Annotation["protocol"] :
        Lookup(a, Port, "") \notin {"tcp", "TCP", "udp", "UDP"}

(* A successful ensure leaves the listener that would be generated now, in
   all its settings, whether it is kept or new. *)
ListenerGenerated == status \in {"kept", "replaced"} => LikeGenerated(lsn)
=============================================================================
