--------------------------- MODULE ListenerProofs ---------------------------
(***************************************************************************)
(* What comparison and generation of listeners make of a service, for      *)
(* every port and all annotations.  A listener is kept exactly when        *)
(* generating it again would give the same one but for its backend         *)
(* protocol, which generation alone looks at; and that one is right too as *)
(* long as protocols are given as documented.                              *)
(***************************************************************************)
EXTENDS ListenerConfig, TLAPS

(* The shape of a generated listener: a certificate with https, else none. *)
Made(l) ==
    /\ \E p, bp, cs, st, b :
          l = [protocol |-> p, backendProtocol |-> bp, certs |-> cs, settings |-> st, backend |-> b]
    /\ l.protocol # "https" => l.certs = {}
    /\ l.protocol = "https" => \E id : l.certs = {id}

LEMMA OneCertificate ==
    ASSUME NEW c, Certificates(c) # {}
    PROVE  \E id : Certificates(c) = {id}
BY DEF Certificates

LEMMA GeneratedMade ==
    ASSUME NEW c, NEW s, Creatable(c, s)
    PROVE  Made(Generated(c, s))
<1>1. CASE Protocol(c, s) = "https"
  <2>1. \E id : Certificates(c) = {id}
    BY <1>1, OneCertificate DEF Creatable, GenerateError, Unsupported
  <2> QED
    BY <1>1, <2>1 DEF Made, Generated
<1>2. CASE Protocol(c, s) # "https"
  BY <1>2 DEF Made, Generated
<1> QED
  BY <1>1, <1>2

(* LikeCompared, setting by setting. *)
LEMMA ComparedSettings ==
    ASSUME NEW c, NEW s, NEW p, NEW bp, NEW cs, NEW st, NEW b
    PROVE  LikeCompared([protocol |-> p, backendProtocol |-> bp, certs |-> cs,
                         settings |-> st, backend |-> b], c, s) <=>
             /\ p = Protocol(c, s)
             /\ cs = IF Protocol(c, s) = "https" THEN Certificates(c) ELSE {}
             /\ st = Settings(c, s)
<1> DEFINE certs == IF Protocol(c, s) = "https" THEN Certificates(c) ELSE {}
           l == [protocol |-> p, backendProtocol |-> bp, certs |-> cs,
                 settings |-> st, backend |-> b]
<1>1. [Generated(c, s) EXCEPT !.backend = l.backend] =
        [protocol |-> Protocol(c, s), backendProtocol |-> BackendProtocol(c, s),
         certs |-> certs, settings |-> Settings(c, s), backend |-> b]
  BY DEF Generated
<1>2. [l EXCEPT !.backendProtocol = BackendProtocol(c, s)] =
        [protocol |-> p, backendProtocol |-> BackendProtocol(c, s),
         certs |-> cs, settings |-> st, backend |-> b]
  OBVIOUS
<1> HIDE DEF certs
<1>3. LikeCompared(l, c, s) <=> p = Protocol(c, s) /\ cs = certs /\ st = Settings(c, s)
  BY <1>1, <1>2 DEF LikeCompared
<1> QED
  BY <1>3 DEF certs

(* diffListeners and generateLoadBalancerListeners agree on everything but
   the backend protocol: the comparison keeps a generated listener exactly when
   it has the node port and generation would set all its other settings as
   they are. *)
THEOREM SameIsGenerated ==
    ASSUME NEW l, NEW c, NEW s, Made(l)
    PROVE  Same(l, c, s) <=> LikeCompared(l, c, s) /\ l.backend = s.nodePort
<1>1. PICK p, bp, cs, st, b :
        l = [protocol |-> p, backendProtocol |-> bp, certs |-> cs, settings |-> st, backend |-> b]
  BY DEF Made
<1>2. LikeCompared(l, c, s) <=>
        /\ p = Protocol(c, s)
        /\ cs = IF Protocol(c, s) = "https" THEN Certificates(c) ELSE {}
        /\ st = Settings(c, s)
  BY <1>1, ComparedSettings
<1>3. ASSUME p = Protocol(c, s)
      PROVE  EqualProtocol(l, c, s) <=>
               cs = IF Protocol(c, s) = "https" THEN Certificates(c) ELSE {}
  <2>1. CASE p # "https"
    BY <1>1, <1>3, <2>1 DEF EqualProtocol, Made
  <2>2. CASE p = "https"
    <3>1. PICK id : cs = {id}
      BY <1>1, <2>2 DEF Made
    <3>2. CASE Certificates(c) = {}
      BY <1>1, <1>3, <2>2, <3>1, <3>2 DEF EqualProtocol
    <3>3. CASE Certificates(c) # {}
      <4>1. PICK id2 : Certificates(c) = {id2}
        BY <3>3, OneCertificate
      <4> QED
        BY <1>1, <1>3, <2>2, <3>1, <4>1 DEF EqualProtocol
    <3> QED
      BY <3>2, <3>3
  <2> QED
    BY <2>1, <2>2
<1> QED
  BY <1>1, <1>2, <1>3 DEF Same, EqualProtocol

-----------------------------------------------------------------------------
(* The steps of a call on the listener.                                    *)

(* Backends are not part of the shape of a listener, nor do they matter to
   its protocols. *)
LEMMA BackendsOnly ==
    ASSUME NEW l, Made(l), NEW b, NEW k, k = [l EXCEPT !.backend = b]
    PROVE  /\ Made(k) /\ k.backend = b
           /\ k.protocol = l.protocol /\ k.backendProtocol = l.backendProtocol
<1>1. PICK p, bp, cs, st, lb :
        l = [protocol |-> p, backendProtocol |-> bp, certs |-> cs, settings |-> st, backend |-> lb]
  BY DEF Made
<1>2. k = [protocol |-> p, backendProtocol |-> bp, certs |-> cs, settings |-> st, backend |-> b]
  BY <1>1
<1>3. Made(k)
  BY <1>1, <1>2 DEF Made
<1> QED
  BY <1>1, <1>2, <1>3

(* What making its backends those of the nodes leaves of a listener. *)
LEMMA SetBackendsResult ==
    ASSUME NEW l, Made(l), NEW done, NEW refused, SetBackends(l, done, refused)
    PROVE  /\ Made(lsn')
           /\ lsn' = [l EXCEPT !.backend = lsn'.backend]
           /\ lsn'.backend \in {NoNodePort, NodePortOf(l, svc)}
           /\ nodes => lsn'.backend = NodePortOf(l, svc)
           /\ status' = IF nodes /\ lsn'.backend = NoNodePort THEN refused ELSE done
<1>1. /\ lsn' = [l EXCEPT !.backend = Backend(l)]
      /\ status' = IF nodes /\ Backend(l) = NoNodePort THEN refused ELSE done
  BY DEF SetBackends
<1>2. Made(lsn') /\ lsn'.backend = Backend(l)
  BY <1>1, BackendsOnly
<1>3. /\ Backend(l) \in {NoNodePort, NodePortOf(l, svc)}
      /\ nodes => Backend(l) = NodePortOf(l, svc)
  BY DEF Backend
<1> QED
  BY <1>1, <1>2, <1>3

(* Listener k is l with the same or other backends. *)
ButForBackends(k, l) == \E b : k = [l EXCEPT !.backend = b]

(* Where the listener of a state comes from, its backends apart: it was
   there, or it has been generated, or there is none. *)
LEMMA ListenerSteps ==
    ASSUME Next
    PROVE  \/ UNCHANGED lsn
           \/ lsn' = NoListener
           \/ lsn # NoListener /\ ButForBackends(lsn', lsn)
           \/ Creatable(conf, svc) /\ ButForBackends(lsn', Generated(conf, svc))
<1>1. CASE Edit \/ Reject
  BY <1>1 DEF Edit, Reject
<1>2. CASE Update \/ (Ensure /\ Kept)
  BY <1>2 DEF Update, Ensure, Reject, Kept, SetBackends, BackendsFail, Fails, ButForBackends
<1>3. CASE Replace
  BY <1>3 DEF Replace, SetBackends, BackendsFail, Fails, ButForBackends
<1>4. Edit \/ Reject \/ Update \/ (Ensure /\ Kept) \/ Replace
  BY DEF Next, Ensure
<1> QED
  BY <1>1, <1>2, <1>3, <1>4

ListenerMade == lsn # NoListener => Made(lsn)

LEMMA ListenerMadeStep == ListenerMade /\ [Next]_vars => ListenerMade'
<1> SUFFICES ASSUME ListenerMade, Next PROVE ListenerMade'
  BY DEF vars, ListenerMade
<1>1. CASE UNCHANGED lsn \/ lsn' = NoListener
  BY <1>1 DEF ListenerMade
<1>2. CASE lsn # NoListener /\ ButForBackends(lsn', lsn)
  BY <1>2, BackendsOnly DEF ListenerMade, ButForBackends
<1>3. CASE Creatable(conf, svc) /\ ButForBackends(lsn', Generated(conf, svc))
  BY <1>3, GeneratedMade, BackendsOnly DEF ListenerMade, ButForBackends
<1> QED
  BY <1>1, <1>2, <1>3, ListenerSteps

LEMMA ListenerMadeAlways == Spec => []ListenerMade
<1>1. Init => ListenerMade
  BY DEF Init, ListenerMade
<1> QED
  BY <1>1, ListenerMadeStep, PTL DEF Spec

(* The service port has a node port. *)
PortGiven == svc.nodePort # NoNodePort

LEMMA PortGivenAlways == Spec => []PortGiven
<1>1. Init => PortGiven
  BY ConfigAssumption DEF Init, PortGiven, ServicePort
<1>2. PortGiven /\ [Next]_vars => PortGiven'
  BY ConfigAssumption DEF Next, Edit, Ensure, Update, vars, PortGiven, ServicePort
<1> QED
  BY <1>1, <1>2, PTL DEF Spec

(* The step in which an ensure reports success: the listener it has kept, or
   the one it has generated. *)
LEMMA SuccessStep ==
    ASSUME ListenerMade, Next, status' \in {"kept", "replaced"}
    PROVE  /\ UNCHANGED <<conf, svc, nodes>>
           /\ \/ /\ status' = "kept"
                 /\ lsn # NoListener /\ Made(lsn) /\ Same(lsn, conf, svc)
                 /\ SetBackends(lsn, "kept", "rejected")
              \/ /\ status' = "replaced"
                 /\ Creatable(conf, svc)
                 /\ SetBackends(Generated(conf, svc), "replaced", "rejected")
<1>1. Ensure
  BY DEF Next, Edit, Update, Reject, SetBackends, BackendsFail, Fails
<1>2. CASE Kept /\ (SetBackends(lsn, "kept", "rejected") \/ BackendsFail(lsn))
  BY <1>1, <1>2 DEF Ensure, Kept, ListenerMade, SetBackends, BackendsFail, Fails
<1>3. CASE Replace
  BY <1>1, <1>3 DEF Ensure, Replace, SetBackends, BackendsFail, Fails
<1> QED
  BY <1>1, <1>2, <1>3 DEF Ensure, Reject

(* The port for the backends of a listener that is kept, or is new. *)
LEMMA KeptPort ==
    ASSUME NEW l, NEW c, NEW s, Same(l, c, s)
    PROVE  NodePortOf(l, s) \in {s.nodePort, NoNodePort}
BY DEF Same, NodePortOf

LEMMA NodePortKept ==
    ASSUME PortGiven, NEW l, NEW c, Same(l, c, svc)
    PROVE  NodePortOf(l, svc) # NoNodePort
BY DEF Same, NodePortOf, PortGiven

LEMMA NewPort ==
    ASSUME NEW c, NEW s
    PROVE  /\ NodePortOf(Generated(c, s), s) \in {s.nodePort, NoNodePort}
           /\ Carries(Protocol(c, s), s) => NodePortOf(Generated(c, s), s) = s.nodePort
BY DEF NodePortOf, Generated

(* A listener that differs from a generated one in its backends only. *)
LEMMA NewLike ==
    ASSUME NEW c, NEW s, NEW l, l = [Generated(c, s) EXCEPT !.backend = l.backend]
    PROVE  LikeCompared(l, c, s)
<1> DEFINE certs == IF Protocol(c, s) = "https" THEN Certificates(c) ELSE {}
<1>1. l = [protocol |-> Protocol(c, s), backendProtocol |-> BackendProtocol(c, s),
           certs |-> certs, settings |-> Settings(c, s), backend |-> l.backend]
  BY DEF Generated
<1> DEFINE b == l.backend
<1> HIDE DEF b
<1>2. l = [protocol |-> Protocol(c, s), backendProtocol |-> BackendProtocol(c, s),
           certs |-> certs, settings |-> Settings(c, s), backend |-> b]
  BY <1>1 DEF b
<1>3. LikeCompared([protocol |-> Protocol(c, s), backendProtocol |-> BackendProtocol(c, s),
                    certs |-> certs, settings |-> Settings(c, s), backend |-> b], c, s)
  BY ComparedSettings
<1> QED
  BY <1>2, <1>3

(* A generated listener that has the right backend protocol too. *)
LEMMA WhollyLike ==
    ASSUME NEW c, NEW s, NEW l, Made(l), LikeCompared(l, c, s),
           l.backendProtocol = BackendProtocol(c, s)
    PROVE  l = [Generated(c, s) EXCEPT !.backend = l.backend]
<1>1. [l EXCEPT !.backendProtocol = BackendProtocol(c, s)] = l
  BY DEF Made
<1> QED
  BY <1>1 DEF LikeCompared

(* A listener of which only the backends change. *)
LEMMA LikeComparedKept ==
    ASSUME NEW c, NEW s, NEW l, LikeCompared(l, c, s), Made(l),
           NEW b, NEW k, k = [l EXCEPT !.backend = b]
    PROVE  LikeCompared(k, c, s)
<1>1. PICK p, bp, cs, st, lb :
        l = [protocol |-> p, backendProtocol |-> bp, certs |-> cs, settings |-> st, backend |-> lb]
  BY DEF Made
<1>2. k = [protocol |-> p, backendProtocol |-> bp, certs |-> cs, settings |-> st, backend |-> b]
  BY <1>1
<1> QED
  BY <1>1, <1>2, ComparedSettings

(* Every setting of the listener that a successful ensure leaves is the one
   the annotations ask for, the backend protocol of a new one included, for all
   annotations, node ports and histories. *)
THEOREM SettingsCorrect == Spec => []SettingsFollow
<1>1. Init => SettingsFollow
  BY DEF Init, SettingsFollow
<1>2. ListenerMade /\ SettingsFollow /\ [Next]_vars => SettingsFollow'
  <2>a. ASSUME SettingsFollow, UNCHANGED vars PROVE SettingsFollow'
    BY <2>a DEF vars, SettingsFollow, LikeGenerated
  <2> SUFFICES ASSUME ListenerMade, Next, status' \in {"kept", "replaced"}
               PROVE  /\ LikeCompared(lsn', conf', svc')
                      /\ lsn'.backend \in {svc'.nodePort, NoNodePort}
                      /\ status' = "replaced" => LikeGenerated(lsn)'
    BY <2>a DEF SettingsFollow
  <2>1. UNCHANGED <<conf, svc>>
    BY SuccessStep
  <2>2. CASE /\ status' = "kept"
             /\ Made(lsn) /\ Same(lsn, conf, svc)
             /\ SetBackends(lsn, "kept", "rejected")
    <3>1. LikeCompared(lsn, conf, svc)
      BY <2>2, SameIsGenerated
    <3>2. /\ Made(lsn') /\ lsn' = [lsn EXCEPT !.backend = lsn'.backend]
          /\ lsn'.backend \in {NoNodePort, NodePortOf(lsn, svc)}
      BY <2>2, SetBackendsResult
    <3>3. LikeCompared(lsn', conf, svc)
      BY <2>2, <3>1, <3>2, LikeComparedKept
    <3> QED
      BY <2>1, <2>2, <3>2, <3>3, KeptPort
  <2>3. CASE /\ status' = "replaced"
             /\ Creatable(conf, svc)
             /\ SetBackends(Generated(conf, svc), "replaced", "rejected")
    <3>1. /\ lsn' = [Generated(conf, svc) EXCEPT !.backend = lsn'.backend]
          /\ lsn'.backend \in {NoNodePort, NodePortOf(Generated(conf, svc), svc)}
      BY <2>3, GeneratedMade, SetBackendsResult
    <3>2. LikeCompared(lsn', conf, svc)
      BY <3>1, NewLike
    <3> QED
      BY <2>1, <3>1, <3>2, NewPort DEF LikeGenerated
  <2> QED
    BY <2>2, <2>3, SuccessStep
<1> QED
  BY <1>1, <1>2, ListenerMadeAlways, PTL DEF Spec

-----------------------------------------------------------------------------
(* The backend protocol of a listener that is kept.                        *)

LEMMA LowerCase ==
    /\ ToLower("TCP") = "tcp"
    /\ ToLower("UDP") = "udp"
BY DEF ToLower, Upper

(* What generation can give: a tcp or udp listener, or an http one. *)
Known(l) ==
    \/ l.protocol \in {"tcp", "udp"}
    \/ l.protocol \in {"http", "https"} /\ l.backendProtocol = "http"

LEMMA GeneratedKnown ==
    ASSUME NEW c, NEW s, Creatable(c, s)
    PROVE  Known(Generated(c, s))
<1> DEFINE known == { p \in {"tcp", "udp", "http", "https"} :
                        Setting(c, "protocol", "") \in {p, Upper[p]} }
<1>1. Protocol(c, s) = IF known = {} THEN ToLower(s.protocol) ELSE CHOOSE p \in known : TRUE
  BY DEF Protocol
<1>2. known # {} => (CHOOSE p \in known : TRUE) \in known
  OBVIOUS
<1>3. ToLower(s.protocol) \in {"tcp", "udp"}
  BY LowerCase DEF Creatable, GenerateError, Unsupported
<1>4. Protocol(c, s) \in {"tcp", "udp", "http", "https"}
  BY <1>1, <1>2, <1>3
<1> QED
  BY <1>4 DEF Known, Generated, BackendProtocol

ListenerKnown == lsn # NoListener => Known(lsn)

LEMMA ListenerKnownAlways == Spec => []ListenerKnown
<1>1. Init => ListenerKnown
  BY DEF Init, ListenerKnown
<1>2. ListenerMade /\ ListenerKnown /\ [Next]_vars => ListenerKnown'
  <2> SUFFICES ASSUME ListenerMade, ListenerKnown, Next PROVE ListenerKnown'
    BY DEF vars, ListenerKnown
  <2>1. CASE UNCHANGED lsn \/ lsn' = NoListener
    BY <2>1 DEF ListenerKnown
  <2>2. CASE lsn # NoListener /\ ButForBackends(lsn', lsn)
    BY <2>2, BackendsOnly DEF ListenerKnown, ListenerMade, Known, ButForBackends
  <2>3. CASE Creatable(conf, svc) /\ ButForBackends(lsn', Generated(conf, svc))
    BY <2>3, GeneratedMade, GeneratedKnown, BackendsOnly
       DEF ListenerKnown, Known, ButForBackends
  <2> QED
    BY <2>1, <2>2, <2>3, ListenerSteps
<1> QED
  BY <1>1, <1>2, ListenerMadeAlways, PTL DEF Spec

(* What an ensure that keeps the listener has found and leaves. *)
LEMMA KeptStep ==
    ASSUME ListenerMade, Next, SettingsFollow', status' = "kept"
    PROVE  /\ UNCHANGED <<conf, svc>>
           /\ lsn # NoListener
           /\ lsn.protocol = Protocol(conf, svc) /\ lsn'.protocol = lsn.protocol
           /\ lsn'.backendProtocol = lsn.backendProtocol
           /\ lsn.backendProtocol = BackendProtocol(conf, svc) => LikeGenerated(lsn)'
<1>1. /\ UNCHANGED <<conf, svc>>
      /\ lsn # NoListener /\ Made(lsn) /\ Same(lsn, conf, svc)
      /\ SetBackends(lsn, "kept", "rejected")
  BY SuccessStep
<1>2. Made(lsn') /\ lsn' = [lsn EXCEPT !.backend = lsn'.backend]
  BY <1>1, SetBackendsResult
<1>3. lsn'.protocol = lsn.protocol /\ lsn'.backendProtocol = lsn.backendProtocol
  BY <1>1, <1>2, BackendsOnly
<1>4. lsn.protocol = Protocol(conf, svc)
  BY <1>1 DEF Same, EqualProtocol
<1>5. LikeCompared(lsn', conf, svc)
  BY <1>1 DEF SettingsFollow
<1>6. ASSUME lsn.backendProtocol = BackendProtocol(conf, svc) PROVE LikeGenerated(lsn)'
  BY <1>1, <1>2, <1>3, <1>5, <1>6, WhollyLike DEF LikeGenerated
<1> QED
  BY <1>1, <1>3, <1>4, <1>6

(* The listener that an ensure keeps is the one generation makes of the
   annotations, its backend protocol included, for all annotations, node ports and
   histories: only a tcp or udp listener whose port has, or had, the other protocol
   may be an exception. *)
THEOREM ListenerCorrect == Spec => []ListenerFollows
<1>1. Init => ListenerFollows
  BY DEF Init, ListenerFollows
<1>2. ListenerMade /\ ListenerKnown /\ ListenerFollows /\ SettingsFollow' /\ [Next]_vars
        => ListenerFollows'
  <2>a. ASSUME ListenerFollows, UNCHANGED vars PROVE ListenerFollows'
    BY <2>a DEF vars, ListenerFollows, LikeGenerated
  <2> SUFFICES ASSUME ListenerMade, ListenerKnown, SettingsFollow', Next, status' = "kept"
               PROVE  LikeGenerated(lsn)' \/ Crossed(lsn', svc')
    BY <2>a DEF ListenerFollows
  <2>1. CASE lsn.protocol \in {"http", "https"} /\ lsn.backendProtocol = "http"
    BY <2>1, KeptStep DEF BackendProtocol
  <2>2. CASE lsn.protocol \in {"tcp", "udp"} /\ ~Crossed(lsn', svc')
    <3>1. lsn'.backendProtocol = lsn'.protocol /\ ToLower(svc'.protocol) = lsn'.protocol
      BY <2>2, KeptStep DEF Crossed
    <3> QED
      BY <2>2, <3>1, KeptStep DEF BackendProtocol
  <2> QED
    BY <2>1, <2>2, KeptStep DEF ListenerKnown, Known
<1> QED
  BY <1>1, <1>2, ListenerKnownAlways, ListenerMadeAlways, SettingsCorrect, PTL DEF Spec

-----------------------------------------------------------------------------
(* The backend protocol, with protocols as documented.                     *)

(* The annotations are among those that may be given. *)
ConfGiven ==
    /\ conf = [f \in Field |-> conf[f]]
    /\ conf["protocol"] \in Annotation["protocol"] \cup {Unset}

(* The backend protocol that goes with the listener's protocol. *)
Paired(l) ==
    l.backendProtocol = IF l.protocol \in {"http", "https"} THEN "http" ELSE l.protocol

ListenerPaired == lsn # NoListener => Paired(lsn)

(* getProtocol gives the port's protocol, http or https. *)
LEMMA DocumentedProtocol ==
    ASSUME DocumentedProtocols, ConfGiven, NEW s
    PROVE  Protocol(conf, s) \in {"http", "https", ToLower(s.protocol)}
<1>1. Lookup(Unset, Port, "") = ""
  BY DEF Lookup, Items, Unset
<1>2. Setting(conf, "protocol", "") \notin {"tcp", "TCP", "udp", "UDP"}
  BY <1>1 DEF Setting, Parsed, ConfGiven, DocumentedProtocols
<1> DEFINE known == { p \in {"tcp", "udp", "http", "https"} :
                        Setting(conf, "protocol", "") \in {p, Upper[p]} }
<1>3. known \subseteq {"http", "https"}
  <2>1. Upper["tcp"] = "TCP" /\ Upper["udp"] = "UDP"
    BY DEF Upper
  <2> QED
    BY <1>2, <2>1
<1>4. known # {} => (CHOOSE p \in known : TRUE) \in known
  OBVIOUS
<1>5. Protocol(conf, s) = IF known = {} THEN ToLower(s.protocol) ELSE CHOOSE p \in known : TRUE
  BY DEF Protocol
<1> QED
  BY <1>3, <1>4, <1>5

LEMMA ConfGivenAlways == Spec => []ConfGiven
<1>1. Init => ConfGiven
  BY DEF Init, ConfGiven, Field, StringField
<1>2. ConfGiven /\ [Next]_vars => ConfGiven'
  <2> SUFFICES ASSUME ConfGiven, [Next]_vars PROVE ConfGiven'
    OBVIOUS
  <2>1. CASE UNCHANGED conf
    BY <2>1 DEF ConfGiven
  <2>2. ASSUME NEW f \in Field, NEW a \in Annotation[f] \cup {Unset},
               conf' = [conf EXCEPT ![f] = a]
        PROVE  ConfGiven'
    BY <2>2 DEF ConfGiven, Field, StringField
  <2> QED
    BY <2>1, <2>2 DEF Next, Edit, Ensure, Update, vars
<1> QED
  BY <1>1, <1>2, PTL DEF Spec

LEMMA ListenerPairedStep ==
    DocumentedProtocols /\ ConfGiven /\ ListenerMade /\ ListenerPaired /\ [Next]_vars
        => ListenerPaired'
<1> SUFFICES ASSUME DocumentedProtocols, ConfGiven, ListenerMade, ListenerPaired, Next
             PROVE  ListenerPaired'
  BY DEF vars, ListenerPaired
<1>1. Paired(Generated(conf, svc))
  BY DocumentedProtocol DEF Paired, Generated, BackendProtocol
<1>2. CASE UNCHANGED lsn \/ lsn' = NoListener
  BY <1>2 DEF ListenerPaired
<1>3. CASE lsn # NoListener /\ ButForBackends(lsn', lsn)
  BY <1>3, BackendsOnly DEF ListenerPaired, ButForBackends, ListenerMade, Paired
<1>4. CASE Creatable(conf, svc) /\ ButForBackends(lsn', Generated(conf, svc))
  BY <1>1, <1>4, GeneratedMade, BackendsOnly DEF ListenerPaired, ButForBackends, Paired
<1> QED
  BY <1>2, <1>3, <1>4, ListenerSteps

(* With protocols as documented, the listener that a successful ensure leaves
   is the one generation makes of the annotations, its backend protocol
   included, also when it is kept. *)
THEOREM DocumentedListenerCorrect == DocumentedProtocols => (Spec => []ListenerGenerated)
<1> SUFFICES ASSUME DocumentedProtocols PROVE Spec => []ListenerGenerated
  OBVIOUS
<1>1. Init => ListenerPaired
  BY DEF Init, ListenerPaired
<1>2. Init => ListenerGenerated
  BY DEF Init, ListenerGenerated
<1>3. ConfGiven /\ ListenerMade /\ ListenerPaired /\ ListenerGenerated /\ SettingsFollow'
        /\ [Next]_vars => ListenerGenerated'
  <2>a. ASSUME ListenerGenerated, UNCHANGED vars PROVE ListenerGenerated'
    BY <2>a DEF vars, ListenerGenerated, LikeGenerated
  <2> SUFFICES ASSUME ConfGiven, ListenerMade, ListenerPaired, SettingsFollow', Next
               PROVE  ListenerGenerated'
    BY <2>a
  <2> SUFFICES ASSUME status' \in {"kept", "replaced"} PROVE LikeGenerated(lsn)'
    BY DEF ListenerGenerated
  <2>1. CASE status' = "replaced"
    BY <2>1 DEF SettingsFollow
  <2>2. CASE status' = "kept"
    <3>1. lsn.backendProtocol = BackendProtocol(conf, svc)
      BY <2>2, KeptStep, DocumentedProtocol DEF ListenerPaired, Paired, BackendProtocol
    <3> QED
      BY <2>2, <3>1, KeptStep
  <2> QED
    BY <2>1, <2>2
<1> QED
  BY <1>1, <1>2, <1>3, ListenerPairedStep, ConfGivenAlways, ListenerMadeAlways, SettingsCorrect,
     PTL DEF Spec

-----------------------------------------------------------------------------
(* What is replaced, what is lost, and what is served again.               *)

(* No listener is deleted and made again when what is made is what was
   there, for all annotations. *)
THEOREM ReplacedForAReason == Spec => NoNeedlessReplacement
<1>1. ListenerMade /\ [Next]_vars =>
        [lsn # NoListener /\ status' = "replaced" =>
           ~(LikeGenerated(lsn) /\ lsn.backend = svc.nodePort)]_vars
  <2> SUFFICES ASSUME ListenerMade, Next, lsn # NoListener, status' = "replaced"
               PROVE  ~(LikeGenerated(lsn) /\ lsn.backend = svc.nodePort)
    BY DEF vars
  <2>1. Ensure
    BY DEF Next, Edit, Update, Reject, SetBackends, BackendsFail, Fails
  <2>2. ~Same(lsn, conf, svc)
    BY <2>1 DEF Ensure, Reject, Kept, SetBackends, BackendsFail, Fails
  <2>3. Made(lsn)
    BY DEF ListenerMade
  <2>4. LikeGenerated(lsn) => LikeCompared(lsn, conf, svc)
    BY NewLike DEF LikeGenerated
  <2> QED
    BY <2>2, <2>3, <2>4, SameIsGenerated
<1> QED
  BY <1>1, ListenerMadeAlways, PTL DEF Spec, NoNeedlessReplacement

(* Annotations that were validated are parsed without an error. *)
LEMMA ValidParses ==
    ASSUME NEW c, Valid(c), NEW f \in Field
    PROVE  ~ParseError(c, f)
<1>1. \A g \in Field : ~WrongFormat(g, c[g])
  BY DEF Valid, ValidAnnotation
<1>2. {"method", "option"} \subseteq Field
  BY DEF Field, StringField
<1> QED
  BY <1>1, <1>2 DEF ParseError, HealthyCheckError

(* An ensure that is refused, though no call fails by accident: its annotations
   are not valid, or it has no listener to serve the port with. *)
LEMMA RefusedStep ==
    ASSUME PortGiven, ListenerMade, Next, status' = "rejected"
    PROVE  /\ UNCHANGED <<conf, svc, nodes>>
           /\ \/ ~Valid(conf) /\ UNCHANGED lsn
              \/ /\ Valid(conf)
                 /\ ~Creatable(conf, svc) \/ ~Carries(Protocol(conf, svc), svc)
<1>1. UNCHANGED <<conf, svc, nodes>>
  BY DEF Next, Edit, Ensure, Update
<1>2. CASE Reject
  BY <1>1, <1>2 DEF Reject
<1>3. CASE Ensure /\ Valid(conf) /\ Kept /\ SetBackends(lsn, "kept", "rejected")
  <2>1. Made(lsn) /\ Same(lsn, conf, svc)
    BY <1>3 DEF Kept, ListenerMade
  <2>2. nodes /\ NodePortOf(lsn, svc) = NoNodePort
    BY <1>3, <2>1, SetBackendsResult
  <2>3. lsn.backend = NoNodePort /\ ~Carries(lsn.protocol, svc)
    BY <2>1, <2>2 DEF NodePortOf, Same, PortGiven
  <2>4. lsn.protocol = Protocol(conf, svc)
    BY <2>1 DEF Same, EqualProtocol
  <2> QED
    BY <1>1, <1>3, <2>3, <2>4
<1>4. CASE Ensure /\ Valid(conf) /\ Replace
  <2>1. CASE ~Creatable(conf, svc)
    BY <1>1, <1>4, <2>1
  <2>2. CASE SetBackends(Generated(conf, svc), "replaced", "rejected") /\ Creatable(conf, svc)
    <3>1. nodes /\ NodePortOf(Generated(conf, svc), svc) = NoNodePort
      BY <2>2, GeneratedMade, SetBackendsResult
    <3>2. ~Carries(Protocol(conf, svc), svc)
      BY <3>1, NewPort DEF PortGiven
    <3> QED
      BY <1>1, <1>4, <3>2
  <2> QED
    BY <1>4, <2>1, <2>2 DEF Replace, BackendsFail, Fails
<1> QED
  BY <1>2, <1>3, <1>4 DEF Next, Edit, Ensure, Update, SetBackends, BackendsFail, Fails

(* Whatever the annotations, a port that was served is cut off for a reason
   that is not a malformed annotation. *)
THEOREM CutOffOnlyForAReason == Spec => CutOffForAReason
<1>1. PortGiven /\ ListenerMade /\ [Next]_vars =>
        [Serves(lsn, svc) /\ ~Serves(lsn', svc') /\ status' = "rejected" =>
           \/ Unsupported(conf, svc)
           \/ ~Carries(Protocol(conf, svc), svc)
           \/ Refuses(Generated(conf, svc))]_vars
  <2> SUFFICES ASSUME PortGiven, ListenerMade, Next,
                      Serves(lsn, svc), ~Serves(lsn', svc'), status' = "rejected"
               PROVE  \/ Unsupported(conf, svc)
                      \/ ~Carries(Protocol(conf, svc), svc)
                      \/ Refuses(Generated(conf, svc))
    BY DEF vars
  <2>1. UNCHANGED svc
    BY RefusedStep
  <2>2. ~UNCHANGED lsn
    BY <2>1
  <2>3. /\ Valid(conf)
        /\ ~Creatable(conf, svc) \/ ~Carries(Protocol(conf, svc), svc)
    BY <2>2, RefusedStep
  <2>4. \A f \in Field : ~ParseError(conf, f)
    BY <2>3, ValidParses
  <2> QED
    BY <2>3, <2>4 DEF Creatable, GenerateError
<1> QED
  BY <1>1, PortGivenAlways, ListenerMadeAlways, PTL DEF Spec, CutOffForAReason

(* Once the annotations can be followed, no ensure is refused and a successful
   one has the port served, whatever was lost before.  (NoListener is not the
   record of a listener.) *)
THEOREM CorrectedServed ==
    ASSUME ~Made(NoListener)
    PROVE  Spec => []CorrectedIsServed
<1>1. Init => CorrectedIsServed
  BY DEF Init, CorrectedIsServed
<1>2. PortGiven /\ ListenerMade /\ CorrectedIsServed /\ [Next]_vars => CorrectedIsServed'
  <2>1. ASSUME ListenerMade, CorrectedIsServed, UNCHANGED vars PROVE CorrectedIsServed'
    BY <2>1 DEF vars, CorrectedIsServed
  <2>2. ASSUME PortGiven, ListenerMade, Next, status' = "rejected" PROVE ~CanFollow(conf', svc')
    BY <2>2, RefusedStep DEF CanFollow
  <2>3. ASSUME PortGiven, ListenerMade, Next, status' \in {"kept", "replaced"}, nodes',
               CanFollow(conf', svc')
        PROVE  Serves(lsn', svc')
    <3>1. UNCHANGED <<conf, svc, nodes>>
      BY <2>3, SuccessStep
    <3>2. CASE /\ Made(lsn) /\ Same(lsn, conf, svc)
               /\ SetBackends(lsn, "kept", "rejected")
               /\ status' = "kept"
      <4>1. /\ Made(lsn') /\ lsn' = [lsn EXCEPT !.backend = lsn'.backend]
            /\ lsn'.backend = NodePortOf(lsn, svc)
            /\ lsn'.backend # NoNodePort
        BY <2>3, <3>1, <3>2, NodePortKept, SetBackendsResult
      <4>2. lsn'.backend = svc.nodePort
        BY <3>2, <4>1, KeptPort
      <4>3. lsn.protocol = Protocol(conf, svc)
        BY <3>2 DEF Same, EqualProtocol
      <4>4. lsn'.protocol = lsn.protocol
        BY <3>2, <4>1 DEF Made
      <4> QED
        BY <2>3, <3>1, <4>1, <4>2, <4>3, <4>4 DEF Serves, CanFollow
    <3>3. CASE /\ Creatable(conf, svc)
               /\ SetBackends(Generated(conf, svc), "replaced", "rejected")
      <4>1. /\ Made(lsn') /\ lsn' = [Generated(conf, svc) EXCEPT !.backend = lsn'.backend]
            /\ lsn'.backend = NodePortOf(Generated(conf, svc), svc)
        BY <2>3, <3>1, <3>3, GeneratedMade, SetBackendsResult
      <4>2. lsn'.backend = svc.nodePort
        BY <2>3, <3>1, <4>1, NewPort DEF CanFollow
      <4>3. lsn'.protocol = Protocol(conf, svc)
        BY <4>1 DEF Generated
      <4> QED
        BY <2>3, <3>1, <4>1, <4>2, <4>3 DEF Serves, CanFollow
    <3> QED
      BY <2>3, <3>2, <3>3, SuccessStep
  <2> QED
    BY <2>1, <2>2, <2>3 DEF CorrectedIsServed
<1> QED
  BY <1>1, <1>2, PortGivenAlways, ListenerMadeAlways, PTL DEF Spec
=============================================================================
