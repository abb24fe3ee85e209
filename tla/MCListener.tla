----------------------------- MODULE MCListener -----------------------------
(* Values for the constants of ListenerConfig. *)
EXTENDS ListenerConfig

At(value) == [port |-> 443, value |-> value]
Other(value) == [port |-> 80, value |-> value]

MCAnnotation ==
    [method     |-> {<<At("http")>>, <<At("udp"), Empty>>},
     option     |-> {<<At("5|2|2|5")>>, <<Malformed>>},
     balance    |-> {<<At("source")>>, <<At("")>>},
     cert       |-> {<<At("sc1")>>, <<At("sc2"), Other("sc1")>>, <<At("sc1"), At("gone")>>},
     protocol   |-> {<<At("https")>>, <<At("HTTP")>>, <<At("udp")>>, <<At("Https")>>},
     timeout    |-> {<<At(60), At(9)>>, <<At(9), At(10)>>},
     scene      |-> {<<At(11)>>, <<Other(2)>>},
     forwardfor |-> {<<At(7)>>, <<Empty>>},
     lsnoption  |-> {<<At(4), Malformed>>}]

MCRefused ==
    [f \in Field |-> CASE f = "cert"       -> {"gone"}
                       [] f = "forwardfor" -> {7}
                       [] OTHER            -> {}]
=============================================================================
