--------------------------- MODULE ServiceCleanup ---------------------------
(***************************************************************************)
(* A service that reuses a load balancer stops doing so: the cloud-service *)
(* controller, which removes the listeners with the old version of the     *)
(* service, beside the service controller of k8s.io/cloud-provider, which  *)
(* sees only the new one.                                                  *)
(*                                                                         *)
(* The calls of the provider are cut down to where they leave the          *)
(* service's listeners; each takes effect some time after it started.      *)
(***************************************************************************)
EXTENDS FiniteSets, Integers

CONSTANTS
    LB,               \* the load balancers services may reuse
    NoLB,             \* no load-balancer-id annotation
    First,            \* the version of the service at the start
    NoCall,
    MaxChanges,       \* bound on the changes of the service
    MaxFaults,        \* bound on the failed calls
    MaxRestarts       \* bound on the restarts of the program

(* What matters of a version of the service; the strategy is reuse-lb with
   an id, or there is neither annotation. *)
Version == [balanced: BOOLEAN, lb: LB \cup {NoLB}]

Call == [op: {"ensure", "delete"}, svc: Version]

ASSUME CleanupAssumption ==
    /\ NoLB \notin LB /\ First \in Version /\ NoCall \notin Call
    /\ {MaxChanges, MaxFaults, MaxRestarts} \subseteq Nat

VARIABLES
    svc, prev,        \* the service in the API server, and its last version
    seen,             \* and in the shared informer
    finalizer,        \* the service has the load balancer finalizer
    key,              \* the service controller has to look at it
    olds,             \* the queue of the cloud-service controller
    sync, clean,      \* the call each of the two is in
    listeners,        \* the load balancers with listeners of the service
    haste,            \* a change came before the last one was carried out
    changes, faults, restarts

user == <<svc, prev, haste, changes>>
vars == <<user, seen, finalizer, key, olds, sync, clean, listeners, faults, restarts>>

TypeOK ==
    /\ svc \in Version /\ prev \in Version /\ seen \in Version /\ finalizer \in BOOLEAN
    /\ key \in BOOLEAN /\ olds \subseteq Version
    /\ sync \in Call \cup {NoCall} /\ clean \in Call \cup {NoCall}
    /\ listeners \subseteq LB /\ haste \in BOOLEAN

(* Mutant of Reused: an empty id is not told from an id. *)
ReusedUnchecked(v) == {v.lb}

(* Where a service wants its listeners, and where a call with this version
   looks for them. *)
Reused(v) == IF v.lb = NoLB THEN {} ELSE {v.lb}

Home(v) == IF v.balanced THEN Reused(v) ELSE {}

Init ==
    /\ svc = First /\ prev = First /\ seen = First
    /\ finalizer = First.balanced
    /\ key = FALSE /\ olds = {} /\ sync = NoCall /\ clean = NoCall
    /\ listeners = Home(First)
    /\ haste = FALSE /\ changes = 0 /\ faults = 0 /\ restarts = 0

Quiet == seen = svc /\ ~key /\ olds = {} /\ sync = NoCall /\ clean = NoCall

-----------------------------------------------------------------------------
(* The user changes type or annotations, or both at once. *)
ChangeService ==
    /\ changes < MaxChanges /\ changes' = changes + 1
    /\ haste' = (haste \/ ~Quiet)
    /\ svc' \in Version \ {svc} /\ prev' = svc
    /\ UNCHANGED <<seen, finalizer, key, olds, sync, clean, listeners, faults, restarts>>

(* Mutant of NeedClean: neither the type nor the new id is looked at. *)
NeedCleanAnyType(old, new) == old.lb # NoLB

(* The type has changed, and the annotations that name the load balancer
   are not the same any more.  (With them the service controller finds it.) *)
NeedClean(old, new) ==
    old.balanced /\ ~new.balanced /\ old.lb # NoLB /\ new.lb # old.lb

(* Both controllers' event handlers; the service controller needs an update
   for a service that has or had its type, or whose finalizer tells to clean up.
   Versions in between may never be seen. *)
ServiceEvent ==
    /\ seen # svc
    /\ seen' = svc
    /\ olds' = IF NeedClean(seen, svc) THEN olds \cup {seen} ELSE olds
    /\ key' = (key \/ svc.balanced \/ seen.balanced \/ finalizer)
    /\ UNCHANGED <<user, finalizer, sync, clean, listeners, faults, restarts>>

-----------------------------------------------------------------------------
(* A call with version v: ensure leaves listeners on v's load balancer (or,
   without one, on one of the service's own, which is not followed here),
   delete removes them from it. *)
Effect(c) ==
    listeners' = IF c.op = "ensure" THEN listeners \cup Reused(c.svc)
                                    ELSE listeners \ Reused(c.svc)

Fault == faults < MaxFaults /\ faults' = faults + 1

(* syncLoadBalancerIfNeeded of the service controller, which sets the
   finalizer before it ensures. *)
SyncStart ==
    /\ sync = NoCall /\ key
    /\ key' = FALSE
    /\ sync' = [op |-> IF seen.balanced THEN "ensure" ELSE "delete", svc |-> seen]
    /\ finalizer' = (finalizer \/ seen.balanced)
    /\ UNCHANGED <<user, seen, olds, clean, listeners, faults, restarts>>

SyncEnd ==
    /\ sync # NoCall
    /\ sync' = NoCall
    /\ \/ /\ Effect(sync) /\ UNCHANGED <<key, faults>>
          /\ finalizer' = (sync.op = "ensure")
       \/ /\ Effect(sync) \/ UNCHANGED listeners
          /\ key' = TRUE /\ Fault /\ UNCHANGED finalizer
    /\ UNCHANGED <<user, seen, olds, clean, restarts>>

(* processNextWorkItem and handleServiceUpdate of the cloud-service
   controller: the queue holds the old object itself. *)
CleanStart ==
    /\ clean = NoCall
    /\ \E v \in olds : /\ olds' = olds \ {v}
                       /\ clean' = [op |-> "delete", svc |-> v]
    /\ UNCHANGED <<user, seen, finalizer, key, sync, listeners, faults, restarts>>

(* Mutant of Requeue: a failed cleanup is given up. *)
GiveUp(v) == UNCHANGED olds

Requeue(v) == olds' = olds \cup {v}

CleanEnd ==
    /\ clean # NoCall
    /\ clean' = NoCall
    /\ \/ Effect(clean) /\ UNCHANGED <<olds, faults>>
       \/ /\ Effect(clean) \/ UNCHANGED listeners
          /\ Requeue(clean.svc) /\ Fault
    /\ UNCHANGED <<user, seen, finalizer, key, sync, restarts>>

(* Mutant of Restart: the service controller starts with what it is told
   from then on. *)
RestartUnlisted ==
    /\ restarts < MaxRestarts /\ restarts' = restarts + 1
    /\ seen' = svc /\ key' = FALSE
    /\ olds' = {} /\ sync' = NoCall /\ clean' = NoCall
    /\ UNCHANGED <<user, finalizer, listeners, faults>>

(* The queues and the calls are lost; the informer starts with the present
   version, which the service controller looks at if there is reason to. *)
Restart ==
    /\ restarts < MaxRestarts /\ restarts' = restarts + 1
    /\ seen' = svc /\ key' = (svc.balanced \/ finalizer)
    /\ olds' = {} /\ sync' = NoCall /\ clean' = NoCall
    /\ UNCHANGED <<user, finalizer, listeners, faults>>

Next ==
    \/ ChangeService \/ ServiceEvent \/ SyncStart \/ SyncEnd
    \/ CleanStart \/ CleanEnd \/ Restart

(* The informer delivers and both workers run for ever. *)
Fairness ==
    /\ WF_vars(ServiceEvent) /\ WF_vars(SyncStart) /\ WF_vars(SyncEnd)
    /\ WF_vars(CleanStart) /\ WF_vars(CleanEnd)

Spec == Init /\ [][Next]_vars /\ Fairness

-----------------------------------------------------------------------------
(* Properties.                                                             *)

(* A service that gives up its type and never its annotation: the finalizer
   makes the service controller remove the listeners, whatever is lost. *)
KeptAnnotationCleaned ==
    \A l \in LB :
        [](svc.lb = l) /\ <>[](~svc.balanced) => <>[](l \notin listeners)

(* The service gives up type and annotation at once: "if service changed
   type and delete annotation, need clean [...] listener(reuse-lb)".  This
   much the controller does when the user waits for each change to be carried
   out and the program does not lose its queue. *)
DroppedAnnotationCleaned ==
    \A l \in LB :
        <>[](/\ ~svc.balanced /\ svc.lb # l /\ prev = [balanced |-> TRUE, lb |-> l]
             /\ ~haste /\ restarts = 0)
            => <>[](l \notin listeners)

(* A service that ends up reusing a load balancer has its listeners there,
   however often it left and came back, if the user waits for each change. *)
ReusingServedInTime ==
    \A l \in LB :
        <>[](svc = [balanced |-> TRUE, lb |-> l] /\ ~haste) => <>[](l \in listeners)

(* When both controllers have come to rest after a change that the user let
   them carry out, it has been: a service that reuses a load balancer has its
   listeners there, and one that stopped being balanced has left the load
   balancer it named before; if it gave up its annotation with its type,
   only as long as the program was not restarted. *)
SettledRight ==
    Quiet /\ ~haste =>
        /\ Home(svc) \subseteq listeners
        /\ (/\ prev.balanced /\ ~svc.balanced
            /\ restarts = 0 \/ prev.lb = svc.lb) => Reused(prev) \cap listeners = {}

-----------------------------------------------------------------------------
(* What a comment says of the controller and it does not do.               *)

(* "clean lb listener for service which new svc del the lb annotation", and
   for no other: a service that ends up reusing a load balancer keeps its
   listeners there. *)
ReusingServed ==
    \A l \in LB :
        <>[](svc = [balanced |-> TRUE, lb |-> l]) => <>[](l \in listeners)

(* "If service changed type and delete annotation, need clean [...]
   listener(reuse-lb)", without the conditions of DroppedAnnotationCleaned: the
   queue of old versions is lost with the program, and an ensure that is under
   way with the old version puts the listeners back after the cleanup. *)
DroppedAnnotationAlwaysCleaned ==
    \A l \in LB :
        <>[](/\ ~svc.balanced /\ svc.lb # l /\ prev = [balanced |-> TRUE, lb |-> l])
            => <>[](l \notin listeners)
=============================================================================
