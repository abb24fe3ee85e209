---------------------------- MODULE CleanupProofs ----------------------------
(***************************************************************************)
(* ServiceCleanup for any set of load balancers and any number of changes, *)
(* failures and restarts: its types, and that both controllers have done   *)
(* what is right when they come to rest.  The latter is the safety half of *)
(* the properties that say what becomes of the listeners in the end; that  *)
(* the controllers do come to rest is left to TLC.                         *)
(***************************************************************************)
EXTENDS ServiceCleanup, TLAPS

(* The listeners of a service are on load balancers that its versions name,
   the call's result included; an empty id names none. *)
LEMMA EffectType ==
    ASSUME TypeOK, NEW c \in Call, Effect(c)
    PROVE  listeners' \subseteq LB
BY DEF TypeOK, Effect, Reused, Call, Version

(* Every variable keeps its type; in particular listeners are only ever
   looked for, left or removed on load balancers, never under an empty id. *)
THEOREM CleanupTypeCorrect == Spec => []TypeOK
<1>1. Init => TypeOK
  BY CleanupAssumption DEF Init, TypeOK, Version, Home, Reused
<1>2. TypeOK /\ [Next]_vars => TypeOK'
  <2> SUFFICES ASSUME TypeOK, [Next]_vars PROVE TypeOK'
    OBVIOUS
  <2>1. CASE ChangeService
    BY <2>1 DEF ChangeService, TypeOK
  <2>2. CASE ServiceEvent
    BY <2>2 DEF ServiceEvent, TypeOK, Version, user
  <2>3. CASE SyncStart
    BY <2>3 DEF SyncStart, TypeOK, Call, Version, user
  <2>4. CASE SyncEnd
    <3>1. listeners' \subseteq LB
      BY <2>4, EffectType DEF SyncEnd, TypeOK
    <3> QED BY <2>4, <3>1 DEF SyncEnd, TypeOK, user
  <2>5. CASE CleanStart
    BY <2>5 DEF CleanStart, TypeOK, Call, user
  <2>6. CASE CleanEnd
    <3>1. listeners' \subseteq LB
      BY <2>6, EffectType DEF CleanEnd, TypeOK
    <3>2. clean \in Call /\ clean.svc \in Version
      BY <2>6 DEF CleanEnd, TypeOK, Call
    <3> QED BY <2>6, <3>1, <3>2 DEF CleanEnd, Requeue, TypeOK, user
  <2>7. CASE Restart
    BY <2>7 DEF Restart, TypeOK, Version, user
  <2>8. CASE UNCHANGED vars
    BY <2>8 DEF TypeOK, vars, user
  <2> QED BY <2>1, <2>2, <2>3, <2>4, <2>5, <2>6, <2>7, <2>8 DEF Next
<1> QED BY <1>1, <1>2, PTL DEF Spec

-----------------------------------------------------------------------------
(* At rest.  Until the user is too quick, a version is seen only when there *)
(* is nothing left to do about the one before.                             *)

Left(v) == Reused(v) \cap listeners = {}

(* A change that no controller has seen finds them at rest. *)
BeforeEvent ==
    seen # svc =>
        /\ seen = prev /\ ~key /\ olds = {} /\ sync = NoCall /\ clean = NoCall
        /\ prev.balanced => finalizer

(* The service controller works on the present version, the cloud-service
   controller on the last one, and on that only if it needs to be cleaned. *)
CallsCurrent ==
    /\ sync # NoCall =>
         sync = [op |-> IF svc.balanced THEN "ensure" ELSE "delete", svc |-> svc]
    /\ clean # NoCall => clean = [op |-> "delete", svc |-> prev]
    /\ olds \subseteq {prev}
    /\ olds # {} \/ clean # NoCall => NeedClean(prev, svc)

Due == key \/ sync # NoCall

(* What the service controller has to do, it does or is going to, and the
   finalizer keeps it from being forgotten at a restart. *)
SyncDue ==
    seen = svc =>
        /\ svc.balanced => (key \/ finalizer) /\ (Due \/ Home(svc) \subseteq listeners)
        /\ ~svc.balanced /\ prev.balanced => Left(svc) \/ (finalizer /\ Due)

(* What the cloud-service controller has to do is lost with its queue. *)
CleanDue ==
    seen = svc /\ NeedClean(prev, svc) /\ restarts = 0
        => olds # {} \/ clean # NoCall \/ Left(prev)

RestInv == ~haste => BeforeEvent /\ CallsCurrent /\ SyncDue /\ CleanDue

CleanupInv == TypeOK /\ restarts \in Nat /\ RestInv

LEMMA RestChange ==
    ASSUME CleanupInv, ChangeService
    PROVE  RestInv'
<1> SUFFICES ASSUME ~haste' PROVE (BeforeEvent /\ CallsCurrent /\ SyncDue /\ CleanDue)'
  BY DEF RestInv
<1>1. ~haste /\ Quiet /\ BeforeEvent /\ CallsCurrent /\ SyncDue
  BY DEF ChangeService, CleanupInv, RestInv, TypeOK
<1>2. /\ prev' = svc /\ svc' # svc
      /\ UNCHANGED <<seen, finalizer, key, olds, sync, clean, listeners>>
  BY DEF ChangeService
<1> QED BY <1>1, <1>2 DEF Quiet, BeforeEvent, CallsCurrent, SyncDue, CleanDue

LEMMA RestEvent ==
    ASSUME CleanupInv, ServiceEvent
    PROVE  RestInv'
<1> SUFFICES ASSUME ~haste' PROVE (BeforeEvent /\ CallsCurrent /\ SyncDue /\ CleanDue)'
  BY DEF RestInv
<1>1. /\ seen # svc /\ BeforeEvent /\ svc.balanced \in BOOLEAN /\ prev.balanced \in BOOLEAN
  BY DEF ServiceEvent, CleanupInv, RestInv, user, TypeOK, Version
<1>2. /\ seen' = svc /\ olds' = IF NeedClean(prev, svc) THEN {prev} ELSE {}
      /\ key' = (svc.balanced \/ prev.balanced \/ finalizer)
      /\ UNCHANGED <<svc, prev, finalizer, sync, clean, listeners, restarts>>
      /\ sync = NoCall /\ clean = NoCall /\ (prev.balanced => finalizer)
  BY <1>1 DEF ServiceEvent, BeforeEvent, user
<1>3. BeforeEvent' /\ CallsCurrent'
  BY <1>2 DEF BeforeEvent, CallsCurrent, NeedClean
<1>4. SyncDue'
  BY <1>1, <1>2 DEF SyncDue, Due
<1>5. CleanDue'
  BY <1>2 DEF CleanDue, NeedClean
<1> QED BY <1>3, <1>4, <1>5

(* Starts and ends of the service controller's call: it works on what both
   the informer and the API server have. *)
LEMMA RestSync ==
    ASSUME CleanupInv, SyncStart \/ SyncEnd
    PROVE  RestInv'
<1> SUFFICES ASSUME ~haste' PROVE (BeforeEvent /\ CallsCurrent /\ SyncDue /\ CleanDue)'
  BY DEF RestInv
<1>1. /\ BeforeEvent /\ CallsCurrent /\ SyncDue /\ CleanDue
      /\ svc.balanced \in BOOLEAN /\ finalizer \in BOOLEAN
      /\ UNCHANGED <<svc, prev, seen, olds, clean, restarts>>
  BY DEF SyncStart, SyncEnd, CleanupInv, RestInv, user, TypeOK, Version
<1>2. seen = svc
  BY <1>1 DEF SyncStart, SyncEnd, BeforeEvent
<1>3. CASE SyncStart
  <2>1. /\ UNCHANGED listeners /\ key /\ sync' # NoCall
        /\ sync' = [op |-> IF svc.balanced THEN "ensure" ELSE "delete", svc |-> svc]
        /\ finalizer' = (finalizer \/ svc.balanced)
    BY <1>2, <1>3, CleanupAssumption DEF SyncStart, CleanupInv, TypeOK, Call
  <2> QED BY <1>1, <1>2, <2>1 DEF BeforeEvent, CallsCurrent, SyncDue, CleanDue, Due, Left
<1>4. CASE SyncEnd
  <2>1. /\ sync # NoCall /\ sync' = NoCall
        /\ sync.op = (IF svc.balanced THEN "ensure" ELSE "delete") /\ sync.svc = svc
        /\ \/ /\ Effect(sync) /\ UNCHANGED key
              /\ finalizer' = (sync.op = "ensure")
           \/ /\ Effect(sync) \/ UNCHANGED listeners
              /\ key' = TRUE /\ UNCHANGED finalizer
    BY <1>1, <1>4 DEF SyncEnd, CallsCurrent
  <2>2. BeforeEvent' /\ CallsCurrent'
    BY <1>1, <1>2, <2>1 DEF BeforeEvent, CallsCurrent
  <2>3. CASE svc.balanced
    <3>1. Home(svc) \subseteq listeners => Home(svc) \subseteq listeners'
      BY <2>1, <2>3 DEF Effect
    <3>2. Effect(sync) => Home(svc) \subseteq listeners'
      BY <2>1, <2>3 DEF Effect, Home
    <3>3. SyncDue'
      BY <1>1, <1>2, <2>1, <2>3, <3>1, <3>2 DEF SyncDue, Due, Home
    <3> QED BY <1>1, <2>2, <2>3, <3>3 DEF CleanDue, NeedClean
  <2>4. CASE ~svc.balanced
    <3>1. \A v : Left(v) => Left(v)'
      BY <2>1, <2>4 DEF Effect, Left, Reused
    <3>2. Effect(sync) => Left(svc)'
      BY <1>1, <2>1, <2>4 DEF Effect, Left, Reused
    <3>3. SyncDue'
      BY <1>1, <1>2, <2>1, <2>4, <3>1, <3>2 DEF SyncDue, Due
    <3>4. CleanDue'
      BY <1>1, <2>1, <3>1 DEF CleanDue, NeedClean, Left
    <3> QED BY <2>2, <3>3, <3>4
  <2> QED BY <1>1, <2>3, <2>4
<1> QED BY <1>3, <1>4

(* The cloud-service controller only removes, and only where the service is
   not balanced any more. *)
LEMMA RestClean ==
    ASSUME CleanupInv, CleanStart \/ CleanEnd
    PROVE  RestInv'
<1> SUFFICES ASSUME ~haste' PROVE (BeforeEvent /\ CallsCurrent /\ SyncDue /\ CleanDue)'
  BY DEF RestInv
<1>1. /\ BeforeEvent /\ CallsCurrent /\ SyncDue /\ CleanDue
      /\ UNCHANGED <<svc, prev, seen, finalizer, key, sync, restarts>>
  BY DEF CleanStart, CleanEnd, CleanupInv, RestInv, user
<1>2. seen = svc /\ NeedClean(prev, svc) /\ ~svc.balanced
  BY <1>1 DEF CleanStart, CleanEnd, BeforeEvent, CallsCurrent, NeedClean
<1>3. /\ \A v : Left(v) => Left(v)'
      /\ CallsCurrent' /\ (olds' # {} \/ clean' # NoCall \/ Left(prev)')
  <2>1. CASE CleanStart
    <3>1. /\ olds' = {} /\ clean' = [op |-> "delete", svc |-> prev] /\ clean' # NoCall
          /\ UNCHANGED listeners
      <4>1. [op |-> "delete", svc |-> prev] # NoCall
        BY CleanupAssumption DEF CleanupInv, TypeOK, Call
      <4> QED BY <1>1, <2>1, <4>1 DEF CleanStart, CallsCurrent
    <3> QED BY <1>1, <1>2, <3>1 DEF CallsCurrent, Left
  <2>2. CASE CleanEnd
    <3>1. /\ clean.op = "delete" /\ clean.svc = prev /\ clean' = NoCall
          /\ \/ Effect(clean) /\ UNCHANGED olds
             \/ /\ Effect(clean) \/ UNCHANGED listeners
                /\ olds' = olds \cup {prev}
      BY <1>1, <2>2 DEF CleanEnd, CallsCurrent, Requeue
    <3>2. Effect(clean) => Left(prev)' /\ \A v : Left(v) => Left(v)'
      BY <1>1, <3>1 DEF Effect, Left, Reused
    <3>3. CallsCurrent'
      BY <1>1, <1>2, <3>1 DEF CallsCurrent
    <3>4. UNCHANGED listeners => \A v : Left(v) => Left(v)'
      BY DEF Left
    <3> QED BY <3>1, <3>2, <3>3, <3>4
  <2> QED BY <2>1, <2>2
<1>4. BeforeEvent' /\ SyncDue' /\ CleanDue'
  BY <1>1, <1>2, <1>3 DEF BeforeEvent, SyncDue, CleanDue, Due, Left
<1> QED BY <1>3, <1>4

(* After a restart the service controller looks at a service that is
   balanced or still has the finalizer. *)
LEMMA RestRestart ==
    ASSUME CleanupInv, Restart
    PROVE  RestInv'
<1> SUFFICES ASSUME ~haste' PROVE (BeforeEvent /\ CallsCurrent /\ SyncDue /\ CleanDue)'
  BY DEF RestInv
<1>1. /\ BeforeEvent /\ SyncDue /\ restarts \in Nat
      /\ svc \in Version /\ prev \in Version /\ finalizer \in BOOLEAN
      /\ UNCHANGED <<svc, prev, finalizer, listeners>>
      /\ seen' = svc /\ key' = (svc.balanced \/ finalizer)
      /\ olds' = {} /\ sync' = NoCall /\ clean' = NoCall /\ restarts' # 0
  BY DEF Restart, CleanupInv, RestInv, user, TypeOK
<1>2. BeforeEvent' /\ CallsCurrent' /\ CleanDue'
  BY <1>1 DEF BeforeEvent, CallsCurrent, CleanDue
<1>3. ~svc.balanced /\ prev.balanced => Left(svc) \/ finalizer
  BY <1>1 DEF BeforeEvent, SyncDue
<1>4. SyncDue'
  BY <1>1, <1>3 DEF SyncDue, Due, Left, Version
<1> QED BY <1>2, <1>4

(* What is due at rest is done. *)
LEMMA RestRight ==
    ASSUME CleanupInv
    PROVE  SettledRight
<1> SUFFICES ASSUME Quiet, ~haste
             PROVE  /\ Home(svc) \subseteq listeners
                    /\ prev.balanced /\ ~svc.balanced /\ (restarts = 0 \/ prev.lb = svc.lb)
                          => Left(prev)
  BY DEF SettledRight, Left
<1>1. SyncDue /\ CleanDue /\ ~Due /\ seen = svc /\ olds = {} /\ clean = NoCall
  BY DEF CleanupInv, RestInv, Quiet, Due
<1>2. Home(svc) \subseteq listeners
  BY <1>1 DEF SyncDue, Home
<1>3. ASSUME prev.balanced, ~svc.balanced, prev.lb = svc.lb PROVE Left(prev)
  BY <1>1, <1>3 DEF SyncDue, Left, Reused
<1>4. ASSUME prev.balanced, ~svc.balanced, restarts = 0, prev.lb # svc.lb PROVE Left(prev)
  BY <1>1, <1>4 DEF CleanDue, NeedClean, Left, Reused
<1> QED BY <1>2, <1>3, <1>4

(* However often the user changes type and annotations, calls fail with or
   without effect and the program restarts: as long as each change comes at
   rest, the listeners are where the present version wants them and not where
   the last one had them.  Only what the cloud-service controller had in its
   queue is lost by a restart. *)
THEOREM RestsRight == Spec => []SettledRight
<1>1. Init => CleanupInv
  <2> SUFFICES ASSUME Init PROVE CleanupInv
    OBVIOUS
  <2>1. /\ First.balanced \in BOOLEAN /\ seen = svc /\ prev = svc /\ svc = First
        /\ finalizer = svc.balanced /\ listeners = Home(svc)
        /\ olds = {} /\ sync = NoCall /\ clean = NoCall /\ restarts = 0
    BY CleanupAssumption DEF Init, Version
  <2>2. TypeOK
    BY CleanupAssumption, <2>1 DEF Init, TypeOK, Version, Home, Reused
  <2>3. BeforeEvent /\ CallsCurrent /\ CleanDue
    BY <2>1 DEF BeforeEvent, CallsCurrent, CleanDue, NeedClean
  <2>4. SyncDue
    BY <2>1 DEF SyncDue
  <2> QED BY <2>1, <2>2, <2>3, <2>4 DEF CleanupInv, RestInv
<1>2. CleanupInv /\ TypeOK' /\ [Next]_vars => CleanupInv'
  <2> SUFFICES ASSUME CleanupInv, TypeOK', [Next]_vars PROVE CleanupInv'
    OBVIOUS
  <2>1. restarts' \in Nat
    BY DEF CleanupInv, Next, vars, user, ChangeService, ServiceEvent, SyncStart, SyncEnd,
       CleanStart, CleanEnd, Restart
  <2>2. CASE Next
    BY <2>1, <2>2, RestChange, RestEvent, RestSync, RestClean, RestRestart
    DEF Next, CleanupInv
  <2>3. CASE UNCHANGED vars
    BY <2>1, <2>3 DEF CleanupInv, RestInv, BeforeEvent, CallsCurrent, SyncDue, CleanDue, Due,
       Left, vars, user
  <2> QED BY <2>2, <2>3
<1> QED BY <1>1, <1>2, CleanupTypeCorrect, RestRight, PTL DEF Spec
=============================================================================
