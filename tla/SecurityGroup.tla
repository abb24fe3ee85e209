---------------------------- MODULE SecurityGroup ---------------------------
(***************************************************************************)
(* The start of the program up to a working API client, which looks up or  *)
(* makes the default security group that CreateLB gives to every load      *)
(* balancer without one of its own.  An instance that fails exits and is   *)
(* started again; every replica does this before it tries to become the    *)
(* leader.                                                                 *)
(***************************************************************************)
EXTENDS FiniteSets, Integers

CONSTANTS
    Instance,         \* running copies of the program
    Group,            \* ids of security groups
    Similar,          \* the user's, with DefaultSgName as a part of their name
    NoGroup,
    MaxFaults         \* bound on failed calls and crashes

ASSUME GroupAssumption ==
    /\ IsFiniteSet(Instance)
    /\ Similar \subseteq Group /\ NoGroup \notin Group /\ MaxFaults \in Nat

VARIABLES
    group,            \* group[g]: how far the group has come
    pc,               \* pc[i]: the next step of NewQingCloudClient
    sg,               \* sg[i]: its security group
    faults

vars == <<group, pc, sg, faults>>

(* "ruled": with rules that are not in force; "job": about to be. *)
GroupState == {"none", "empty", "ruled", "job", "applied"}
Steps == {"key", "find", "create", "rules", "apply", "wait"}

TypeOK ==
    /\ group \in [Group -> GroupState]
    /\ pc \in [Instance -> Steps \cup {"down", "running"}]
    /\ sg \in [Instance -> Group \cup {NoGroup}]
    /\ faults \in 0 .. MaxFaults

Init ==
    /\ group = [g \in Group |-> IF g \in Similar THEN "applied" ELSE "none"]
    /\ pc = [i \in Instance |-> "down"]
    /\ sg = [i \in Instance |-> NoGroup]
    /\ faults = 0

-----------------------------------------------------------------------------
Goto(i, step) == pc' = [pc EXCEPT ![i] = step]
Fault == faults < MaxFaults /\ faults' = faults + 1

(* NewQingCloudClient returns an error, and the program exits. *)
Exit(i) == Goto(i, "down") /\ Fault /\ UNCHANGED sg

(* A call that only reads. *)
Read(i, Then) == UNCHANGED group /\ ((Then /\ UNCHANGED faults) \/ Exit(i))

(* A call that takes group g to a state, or fails with or without effect. *)
Call(i, g, state, Then) ==
    \/ group' = [group EXCEPT ![g] = state] /\ Then /\ UNCHANGED faults
    \/ (group' = [group EXCEPT ![g] = state] \/ UNCHANGED group) /\ Exit(i)

Start(i) ==
    /\ pc[i] = "down"
    /\ Goto(i, "key") /\ sg' = [sg EXCEPT ![i] = NoGroup]
    /\ UNCHANGED <<group, faults>>

(* DescribeAccessKeys: the owner whose groups are looked up. *)
DescribeAccessKeys(i) ==
    /\ pc[i] = "key"
    /\ Read(i, Goto(i, "find") /\ UNCHANGED sg)

Existing == { g \in Group : group[g] # "none" }

(* Mutants of Matches: whatever the search returns; only groups in use. *)
MatchesSearchWord == Existing
MatchesApplied == { g \in Existing \ Similar : group[g] = "applied" }

(* The search word finds parts of names, the loop the name itself. *)
Matches == Existing \ Similar

(* Mutant of NotFoundStep: every error ends the start. *)
NotFoundStepDown == "down"

NotFoundStep == "create"

GetSecurityGroupByName(i) ==
    /\ pc[i] = "find"
    /\ Read(i, \/ \E g \in Matches : sg' = [sg EXCEPT ![i] = g] /\ Goto(i, "running")
               \/ Matches = {} /\ Goto(i, NotFoundStep) /\ UNCHANGED sg)

(* CreateSecurityGroup; that tags cannot be attached is only logged. *)
CreateSecurityGroup(i) ==
    /\ pc[i] = "create"
    /\ \E g \in Group \ Existing :
          Call(i, g, "empty", sg' = [sg EXCEPT ![i] = g] /\ Goto(i, "rules"))

(* Mutant of AddSecurityGroupRules: the rules are not applied. *)
AddSecurityGroupRulesOnly(i) ==
    /\ pc[i] = "rules"
    /\ Call(i, sg[i], "ruled", Goto(i, "running") /\ UNCHANGED sg)

(* addSecurityGroupRules: three calls, the last of which waits for a job. *)
AddSecurityGroupRules(i) ==
    /\ pc[i] = "rules"
    /\ Call(i, sg[i], "ruled", Goto(i, "apply") /\ UNCHANGED sg)

ApplySecurityGroup(i) ==
    /\ pc[i] = "apply"
    /\ Call(i, sg[i], "job", Goto(i, "wait") /\ UNCHANGED sg)

WaitJob(i) ==
    /\ pc[i] = "wait"
    /\ UNCHANGED <<group, sg>>
    /\ \/ group[sg[i]] = "applied" /\ Goto(i, "running") /\ UNCHANGED faults
       \/ Exit(i)

JobEnds(g) ==
    /\ group[g] = "job"
    /\ group' = [group EXCEPT ![g] = "applied"]
    /\ UNCHANGED <<pc, sg, faults>>

Crash(i) == pc[i] # "down" /\ Exit(i) /\ UNCHANGED group

Step(i) ==
    \/ Start(i) \/ DescribeAccessKeys(i) \/ GetSecurityGroupByName(i)
    \/ CreateSecurityGroup(i) \/ AddSecurityGroupRules(i)
    \/ ApplySecurityGroup(i) \/ WaitJob(i)

Next ==
    \/ \E i \in Instance : Step(i) \/ Crash(i)
    \/ \E g \in Group : JobEnds(g)

(* An instance is always started again and goes on; jobs end. *)
Fairness ==
    /\ \A i \in Instance : WF_vars(Step(i))
    /\ \A g \in Group : WF_vars(JobEnds(g))

Spec == Init /\ [][Next]_vars /\ Fairness

-----------------------------------------------------------------------------
(* Properties.                                                             *)

(* No instance uses or changes a group of the user's whose name only
   contains that of the default group. *)
SimilarGroupsUntouched ==
    /\ \A i \in Instance : sg[i] \notin Similar
    /\ \A g \in Similar : group[g] = "applied"

(* A start that is repeated because something failed on the way finds the
   group it has made before: there are never more default groups than
   instances, which may all look before the first has made one. *)
OneGroupPerInstance ==
    Cardinality(Existing \ Similar) <= Cardinality(Instance)

(* Failed starts do not keep the client from coming up in the end. *)
ClientComesUp ==
    \A i \in Instance : <>[](pc[i] = "running" /\ sg[i] \in Group)

(* As long as no start fails, every instance ends up with a group whose rules
   are in force, also one that uses the group another is still making. *)
RulesComeIntoForce ==
    [](faults = 0) =>
        <>[](\A i \in Instance : sg[i] \in Group /\ group[sg[i]] = "applied")

(* When no start failed and everything has come to rest, the rules of every
   instance's group are in force: none is left without a maker. *)
RulesAtRest ==
    (/\ faults = 0 /\ \A i \in Instance : pc[i] = "running"
     /\ \A g \in Group : group[g] # "job")
        => \A i \in Instance : group[sg[i]] = "applied"

-----------------------------------------------------------------------------
(* What a comment says of the program and it does not do.                  *)

(* "allow all tcp port, lb only open listener's port": the group that load
   balancers are created with has its rules in force. *)
RulesInForce ==
    \A i \in Instance : pc[i] = "running" => group[sg[i]] = "applied"
=============================================================================
