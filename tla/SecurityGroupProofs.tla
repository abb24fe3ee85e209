------------------------ MODULE SecurityGroupProofs -------------------------
(***************************************************************************)
(* For any number of instances and groups: the user's groups are left      *)
(* alone; and every instance makes at most one default group.              *)
(***************************************************************************)
EXTENDS SecurityGroup, FiniteSetTheorems, TLAPS

(* Every variable stays in its type. *)
THEOREM SGTypeCorrect == Spec => []TypeOK
<1>1. Init => TypeOK
  BY GroupAssumption DEF Init, TypeOK, GroupState
<1>2. TypeOK /\ [Next]_vars => TypeOK'
  <2> SUFFICES ASSUME TypeOK, [Next]_vars PROVE TypeOK'
    OBVIOUS
  <2>1. ASSUME NEW i \in Instance, Step(i) PROVE TypeOK'
    <3>1. CASE Start(i)
      BY <3>1 DEF Start, TypeOK, Goto, Steps
    <3>2. CASE DescribeAccessKeys(i)
      BY <3>2, GroupAssumption DEF DescribeAccessKeys, Read, Exit, Fault, TypeOK, Goto, Steps
    <3>3. CASE GetSecurityGroupByName(i)
      BY <3>3, GroupAssumption DEF GetSecurityGroupByName, Read, Exit, Fault, TypeOK, Goto,
         Steps, Matches, Existing, NotFoundStep
    <3>4. CASE CreateSecurityGroup(i)
      <4>1. PICK g \in Group \ Existing :
                Call(i, g, "empty", sg' = [sg EXCEPT ![i] = g] /\ Goto(i, "rules"))
        BY <3>4 DEF CreateSecurityGroup
      <4>2. group' \in [Group -> GroupState]
        BY <4>1 DEF Call, TypeOK, GroupState
      <4> QED
        BY <4>1, <4>2, GroupAssumption DEF Call, Exit, Fault, TypeOK, Goto, Steps
    <3>5. CASE AddSecurityGroupRules(i)
      <4>1. group' \in [Group -> GroupState]
        BY <3>5 DEF AddSecurityGroupRules, Call, TypeOK, GroupState
      <4> QED
        BY <3>5, <4>1, GroupAssumption
        DEF AddSecurityGroupRules, Call, Exit, Fault, TypeOK, Goto, Steps
    <3>6. CASE ApplySecurityGroup(i)
      <4>1. group' \in [Group -> GroupState]
        BY <3>6 DEF ApplySecurityGroup, Call, TypeOK, GroupState
      <4> QED
        BY <3>6, <4>1, GroupAssumption
        DEF ApplySecurityGroup, Call, Exit, Fault, TypeOK, Goto, Steps
    <3>7. CASE WaitJob(i)
      BY <3>7, GroupAssumption DEF WaitJob, Exit, Fault, TypeOK, Goto, Steps
    <3> QED
      BY <2>1, <3>1, <3>2, <3>3, <3>4, <3>5, <3>6, <3>7 DEF Step
  <2>2. ASSUME NEW i \in Instance, Crash(i) PROVE TypeOK'
    BY <2>2, GroupAssumption DEF Crash, Exit, Fault, TypeOK, Goto, Steps
  <2>3. ASSUME NEW g \in Group, JobEnds(g) PROVE TypeOK'
    BY <2>3 DEF JobEnds, TypeOK, GroupState
  <2>4. CASE UNCHANGED vars
    BY <2>4 DEF vars, TypeOK
  <2> QED
    BY <2>1, <2>2, <2>3, <2>4 DEF Next
<1> QED
  BY <1>1, <1>2, PTL DEF Spec

-----------------------------------------------------------------------------
(* What a step does to the groups, and to the group an instance has. *)
LEMMA GroupChanges ==
    ASSUME TypeOK, NEW i \in Instance, Step(i) \/ Crash(i)
    PROVE  /\ \A g \in Group : \/ group'[g] = group[g]
                               \/ pc[i] = "create" /\ group[g] = "none"
                               \/ g = sg[i] /\ pc[i] \in {"rules", "apply"}
           /\ sg' \in [Instance -> Group \cup {NoGroup}]
           /\ \A k \in Instance : \/ sg'[k] = sg[k]
                                  \/ sg'[k] \in Matches \cup {NoGroup}
                                  \/ group[sg'[k]] = "none"
<1>1. CASE CreateSecurityGroup(i)
  <2>1. PICK g \in Group \ Existing :
            Call(i, g, "empty", sg' = [sg EXCEPT ![i] = g] /\ Goto(i, "rules"))
    BY <1>1 DEF CreateSecurityGroup
  <2> QED
    BY <1>1, <2>1 DEF CreateSecurityGroup, Call, Exit, TypeOK, Existing
<1>2. CASE AddSecurityGroupRules(i)
  BY <1>2 DEF AddSecurityGroupRules, Call, Exit, TypeOK
<1>3. CASE ApplySecurityGroup(i)
  BY <1>3 DEF ApplySecurityGroup, Call, Exit, TypeOK
<1>4. CASE GetSecurityGroupByName(i)
  BY <1>4 DEF GetSecurityGroupByName, Read, Exit, TypeOK, Matches, Existing
<1>5. CASE Start(i) \/ DescribeAccessKeys(i) \/ WaitJob(i) \/ Crash(i)
  BY <1>5 DEF Start, DescribeAccessKeys, WaitJob, Crash, Read, Exit, TypeOK
<1> QED
  BY <1>1, <1>2, <1>3, <1>4, <1>5 DEF Step

(* However many instances start at once and wherever they fail, no group
   whose name only contains the default group's is used or changed. *)
THEOREM UserGroupsSafe == Spec => []SimilarGroupsUntouched
<1>1. Init => SimilarGroupsUntouched
  BY GroupAssumption DEF Init, SimilarGroupsUntouched
<1>2. TypeOK /\ SimilarGroupsUntouched /\ [Next]_vars => SimilarGroupsUntouched'
  <2> SUFFICES ASSUME TypeOK, SimilarGroupsUntouched, [Next]_vars
               PROVE  SimilarGroupsUntouched'
    OBVIOUS
  <2>1. ASSUME NEW i \in Instance, Step(i) \/ Crash(i) PROVE SimilarGroupsUntouched'
    <3>1. ASSUME NEW k \in Instance PROVE sg'[k] \notin Similar
      BY <2>1, GroupChanges, GroupAssumption DEF SimilarGroupsUntouched, Matches
    <3>2. ASSUME NEW g \in Similar PROVE group'[g] = "applied"
      BY <2>1, GroupChanges, GroupAssumption DEF SimilarGroupsUntouched
    <3> QED
      BY <3>1, <3>2 DEF SimilarGroupsUntouched
  <2>2. ASSUME NEW g \in Group, JobEnds(g) PROVE SimilarGroupsUntouched'
    BY <2>2, GroupAssumption DEF JobEnds, SimilarGroupsUntouched, TypeOK
  <2>3. CASE UNCHANGED vars
    BY <2>3 DEF vars, SimilarGroupsUntouched
  <2> QED
    BY <2>1, <2>2, <2>3 DEF Next
<1> QED
  BY <1>1, <1>2, SGTypeCorrect, PTL DEF Spec

-----------------------------------------------------------------------------
(* An instance that is about to create a group may still add one to the
   default groups there are. *)
Creating == { i \in Instance : pc[i] = "create" }

(* Only instances that found no group at all get that far, so the groups that
   exist and those that may still be added are never more than the instances. *)
Counted ==
    /\ IsFiniteSet(Matches)
    /\ Cardinality(Matches) + Cardinality(Creating) <= Cardinality(Instance)

(* The group whose rules are being set exists. *)
HasGroup ==
    \A i \in Instance : pc[i] \in {"rules", "apply"} =>
        sg[i] \in Group /\ group[sg[i]] # "none"

(* Fewer instances on the way do not break the count. *)
LEMMA CountKept ==
    ASSUME Counted, Matches' = Matches, Creating' \subseteq Creating
    PROVE  Counted'
<1>1. IsFiniteSet(Creating)
  BY GroupAssumption, FS_Subset DEF Creating
<1>2. Cardinality(Creating') <= Cardinality(Creating) /\ IsFiniteSet(Creating')
  BY <1>1, FS_Subset
<1> QED
  BY <1>1, <1>2, GroupAssumption, FS_CardinalityType DEF Counted

(* Wherever they fail and however often they start again, the instances make
   at most one default group each. *)
THEOREM GroupPerInstance == Spec => []OneGroupPerInstance
<1> DEFINE Inv == Counted /\ HasGroup
<1>1. Init => Inv
  <2> SUFFICES ASSUME Init PROVE Inv
    OBVIOUS
  <2>1. Matches = {} /\ Creating = {} /\ HasGroup
    BY DEF Init, Matches, Existing, Creating, HasGroup
  <2> QED
    BY <2>1, FS_EmptySet, FS_CardinalityType, GroupAssumption DEF Counted
<1>2. TypeOK /\ Inv /\ [Next]_vars => Inv'
  <2> SUFFICES ASSUME TypeOK, Inv, [Next]_vars PROVE Inv'
    OBVIOUS
  <2>1. ASSUME NEW i \in Instance, CreateSecurityGroup(i) PROVE Inv'
    <3>1. PICK g \in Group \ Existing :
              Call(i, g, "empty", sg' = [sg EXCEPT ![i] = g] /\ Goto(i, "rules"))
      BY <2>1 DEF CreateSecurityGroup
    <3>2. i \in Creating
      BY <2>1 DEF CreateSecurityGroup, Creating
    <3>3. Creating' = Creating \ {i}
      BY <3>1 DEF Call, Exit, Goto, TypeOK, Creating
    <3>4. Matches' = Matches \/ Matches' = Matches \cup {g}
      BY <3>1 DEF Call, TypeOK, Matches, Existing
    <3>5. IsFiniteSet(Creating)
      BY GroupAssumption, FS_Subset DEF Creating
    <3>6. Cardinality(Creating') = Cardinality(Creating) - 1
      BY <3>2, <3>3, <3>5, FS_RemoveElement
    <3>7. /\ IsFiniteSet(Matches')
          /\ Cardinality(Matches') <= Cardinality(Matches) + 1
      <4>1. IsFiniteSet(Matches) /\ Cardinality(Matches) \in Nat
        BY FS_CardinalityType DEF Counted
      <4>2. IsFiniteSet(Matches \cup {g})
        BY <4>1, FS_AddElement
      <4>3. Cardinality(Matches \cup {g}) =
               IF g \in Matches THEN Cardinality(Matches) ELSE Cardinality(Matches) + 1
        BY <4>1, FS_AddElement, Zenon
      <4>4. Cardinality(Matches \cup {g}) <= Cardinality(Matches) + 1
        BY <4>1, <4>3
      <4>5. CASE Matches' = Matches
        BY <4>1, <4>5
      <4>6. CASE Matches' = Matches \cup {g}
        BY <4>2, <4>4, <4>6
      <4> QED
        BY <3>4, <4>5, <4>6
    <3>8. Counted'
      BY <3>3, <3>5, <3>6, <3>7, GroupAssumption, FS_RemoveElement, FS_CardinalityType
      DEF Counted
    <3>9. \A h \in Group : group'[h] = group[h] \/ h = g
      BY <3>1 DEF Call, TypeOK
    <3>10. \/ pc'[i] = "down"
           \/ pc'[i] = "rules" /\ sg'[i] = g /\ group'[g] = "empty"
      BY <3>1 DEF Call, Exit, Goto, TypeOK
    <3>11. \A k \in Instance \ {i} : pc'[k] = pc[k] /\ sg'[k] = sg[k]
      BY <3>1 DEF Call, Exit, Goto, TypeOK
    <3> QED
      BY <3>1, <3>8, <3>9, <3>10, <3>11 DEF HasGroup, Existing
  <2>2. ASSUME NEW i \in Instance, GetSecurityGroupByName(i) PROVE Inv'
    <3>1. UNCHANGED group
      BY <2>2 DEF GetSecurityGroupByName, Read
    <3>2. /\ pc'[i] = "create" => Matches = {}
          /\ pc'[i] \notin {"rules", "apply"}
      BY <2>2 DEF GetSecurityGroupByName, NotFoundStep, Read, Exit, Goto, TypeOK
    <3>3. \A k \in Instance \ {i} : pc'[k] = pc[k] /\ sg'[k] = sg[k]
      BY <2>2 DEF GetSecurityGroupByName, NotFoundStep, Read, Exit, Goto, TypeOK
    <3>4. HasGroup'
      BY <3>1, <3>2, <3>3 DEF HasGroup
    <3>5. Matches' = Matches
      BY <3>1 DEF Matches, Existing
    <3>6. CASE Matches = {}
      <4>1. Creating' \subseteq Instance
        BY DEF Creating
      <4>2. Cardinality(Creating') <= Cardinality(Instance) /\ IsFiniteSet(Creating')
        BY <4>1, GroupAssumption, FS_Subset
      <4> QED
        BY <3>4, <3>5, <3>6, <4>2, FS_EmptySet, FS_CardinalityType, GroupAssumption
        DEF Counted
    <3>7. CASE Matches # {}
      <4>1. Creating' \subseteq Creating
        BY <3>2, <3>3, <3>7 DEF Creating
      <4> QED
        BY <3>4, <3>5, <4>1, CountKept
    <3> QED
      BY <3>6, <3>7
  <2>3. ASSUME NEW i \in Instance,
               \/ Start(i) \/ DescribeAccessKeys(i) \/ WaitJob(i) \/ Crash(i)
        PROVE  Inv'
    <3>1. UNCHANGED group /\ pc'[i] \notin {"create", "rules", "apply"}
      BY <2>3 DEF Start, DescribeAccessKeys, WaitJob, Crash, Read, Exit, Goto, TypeOK
    <3>2. \A k \in Instance \ {i} : pc'[k] = pc[k] /\ sg'[k] = sg[k]
      BY <2>3 DEF Start, DescribeAccessKeys, WaitJob, Crash, Read, Exit, Goto, TypeOK
    <3>3. Matches' = Matches /\ Creating' \subseteq Creating
      BY <3>1, <3>2 DEF Matches, Existing, Creating
    <3> QED
      BY <3>1, <3>2, <3>3, CountKept DEF HasGroup
  <2>4. ASSUME NEW i \in Instance, AddSecurityGroupRules(i) \/ ApplySecurityGroup(i)
        PROVE  Inv'
    <3>1. sg[i] \in Group /\ group[sg[i]] # "none"
      BY <2>4 DEF AddSecurityGroupRules, ApplySecurityGroup, HasGroup
    <3>2. \A g \in Group : group'[g] # "none" <=> group[g] # "none"
      BY <2>4, <3>1 DEF AddSecurityGroupRules, ApplySecurityGroup, Call, TypeOK
    <3>3. /\ pc'[i] # "create" /\ UNCHANGED sg
          /\ \A k \in Instance \ {i} : pc'[k] = pc[k]
      BY <2>4 DEF AddSecurityGroupRules, ApplySecurityGroup, Call, Exit, Goto, TypeOK
    <3>4. Matches' = Matches /\ Creating' \subseteq Creating
      BY <3>2, <3>3 DEF Matches, Existing, Creating
    <3> QED
      BY <3>1, <3>2, <3>3, <3>4, CountKept DEF HasGroup
  <2>5. ASSUME NEW g \in Group, JobEnds(g) PROVE Inv'
    <3>1. \A h \in Group : group'[h] # "none" <=> group[h] # "none"
      BY <2>5 DEF JobEnds, TypeOK
    <3>2. Matches' = Matches /\ Creating' = Creating
      BY <2>5, <3>1 DEF JobEnds, Matches, Existing, Creating
    <3> QED
      BY <2>5, <3>1, <3>2, CountKept DEF JobEnds, HasGroup
  <2>6. CASE UNCHANGED vars
    <3>1. Matches' = Matches /\ Creating' = Creating
      BY <2>6 DEF vars, Matches, Existing, Creating
    <3> QED
      BY <2>6, <3>1, CountKept DEF vars, HasGroup
  <2> QED
    BY <2>1, <2>2, <2>3, <2>4, <2>5, <2>6 DEF Next, Step
<1>3. Inv => OneGroupPerInstance
  <2> SUFFICES ASSUME Inv PROVE OneGroupPerInstance
    OBVIOUS
  <2>1. IsFiniteSet(Creating)
    BY GroupAssumption, FS_Subset DEF Creating
  <2> QED
    BY <2>1, FS_CardinalityType, GroupAssumption
    DEF Counted, OneGroupPerInstance, Matches
<1> QED
  BY <1>1, <1>2, <1>3, SGTypeCorrect, PTL DEF Spec

-----------------------------------------------------------------------------
(* An instance that has a group of its own or another's has one that exists. *)
HasOne ==
    \A i \in Instance : pc[i] \in {"rules", "apply", "wait", "running"} =>
        sg[i] \in Group /\ group[sg[i]] # "none"

(* Until a start fails, a group without rules in force has an instance that
   is at the step that takes it further. *)
Maker(g, k) ==
    /\ sg[k] = g
    /\ \/ group[g] = "empty" /\ pc[k] = "rules"
       \/ group[g] = "ruled" /\ pc[k] = "apply"

Made ==
    faults = 0 =>
        \A g \in Group : group[g] \in {"none", "job", "applied"} \/ \E k \in Instance : Maker(g, k)

(* The steps that make a group. *)
LEMMA MakingSteps ==
    ASSUME TypeOK, HasOne, Made, NEW i \in Instance,
           CreateSecurityGroup(i) \/ AddSecurityGroupRules(i) \/ ApplySecurityGroup(i)
    PROVE  HasOne' /\ Made'
<1>1. PICK g \in Group, state \in {"empty", "ruled", "job"}, next \in {"rules", "apply", "wait"} :
          /\ Call(i, g, state, sg' = [sg EXCEPT ![i] = g] /\ Goto(i, next))
          /\ \/ state = "empty" /\ next = "rules" /\ pc[i] = "create"
             \/ state = "ruled" /\ next = "apply" /\ pc[i] = "rules" /\ g = sg[i]
             \/ state = "job" /\ next = "wait" /\ pc[i] = "apply" /\ g = sg[i]
  <2>1. CASE CreateSecurityGroup(i)
    BY <2>1 DEF CreateSecurityGroup
  <2>2. CASE AddSecurityGroupRules(i) \/ ApplySecurityGroup(i)
    <3>1. sg[i] \in Group /\ sg = [sg EXCEPT ![i] = sg[i]]
      BY <2>2 DEF AddSecurityGroupRules, ApplySecurityGroup, HasOne, TypeOK
    <3> QED BY <2>2, <3>1 DEF AddSecurityGroupRules, ApplySecurityGroup, Call
  <2> QED BY <2>1, <2>2
<1>2. /\ \A k \in Instance \ {i} : pc'[k] = pc[k] /\ sg'[k] = sg[k]
      /\ \A h \in Group \ {g} : group'[h] = group[h]
      /\ group'[g] \in {group[g], state}
  BY <1>1 DEF Call, Exit, Goto, TypeOK
<1>3. \/ pc'[i] = "down" /\ faults' # 0
      \/ pc'[i] = next /\ sg'[i] = g /\ group'[g] = state /\ faults' = faults
  BY <1>1 DEF Call, Exit, Fault, Goto, TypeOK
<1>4. HasOne'
  <2>1. \A h \in Group : group[h] # "none" => group'[h] # "none"
    BY <1>1, <1>2
  <2> QED BY <1>1, <1>2, <1>3, <2>1 DEF HasOne
<1>5. Made'
  <2> SUFFICES ASSUME faults' = 0, NEW h \in Group
               PROVE  \/ group'[h] \in {"none", "job", "applied"}
                      \/ \E k \in Instance : Maker(h, k)'
    BY DEF Made
  <2>1. CASE h = g
    BY <1>1, <1>3, <2>1 DEF Maker
  <2>2. CASE h # g
    <3>1. group[h] \in {"none", "job", "applied"} \/ \E k \in Instance : Maker(h, k)
      BY <1>3 DEF Made
    <3>2. ASSUME NEW k \in Instance, Maker(h, k) PROVE Maker(h, k)'
      BY <1>1, <1>2, <2>2, <3>2 DEF Maker
    <3> QED BY <1>2, <2>2, <3>1, <3>2
  <2> QED BY <2>1, <2>2
<1> QED BY <1>4, <1>5

(* The other steps of an instance leave the groups alone. *)
LEMMA OtherSteps ==
    ASSUME TypeOK, HasOne, Made, NEW i \in Instance,
           \/ Start(i) \/ DescribeAccessKeys(i) \/ GetSecurityGroupByName(i)
           \/ WaitJob(i) \/ Crash(i)
    PROVE  HasOne' /\ Made'
<1>1. /\ UNCHANGED group
      /\ \A k \in Instance \ {i} : pc'[k] = pc[k] /\ sg'[k] = sg[k]
      /\ faults' = 0 => faults = 0 /\ pc[i] \notin {"rules", "apply"}
      /\ pc'[i] \in {"rules", "apply", "wait", "running"} =>
            sg'[i] \in Matches \/ (pc[i] = "wait" /\ sg'[i] = sg[i])
  BY DEF Start, DescribeAccessKeys, GetSecurityGroupByName, WaitJob, Crash, Read, Exit, Fault,
     Goto, NotFoundStep, TypeOK, Steps
<1>2. HasOne'
  BY <1>1 DEF HasOne, Matches, Existing
<1>3. ASSUME faults' = 0, NEW g \in Group, NEW k \in Instance, Maker(g, k) PROVE Maker(g, k)'
  BY <1>1, <1>3 DEF Maker
<1> QED BY <1>1, <1>2, <1>3 DEF Made

(* When no start has failed and all instances are up, no group is without
   its rules, also one that another instance made than the one that uses it. *)
THEOREM RulesInForceAtRest == Spec => []RulesAtRest
<1>1. Init => HasOne /\ Made
  BY DEF Init, HasOne, Made
<1>2. TypeOK /\ HasOne /\ Made /\ [Next]_vars => (HasOne /\ Made)'
  <2> SUFFICES ASSUME TypeOK, HasOne, Made, [Next]_vars PROVE HasOne' /\ Made'
    OBVIOUS
  <2>1. ASSUME NEW i \in Instance, Step(i) \/ Crash(i) PROVE HasOne' /\ Made'
    BY <2>1, MakingSteps, OtherSteps DEF Step
  <2>2. ASSUME NEW g \in Group, JobEnds(g) PROVE HasOne' /\ Made'
    <3>1. /\ \A h \in Group \ {g} : group'[h] = group[h]
          /\ group[g] = "job" /\ group'[g] = "applied" /\ UNCHANGED <<pc, sg, faults>>
      BY <2>2 DEF JobEnds, TypeOK
    <3> QED BY <3>1 DEF HasOne, Made, Maker
  <2>3. CASE UNCHANGED vars
    BY <2>3 DEF vars, HasOne, Made, Maker
  <2> QED BY <2>1, <2>2, <2>3 DEF Next
<1>3. TypeOK /\ HasOne /\ Made => RulesAtRest
  BY DEF HasOne, Made, Maker, RulesAtRest, TypeOK
<1> QED BY <1>1, <1>2, <1>3, SGTypeCorrect, PTL DEF Spec
=============================================================================
