\* Two instances start side by side; any three calls fail or crashes happen.
SPECIFICATION Spec
CONSTANTS
  Instance = {"i", "k"}
  Group = {"g1", "g2", "g3", "g4", "u"}
  Similar = {"u"}
  NoGroup = NoGroup
  MaxFaults = 3
INVARIANTS SimilarGroupsUntouched OneGroupPerInstance RulesAtRest
PROPERTIES ClientComesUp RulesComeIntoForce
\* A client that is up does nothing more.
CHECK_DEADLOCK FALSE
