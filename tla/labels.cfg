\* Three services with a backend label, one of which always fails.
SPECIFICATION Spec
CONSTANTS
  Service={"s1","s2","s3"}
  Node = {"n1","n2"}
  Local={}
  Labelled = {"s1","s2","s3"}
  Broken = {"s2"}
  Marked = {"n1"}
  NoPods = NoPods
  NoCall = NoCall
  NoPass = NoPass
  Changing = {"label"}
  MaxChanges = 3
  MaxEdits = 0
  MaxFaults = 2
  MaxRestarts = 0
  MaxEvents = 5
INVARIANTS LabelsNotForgotten
PROPERTIES LabelsReachServices
