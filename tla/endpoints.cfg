\* A Local service: pods and nodes change, the service is edited, calls fail,
\* the program restarts; any three of these.
SPECIFICATION Spec
CONSTANTS
  Service = {"s1"}
  Node = {"n1","n2"}
  Local = {"s1"}
  Labelled = {}
  Broken = {}
  Marked = {}
  NoPods = NoPods
  NoCall = NoCall
  NoPass = NoPass
  Changing = {"pods", "ready"}
  MaxChanges = 2
  MaxEdits = 1
  MaxFaults = 1
  MaxRestarts = 1
  MaxEvents = 3
INVARIANTS TypeOK
PROPERTIES LocalSettles
