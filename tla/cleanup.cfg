\* A service changes at any time; calls fail and the program restarts.
SPECIFICATION Spec
CONSTANTS
  l1 = l1
  l2 = l2
  LB = {l1, l2}
  NoLB = NoLB
  First <- Reusing1
  NoCall = NoCall
  MaxChanges = 4
  MaxFaults = 2
  MaxRestarts = 2
INVARIANTS TypeOK 
PROPERTIES  DroppedAnnotationCleaned ReusingServedInTime
\* After the last change and failure there is nothing left to do.
CHECK_DEADLOCK FALSE
