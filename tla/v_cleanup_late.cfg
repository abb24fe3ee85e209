\* The cleanup runs after the service has its annotation again.
SPECIFICATION Spec
CONSTANTS
  l1 = l1
  l2 = l2
  LB = {l1, l2}
  NoLB = NoLB
  First <- Reusing1
  NoCall = NoCall
  MaxChanges = 2
  MaxFaults = 0
  MaxRestarts = 0
PROPERTIES ReusingServed
\* After the last change and failure there is nothing left to do.
CHECK_DEADLOCK FALSE
