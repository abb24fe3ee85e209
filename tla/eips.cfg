\* A service that changes where its EIP comes from, with failing calls.
SPECIFICATION RetrySpec
CONSTANTS
  s1 = s1
  s2 = s2
  l1 = l1
  l2 = l2
  l3 = l3
  n1 = n1
  n2 = n2
  n3 = n3
  n4 = n4
  n5 = n5
  a1 = a1
  a2 = a2
  e1 = e1
  e2 = e2
  e3 = e3
  la = la
  lbad = lbad
  x1 = x1
  x2 = x2
  t1 = t1
  t2 = t2
  Node = {n1, n2}
  Label = {}
  NodesWith <- NoLabels
  NoLabel = NoLabel
  BadLabel = BadLabel
  NoEndpoints = NoEndpoints
  Service = {s1}
  LB = {l1, l2}
  NoLB = NoLB
  UserLB = {}
  EIP = {e1, e2}
  UserEIP = {e1}
  PortNo = {80, 443}
  NodePort = {30080, 30081, 30443}
  Attr = {a1, a2}
  DefaultAttr = a1
  NoAttr = NoAttr
  LsnAttr = {la, lbad}
  BadLsnAttr = {lbad}
  User = User
  Anon = Anon
  MaxGen = 2
  UserListener = {}
  Thread = {t1}
  Ops <- AnyOp
  Worker = {t1}
  Object <- EipObjects
  NodeSet = {{n1}}
  EpSet <- NoEps
  NoListener = NoListener
  NoRequest = NoRequest
  NoNodePort = NoNodePort
  MaxFaults = 2
INVARIANTS UserResourcesKept OneLBPerService
PROPERTIES KeepsContract DeleteConverges
