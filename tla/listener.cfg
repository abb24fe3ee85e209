\* Two annotations at a time, a port whose protocol and node port change.
SPECIFICATION Spec
CONSTANTS
  Port = 443
  NodePorts = {30001, 30002}
  Annotation <- MCAnnotation
  Refused <- MCRefused
  MaxSet = 2
  Empty = Empty
  Malformed = Malformed
  NoNodePort = NoNodePort
  NoListener = NoListener
INVARIANTS SettingsFollow ListenerFollows CorrectedIsServed
PROPERTIES NoNeedlessReplacement CutOffForAReason
