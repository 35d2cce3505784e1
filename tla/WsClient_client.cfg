SPECIFICATION FairSpec
CONSTANTS
  Sockets = {k1, k2, k3}
  NoSocket = NoSocket
  Calls = {c1}
  ProbeAfter = 3
INVARIANTS
  OneLiveSocket
  ExpiredIsTrueUnlessMisread
PROPERTIES
  Reconnects
  GateIsAsked
