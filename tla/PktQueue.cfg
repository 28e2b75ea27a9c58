SPECIFICATION FairSpec
CONSTANTS
  Producer = p1
  Others = {p2}
  Consumer = c1
  Nodes = {n1, n2, n3}
  Packets = {k1, k2}
  Null = Null
  NoPkt = NoPkt
INVARIANTS
  PointersSound
PROPERTIES
  ImplementsFIFO
  CallsReturn
