SPECIFICATION Spec
CONSTANTS
  i1 = i1  i2 = i2  i3 = i3  s1 = s1  s2 = s2
  Services = {s1, s2}
  Ingresses = {i1, i2, i3}
  References <- OneShared
  NoService = NoService
  NoIngress = NoIngress
INVARIANTS
  TypeOK
  IndexSound
  NoDuplicates
  UnshiftedLoopCoversAll
PROPERTIES
  ImplementsTracker
SYMMETRY Symmetry
