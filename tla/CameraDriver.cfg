\* Every content of the fields that are not set, a failure at every call.
CONSTANT NumBuffers = 4
SPECIFICATION Spec
INVARIANTS
  TypeOK
  EverythingReleased
  PortKeepsItsPool
  ZeroesAreSafe
