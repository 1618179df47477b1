SPECIFICATION Spec
CONSTANTS
  NSuts = 2
  Eps <- AllEps
  Conns <- SomeConns
  Vni <- VniByIdx
  Seps <- OneSep
  AclProtos = {"udp"}
  MaxConns = 2
  MaxEvents = 4
INVARIANTS
  OthersDenied
  AllowedPass
  EstablishedAnswered
