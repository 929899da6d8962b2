CONSTANTS
  s1 = s1
  h1 = h1
  h2 = h2
  c1 = c1
  d1 = d1
  d2 = d2
  Sessions = {s1}
  Handlers = {h1, h2}
  Clients = {c1}
  Dockerds = {d1, d2}
  NoSession = NoSession
  NoDockerd = NoDockerd
  MaxEvents = 1
SPECIFICATION Spec
SYMMETRY Symmetry
INVARIANTS
  IndexLeadsToRecord
  DeletedIsTerminal
  IInv
PROPERTIES
  NeverBackToPending
  NeverStartAfterStop
  LegalUnlessStale
