CONSTANTS
  c1 = c1
  c2 = c2
  c3 = c3
  r1 = r1
  r2 = r2
  Conns <- ThreeConns
  Routes <- TwoRoutes
  NoRoute = NoRoute
CHECK_DEADLOCK FALSE
SYMMETRY Symmetry
SPECIFICATION Spec
INVARIANTS NoOrphanedHost SingleUse ReplyOrder
PROPERTY Rendezvous
