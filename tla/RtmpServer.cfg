SPECIFICATION Spec
CONSTANTS
  Connection = {c1, c2, c3}
  Descriptor = {d1, d2}
  Zero = Zero
  Key = {k1, k2, k3}
  Known = {k1, k2}
  None = None
SYMMETRY Symmetry
INVARIANTS IInv OnePublisher PublisherIsServed NothingStays
PROPERTIES ImplementsStreamKeys
CHECK_DEADLOCK FALSE
