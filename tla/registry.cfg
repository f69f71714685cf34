CONSTANTS
  a1 = a1
  a2 = a2
  a3 = a3
  a4 = a4
  k1 = k1
  NoKey = NoKey
  NoAttach = NoAttach
  Attaches = {a1, a2, a3, a4}
  Keys = {k1}
  KeyOf <- MCKeyOf
SPECIFICATION Spec
SYMMETRY MCSymmetry
INVARIANTS LiveHoldsSlot SlotLeadsToLive RoutableHasView DoneIsForgotten
PROPERTIES OnlyALaterAttachEvicts KeepsPromise
