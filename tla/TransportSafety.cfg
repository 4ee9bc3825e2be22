\* Every configuration, two keys.
SPECIFICATION Spec
CONSTANTS
  Keys = {k1, k2}
  NoPin = NoPin
SYMMETRY Symmetry
INVARIANT PeerIsPinned
INVARIANT WrittenOnce
INVARIANT PlainOnlyWhenDown
INVARIANT LateRequestAtMostOne
