SPECIFICATION Spec
CONSTANTS
  sovereign = sovereign
  forge = forge
  k1 = k1
  k2 = k2
  k3 = k3
  c1 = c1
  c2 = c2
  Nodes = {sovereign, forge}
  Keys = {k1}
  Contents = {c1, c2}
  Uncanonical = {c2}
  Drafts <- OddDrafts
  MaxSigned = 1
  MaxChanges = 0
  NoKey = NoKey
  NoEnvelope = NoEnvelope
  Missing = Missing
  Empty = Empty
  Garbled = Garbled
INVARIANTS
  ReceiptMeansSigned
  UnparsedMeansHandmade
  DirectReceiptMeansSigned
  SignedVerifies
