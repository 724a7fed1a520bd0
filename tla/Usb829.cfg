SPECIFICATION Spec
CONSTANTS
  w1 = w1
  w2 = w2
  r1 = r1
  A = A
  x = x
  NUL = NUL
  BUF_SIZE = 5
  Writer <- MCWriter
  Reader <- MCReader
  Char <- MCChar
  Prefix <- MCPrefix
  Payload <- MCPayload
  ReadLen <- MCReadLen
SYMMETRY MCSymmetry
INVARIANTS ReadInsideBuffer PrefixStays AckIsWhole
