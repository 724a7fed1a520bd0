SPECIFICATION FairSpec
CONSTANTS
  p1 = p1
  p2 = p2
  f1 = f1
  a = a
  b = b
  NUL = NUL
  NoProc = NoProc
  NoFile = NoFile
  BUFFER_SIZE = 3
  ReadLen = {1, 5}
  Char = {a, b}
  Proc <- MCProc
  File = {f1}
  Payload <- MCPayloadLong
PROPERTIES ImplementsBox CallReturns
INVARIANTS Terminated ReadWithinMessage ReadNotTorn
