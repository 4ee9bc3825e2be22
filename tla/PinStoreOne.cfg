\* One store at a time over the file, with failures, crashes and power loss.
SPECIFICATION Spec
CONSTANTS
  Stores = {s1}
  Hosts = {h1, h2}
  Keys = {k1, k2}
  NoPin = NoPin
  Absent = Absent
  Unreadable = Unreadable
  Torn = Torn
  NoOp = NoOp
INVARIANT AckedPinSurvives
INVARIANT NoTornFile
PROPERTY RecordedKeyStable
PROPERTY UnreadableKeptUntilReset
PROPERTY ImplementsRegister
