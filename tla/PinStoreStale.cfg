\* Two stores open at once: one records a host while the other records another.
SPECIFICATION Spec
CONSTANTS
  Stores = {s1, s2}
  Hosts = {h1, h2}
  Keys = {k1}
  NoPin = NoPin
  Absent = Absent
  Unreadable = Unreadable
  Torn = Torn
  NoOp = NoOp
PROPERTY RecordingKeepsOthers
