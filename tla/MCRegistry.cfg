SPECIFICATION Spec
CONSTANTS
  self = self
  m1 = m1
  Self = self
  Remote = {m1}
  LocalPort = 11434
  Port = {11434, 11435}
  Loopback = loopback
  AnnounceTime = 1
  EvictTime = 3
  StartScore = 1
  MaxScore = 2
  RegisterStep = 1
  ResultStep = 2
  BadStep = 1
  MinScore = 1
  Absent = Absent
INVARIANTS
  InferenceStaysHome
  NobodyExcluded
PROPERTY AnnouncesWhileRunning
