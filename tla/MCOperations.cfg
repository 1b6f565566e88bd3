SPECIFICATION Spec
CONSTANTS
  None = None
  Hand = Hand
  Devices = {1, 2, 3, 4}
  Kind <- MCKind
  Paths = {"p1", "p2"}
  Jobs = {1, 2}
  Weak = {"weak"}
  Untypable = {"a b"}
  PortNumbers = {0, 1, 2}
  Hosts = {1, 2, 3}
  Taken = {2, 3}
  Templates = {"router", "firewall", "pc"}
  Links <- MCLinks
  ActualPort <- MCActualPort
  LabFileName <- MCLabFileName
  MaxTries = 1
  MaxSpent = 2
  ConnectAttempts = 3
  MaxTyped = 2
  MaxSessions = 2
  Absent = Absent
  Watched = {1, 2}
  MaxSweeps = 1
  MaxReads = 1
  MaxEdits = 2
  Streams = {1, 2}
  MaxStreams = 1
  Focuses = {"names", "bringup", "ios", "panos", "shell", "candidate", "polling", "pages"}
CHECK_DEADLOCK FALSE
INVARIANTS
  DoneAsReported
  AllOrNothing
PROPERTIES
  HandLabKept
  LeftAlone
  OneFailureIsOne
  WorkEnds
