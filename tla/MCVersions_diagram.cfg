SPECIFICATION Spec
CONSTANTS
  None = None
  Shared = Shared
  MaxId = 2
  MaxBorn = 3
  Names = {1, 2}
  Ips = {1, 2, 3}
  MaxDevices = 2
  Ports = {1, 2}
  VlanIds = {1}
  Nets = {1, 2}
  Channels = {1}
  MaxLinks = 2
  MaxTokens = 1
  Messages = {"plain", "addressed"}
  ChatNet <- MCNets
  MaxVersions = 2
  Focuses = {"devices", "cables", "labs", "design", "versions"}
INVARIANTS VersionsTypeOK RowsFollowDevice NothingDangles
PROPERTIES SavedByHandIsKept RestoreKeepsLogins
