SPECIFICATION CameraFairSpec
CONSTANTS
  WindowSize = 3
  YesThreshold = 2
  Cooldown = 2
  ServerCooldown = 2
INVARIANTS CameraTypeOK OneStartPerApproach SocketsClosed
PROPERTIES ApproachReported StopEnds
