CONSTANTS
  Frame = {f1, f2}
  NoFrame = none
  Slots = 2
  Retries = 1
  Environment <- MCEnvironment
SPECIFICATION FrameFairSpec
INVARIANTS FrameTypeOK NodesKept SentIsRight
PROPERTY HostServed
