SPECIFICATION FairSpec
CONSTANTS
  a = a
  b = b
  PodIP = {i1, i2}
  Host <- Names
  HostKey <- Keys
  NoSNI = NoSNI
  MaxPush = 2
  MaxRestart = 1
  MaxTunnel = 1
INVARIANTS TunnelTypeOK OpenIsEntitled
PROPERTIES RevokedCloses EntitledIsServed
CHECK_DEADLOCK FALSE
