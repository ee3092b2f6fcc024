SPECIFICATION FairSpec
CONSTANTS
  h1 = h1
  h2 = h2
  m1 = m1
  m2 = m2
  m3 = m3
  None = None
  Loopback = Loopback
  Hosts = {h1, h2}
  Macs = {m1, m2, m3}
  Frames <- FewFrames
  WX_NET_BUF_POOL_SIZE = 3
  WX_ARP_CACHE_SIZE = 1
  WX_TCP_MAX_SOCKS = 2
  WX_E1000_NUM_RX_DESC = 3
  WX_E1000_NUM_TX_DESC = 2
CHECK_DEADLOCK FALSE
PROPERTY FramesConsumed
