SPECIFICATION ElectrodeOnly
CONSTANTS
  KOpts = {"LPM_SRC_LOOKUP", "INLINE_DECAP_IPIP", "INLINE_DECAP_GUE", "ICMP_TOOBIG_GENERATION", "RECIRCULATION"}
  PacketHash <- MCHash
  RING_SIZE = 2
  MAX_CONN_RATE = 1
  ONE_SEC = 1
  LRU_UDP_TIMEOUT = 1
  KPackets <- MCKPackets
  KProbes <- MCKProbes
  MaxKTime = 2
  MaxKEvents = 4
  KNone = KNone
  None = None
  CT_CONNECTION_LIFETIME_TCP = 4
  CT_CONNECTION_LIFETIME_NONTCP = 2
  CT_SERVICE_LIFETIME_TCP = 4
  CT_SERVICE_LIFETIME_NONTCP = 2
  CT_SYN_TIMEOUT = 2
  CT_CLOSE_TIMEOUT = 1
  CT_SERVICE_CLOSE_REBALANCE = 2
  CT_REPORT_INTERVAL = 1
  IPV4_LOOPBACK = ipLoop
  BUCKET_SIZE = 2 TOKENS_PER_TOPUP = 1 TOPUP_INTERVAL = 1
  TUNNEL_PORT = 8472
  V4InV6 <- MCV4InV6
  Loopbacks = {"lo", "lo6"}
  Loopback <- MCLoopback
  Wildcard <- MCWildcard
  HOST_NETNS_COOKIE = 100
  NODEPORT_PORT_MIN = 30
  NODEPORT_PORT_MAX = 40
  SockCalls <- MCSockCalls
  SockServices <- MCSockServices
  SockBackends <- MCSockBackends
  SockIpcache <- MCSockIpcache
  SockOpts = {"ENABLE_IPV4", "ENABLE_IPV6", "ENABLE_NODEPORT", "HAVE_NETNS_COOKIE", "ENABLE_HEALTH_CHECK", "HAVE_SOCKET_LOOKUP", "ENABLE_L7_LB", "ENABLE_SESSION_AFFINITY"}
  MaxSockSteps = 4
  SnatCpus = {c1, c2}
  SnatFlows = {"f", "g"}
  SnatPeers = {1}
  PeerOf <- MCPeerOf
  SportOf <- MCSportOf
  SnatMinPort = 1
  SnatMaxPort = 3
  SnatRetries = 3
  SnatRandoms = {0, 1}
  NoFlow = NoFlow
  NoPort = NoPort
  CLUSTER_SIZE = 3
  QUORUM_BITSET_ENTRY = 2
  MAX_OPS = 2
  ECpus <- MCECpus
  EOpts = {"FAST_REPLY", "FAST_QUORUM_PRUNE"}
  EPort = 12345
  EFrames <- MCEFrames
  EStray <- MCEStray
  MaxElectrodeSteps = 4
  ENone = ENone
  XPackets <- MCXPackets
  CrabCpus = {c1, c2}
  num_targets = 3
  MAX_TARGET_COUNT = 4
  RR_LIMIT = 8
  Vips <- MCVips
  ipaddrs <- MCIpaddrs
  FwCpus = {c1, c2}
  FwAddrs = {1, 2}
  FwPorts = {7, 8}
  FwPackets <- MCFwPackets
  FwMaxFlows = 2
  NatCpus = {c1, c2}
  Outer = {o1, o2, o3}
  MaxWhitelist = 2
  MaxMappings = 2
  BmcCpus = {c1, c2}
  BKeys = {"empty", "a", "b"}
  HashOf <- MCHashOf
  LenOf <- MCLenOf
  BMC_CACHE_ENTRY_COUNT = 2
  BMC_MAX_KEY_IN_PACKET = 2
  MaxBmcEvents = 4
  NoReply = NoReply
INVARIANT ReadsTheMessage
CHECK_DEADLOCK FALSE
