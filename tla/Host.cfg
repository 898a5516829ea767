SPECIFICATION Spec
CONSTANTS
  None = None
  ipA = ipA ipB = ipB ipC = ipC ipS = ipS ipNode = ipNode ipNode2 = ipNode2 ipClient = ipClient ipRemote = ipRemote
  ip6A = ip6A ip6S = ip6S ip6Node = ip6Node ip6Client = ip6Client ip6Remote = ip6Remote
  lxcA = lxcA lxcB = lxcB lxcC = lxcC ifHost = ifHost ifTun = ifTun ifEth = ifEth
  CT_CONNECTION_LIFETIME_TCP = 4
  CT_CONNECTION_LIFETIME_NONTCP = 2
  CT_SERVICE_LIFETIME_TCP = 4
  CT_SERVICE_LIFETIME_NONTCP = 2
  CT_SYN_TIMEOUT = 2
  CT_CLOSE_TIMEOUT = 1
  CT_SERVICE_CLOSE_REBALANCE = 2
  CT_REPORT_INTERVAL = 1
  IPV4_LOOPBACK = ipLoop
  BUCKET_SIZE = 2 TOKENS_PER_TOPUP = 1 TOPUP_INTERVAL = 1
  TUNNEL_PORT = 8472
  ROUTER_IP = ipRouter NODE_MAC = "node_mac" MAX_KEY_INDEX = 15 L3Devs = {}
  HOST_IFINDEX = ifHost ENCAP_IFINDEX = ifTun WG_IFINDEX = ifWg CILIUM_IFINDEX = ifCil
  DIRECT_ROUTING_DEV_IFINDEX = ifEth
  IPV4_GATEWAY = ipGw IPV4_ENCRYPT_IFACE = ipEnc STRICT_IPV4_NET = {}
  Nat46 <- MCNat46 Nat46Rfc <- MCNat46Rfc Low32 <- MCLow32 ClusterOf <- MCClusterOf
  IPV4_MASQUERADE = ipNode IPV6_MASQUERADE = ip6Node NAT_MIN_EGRESS = 1024
  SNAT_COLLISION_RETRIES = 2 SNAT_EXCLUSION_DST_CIDR = {}
  NODEPORT_PORT_MIN_NAT = 2000 NODEPORT_PORT_MAX_NAT = 2002
  IPV4_DIRECT_ROUTING = ipNode IPV6_DIRECT_ROUTING = ip6Node
  IPV4_RSS_PREFIX = ipRss IPV6_RSS_PREFIX = ip6Rss
  L2_ANNOUNCEMENTS_MAX_LIVENESS = 2
  IPV4_INTER_CLUSTER_SNAT = ipIc
  Cpus = {c1}
  Builds <- HostBuilds
  Arrivals <- HostArrivals
  Tables0 <- HostTables
  Changes <- HostChanges
  Pods <- MCPods
  HostSelf <- MCHostSelf
  Netdevs = {ifEth}
  HostIps = {ipNode, ip6Node, ipGw, ipRouter}
  Rnds <- OneRnd1
  Fulls = {FALSE}
  MaxArrivals = 3
  MaxTime = 0
  MaxChanges = 1
PROPERTIES PolicyEnforced HostGuarded
CHECK_DEADLOCK FALSE
