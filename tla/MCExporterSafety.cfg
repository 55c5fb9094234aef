CONSTANTS
  a1 = a1  a2 = a2  a3 = a3  b1 = b1  b2 = b2  A = A  B = B  w1 = w1  w2 = w2
  NoConn = NoConn
  Conns <- MCConns
  IPs <- MCIPs
  Peer <- MCPeer
  Workers <- MCWorkers
  QueueCapacity = 1
  MaxPerIP = 2
  MaxReport = 1
SPECIFICATION Spec
SYMMETRY MCSymmetry
INVARIANTS
  CountsMatchPermits PeerLimit 
  ShutdownReachesHandlers NothingOutlivesOwner SnapshotsAtomic
