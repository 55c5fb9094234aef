CONSTANTS
  a1 = a1  a2 = a2  a3 = a3  b1 = b1  b2 = b2  A = A  B = B  w1 = w1  w2 = w2
  NoConn = NoConn
  Conns <- LiveConns
  IPs <- MCIPs
  Peer <- LivePeer
  Workers <- MCWorkers
  QueueCapacity = 1
  MaxPerIP = 2
  MaxReport = 1
SPECIFICATION FairSpec
PROPERTIES
  DropReturns BacklogDrains ImplementsBoundedServer
