CONSTANTS
  s1 = s1
  s2 = s2
  s3 = s3
  s4 = s4
  s5 = s5
  s6 = s6
  a1 = a1
  a2 = a2
  Sockets <- SixSockets
  Addresses <- TwoAddresses
  AddressOf <- FourAndTwo
  Host = s1
  Viewer = s2
  MaxConnections = 4
  MaxPerIp = 3
SPECIFICATION FairTunnelSpec
INVARIANTS CountersExact
PROPERTIES RefusedOnlyWhenFull TunnelEnds
