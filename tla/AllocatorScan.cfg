SPECIFICATION Spec
CONSTANTS
  AddrSpace = 4
  MaxScan = 3
  Clients = {g1, g2}
  Nobody = nobody
  CallRanges <- MCRanges
  CallAddrs <- MCAddrs
INVARIANTS TypeOK Exclusive ScanInv
PROPERTIES FromRange Linearizable
