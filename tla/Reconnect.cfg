SPECIFICATION FairSpec
CONSTANTS
  d1 = d1
  d2 = d2
  d3 = d3
  p1 = p1
  p2 = p2
  h1 = h1
  h2 = h2
  NoPort = NoPort
  NoHcd = NoHcd
  Hcds = {h1, h2}
  Devices = {d1, d2, d3}
  Ports = {p1, p2}
  Root <- ThreeRoot
  HcdOf <- TwoHcd
  StablePolls = 2
  MaxPolls = 4
INVARIANT TypeOK
INVARIANT HcdRefsBalance
INVARIANT ExitIsFinal
PROPERTY MonitorSpec
PROPERTY PollingEnds
